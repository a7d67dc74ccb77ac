\* Two threads, a handler that publishes, and the shortest memory of ids
\* that keeps the retained events distinct.
CONSTANTS
  Threads <- MCThreads
  Events <- MCEvents
  Handlers <- MCHandlers
  Matches <- MCMatches
  Emits <- MCEmits
  HistoryLimit = 2
  DedupLimit = 1
  MaxSequence = 3
  None = None
SPECIFICATION Spec
CHECK_DEADLOCK FALSE
INVARIANTS
  RetainedOnce
  CallbacksFollowSequence
  QuiescentDelivery
PROPERTIES
  ImplementsAtomicBus
  PublishTerminates
