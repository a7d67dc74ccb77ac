\* Every kind of fault, limits smaller than the stream, two generations.
CONSTANTS
  None = None
  ClientLimit = 2
  HistoryLimit = 2
  QueueLimit = 1
  WireLimit = 1
  MaxSequence = 3
  MaxGeneration = 2
  MaxRequests = 1
  MaxFaults = 2
  Faults <- AllFaults
SPECIFICATION StreamSpec
CHECK_DEADLOCK FALSE
INVARIANTS
  LiveViewIsExact
  NothingLostWhileLive
PROPERTIES
  ViewNeverRegresses
  Converges
