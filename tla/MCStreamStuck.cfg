\* More events than the dashboard buffers arrive while a snapshot is under way.
CONSTANTS
  None = None
  ClientLimit = 2
  HistoryLimit = 2
  QueueLimit = 3
  WireLimit = 1
  MaxSequence = 3
  MaxGeneration = 1
  MaxRequests = 0
  MaxFaults = 0
  Faults <- NoFaults
SPECIFICATION StreamSpec
CHECK_DEADLOCK FALSE
INVARIANTS
  ResynchronizingIsUnderWay
