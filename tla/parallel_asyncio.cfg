SPECIFICATION Spec
CONSTANTS
  Width = 2
  Scheduler = "asyncio"
  Threshold = 1
  PoolMax = 1
  Limit = {4}
  NoLimit = NoLimit
  Price = {2}
  TypicalCost = 1
  GenHint = 1
  GensPerItem = 1
  Preemptible = FALSE
  MaxItems = 3
  MaxBlocks = 2
  Failure = Failure
  None = None
INVARIANTS ReservationReturned ResultsInOrder
PROPERTIES BlockEnds
