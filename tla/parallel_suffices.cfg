SPECIFICATION Spec
CONSTANTS
  Width = 2
  Scheduler = "threads"
  Threshold = 2
  PoolMax = 2
  Limit = {3}
  NoLimit = NoLimit
  Price = {1}
  TypicalCost = 1
  GenHint = 1
  GensPerItem = 1
  Preemptible = FALSE
  MaxItems = 2
  MaxBlocks = 1
  Failure = Failure
  None = None
INVARIANTS ReservationSuffices
