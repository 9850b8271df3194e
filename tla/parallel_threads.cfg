SPECIFICATION Spec
CONSTANTS
  Width = 2
  Scheduler = "threads"
  Threshold = 2
  PoolMax = 2
  Limit = {5}
  NoLimit = NoLimit
  Price = {0, 2, 3}
  TypicalCost = 1
  GenHint = 1
  GensPerItem = 1
  Preemptible = TRUE
  MaxItems = 3
  MaxBlocks = 2
  Failure = Failure
  None = None
INVARIANTS TypeOK ProjectionIsObserved
PROPERTIES FanoutSpec BlockEnds
