SPECIFICATION Spec
CONSTANTS
  Worker = {1, 2}
  Work <- SharedRequest
  Input = {"a", "b"}
  Injected = {"b"}
  Model = {"large", "small"}
  Primary = "large"
  Fallback = "small"
  Retry = 1
  Holds = TRUE
  NoLimit = NoLimit
  Limit = {2, NoLimit}
  Torn = Torn
  MaxRuns = 3
INVARIANTS ReplayIsIdentical
PROPERTIES AnsweredOnce RunEnds
