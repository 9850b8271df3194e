SPECIFICATION Spec
CONSTANTS
  Host = {"closures", "go"}
  Coerces = {"closures"}
  Model = {"large", "small"}
  Primary = "large"
  Cost <- TwoPrices
  Answer = {"good", "cached", "malformed", "refused", "transient", "other"}
  Limit = {4}
  NoLimit = NoLimit
  MaxRetry = 2
  None = None
INVARIANTS BilledIsCharged ModelFollowsSoftFailure FallbackIsTried
PROPERTIES GenerationEnds
