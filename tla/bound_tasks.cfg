SPECIFICATION Spec
CONSTANTS
  MaxActivities = 2
  MaxFrames = 3
  MaxPaid = 2
  Cap = {"model"}
  Uses = {{}, {"model"}}
  Limit = {1}
  NoLimit = NoLimit
  Price = {0, 1}
INVARIANT SpendReachesCallers
PROPERTY AuthorityOnlyShortens
