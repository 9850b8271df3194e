SPECIFICATION Spec
CONSTANTS
  Label = {"one", "two", "three"}
  NoStep = NoStep
  Programs <- AllPrograms
  Calls = {"own", "shared", "host"}
  Limit = 4
  NoLimit = NoLimit
  Price = {1}
  Power = TRUE
  Tear = TRUE
  MaxStarts = 4
  MaxCrashes = 3
INVARIANTS OpenReadsLiveSteps OwnRecord MoneyIsCounted
PROPERTIES StepsRunOnce FreshAfterDone CheckpointSpec
