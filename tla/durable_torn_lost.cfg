SPECIFICATION Spec
CONSTANTS
  Label = {"one", "two", "three"}
  NoStep = NoStep
  Programs <- OnlyThreeSteps
  Calls = {"own"}
  Limit = NoLimit
  NoLimit = NoLimit
  Price = {1}
  Power = FALSE
  Tear = TRUE
  MaxStarts = 3
  MaxCrashes = 2
PROPERTIES RecordedStepsRunOnce
