SPECIFICATION Spec
CONSTANTS
  Lower = {"x", "y"}
  Upper = {"X"}
  Number = {"0", "1", "4"}
  Str = {"s", "nothing"}
  Empty = "nothing"
  Bodies <- MCBodies
  Projects <- MCProjects
INVARIANTS ParsesBack ImportsMerge
CHECK_DEADLOCK FALSE
