SPECIFICATION Spec
CONSTANTS
  Programs <- SmallPrograms
  Load <- Translate
  FnsOf <- Emitted
  Shown <- Seen
  Alike <- Same
  Origins <- Sources
  Price = 1
  NoLimit = NoLimit
  LoopTurns = 12
INVARIANTS SameAsClosures TreeAgrees CheckedIsNeverDenied AuthorityOnlyShrinks MarksFollowData DepthIsEnough CheckerStopsTaint
PROPERTY RequireStopsTaint
