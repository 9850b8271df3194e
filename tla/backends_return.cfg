SPECIFICATION Spec
CONSTANTS
  Programs <- ReturnPrograms
  Load <- Translate
  FnsOf <- Emitted
  Shown <- Seen
  Alike <- Same
  Origins <- Sources
  Price = 1
  NoLimit = NoLimit
  LoopTurns = 2
INVARIANTS BackendsAgree
