SPECIFICATION Spec
CONSTANTS
  Task = {t1, t2}
  Frame = {main, block, callee}
  Root = main
  Base = block
  Limit = {2, 3}
  NoLimit = NoLimit
  Amount = {1, 2}
  ArgAmount = {1}
  NoFrame = NoFrame
  Nobody = Nobody
  MaxCharged = 3
INVARIANTS TypeOK BooksBalance SpentWithinLimit AncestorsCover NothingStaysReserved
PROPERTIES LockIsReleased LedgerSpec
