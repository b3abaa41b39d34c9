SPECIFICATION Spec
CONSTANTS
  Width = 2
  MaxSeq = 4
  MaxKey = 2
INVARIANTS
  TypeOK
  NoFreshMessageIsDuplicate
  AtMostTwice
PROPERTY
  WindowOnlyMovesForward
