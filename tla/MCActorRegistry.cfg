CONSTANTS
  a1 = a1
  a2 = a2
  a3 = a3
  Actors = {a1, a2, a3}
SPECIFICATION FairSpec
INVARIANT TypeOK
INVARIANT NobodyEscapes
PROPERTY DropsOnlyClosed
PROPERTY ShutdownEnds
CHECK_DEADLOCK FALSE
