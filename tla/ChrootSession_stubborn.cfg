\* A guest that ignores SIGTERM.
CONSTANTS
  Sessions = {a}
  Other = other
  N = 2
  MaxSignals = 0
  OwnerMayDie = TRUE
  Stubborn = TRUE
SPECIFICATION FairSpec
CHECK_DEADLOCK FALSE
PROPERTY OrphanEnds
