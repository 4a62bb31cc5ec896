\* Chroot: two sessions of one rootfs whose points may be mounted already.
\* Supervisor: two sockets and a table of one, three polls, grace of one.
\* PTY: one session of either kind; others are users of its numbers.
CONSTANTS
  Sessions = {a, b}
  Other = other
  N = 2
  MaxSignals = 1
  OwnerMayDie = TRUE
  Stubborn = FALSE
  Sockets = {x, y}
  MAX_KNOWN_SOCKETS = 1
  Observe = 2
  Grace = 1
  MaxKwin = 1
  Ids = {i1}
  Pids = {p1, p2}
  Fds = {f1, f2}
  None = None
SPECIFICATION SessionsSpec
CHECK_DEADLOCK FALSE
INVARIANT ExitedIsGone
PROPERTIES MountsAsBefore OrphanEnds  CloseReturns
