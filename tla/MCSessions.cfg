SPECIFICATION SessionsSpec
CONSTANTS
  Clis = {c1, c2}
  Reasons = {other}
  MaxOps = 1
  MaxUpdates = 1
  MaxFailures = 2
  Patience = 1
  Undisturbed = FALSE
  Overlap = FALSE
INVARIANTS CrashesAccounted NoOrphanServer
PROPERTY ShellSettles
CHECK_DEADLOCK FALSE
