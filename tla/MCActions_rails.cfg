SPECIFICATION Spec
CONSTANTS
  cli = cli  daemon = daemon  balanced = balanced  saver = saver  custom = custom
  Cli = {cli}
  Daemon = {daemon}
  Plan = {balanced, custom}
  Whitelist = {balanced}
  Balanced = balanced
  NoPlan = NoPlan  Blank = Blank  Mixed = Mixed  NoAction = NoAction
  MayFail = TRUE
  MaxTears = 1
INVARIANTS ActsWithinRails SavedMeansReversible
