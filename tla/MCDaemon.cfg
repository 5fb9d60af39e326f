SPECIFICATION DaemonSpec
CONSTANTS
  Required = 3
  Cooldown = 5
INVARIANTS ReactsToSustainedHeat
PROPERTIES LastingHeatIsReactedTo
CHECK_DEADLOCK FALSE
