SPECIFICATION Spec
CONSTANTS
  Kinds = {"SIGINT", "SIGTERM"}
  Commands = {"refresh", "regen-metadata"}
  MaxArrivals = 2
INVARIANT FirstSignalNeverKills
CHECK_DEADLOCK FALSE
