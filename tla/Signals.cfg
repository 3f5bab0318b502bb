SPECIFICATION FairSpec
CONSTANTS
  Kinds = {"SIGINT", "SIGTERM"}
  Commands = {"refresh", "regen-metadata"}
  MaxArrivals = 5
INVARIANTS TypeOK FirstSignalNeverKillsUnlessHalfRelayed
PROPERTY SignalsEndThePublish
CHECK_DEADLOCK FALSE
