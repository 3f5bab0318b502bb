SPECIFICATION FairSpec
CONSTANTS
  Firmware = {f1, f2}
  Builds = {b1, b2}
  Rings = {dev}
  RingFiles <- NoRingFiles
  Refreshers = {refresh1, refresh2}
  Regenerators = {}
  RefreshConfigs <- UnrefusedKeepingConfigs
  RegenConfigs <- PlainConfigs
  InitialDocuments <- PlainDocuments
  Overlap = "any"
  MaxFaults = 1
  NoDocument = NoDocument
  NoJCAT = NoJCAT
  MalformedJCAT = MalformedJCAT
  UnreadableJCAT = UnreadableJCAT
PROPERTIES AlwaysRepaired EventuallyAllMirrored
