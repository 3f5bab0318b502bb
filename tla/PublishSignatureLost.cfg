SPECIFICATION Spec
CONSTANTS
  Firmware = {f1, f2}
  Builds = {b1}
  Rings = {dev}
  RingFiles <- NoRingFiles
  Refreshers = {refresh}
  Regenerators = {regen}
  RefreshConfigs <- SigningConfigs
  RegenConfigs <- SigningConfigs
  InitialDocuments <- URLDocuments
  Overlap = "none"
  MaxFaults = 1
  NoDocument = NoDocument
  NoJCAT = NoJCAT
  MalformedJCAT = MalformedJCAT
  UnreadableJCAT = UnreadableJCAT


PROPERTY SignedNeverReplaced
