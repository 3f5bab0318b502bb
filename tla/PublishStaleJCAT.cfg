SPECIFICATION Spec
CONSTANTS
  Firmware = {f1, f2}
  Builds = {b1}
  Rings = {dev}
  RingFiles <- OneEach
  Refreshers = {refresh}
  Regenerators = {regen}
  RefreshConfigs <- BKCCleanupConfigs
  RegenConfigs <- BKCConfigs
  InitialDocuments <- PlainDocuments
  Overlap = "apart"
  MaxFaults = 1
  NoDocument = NoDocument
  NoJCAT = NoJCAT
  MalformedJCAT = MalformedJCAT
  UnreadableJCAT = UnreadableJCAT


PROPERTY JCATShowsNothingPublished
