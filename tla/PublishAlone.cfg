SPECIFICATION Spec
CONSTANTS
  Firmware = {f1, f2}
  Builds = {b1}
  Rings = {dev}
  RingFiles <- OneEach
  Refreshers = {refresh}
  Regenerators = {regen}
  RefreshConfigs <- OptionCleanupConfigs
  RegenConfigs <- OptionConfigs
  InitialDocuments <- OptionDocuments
  Overlap = "none"
  MaxFaults = 1
  NoDocument = NoDocument
  NoJCAT = NoJCAT
  MalformedJCAT = MalformedJCAT
  UnreadableJCAT = UnreadableJCAT
INVARIANTS TypeOK NoDanglingPackage NoNeedlessPublish
PROPERTIES MirrorPromise RingsKept RefusedBeforeMirroring SignatureOfMetadataKept BaseURLKept SuccessIsConsistent
