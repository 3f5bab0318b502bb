SPECIFICATION Spec
CONSTANTS
  Firmware = {f1, f2}
  Builds = {b1, b2}
  Rings = {dev}
  RingFiles <- NoRingFiles
  Refreshers = {refresh}
  Regenerators = {regen}
  RefreshConfigs <- CleanupConfigs
  RegenConfigs <- PlainConfigs
  InitialDocuments <- PlainDocuments
  Overlap = "apart"
  MaxFaults = 1
  NoDocument = NoDocument
  NoJCAT = NoJCAT
  MalformedJCAT = MalformedJCAT
  UnreadableJCAT = UnreadableJCAT
INVARIANT NoDanglingPackage
PROPERTIES FirmwareKept JCATShowsNothingPublishedUnlessCrashed
