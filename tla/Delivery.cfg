SPECIFICATION FairSpec
CONSTANTS
  h = h
  d = d
  c = c
  HPE = {h}
  Dell = {d, c}
  Offers <- SomeOffers
  DownloadRetries = 1
  Nothing = Nothing
  Keys <- AllKeys
  Values <- AllValues
  Writers <- AllWriters
  MayForget = TRUE
  Absent = Absent
  Idle = Idle
  Garbage = Garbage
  Main = Main
  Cabinet = Cabinet
  metadata = metadata
  jcat = jcat
  MaxFaults = 1
INVARIANTS TypeOK NeverHalfAnObject PackagesOutliveFailures PublishesWhatWasChecked
PROPERTIES KeepsPromise RunEnds
