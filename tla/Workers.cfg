SPECIFICATION FairSpec
CONSTANTS
  Entries = 3
  Names = {n1, n2}
  MaxConcurrency = 2
  MaxFaults = 1
  Nothing = Nothing
INVARIANTS TypeOK NoMoreThanConcurrency PublishesWhatWasVerified EveryEntryAccountedFor
PROPERTIES MirroringPromise Returns
CHECK_DEADLOCK FALSE
