SPECIFICATION Spec
CONSTANTS
  KeyOrder <- ThreeKeys
  RingOrder <- TwoRings
  MaxPairs = 2
  MaxVisits = 6
  Firmware <- SomeFirmware
  Definitions <- SomeDefinitions
  NoVersion = NoVersion
  v1 = v1
  v2 = v2
INVARIANTS TypeOK SameHoweverMirrored TaggedAsDefined OverlapsReported
PROPERTY ReadsBackTheSame
