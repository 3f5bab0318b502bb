SPECIFICATION Spec
CONSTANTS
  Ids = {nic}
  Platforms = {none, p, q}
  NoPlatform = none
  Versions = {v1, v2}
  p = p
  q = q
  v1 = v1
  v2 = v2
  dev = dev
  beta = beta
  Release <- Rebuilt
  RingOrder <- TwoRings
  Deployments <- TwoDeployments
  MaxEdits = 1
  NoVersion = NoVersion
  NoRelease = NoRelease
  NoEntry = NoEntry
  NoPromotion = NoPromotion
  NotRead = NotRead
  NoRefresh = NoRefresh
SYMMETRY PlatformsAlike
INVARIANTS TypeOK PromotionsArePublished
PROPERTIES HostsMoveForward  PromotionSettles PruneIsHarmless
