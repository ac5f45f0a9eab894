CONSTANTS
  Texts <- MCTexts
  MaxFrames = 3
SPECIFICATION Spec
INVARIANTS
  ShownIsCurrent
  QuietRebroadcast
  FramesCommute
  BroadcastReachesEntity
  HeardIsBuilt
  LateBannerSurfaces
