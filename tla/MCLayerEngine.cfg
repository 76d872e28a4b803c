CONSTANTS
  Layers <- AllLayers
  Buttons <- AllButtons
  Configs <- AllConfigs
  NoLayer = NoLayer
  MaxElapsed = 2
SPECIFICATION FairSpec
INVARIANTS
  ToggleExcludesHold
  OrderDoesNotMatter
PROPERTIES
  GivesWayOnlyOnRelease
  StaleOnlyWhenSkipped
  PendingResolves
