CONSTANTS
  Layers <- AllLayers
  Buttons <- AllButtons
  Configs <- AllConfigs
  NoLayer = NoLayer
  MaxElapsed = 1
SPECIFICATION LoopSpec
INVARIANTS
  NothingLeftToDrop
PROPERTIES
  WalkIsOnePoll
  TapsAgree
