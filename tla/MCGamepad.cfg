CONSTANTS
  Layers <- AllLayers
  Configs <- MCConfigs
  NoLayer = NoLayer
  NoTarget = NoTarget
  Inherit = Inherit
  MaxElapsed = 1
  FaceButtons <- MCFace
  ExtButtons <- MCExt
  PlainButtons <- MCPlain
  Reports <- MCReports
SPECIFICATION Spec
INVARIANTS
  PadShowsReport
  DisabledStaysOffPad
  UntouchedKeyFollowsButton
  ArrowKeysFollowDpad
PROPERTIES
  KeysStayRightInLayer
