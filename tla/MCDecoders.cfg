CONSTANTS
  Sizes <- MCSizes
  Raws <- MCRaws
  MaxDown = 2
SPECIFICATION Spec
INVARIANTS
  TestModeShowsDaemonsView
  PlainDecodersAgree
PROPERTIES
  UpStaysUp
