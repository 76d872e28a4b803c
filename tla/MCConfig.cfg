CONSTANTS
  Settings <- MCSettings
  MaxSettings = 2
  MaxHeld = 2
  Held <- MCHeld
  HeldUnder <- MCHeldUnder
  Broken = Broken
  NoTarget = NoTarget
  Inherit = Inherit
  NoLayer = NoLayer
  NoConfig = NoConfig
SPECIFICATION Spec
INVARIANTS
  DevicesForEveryLayer
  SharedOnlyWhereNamed
  PadFollowsButtons
  MigrationKeepsMeaning
