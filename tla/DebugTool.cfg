SPECIFICATION FairSpec
INVARIANTS
  ModeIsShown
  ExitLeavesPlain
PROPERTIES
  LeavingEnds
  TestModeShowsExt
