CONSTANTS
  Magnitudes <- MCMagnitudes
SPECIFICATION DriverFairSpec
INVARIANTS
  PendingIsQueued
  RestAtLevelAsked
  FreedExactlyOnce
  NothingInUseIsFreed
  ReportsFlowWhileOpen
PROPERTIES
  DisconnectEnds
