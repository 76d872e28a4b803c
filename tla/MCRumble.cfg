CONSTANTS
  Effects <- MCEffects
  Magnitudes <- MCMagnitudes
  MinInterval = 2
  MaxQueue = 3
  NoResult = NoResult
  NoRequest = NoRequest
SPECIFICATION FairSpec
INVARIANTS
  TableIsCurrent
  MotorFollowsGames
PROPERTIES
  RequestsAnswered
