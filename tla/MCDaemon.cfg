CONSTANTS
  Commands = 4
  DrainReads = 1
  Retries = 1
  MaxPackets = 2
SPECIFICATION FairSpec
INVARIANTS
  NeverSleepsOnSignal
  TestModeHasOwner
PROPERTIES
  InitWasAnswered
  SignalEndsDaemon
  UnplugNoticed
  FFAnswered
