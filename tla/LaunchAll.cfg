CONSTANT Timeout = 2
SPECIFICATION LaunchFairSpec
CHECK_DEADLOCK FALSE
INVARIANTS
  JoinedMeansStopped
PROPERTIES
  SignalStopsEnclave
  FailureEnds
