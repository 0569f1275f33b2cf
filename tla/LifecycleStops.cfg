SPECIFICATION FairSpec
CONSTANTS
  StopSignals = {"SIGINT", "SIGTERM"}
  MaxStarts = 2
INVARIANT ReturnsReleaseAll
INVARIANT LoopFindsSetUp
INVARIANT EndsByStopSignal
PROPERTY StopEndsProcess
\* The last process has ended.
CHECK_DEADLOCK FALSE
