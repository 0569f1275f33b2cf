SPECIFICATION FairSpec
CONSTANTS
  TraceCapacity = 3
  MaxEvents = 6
  Contents = {"submit", "completion"}
  Cursors <- CursorValues
PROPERTY ImplementsLog
PROPERTY FollowerKnowsItsGaps
PROPERTY FollowerCatchesUp
\* The events of a behaviour are bounded.
CHECK_DEADLOCK FALSE
