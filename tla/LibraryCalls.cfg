SPECIFICATION FairSpec
CONSTANTS
  Fds = {3, 4}
  Credits = 2
  MaxConnections = 2
  MaxTaskId = 2
  MaxRestarts = 1
INVARIANT CompletionsInOrder
INVARIANT PayloadsFound
INVARIANT RepliesFitCalls
PROPERTY CallsEnd
\* The process may close everything and do nothing more.
CHECK_DEADLOCK FALSE
