SPECIFICATION FairSpec
CONSTANTS
  MaxClients = 3
  SocketCapacity = 1
  InboxCapacity = 1
  TaskLimit = 0
  Greetings = {"hello"}
  Requests = {"normal", "low"}
  Pipelining = FALSE
  Mishaps = {"hang_up", "accept_fails"}
INVARIANT LoopTypeOK
INVARIANT NothingOverlooked
INVARIANT MostUrgentFirst
PROPERTY HangUpsAreNoticed
\* The loop ends when it is stopped or fails.
CHECK_DEADLOCK FALSE
