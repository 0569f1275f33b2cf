SPECIFICATION Spec
CONSTANTS
  MaxClients = 1
  SocketCapacity = 1
  InboxCapacity = 1
  TaskLimit = 0
  Greetings = {"hello"}
  Requests = {"high", "low"}
  Pipelining = FALSE
  Mishaps = {"hang_up"}
INVARIANT NotKilledByPeer
\* The loop ends when it is stopped or fails.
CHECK_DEADLOCK FALSE
