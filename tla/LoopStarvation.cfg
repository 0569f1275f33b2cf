SPECIFICATION FairSpec
CONSTANTS
  MaxClients = 3
  SocketCapacity = 1
  InboxCapacity = 1
  TaskLimit = 0
  Greetings = {"hello"}
  Requests = {"high", "low"}
  Pipelining = FALSE
  Mishaps = {}
PROPERTY RequestsAreAnswered
\* The loop ends when it is stopped or fails.
CHECK_DEADLOCK FALSE
