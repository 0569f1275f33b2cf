SPECIFICATION FairSpec
CONSTANTS
  MaxClients = 1
  SocketCapacity = 1
  InboxCapacity = 1
  TaskLimit = 1
  Greetings = {"hello", "bad_hello"}
  Requests = {"control", "low", "malformed"}
  Pipelining = TRUE
  Mishaps = {"hang_up", "stop"}
INVARIANT NothingOverlooked
INVARIANT RejectedNeverServed
INVARIANT LibraryClientsFit
PROPERTY StopsWhenAsked
\* The loop ends when it is stopped or fails.
CHECK_DEADLOCK FALSE
