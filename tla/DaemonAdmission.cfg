SPECIFICATION Spec

CONSTANTS
  MaxClients = 2
  RingCapacity = 4
  PerClientCredits = 2
  FileSlotLimit = 1
  BufferSlotLimit = 1
  IoBytesMax = 1
  TaskIdReservedMin = 5
  ResourceIdModulus = 2
  GenerationModulus = 2
  Fds = {3}
  Requests = {"nop", "cancel"}
  MaxEnterFaults = 0

INVARIANTS
  TypeOK
  CountersMatchTasks
  StatsAddUp
  CreditsNotOverdrawn
  TasksBelongToConnection
  RingMatchesTasks

PROPERTIES
  ImplementsTaskService

\* The daemon may stop, and nothing happens after that.
CHECK_DEADLOCK FALSE
