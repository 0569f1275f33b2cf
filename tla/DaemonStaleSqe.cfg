SPECIFICATION Spec

CONSTANTS
  MaxClients = 1
  RingCapacity = 3
  PerClientCredits = 2
  FileSlotLimit = 1
  BufferSlotLimit = 1
  IoBytesMax = 1
  TaskIdReservedMin = 4
  ResourceIdModulus = 4
  GenerationModulus = 2
  Fds = {3}
  Requests = {"register_fd", "nop", "close"}
  MaxEnterFaults = 1

INVARIANTS
  KernelRunsAcceptedTasks

\* The daemon may stop, and nothing happens after that.
CHECK_DEADLOCK FALSE
