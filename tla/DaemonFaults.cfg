SPECIFICATION FairSpec

CONSTANTS
  MaxClients = 1
  RingCapacity = 2
  PerClientCredits = 2
  FileSlotLimit = 2
  BufferSlotLimit = 1
  IoBytesMax = 1
  TaskIdReservedMin = 3
  ResourceIdModulus = 4
  GenerationModulus = 2
  Fds = {3, 4}
  Requests = {"register_fd", "release", "nop", "cancel", "io", "openat", "accept", "close"}
  MaxEnterFaults = 2

INVARIANTS
  SlotLifecycle
  FixedFilesMatchSlots

PROPERTIES
  ClosedClientsAreReclaimed

\* The daemon may stop, and nothing happens after that.
CHECK_DEADLOCK FALSE
