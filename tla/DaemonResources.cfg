SPECIFICATION Spec

CONSTANTS
  MaxClients = 1
  RingCapacity = 3
  PerClientCredits = 2
  FileSlotLimit = 2
  BufferSlotLimit = 1
  IoBytesMax = 1
  TaskIdReservedMin = 3
  ResourceIdModulus = 4
  GenerationModulus = 2
  Fds = {3, 4, 5}
  Requests = {"register_fd", "register_buffer", "release", "openat", "accept", "close", "read_fixed", "write_fixed"}
  MaxEnterFaults = 0

INVARIANTS
  InFlightMatchesTasks
  SlotLifecycle
  ResourceIdsDistinct
  DescriptorsHaveOneOwner

PROPERTIES
  OnlyFailedCloseLosesFd

\* The daemon may stop, and nothing happens after that.
CHECK_DEADLOCK FALSE
