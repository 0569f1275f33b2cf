SPECIFICATION FairSpec
CONSTANTS
  Base = 2
  IoBytesMax = 3
  MaxLength = 4
  WireCapacity = 3
  MaxMessages = 3
  MaxConnections = 2
  MaxFds = 2
INVARIANT IntakeTypeOK
INVARIANT InputFits
INVARIANT RequestsAreWhole
INVARIANT OwnDescriptor
INVARIANT DescriptorsAreKept
PROPERTY EverythingIsRead
\* Messages and connections are bounded.
CHECK_DEADLOCK FALSE
