\* Every stack, and device reads of 1 byte or of a full 2048 bytes: an
\* incompressible full read, compressed or encrypted, is lost.
CONSTANTS
    PROFILES <- AllProfiles
    DEV_LENS = {1, 2048}
    MAX_PACKETS = 2
    NET_CAN_FAIL = FALSE
    TRANSPORTS = {"tcp"}
    LATE_CONNECT = FALSE
SPECIFICATION Spec
INVARIANT PacketsDelivered
CHECK_DEADLOCK FALSE
