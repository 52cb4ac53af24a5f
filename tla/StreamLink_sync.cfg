\* One direction of a session over TCP and over UDP (its receiver waiting
\* for the first datagram), under every stack: packets of 1 byte, of 1959
\* bytes (LZO's worst case is then exactly 2148 = VTUN_FRAME_SIZE +
\* VTUN_FRAME_OVERHEAD) and of a full 2048-byte device read; the connection
\* may break at any byte, writes may fail and datagrams may be lost.
CONSTANTS
    PROFILES <- AllProfiles
    DEV_LENS = {1, 1959, 2048}
    MAX_PACKETS = 3
    NET_CAN_FAIL = TRUE
    TRANSPORTS = {"tcp", "udp"}
    LATE_CONNECT = TRUE
SPECIFICATION FairSpec
INVARIANT StreamInSync
INVARIANT BadFramesOversized
PROPERTY FramesConsumed
CHECK_DEADLOCK FALSE
