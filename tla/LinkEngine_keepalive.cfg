\* A TCP session with keep-alive, ka_maxfail = 1: the peer talks or falls
\* silent, the operator may signal, the connection and device may fail.
CONSTANTS
    KA_MAXFAIL = 1
    KEEP_ALIVE = TRUE
    PEER_KINDS = {"data", "echo_req", "echo_rep", "bad", "close", "garbled", "eof"}
    NET_CAN_FAIL = TRUE
    DEV_CAN_CLOSE = TRUE
    MAX_ALARMS = 4
    MAX_SIGNALS = 1
    MAX_PEER_FRAMES = 2
    MAX_DEV_PACKETS = 1
    NAT_HACK = FALSE
    ALLOC_CAN_FAIL = FALSE
    SELECT_CAN_FAIL = FALSE
SPECIFICATION Spec
INVARIANT TypeOK
INVARIANT NoPrematureTimeout
CHECK_DEADLOCK FALSE
