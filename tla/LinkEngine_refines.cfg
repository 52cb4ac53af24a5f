\* linkfd against its abstract contract, and termination of the loop once
\* its flag is set: a session without keep-alive in which the operator
\* sends up to two signals (a reload after a stop included) while the
\* peer talks, the network may fail and the device may close.
CONSTANTS
    KA_MAXFAIL = 1
    KEEP_ALIVE = FALSE
    PEER_KINDS = {"data", "echo_req", "close", "eof"}
    NET_CAN_FAIL = TRUE
    DEV_CAN_CLOSE = TRUE
    MAX_ALARMS = 0
    MAX_SIGNALS = 2
    MAX_PEER_FRAMES = 2
    MAX_DEV_PACKETS = 1
    NAT_HACK = TRUE
    ALLOC_CAN_FAIL = TRUE
    SELECT_CAN_FAIL = TRUE
SPECIFICATION Spec
PROPERTY LinkRefines
PROPERTY TermEndsLoop
CHECK_DEADLOCK FALSE
