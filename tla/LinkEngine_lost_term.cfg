\* The operator sends SIGTERM or SIGHUP while a session runs; the peer
\* keeps talking.  Spec 4.5: a termination signal ends the session.
CONSTANTS
    KA_MAXFAIL = 1
    KEEP_ALIVE = FALSE
    PEER_KINDS = {"data", "echo_req"}
    NET_CAN_FAIL = FALSE
    DEV_CAN_CLOSE = FALSE
    MAX_ALARMS = 0
    MAX_SIGNALS = 2
    MAX_PEER_FRAMES = 2
    MAX_DEV_PACKETS = 1
    NAT_HACK = FALSE
    ALLOC_CAN_FAIL = FALSE
    SELECT_CAN_FAIL = FALSE
SPECIFICATION Spec
INVARIANT TermHonoured
CHECK_DEADLOCK FALSE
