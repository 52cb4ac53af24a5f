\* An attacker on the path re-injects one captured frame (spec 8, scenario 4).
CONSTANTS
    NONCE_BYTES = 2
    BYTE = 4
    GARBAGE = 2
    FRAME_SIZE = 4
    ABYTES = 2
    DEV_READ_MAX = 2
    MAX_SENT = 6
    MAX_REPLAYS = 1
    LINKS <- LinksTcpAttacked
SPECIFICATION Spec
CHECK_DEADLOCK FALSE
INVARIANT AcceptedNoncesIncrease
