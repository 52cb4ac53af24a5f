\* One server process and a client making two attempts, whose first
\* scrypt may fail: the second attempt's derive_key finds host->akey set.
CONSTANTS
    SERVERS = {1}
    ATTEMPTS = 2
    HOST_FLAGS <- HostFlags
    FORGED_FLAGS <- ForgedFlags
    CHECKED_NUMS = {0}
    DERIVE_CAN_FAIL = TRUE
SPECIFICATION Spec
INVARIANT ClientHashesUnderAk
CHECK_DEADLOCK FALSE
