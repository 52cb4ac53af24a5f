\* Two server processes accepting connections, a client making two
\* attempts, and an attacker that replays, redirects and forges lines.
\* The exchanges end: deadlock is the end of every handshake.
CONSTANTS
    SERVERS = {1, 2}
    ATTEMPTS = 2
    HOST_FLAGS <- HostFlags
    FORGED_FLAGS <- ForgedFlags
    CHECKED_NUMS = {0, 9, 34}
    DERIVE_CAN_FAIL = TRUE
SPECIFICATION Spec
 
 
INVARIANT LockHeldForGenuineClient
CHECK_DEADLOCK FALSE
INVARIANT FlagsRoundTrip
