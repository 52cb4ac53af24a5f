\* Two transports: TCP (or UDP losing datagrams) with no attacker, frames in
\* order; and UDP with an attacker re-injecting captured datagrams, which
\* the network reorders.  A tun device: dev_read returns at most an MTU,
\* below FRAME_SIZE - ABYTES.
CONSTANTS
    NONCE_BYTES = 2
    BYTE = 4
    GARBAGE = 2
    FRAME_SIZE = 4
    ABYTES = 2
    DEV_READ_MAX = 2
    MAX_SENT = 5
    MAX_REPLAYS = 2
    LINKS <- LinksAll
SPECIFICATION Spec
INVARIANT TypeOK
INVARIANT SessionSurvivesOnceSynced
INVARIANT ImmediateReplayRejected
CHECK_DEADLOCK FALSE
