\* A client process making three sessions with each negotiated stack;
\* the LZO and AES-GCM allocations may fail, the peer and the device
\* each send up to two packets a session.
CONSTANTS
    PROFILES <- Profiles
    MAY_FAIL = {"lzo", "encrypt"}
    MAX_SESSIONS = 3
    MAX_PACKETS = 2
SPECIFICATION Spec
INVARIANT PeerFramesDelivered


CHECK_DEADLOCK FALSE
