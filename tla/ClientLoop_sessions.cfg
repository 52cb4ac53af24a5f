\* A client with or without -p, and any persist setting in its host entry:
\* every call may fail, and the operator may send SIGTERM and SIGHUP at
\* any point.
CONSTANTS
    CLI_PERSIST = {FALSE, TRUE}
    HOST_PERSIST = {0, 1, 2}
    FAILURES = {"addr", "bind", "connect", "auth", "device", "udp", "fork", "alloc"}
    SIGNALS = {1, 2}
    MAX_ATTEMPTS = 3
    MAX_SIGNALS = 2
SPECIFICATION Spec
INVARIANT PersistentClientStays
INVARIANT DeviceOpenedOnce
PROPERTY TermInLoopExits
CHECK_DEADLOCK FALSE
