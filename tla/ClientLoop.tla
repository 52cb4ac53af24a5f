----------------------------- MODULE ClientLoop -----------------------------
(***************************************************************************)
(* The client process: client()'s reconnect loop (client.c) and tunnel()   *)
(* (tunnel.c), with linkfd() taken from its abstract contract              *)
(* LinkAbstract, which LinkEngine refines.                                 *)
(*                                                                         *)
(* cpc is where client() or tunnel() is:                                   *)
(*   "test"    the while condition on client_term;                         *)
(*   "body"    the reconnect / persist decision;                           *)
(*   "sleep"   sleep(5);                                                   *)
(*   "addr"    server_addr, local_addr, socket, bind;                      *)
(*   "connect" connect_t;  "auth" auth_client;                             *)
(*   "tunnel"  tunnel() before linkfd: device, protocol, fork;             *)
(*   "linkfd"  inside linkfd (its phase is lfPhase);                       *)
(*   "down"    tunnel() after linkfd: down commands, interface teardown;   *)
(*   "close"   close(s), free_sopt;  "exit" client() has returned.         *)
(* Failures of the environment (resolver, socket, bind, connect, the       *)
(* server's answer, device allocation, UDP session, fork, module           *)
(* allocation) are the members of FAILURES that may happen.                *)
(***************************************************************************)
EXTENDS Integers

CONSTANTS
    CLI_PERSIST,    \* values vtun.persist may have (-p on the command line)
    HOST_PERSIST,   \* values host->persist may be configured with: 0, 1, KEEPIF
    FAILURES,       \* which calls may fail
    SIGNALS,        \* signals the operator may send: VTUN_SIG_TERM, _HUP
    MAX_ATTEMPTS,   \* bound: connection attempts (iterations reaching bind)
    MAX_SIGNALS     \* bound: signals sent

VARIABLES
    cpc,            \* see above
    client_term,    \* client.c's flag: 0, VTUN_SIG_TERM, VTUN_SIG_HUP, -1
    reconnect,      \* client()'s local `reconnect`
    sockets,        \* sockets created and not closed
    ifOpen,         \* host->loc_fd is an open device
    opt,            \* tunnel()'s result, the value linkfd returned
    lfPhase,        \* LinkAbstract's phase
    linker_term,    \* linkfd.c's static flag
    hostPersist,    \* host->persist
    persistConf,    \* [cli |-> vtun.persist, host |-> host->persist as configured]
    attempts,       \* bound counter: connection attempts
    signals,        \* bound counter: signals sent
    termSent,       \* history: a SIGTERM was sent to the process
    opens           \* history: devices opened

vars == <<cpc, client_term, reconnect, sockets, ifOpen, opt, lfPhase,
          linker_term, hostPersist, persistConf, attempts, signals, termSent, opens>>

Link == INSTANCE LinkAbstract WITH phase <- lfPhase, persist <- hostPersist

VTUN_SIG_TERM == Link!VTUN_SIG_TERM
VTUN_SIG_HUP  == Link!VTUN_SIG_HUP
VTUN_PERSIST_KEEPIF == Link!VTUN_PERSIST_KEEPIF

Kinds == {"addr", "bind", "connect", "auth", "device", "udp", "fork", "alloc"}

ASSUME /\ CLI_PERSIST \subseteq BOOLEAN
       /\ HOST_PERSIST \subseteq {0, 1, VTUN_PERSIST_KEEPIF}
       /\ FAILURES \subseteq Kinds
       /\ SIGNALS \subseteq {VTUN_SIG_TERM, VTUN_SIG_HUP}
       /\ {MAX_ATTEMPTS, MAX_SIGNALS} \subseteq Nat

\* linkfd's state, which client() and tunnel() do not write, and the
\* settings the process was started with, which nothing writes.
lvars == <<lfPhase, linker_term, hostPersist, persistConf>>

Init ==
    /\ cpc = "test"
    /\ client_term = 0 /\ reconnect = FALSE
    /\ sockets = 0 /\ ifOpen = FALSE /\ opt = 0
    /\ lfPhase = "done" /\ linker_term = 0
    /\ persistConf \in [cli : CLI_PERSIST, host : HOST_PERSIST]
    /\ hostPersist = persistConf.host
    /\ attempts = 0 /\ signals = 0 /\ termSent = FALSE
    /\ opens = 0

-----------------------------------------------------------------------------
(* client()                                                                *)

\* while( (!client_term) || (client_term == VTUN_SIG_HUP) )
LoopTest ==
    /\ cpc = "test"
    /\ cpc' = IF client_term \in {0, VTUN_SIG_HUP} THEN "body" ELSE "exit"
    /\ UNCHANGED <<client_term, reconnect, sockets, ifOpen, opt, lvars>>
    /\ UNCHANGED <<attempts, signals, termSent, opens>>

\* vtun.persist || host->persist
Persistent == persistConf.cli \/ hostPersist # 0

\* After the first iteration, unless reloading: sleep when persistent,
\* otherwise leave the loop.
Body ==
    /\ cpc = "body"
    /\ IF reconnect /\ client_term # VTUN_SIG_HUP
       THEN /\ cpc' = IF Persistent THEN "sleep" ELSE "exit"
            /\ UNCHANGED reconnect
       ELSE reconnect' = TRUE /\ cpc' = "addr"
    /\ UNCHANGED <<client_term, sockets, ifOpen, opt, lvars>>
    /\ UNCHANGED <<attempts, signals, termSent, opens>>

\* sleep(5); a signal cuts it short and the loop goes on regardless.
Sleep ==
    /\ cpc = "sleep"
    /\ cpc' = "addr"
    /\ UNCHANGED <<client_term, reconnect, sockets, ifOpen, opt, lvars>>
    /\ UNCHANGED <<attempts, signals, termSent, opens>>

\* Addresses and socket: a failure before socket() or of bind() is a
\* `continue`, which skips close(s).
Setup ==
    /\ cpc = "addr"
    /\ attempts < MAX_ATTEMPTS
    /\ attempts' = attempts + 1
    /\ \/ "addr" \in FAILURES /\ cpc' = "test"
          /\ UNCHANGED sockets
       \/ "bind" \in FAILURES /\ cpc' = "test"
          /\ sockets' = sockets + 1
       \/ cpc' = "connect" /\ sockets' = sockets + 1
    /\ UNCHANGED <<client_term, reconnect, ifOpen, opt, lvars>>
    /\ UNCHANGED <<signals, termSent, opens>>

\* connect_t, then auth_client; a failure closes the socket.
Connect ==
    /\ cpc = "connect"
    /\ \/ "connect" \in FAILURES /\ cpc' = "close"
       \/ cpc' = "auth"
    /\ UNCHANGED <<client_term, reconnect, sockets, ifOpen, opt, lvars>>
    /\ UNCHANGED <<attempts, signals, termSent, opens>>

Auth ==
    /\ cpc = "auth"
    /\ \/ "auth" \in FAILURES /\ cpc' = "close"
       \/ cpc' = "tunnel"
    /\ UNCHANGED <<client_term, reconnect, sockets, ifOpen, opt, lvars>>
    /\ UNCHANGED <<attempts, signals, termSent, opens>>

\* close(s); free_sopt(&host->sopt).
CloseSocket ==
    /\ cpc = "close"
    /\ cpc' = "test"
    /\ sockets' = sockets - 1
    /\ UNCHANGED <<client_term, reconnect, ifOpen, opt, lvars>>
    /\ UNCHANGED <<attempts, signals, termSent, opens>>

-----------------------------------------------------------------------------
(* tunnel()                                                                *)

\* persist == VTUN_PERSIST_KEEPIF && loc_fd >= 0
InterfaceAlreadyOpen == hostPersist = VTUN_PERSIST_KEEPIF /\ ifOpen

\* Open the device unless kept; choose the protocol (udp_session); fork the
\* up-command child; then call linkfd, which returns 0 at once when a
\* module fails to allocate.  Failures return -1 (device) or 0, closing
\* the device unless it is kept.
TunnelSetup ==
    /\ cpc = "tunnel"
    /\ \/ /\ ~InterfaceAlreadyOpen /\ "device" \in FAILURES
          /\ client_term' = -1 /\ cpc' = "close"
          /\ UNCHANGED <<ifOpen, opt, lfPhase, opens>>
       \/ /\ opens' = IF InterfaceAlreadyOpen THEN opens ELSE opens + 1
          /\ \/ /\ \E f \in {"udp", "fork"} : f \in FAILURES
                /\ ifOpen' = (hostPersist = VTUN_PERSIST_KEEPIF)
                /\ client_term' = 0 /\ cpc' = "close"
                /\ UNCHANGED <<opt, lfPhase>>
             \/ /\ "alloc" \in FAILURES
                /\ ifOpen' = TRUE /\ opt' = 0 /\ cpc' = "down"
                /\ UNCHANGED <<client_term, lfPhase>>
             \/ /\ ifOpen' = TRUE /\ lfPhase' = "setup" /\ cpc' = "linkfd"
                /\ UNCHANGED <<client_term, opt>>
    /\ UNCHANGED <<reconnect, sockets, linker_term, hostPersist, persistConf>>
    /\ UNCHANGED <<attempts, signals, termSent>>

\* linkfd's own steps, as LinkAbstract allows them.
LinkStart ==
    /\ cpc = "linkfd"
    /\ Link!Start
    /\ UNCHANGED <<cpc, client_term, reconnect, sockets, ifOpen, opt>>
    /\ UNCHANGED <<attempts, persistConf, signals, termSent, opens>>

\* lfd_linker cannot allocate its buffer: linkfd tears down at once.
LinkAbort ==
    /\ cpc = "linkfd"
    /\ "alloc" \in FAILURES
    /\ Link!Abort
    /\ UNCHANGED <<cpc, client_term, reconnect, sockets, ifOpen, opt>>
    /\ UNCHANGED <<attempts, persistConf, signals, termSent, opens>>

LinkClose ==
    /\ cpc = "linkfd"
    /\ Link!Close
    /\ UNCHANGED <<cpc, client_term, reconnect, sockets, ifOpen, opt>>
    /\ UNCHANGED <<attempts, persistConf, signals, termSent, opens>>

\* linkfd returns linker_term to tunnel().
LinkReturn ==
    /\ cpc = "linkfd"
    /\ Link!Return
    /\ opt' = linker_term
    /\ cpc' = "down"
    /\ UNCHANGED <<client_term, reconnect, sockets, ifOpen>>
    /\ UNCHANGED <<attempts, persistConf, signals, termSent, opens>>

\* Variant: the interface is destroyed even when it is to be kept.
TeardownAlways == ifOpen' = FALSE

\* Unless persist is VTUN_PERSIST_KEEPIF, destroy the interface and close
\* host->loc_fd.
Teardown ==
    ifOpen' = IF hostPersist = VTUN_PERSIST_KEEPIF THEN ifOpen ELSE FALSE

\* Variant: client() ignores what tunnel() returned.
AdoptResultIgnored == client_term' = client_term

\* client_term = tunnel(host);
AdoptResult == client_term' = opt

\* Down commands, teardown, close the remaining descriptors; tunnel()
\* returns and client() stores its result in client_term.
Down ==
    /\ cpc = "down"
    /\ Teardown
    /\ AdoptResult
    /\ cpc' = "close"
    /\ UNCHANGED <<reconnect, sockets, opt, lvars>>
    /\ UNCHANGED <<attempts, signals, termSent, opens>>

-----------------------------------------------------------------------------
(* Signals.  SIGHUP is ignored outside linkfd (SIG_IGN in client()).       *)

\* client.c's sig_term (SIGTERM, SIGINT), installed except while linkfd's
\* own handlers are.
ClientSigTerm ==
    /\ VTUN_SIG_TERM \in SIGNALS
    /\ signals < MAX_SIGNALS
    /\ cpc \notin {"linkfd", "exit"}
    /\ client_term' = VTUN_SIG_TERM
    /\ signals' = signals + 1
    /\ termSent' = TRUE
    /\ UNCHANGED <<cpc, reconnect, sockets, ifOpen, opt, lvars>>
    /\ UNCHANGED <<attempts, opens>>

\* linkfd.c's sig_term and sig_hup.
LinkSignal(sig) ==
    /\ signals < MAX_SIGNALS
    /\ cpc = "linkfd"
    /\ Link!Signal(sig)
    /\ signals' = signals + 1
    /\ termSent' = (termSent \/ sig = VTUN_SIG_TERM)
    /\ UNCHANGED <<cpc, client_term, reconnect, sockets, ifOpen, opt>>
    /\ UNCHANGED <<attempts, persistConf, opens>>

\* The steps of client(), tunnel() and linkfd's setup and teardown, which
\* the process takes whenever it can.
Process ==
    \/ LoopTest \/ Body \/ Sleep \/ Setup \/ Connect \/ Auth \/ CloseSocket
    \/ TunnelSetup \/ LinkStart \/ LinkAbort \/ LinkReturn \/ Down

Client == Process \/ LinkClose

Next ==
    \/ Client
    \/ ClientSigTerm
    \/ \E sig \in SIGNALS : LinkSignal(sig)

\* The process runs whenever it can (sleep and connect_t return), and
\* linkfd's loop ends once its flag is set (LinkEngine's TermEndsLoop);
\* a loop without a signal may run forever.
Spec == Init /\ [][Next]_vars /\ WF_vars(Process) /\ WF_vars(LinkClose /\ linker_term # 0)

-----------------------------------------------------------------------------
(* Properties.                                                             *)

\* A persistent client (vtun -p, or persist in the host's configuration)
\* leaves client() only after a SIGTERM or a critical tunnel() error: a
\* reload, a lost connection, a refused login never make it give up.
PersistentClientStays ==
    cpc = "exit" /\ (persistConf.cli \/ persistConf.host # 0)
        => termSent \/ client_term = -1

\* While host->persist is keep, the interface is allocated once and reused
\* by every later session (tunnel.c's interface_already_open), whatever
\* failed in between.  (A SIGTERM clears persist in linkfd; a SIGHUP that
\* follows it makes the client reconnect with a fresh interface.)
DeviceOpenedOnce == hostPersist = VTUN_PERSIST_KEEPIF => opens <= 1

\* A SIGTERM that reaches linkfd's loop stops the client: linkfd returns
\* VTUN_SIG_TERM, tunnel() passes it on, and client() leaves its loop --
\* unless a SIGHUP replaces it in linkfd.c's linker_term first (linkfd's
\* handlers stay installed after the loop, until linkfd returns).
TermInLoopExits ==
    (cpc = "linkfd" /\ lfPhase = "run" /\ linker_term = VTUN_SIG_TERM)
        ~> (cpc = "exit" \/ linker_term = VTUN_SIG_HUP)

=============================================================================
