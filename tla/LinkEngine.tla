----------------------------- MODULE LinkEngine -----------------------------
(***************************************************************************)
(* One end of an established session: linkfd() and its lfd_linker() loop  *)
(* (linkfd.c), with the signal handlers that run between its statements.  *)
(*                                                                         *)
(* The loop is split where a signal handler can change what it reads:      *)
(*   "setup"    linkfd has installed sig_term/sig_hup, lfd_linker has not  *)
(*              yet run `linker_term = 0`;                                 *)
(*   "top"      the `while( !linker_term )` test;                          *)
(*   "select"   blocked in select();                                       *)
(*   "ka"       the keep-alive block up to its last statement,             *)
(*   "ka_clear" `ka_need_verify = 0`;                                      *)
(*   "remote"   the network branch, "local" the device branch;             *)
(*   "closing"  after the loop; "cleanup" linkfd's teardown, handlers      *)
(*              still installed; "done" linkfd has returned.               *)
(* The peer, the network and the local device are the environment.  A     *)
(* frame is abstracted to its kind; the transform stack to whether it      *)
(* accepts a frame ("data") or returns -1 on it ("garbled").               *)
(***************************************************************************)
EXTENDS Integers, Sequences

CONSTANTS
    KA_MAXFAIL,       \* lfd_host->ka_maxfail
    KEEP_ALIVE,       \* lfd_host->flags & VTUN_KEEP_ALIVE
    PEER_KINDS,       \* frames the peer may send
    NET_CAN_FAIL,     \* the connection may break (read/write return -1)
    DEV_CAN_CLOSE,    \* the local device may reach EOF (pipe, pty)
    MAX_ALARMS,       \* bound: SIGALRMs that expire the keep-alive timer
    MAX_SIGNALS,      \* bound: SIGTERM/SIGINT/SIGHUP sent by the operator
    MAX_PEER_FRAMES,  \* bound: frames the peer sends
    MAX_DEV_PACKETS,  \* bound: packets the local device produces
    NAT_HACK,         \* VTUN_USE_NAT_HACK(lfd_host): no first ECHO_REQ
    ALLOC_CAN_FAIL,   \* lfd_alloc of the linker's buffer may fail
    SELECT_CAN_FAIL   \* select() may fail with an errno other than EINTR

\* Values of linker_term (vtun.h); 0 means no signal.
VTUN_SIG_TERM == 1
VTUN_SIG_HUP  == 2

Kinds == {"data", "garbled", "echo_req", "echo_rep", "close", "bad", "eof"}

ASSUME /\ KA_MAXFAIL \in Nat /\ KEEP_ALIVE \in BOOLEAN
       /\ PEER_KINDS \subseteq Kinds
       /\ {NET_CAN_FAIL, DEV_CAN_CLOSE, NAT_HACK, ALLOC_CAN_FAIL, SELECT_CAN_FAIL}
            \subseteq BOOLEAN
       /\ {MAX_ALARMS, MAX_SIGNALS, MAX_PEER_FRAMES, MAX_DEV_PACKETS} \subseteq Nat

VARIABLES
    pc,             \* where lfd_linker is, see above
    linker_term,    \* 0, VTUN_SIG_TERM or VTUN_SIG_HUP
    ka_need_verify, \* set by sig_alarm
    idle,           \* consecutive keep-alive checks without input
    ready,          \* descriptors select() reported readable
    interrupted,    \* a handler ran while select() was blocked (EINTR)
    alarmPending,   \* a SIGALRM came since select() last returned normally
    persist,        \* lfd_host->persist, cleared on VTUN_SIG_TERM
    rx,             \* frames from the peer not yet read
    tx,             \* frames this end wrote to the network
    netUp,          \* the connection has not failed
    devIn,          \* packets waiting on the local device
    devEof,         \* the local device has been closed
    delivered,      \* data frames written to the local device
    reason,         \* why the loop ended, "none" while it runs
    sinceRx,        \* history: SIGALRMs since the network was last readable
    alarms,         \* history: SIGALRMs delivered
    signals,        \* history: SIGTERM/SIGHUP delivered
    termSeen,       \* history: a SIGTERM reached sig_term
    peerSent,       \* history: frames the peer sent
    devMade         \* history: packets the local device produced

ctl  == <<pc, linker_term, ka_need_verify, idle, ready, interrupted, alarmPending, persist>>
env  == <<rx, tx, netUp, devIn, devEof, delivered, reason>>
hist == <<sinceRx, alarms, signals, termSeen, peerSent, devMade>>
vars == <<ctl, env, hist>>

Running == {"top", "select", "ka", "ka_clear", "remote", "local"}

\* proto_write(fd1, ...): on a broken connection it returns -1.
Send(k) == tx' = IF netUp THEN Append(tx, k) ELSE tx

\* `break` out of the while loop.
Break(why) == pc' = "closing" /\ reason' = why

Init ==
    /\ pc = "setup"
    \* statics: what an earlier session of this process left (a SIGTERM ends
    \* the process, so never VTUN_SIG_TERM)
    /\ linker_term \in {0, VTUN_SIG_HUP}
    /\ ka_need_verify \in BOOLEAN
    /\ idle = 0
    /\ ready = {}
    /\ interrupted = FALSE
    /\ alarmPending = FALSE
    /\ persist = TRUE
    /\ rx = <<>> /\ tx = <<>>
    /\ netUp = TRUE /\ devIn = 0 /\ devEof = FALSE
    /\ delivered = 0 /\ reason = "none"
    /\ sinceRx = 0 /\ alarms = 0 /\ signals = 0 /\ termSeen = FALSE
    /\ peerSent = 0 /\ devMade = 0

-----------------------------------------------------------------------------
(* lfd_linker.                                                             *)

\* Allocate the buffer, send the first ECHO_REQ unless the NAT hack delays
\* it, clear the termination flag.  When the allocation fails lfd_linker
\* returns at once: no persist test, no CONN_CLOSE, and linkfd tears down
\* and returns linker_term as the handlers left it.
LinkerStart ==
    /\ pc = "setup"
    /\ \/ /\ IF NAT_HACK THEN UNCHANGED tx ELSE Send("echo_req")
          /\ linker_term' = 0
          /\ pc' = "top"
       \/ /\ ALLOC_CAN_FAIL
          /\ pc' = "cleanup"
          /\ UNCHANGED <<linker_term, tx>>
    /\ UNCHANGED <<ka_need_verify, idle, ready, interrupted, alarmPending, persist>>
    /\ UNCHANGED <<rx, netUp, devIn, devEof, delivered, reason>>
    /\ UNCHANGED hist

\* Variant: the loop condition does not look at the flag.
TerminatedIgnored == FALSE

\* The loop condition of while( !linker_term ), negated.
Terminated == linker_term # 0

\* while( !linker_term ): leave the loop, or block in select().
LoopTest ==
    /\ pc = "top"
    /\ pc' = IF Terminated THEN "closing" ELSE "select"
    /\ interrupted' = FALSE
    /\ UNCHANGED <<linker_term, ka_need_verify, idle, ready, alarmPending, persist>>
    /\ UNCHANGED env
    /\ UNCHANGED hist

\* select() returns: -1/EINTR after a handler ran (continue), -1 with
\* another errno (break), or the readable descriptors, possibly none when
\* ka_interval elapses.
Select ==
    /\ pc = "select"
    /\ \/ /\ interrupted
          /\ pc' = "top" /\ UNCHANGED <<ready, alarmPending, reason>>
       \/ /\ SELECT_CAN_FAIL
          /\ Break("error") /\ UNCHANGED <<ready, alarmPending>>
       \/ /\ ready' = {d \in {"rmt", "loc"} :
                         \/ d = "rmt" /\ (rx # <<>> \/ ~netUp)
                         \/ d = "loc" /\ (devIn > 0 \/ devEof)}
          /\ alarmPending' = FALSE
          /\ pc' = "ka" /\ UNCHANGED reason
    /\ UNCHANGED <<linker_term, ka_need_verify, idle, interrupted, persist>>
    /\ UNCHANGED <<rx, tx, netUp, devIn, devEof, delivered>>
    /\ UNCHANGED hist

\* Variant: the peer is never declared dead.
KaExpiredNever == FALSE

\* idle > lfd_host->ka_maxfail, tested before idle is raised.
KaExpired == idle > KA_MAXFAIL

\* if( ka_need_verify ): time out, or count the idle period and, from the
\* second one on, probe the peer with ECHO_REQ.
KeepAlive ==
    /\ pc = "ka"
    /\ IF ~ka_need_verify
       THEN pc' = "remote" /\ UNCHANGED <<idle, reason, tx>>
       ELSE IF KaExpired
       THEN Break("timeout") /\ UNCHANGED <<idle, tx>>
       ELSE /\ idle' = idle + 1
            /\ IF idle > 0 THEN Send("echo_req") ELSE UNCHANGED tx
            /\ IF idle > 0 /\ ~netUp
               THEN Break("error")
               ELSE pc' = "ka_clear" /\ UNCHANGED reason
    /\ UNCHANGED <<linker_term, ka_need_verify, ready, interrupted, alarmPending, persist>>
    /\ UNCHANGED <<rx, netUp, devIn, devEof, delivered>>
    /\ UNCHANGED hist

\* ka_need_verify = 0, a separate store a SIGALRM can precede.
KaClear ==
    /\ pc = "ka_clear"
    /\ ka_need_verify' = FALSE
    /\ pc' = "remote"
    /\ UNCHANGED <<linker_term, idle, ready, interrupted, alarmPending, persist>>
    /\ UNCHANGED env
    /\ UNCHANGED hist

\* dev_write of a decoded frame: written; EAGAIN/EINTR (continue); or an
\* error on a closed device (break).
DevWrite ==
    \/ delivered' = delivered + 1 /\ pc' = "local" /\ UNCHANGED reason
    \/ pc' = "top" /\ UNCHANGED <<delivered, reason>>
    \/ devEof /\ Break("error") /\ UNCHANGED delivered

\* Variant: network input does not clear the idle count.
ResetIdleKeepsCount == idle' = idle /\ ka_need_verify' = FALSE

\* idle = 0; ka_need_verify = 0 on network input.
ResetIdle == idle' = 0 /\ ka_need_verify' = FALSE

\* Network readable: clear idle, proto_read one frame and act on its flags;
\* a data frame goes up the module stack and to the local device.
Remote ==
    /\ pc = "remote"
    /\ IF "rmt" \notin ready
       THEN pc' = "local" /\ UNCHANGED <<idle, ka_need_verify, rx, tx, delivered, reason, sinceRx>>
       ELSE /\ ResetIdle /\ sinceRx' = 0
            /\ IF ~netUp THEN Break("error") /\ UNCHANGED <<rx, tx, delivered>>
               ELSE LET k == Head(rx) IN
                    /\ rx' = Tail(rx)
                    /\ CASE k = "eof"      -> Break("eof") /\ UNCHANGED <<tx, delivered>>
                         [] k = "bad"      -> pc' = "top" /\ UNCHANGED <<tx, delivered, reason>>
                         [] k = "echo_req" -> pc' = "top" /\ Send("echo_rep")
                                              /\ UNCHANGED <<delivered, reason>>
                         [] k = "echo_rep" -> pc' = "top" /\ UNCHANGED <<tx, delivered, reason>>
                         [] k = "close"    -> Break("conn_close") /\ UNCHANGED <<tx, delivered>>
                         [] k = "garbled"  -> Break("error") /\ UNCHANGED <<tx, delivered>>
                         [] k = "data"     -> DevWrite /\ UNCHANGED tx
    /\ UNCHANGED <<linker_term, ready, interrupted, alarmPending, persist>>
    /\ UNCHANGED <<netUp, devIn, devEof>>
    /\ UNCHANGED <<alarms, signals, termSeen, peerSent, devMade>>

\* Device readable: dev_read a packet (0 bytes at EOF ends the loop), run
\* it down the module stack and proto_write it.
Local ==
    /\ pc = "local"
    /\ IF "loc" \notin ready
       THEN pc' = "top" /\ UNCHANGED <<devIn, tx, reason>>
       ELSE IF devIn = 0
       THEN Break("dev_eof") /\ UNCHANGED <<devIn, tx>>
       ELSE /\ devIn' = devIn - 1
            /\ Send("data")
            /\ IF ~netUp THEN Break("error") ELSE pc' = "top" /\ UNCHANGED reason
    /\ UNCHANGED <<linker_term, ka_need_verify, idle, ready, interrupted, alarmPending, persist>>
    /\ UNCHANGED <<rx, netUp, devEof, delivered>>
    /\ UNCHANGED hist

\* Variant: any signal, a reload included, clears persist.
ClearPersistOnAny == persist' = IF linker_term # 0 THEN FALSE ELSE persist

\* if (linker_term == VTUN_SIG_TERM) lfd_host->persist = 0;
ClearPersist == persist' = IF linker_term = VTUN_SIG_TERM THEN FALSE ELSE persist

\* After the loop: VTUN_SIG_TERM clears persist; notify the peer.
Closing ==
    /\ pc = "closing"
    /\ ClearPersist
    /\ Send("close")
    /\ pc' = "cleanup"
    /\ UNCHANGED <<linker_term, ka_need_verify, idle, ready, interrupted, alarmPending>>
    /\ UNCHANGED <<rx, netUp, devIn, devEof, delivered, reason>>
    /\ UNCHANGED hist

\* linkfd: alarm(0), free the modules, restore the old handlers and
\* return linker_term.
Cleanup ==
    /\ pc = "cleanup"
    /\ pc' = "done"
    /\ UNCHANGED <<linker_term, ka_need_verify, idle, ready, interrupted, alarmPending, persist>>
    /\ UNCHANGED env
    /\ UNCHANGED hist

-----------------------------------------------------------------------------
(* Signal handlers, installed from "setup" until linkfd restores the old   *)
(* ones; alarm(0) in the teardown stops SIGALRM.                           *)

Handled == pc \in {"setup", "closing", "cleanup"} \cup Running

\* sig_term (SIGTERM, SIGINT) and sig_hup: io_cancel() and set linker_term.
SigTerm(sig) ==
    /\ Handled
    /\ signals < MAX_SIGNALS
    /\ linker_term' = sig
    /\ interrupted' = (pc = "select" \/ interrupted)
    /\ signals' = signals + 1
    /\ termSeen' = (termSeen \/ sig = VTUN_SIG_TERM)
    /\ UNCHANGED <<pc, ka_need_verify, idle, ready, alarmPending, persist>>
    /\ UNCHANGED env
    /\ UNCHANGED <<sinceRx, alarms, peerSent, devMade>>

\* sig_alarm when the keep-alive countdown has run out: ka_need_verify = 1.
\* Timing: the countdown is re-armed to ka_interval + 1 seconds and select()
\* waits at most ka_interval, so select() returns normally between two
\* expiries ("We have to complete select() on idle").
SigAlarm ==
    /\ KEEP_ALIVE
    /\ pc \in {"setup", "closing"} \cup Running
    /\ alarms < MAX_ALARMS
    /\ ~alarmPending
    /\ alarmPending' = TRUE
    /\ ka_need_verify' = TRUE
    /\ interrupted' = (pc = "select" \/ interrupted)
    /\ alarms' = alarms + 1
    /\ sinceRx' = sinceRx + 1
    /\ UNCHANGED <<pc, linker_term, idle, ready, persist>>
    /\ UNCHANGED env
    /\ UNCHANGED <<signals, termSeen, peerSent, devMade>>

-----------------------------------------------------------------------------
(* The environment: the peer, the network and the local device.           *)

\* The peer writes a frame; after "eof" (it closed the socket) nothing.
PeerSend(k) ==
    /\ peerSent < MAX_PEER_FRAMES
    /\ ~(rx # <<>> /\ rx[Len(rx)] = "eof")
    /\ rx' = Append(rx, k)
    /\ peerSent' = peerSent + 1
    /\ UNCHANGED ctl
    /\ UNCHANGED <<tx, netUp, devIn, devEof, delivered, reason>>
    /\ UNCHANGED <<sinceRx, alarms, signals, termSeen, devMade>>

\* The connection breaks.
NetFail ==
    /\ NET_CAN_FAIL /\ netUp
    /\ netUp' = FALSE
    /\ UNCHANGED ctl
    /\ UNCHANGED <<rx, tx, devIn, devEof, delivered, reason>>
    /\ UNCHANGED hist

\* The local device produces a packet, or is closed.
DevPacket ==
    /\ devMade < MAX_DEV_PACKETS /\ ~devEof
    /\ devIn' = devIn + 1
    /\ devMade' = devMade + 1
    /\ UNCHANGED ctl
    /\ UNCHANGED <<rx, tx, netUp, devEof, delivered, reason>>
    /\ UNCHANGED <<sinceRx, alarms, signals, termSeen, peerSent>>

DevClose ==
    /\ DEV_CAN_CLOSE /\ ~devEof
    /\ devEof' = TRUE
    /\ UNCHANGED ctl
    /\ UNCHANGED <<rx, tx, netUp, devIn, delivered, reason>>
    /\ UNCHANGED hist

Linker ==
    \/ LinkerStart \/ LoopTest \/ Select \/ KeepAlive \/ KaClear
    \/ Remote \/ Local \/ Closing \/ Cleanup

Next ==
    \/ Linker
    \/ \E sig \in {VTUN_SIG_TERM, VTUN_SIG_HUP} : SigTerm(sig)
    \/ SigAlarm
    \/ \E k \in PEER_KINDS : PeerSend(k)
    \/ NetFail \/ DevPacket \/ DevClose

\* The loop runs whenever it can: select() returns at the latest after
\* ka_interval, and nothing else holds the process.
Spec == Init /\ [][Next]_vars /\ WF_vars(Linker)

-----------------------------------------------------------------------------
(* Refinement: the phase of linkfd seen by its caller.                     *)

Phase ==
    CASE pc = "setup"                     -> "setup"
      [] pc \in Running \cup {"closing"}  -> "run"
      [] pc = "cleanup"                   -> "closed"
      [] pc = "done"                      -> "done"

Abstract == INSTANCE LinkAbstract WITH
    phase <- Phase,
    persist <- IF persist THEN 1 ELSE 0

-----------------------------------------------------------------------------
(* Properties.                                                             *)

TypeOK ==
    /\ pc \in {"setup", "closing", "cleanup", "done"} \cup Running
    /\ linker_term \in {0, VTUN_SIG_TERM, VTUN_SIG_HUP}
    /\ ka_need_verify \in BOOLEAN /\ interrupted \in BOOLEAN
    /\ alarmPending \in BOOLEAN
    /\ idle \in 0..KA_MAXFAIL + 1
    /\ ready \subseteq {"rmt", "loc"}
    /\ persist \in BOOLEAN
    /\ rx \in Seq(Kinds) /\ tx \in Seq(Kinds)
    /\ netUp \in BOOLEAN /\ devEof \in BOOLEAN
    /\ devIn \in Nat /\ delivered \in Nat
    /\ reason \in {"none", "timeout", "error", "eof", "conn_close", "dev_eof"}

\* A peer is declared dead (Session ... network timeout) only after more
\* than ka_maxfail keep-alive periods in which the network was never
\* readable: the idle count that lfd_linker resets on input and raises on
\* SIGALRM never runs ahead of the silence it stands for.
NoPrematureTimeout == reason = "timeout" => sinceRx > KA_MAXFAIL

\* Once the loop is running and a handler has set linker_term, linkfd
\* returns: every path of the loop leads back to the while test.
TermEndsLoop == (pc \in Running /\ linker_term # 0) ~> (pc = "done")

\* Spec 4.5 (cancellation): a termination signal delivered while linkfd's
\* handlers are installed makes linkfd return VTUN_SIG_TERM, which clears
\* persist and makes the client exit.
TermHonoured == termSeen => linker_term = VTUN_SIG_TERM

\* linkfd implements LinkAbstract: its return value is the last signal
\* recorded since lfd_linker cleared linker_term, persist is cleared
\* exactly when the loop ends on VTUN_SIG_TERM, and a loop whose flag is
\* set ends.
LinkRefines == Abstract!Spec

=============================================================================
