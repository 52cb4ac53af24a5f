---------------------------- MODULE LinkAbstract ----------------------------
(***************************************************************************)
(* What linkfd() promises its caller (tunnel(), client()): a session that  *)
(* goes setup -> run -> closed -> done, whose return value is the last     *)
(* signal its handlers recorded, and which clears host->persist when it    *)
(* leaves its loop on VTUN_SIG_TERM.  A session that cannot start its loop *)
(* goes from setup straight to closed: persist is left alone and the       *)
(* return value is whatever the flag held, a request from an earlier       *)
(* session or one caught during setup.                                     *)
(*                                                                         *)
(*   "setup"   handlers installed, the termination flag not yet cleared;   *)
(*   "run"     the loop, until it has decided to stop;                     *)
(*   "closed"  the loop is over and persist has been settled; handlers     *)
(*             are still installed until linkfd restores the old ones;     *)
(*   "done"    linkfd has returned linker_term.                            *)
(*                                                                         *)
(* The loop may end by itself at any time (peer close, error, timeout);    *)
(* once a signal has set linker_term it must end.                          *)
(***************************************************************************)
EXTENDS Integers

VARIABLES
    phase,        \* where linkfd is, see above
    linker_term,  \* 0, VTUN_SIG_TERM or VTUN_SIG_HUP
    persist       \* host->persist: 0, 1 or VTUN_PERSIST_KEEPIF

VTUN_SIG_TERM == 1
VTUN_SIG_HUP  == 2
VTUN_PERSIST_KEEPIF == 2

vars == <<phase, linker_term, persist>>

Phases == {"setup", "run", "closed", "done"}

Init ==
    /\ phase = "setup"
    /\ linker_term \in {0, VTUN_SIG_HUP}
    /\ persist \in {0, 1, VTUN_PERSIST_KEEPIF}

\* The loop starts and clears the termination flag.
Start ==
    /\ phase = "setup"
    /\ phase' = "run"
    /\ linker_term' = 0
    /\ UNCHANGED persist

\* The loop cannot start (no buffer): linkfd tears down at once.
Abort ==
    /\ phase = "setup"
    /\ phase' = "closed"
    /\ UNCHANGED <<linker_term, persist>>

\* A handler records a termination or reload request.
Signal(sig) ==
    /\ phase \in {"setup", "run", "closed"}
    /\ linker_term' = sig
    /\ UNCHANGED <<phase, persist>>

\* Variant: any request, a reload included, turns persistence off.
CloseClearsOnAny ==
    /\ phase = "run"
    /\ phase' = "closed"
    /\ persist' = IF linker_term # 0 THEN 0 ELSE persist
    /\ UNCHANGED linker_term

\* The loop ends; a termination request turns persistence off.
Close ==
    /\ phase = "run"
    /\ phase' = "closed"
    /\ persist' = IF linker_term = VTUN_SIG_TERM THEN 0 ELSE persist
    /\ UNCHANGED linker_term

\* linkfd restores the old handlers and returns.
Return ==
    /\ phase = "closed"
    /\ phase' = "done"
    /\ UNCHANGED <<linker_term, persist>>

Next ==
    \/ Start \/ Abort \/ Close \/ Return
    \/ \E sig \in {VTUN_SIG_TERM, VTUN_SIG_HUP} : Signal(sig)

\* linkfd always gets through its setup and teardown, and leaves a loop
\* whose flag is set.
Fairness ==
    /\ WF_vars(Start \/ Abort)
    /\ WF_vars(Close /\ linker_term # 0)
    /\ WF_vars(Return)

Spec == Init /\ [][Next]_vars /\ Fairness

=============================================================================
