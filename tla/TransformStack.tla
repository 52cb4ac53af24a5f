--------------------------- MODULE TransformStack ---------------------------
(***************************************************************************)
(* linkfd's transform stack (linkfd.c) across the sessions of one process. *)
(*                                                                         *)
(* The stack is the doubly linked list lfd_mod_head/lfd_mod_tail of        *)
(* struct lfd_mod, threaded through the modules' own next/prev fields.     *)
(* Each call of linkfd() appends the modules its host flags select         *)
(* (lfd_add_mod), allocates them head to tail (lfd_alloc_mod) and, when    *)
(* the link is over, frees them and empties the list (lfd_free_mod).  A    *)
(* client calls linkfd() once per session of its reconnect loop, so the    *)
(* list and the modules' pointers outlive a session.                       *)
(*                                                                         *)
(* Frames are symbolic: a packet and the layers the encoders wrapped it    *)
(* in, innermost first.  A decoder removes its own outer layer; applied to *)
(* anything else, decrypt_buf fails its authentication (-1) and            *)
(* lzo1x_decompress either reports an error (-1) or returns garbage.       *)
(* Each session takes its flags from the server's answer (auth_client's  *)
(* FLAGS line), so consecutive sessions may select different stacks; the  *)
(* peer runs a correct stack of the session's flags.                      *)
(***************************************************************************)
EXTENDS Naturals, Sequences, SequencesExt

CONSTANTS
    PROFILES,      \* the module sets the negotiated host flags may select
    MAY_FAIL,      \* modules whose alloc may fail (malloc, lzo_init, sodium_init)
    MAX_SESSIONS,  \* linkfd calls the process makes
    MAX_PACKETS    \* packets each side sends in one session

Lzo     == "lzo"       \* lfd_lzo (VTUN_LZO)
Legacy  == "legacy"    \* lfd_legacy_encrypt (VTUN_ENCRYPT, VTUN_LEGACY_ENCRYPT)
Encrypt == "encrypt"   \* lfd_encrypt (VTUN_ENCRYPT, any other cipher)
Mods    == {Lzo, Legacy, Encrypt}
NULL    == "null"

ASSUME PROFILES \subseteq SUBSET Mods
ASSUME \A f \in PROFILES : ~(Legacy \in f /\ Encrypt \in f)
ASSUME MAY_FAIL \subseteq Mods

\* The order in which linkfd adds the modules the flags select (zlib and
\* the shaper are not part of this tree).
Order == <<Lzo, Legacy, Encrypt>>
Installed(f) == SelectSeq(Order, LAMBDA m : m \in f)

\* Walks longer than this have gone round a cycle.
Fuel == 2 * Len(Order) + 1

VARIABLES
    stack,      \* [head, tail, next, prev]: lfd_mod_head/tail and the modules' links
    flags,      \* the host flags of the current or last session
    pc,         \* "idle" between linkfd calls, "run" in lfd_linker, "hung", "crashed"
    sessions,   \* linkfd calls made
    sent,       \* packets each side has sent this session
    ingress,    \* the peer's frames not yet read by lfd_linker
    egress,     \* the frames lfd_linker has written this session
    lastIn,     \* what lfd_run_up made of the last frame read
    leaked      \* history: a linkfd call returned without lfd_free_mod

vars == <<stack, flags, pc, sessions, sent, ingress, egress, lastIn, leaked>>

Frame  == [pkt : Nat, layers : Seq(Mods \cup {"junk"})]
Junk   == [pkt |-> 0, layers |-> <<"junk">>]
Fail   == [pkt |-> 0, layers |-> <<"fail">>]   \* a decoder returned -1
Hang   == [pkt |-> 0, layers |-> <<"hang">>]   \* lfd_run_up never returns
Empty  == [pkt |-> 0, layers |-> <<"empty">>]  \* a decoder returned length 0

(***************************************************************************)
(* The list operations.                                                    *)
(***************************************************************************)
\* Variant: the appended module keeps the next pointer it had.
LfdAddModKeepsNext(s, m) ==
    IF s.head = NULL
    THEN [head |-> m, tail |-> m,
          next |-> [s.next EXCEPT ![m] = NULL],
          prev |-> [s.prev EXCEPT ![m] = NULL]]
    ELSE [head |-> s.head, tail |-> m,
          next |-> [s.next EXCEPT ![s.tail] = m],
          prev |-> [s.prev EXCEPT ![m] = s.tail]]

LfdAddMod(s, m) ==
    IF s.head = NULL
    THEN [head |-> m, tail |-> m,
          next |-> [s.next EXCEPT ![m] = NULL],
          prev |-> [s.prev EXCEPT ![m] = NULL]]
    ELSE [head |-> s.head, tail |-> m,
          next |-> [s.next EXCEPT ![s.tail] = m, ![m] = NULL],
          prev |-> [s.prev EXCEPT ![m] = s.tail]]

BuildStack(s, f) == FoldLeft(LfdAddMod, s, Installed(f))

\* The modules met following link from m, as far as Fuel allows.
RECURSIVE Walk(_, _, _)
Walk(m, link, fuel) ==
    IF m = NULL \/ fuel = 0 THEN <<>>
    ELSE <<m>> \o Walk(link[m], link, fuel - 1)

DownWalk(s) == Walk(s.head, s.next, Fuel)

\* Variant: the list is not emptied.
LfdFreeModKeepsList(s) == s

\* lfd_free_mod: frees every module from the head and empties the list;
\* the modules' own pointers are left as they are.
LfdFreeMod(s) == [s EXCEPT !.head = NULL, !.tail = NULL]

EmptyStack == [head |-> NULL, tail |-> NULL,
               next |-> [m \in Mods |-> NULL], prev |-> [m \in Mods |-> NULL]]

(***************************************************************************)
(* Encoders and decoders.                                                  *)
(***************************************************************************)
Encode(m, fr) == [fr EXCEPT !.layers = Append(@, m)]

\* The results a decoder may give: a frame, Fail for -1, or Empty for 0
\* (legacy_decrypt_buf's bad pad length); Blowfish ECB never fails, so a
\* foreign frame comes out as garbage or as a bad pad.
Decode(m, fr) ==
    IF fr.layers # <<>> /\ Last(fr.layers) = m
    THEN {[fr EXCEPT !.layers = Front(@)]}
    ELSE CASE m = Encrypt -> {Fail}
           [] m = Lzo     -> {Fail, Junk}
           [] m = Legacy  -> {Empty, Junk}

\* lfd_run_down: every module from the head encodes (an encoder of these
\* modules returns a positive length).
RunDown(s, fr) == FoldLeft(LAMBDA f, m : Encode(m, f), fr, DownWalk(s))

\* lfd_run_up: modules from the tail decode while the length stays
\* positive; Hang when the walk does not end.
RECURSIVE RunUp(_, _, _, _)
RunUp(s, r, m, fuel) ==
    IF r \in {Fail, Empty} \/ m = NULL THEN {r}
    ELSE IF fuel = 0 THEN {Hang}
    ELSE UNION {RunUp(s, d, s.prev[m], fuel - 1) : d \in Decode(m, r)}

Received(s, fr) == RunUp(s, fr, s.tail, Fuel)

(***************************************************************************)
(* The process.                                                            *)
(***************************************************************************)
Init ==
    /\ stack = EmptyStack
    /\ flags = {}
    /\ pc = "idle"
    /\ sessions = 0
    /\ sent = [us |-> 0, peer |-> 0]
    /\ ingress = <<>>
    /\ egress = <<>>
    /\ lastIn = "none"
    /\ leaked = FALSE

\* linkfd builds the stack for the session's flags f; lfd_alloc_mod then
\* allocates the modules from the head.
NewStack(f) == BuildStack(stack, f)
AllocWalk(f) == DownWalk(NewStack(f))

\* Every module allocates and lfd_linker starts on a new connection.
LinkfdAlloc(f) ==
    /\ pc = "idle"
    /\ sessions < MAX_SESSIONS
    /\ Legacy \notin ToSet(AllocWalk(f))
    /\ flags' = f
    /\ stack' = NewStack(f)
    /\ sessions' = sessions + 1
    /\ pc' = "run"
    /\ sent' = [us |-> 0, peer |-> 0]
    /\ ingress' = <<>>
    /\ egress' = <<>>
    /\ UNCHANGED <<lastIn, leaked>>

\* The k-th module's alloc fails: lfd_alloc_mod returns 1 and linkfd
\* returns 0 at once, without lfd_free_mod.
LinkfdAllocFails(f, k) ==
    /\ pc = "idle"
    /\ sessions < MAX_SESSIONS
    /\ k <= Len(AllocWalk(f))
    /\ AllocWalk(f)[k] \in MAY_FAIL
    /\ Legacy \notin ToSet(SubSeq(AllocWalk(f), 1, k - 1))
    /\ flags' = f
    /\ stack' = NewStack(f)
    /\ sessions' = sessions + 1
    /\ leaked' = TRUE
    /\ UNCHANGED <<pc, sent, ingress, egress, lastIn>>

\* alloc_legacy_encrypt hashes host->passwd, which derive_key freed and
\* set to NULL during authentication: strlen(NULL) kills the process.
LinkfdAllocCrashes(f, k) ==
    /\ pc = "idle"
    /\ sessions < MAX_SESSIONS
    /\ k <= Len(AllocWalk(f))
    /\ AllocWalk(f)[k] = Legacy
    /\ Legacy \notin ToSet(SubSeq(AllocWalk(f), 1, k - 1))
    /\ flags' = f
    /\ stack' = NewStack(f)
    /\ sessions' = sessions + 1
    /\ pc' = "crashed"
    /\ UNCHANGED <<sent, ingress, egress, lastIn, leaked>>

\* A packet from the device goes down the stack to the network.
DevPacket ==
    /\ pc = "run"
    /\ sent.us < MAX_PACKETS
    /\ sent' = [sent EXCEPT !.us = @ + 1]
    /\ egress' = Append(egress, RunDown(stack, [pkt |-> sent.us + 1, layers |-> <<>>]))
    /\ UNCHANGED <<stack, flags, pc, sessions, ingress, lastIn, leaked>>

\* The peer's correct stack encodes a packet and sends it.
PeerSend ==
    /\ pc = "run"
    /\ sent.peer < MAX_PACKETS
    /\ sent' = [sent EXCEPT !.peer = @ + 1]
    /\ ingress' = Append(ingress,
           FoldLeft(LAMBDA f, m : Encode(m, f), [pkt |-> sent.peer + 1, layers |-> <<>>],
                    Installed(flags)))
    /\ UNCHANGED <<stack, flags, pc, sessions, egress, lastIn, leaked>>

\* lfd_linker reads a frame and lfd_run_up decodes it: a positive length
\* goes to the device through dev_write, a length of 0 is dropped.
NetFrameDeliver ==
    /\ pc = "run"
    /\ ingress # <<>>
    /\ \E r \in Received(stack, Head(ingress)) \ {Fail, Hang} :
           lastIn' = CASE r = Empty       -> "dropped"
                       [] r.layers = <<>> -> "packet"
                       [] OTHER           -> "junk"
    /\ ingress' = Tail(ingress)
    /\ UNCHANGED <<stack, flags, pc, sessions, sent, egress, leaked>>

\* lfd_run_up returns -1: lfd_linker breaks, linkfd frees the stack and
\* returns.
NetFrameFails ==
    /\ pc = "run"
    /\ ingress # <<>>
    /\ Fail \in Received(stack, Head(ingress))
    /\ lastIn' = "rejected"
    /\ ingress' = Tail(ingress)
    /\ stack' = LfdFreeMod(stack)
    /\ pc' = "idle"
    /\ UNCHANGED <<flags, sessions, sent, egress, leaked>>

\* lfd_run_up goes round a cycle of the prev links for good.
NetFrameSpins ==
    /\ pc = "run"
    /\ ingress # <<>>
    /\ Hang \in Received(stack, Head(ingress))
    /\ lastIn' = "hang"
    /\ pc' = "hung"
    /\ UNCHANGED <<stack, flags, sessions, sent, ingress, egress, leaked>>

\* The link ends for another reason (a signal, the peer's close, an I/O
\* error, a keep-alive timeout): linkfd frees the stack and returns.
LinkClose ==
    /\ pc = "run"
    /\ stack' = LfdFreeMod(stack)
    /\ pc' = "idle"
    /\ UNCHANGED <<flags, sessions, sent, ingress, egress, lastIn, leaked>>

Next ==
    \/ \E f \in PROFILES : LinkfdAlloc(f)
    \/ \E f \in PROFILES, k \in 1..Len(Order) : LinkfdAllocFails(f, k)
    \/ \E f \in PROFILES, k \in 1..Len(Order) : LinkfdAllocCrashes(f, k)
    \/ DevPacket \/ PeerSend
    \/ NetFrameDeliver \/ NetFrameFails \/ NetFrameSpins
    \/ LinkClose

Spec == Init /\ [][Next]_vars

(***************************************************************************)
(* Properties.                                                             *)
(***************************************************************************)
TypeOK ==
    /\ stack \in [head : Mods \cup {NULL}, tail : Mods \cup {NULL},
                  next : [Mods -> Mods \cup {NULL}], prev : [Mods -> Mods \cup {NULL}]]
    /\ flags \in PROFILES \cup {{}}
    /\ pc \in {"idle", "run", "hung", "crashed"}
    /\ sessions \in 0..MAX_SESSIONS
    /\ sent \in [us : 0..MAX_PACKETS, peer : 0..MAX_PACKETS]
    /\ ingress \in Seq(Frame) /\ egress \in Seq(Frame)
    /\ lastIn \in {"none", "packet", "junk", "dropped", "rejected", "hang"}
    /\ leaked \in BOOLEAN

\* A session whose linkfd starts from an empty list (every earlier call
\* of the process reached lfd_free_mod) hands the network only frames
\* carrying exactly the layers its own flags select, in linkfd's order, so
\* the peer's reverse stack decodes them: the flags change from session to
\* session and lfd_free_mod leaves the freed modules' next/prev pointers as
\* they were, and lfd_add_mod must not let those stale links skip, repeat
\* or reorder an encoder.  (Without the premise the property fails: see
\* PeerFramesDelivered for the list a failed lfd_alloc_mod leaves.)
FreshStackEncodes ==
    (pc = "run" /\ ~leaked) =>
        \A i \in DOMAIN egress : egress[i].layers = Installed(flags)

\* Spec section 3: the stack applied on ingress is the exact reverse of
\* the stack the peer applied on egress, so every frame the peer's stack
\* produced reaches the device as the packet it carries, and none ends
\* the session.
PeerFramesDelivered == lastIn \in {"none", "packet"}
=============================================================================
