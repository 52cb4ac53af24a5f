----------------------------- MODULE AeadReplay -----------------------------
(***************************************************************************)
(* The AES-256-GCM transform of one direction of a tunnel (lfd_encrypt.c): *)
(* the sender's egress nonce, the receiver's replay high-water mark        *)
(* previous_decrypted_nonce, and the wire between them.                    *)
(*                                                                         *)
(* A nonce is NONCE_BYTES bytes of base BYTE; byte 0 is the least          *)
(* significant one, as sodium_increment treats it.  A frame on the wire is *)
(* abstracted to the nonce appended to it and its length: the tag makes    *)
(* any frame the sender did not produce fail to decrypt, so the only       *)
(* frames that can decrypt are the ones in `sent`.                         *)
(*                                                                         *)
(* decrypt_buf returning -1 makes lfd_run_up return -1 and lfd_linker      *)
(* break out of its loop (linkfd.c:318-319): a rejected frame ends the     *)
(* session, which is `open` turning FALSE.                                 *)
(***************************************************************************)
EXTENDS Integers, Sequences, FiniteSets

CONSTANTS
    NONCE_BYTES,    \* crypto_aead_NPUBBYTES (12), scaled down
    BYTE,           \* values a nonce byte takes (256), scaled down
    GARBAGE,        \* byte sodium_malloc leaves in fresh memory (0xdb)
    FRAME_SIZE,     \* VTUN_FRAME_SIZE = MESSAGE_MAX_SIZE = CIPHERTEXT_MAX_SIZE
    ABYTES,         \* CIPHERTEXT_ABYTES: tag plus nonce appended to a frame
    DEV_READ_MAX,   \* the most bytes one dev_read returns on this device
    MAX_SENT,       \* bound: frames the sender encrypts
    MAX_REPLAYS,    \* bound: frames the adversary re-injects
    LINKS           \* the transports a session may run over: records of
                    \*   adversary  an on-path attacker re-injects captured frames
                    \*   lossy      the transport may drop a frame (UDP)
                    \*   reorder    the transport may deliver out of order (UDP)

ASSUME /\ NONCE_BYTES \in Nat \ {0} /\ BYTE \in Nat \ {0, 1}
       /\ GARBAGE \in 0..BYTE-1
       /\ ABYTES \in Nat \ {0} /\ FRAME_SIZE > ABYTES
       /\ DEV_READ_MAX \in 1..FRAME_SIZE
       /\ MAX_SENT \in Nat /\ MAX_REPLAYS \in Nat
       /\ LINKS \subseteq [adversary : BOOLEAN, lossy : BOOLEAN, reorder : BOOLEAN]

VARIABLES
    nonce,      \* ctx.nonce of the sender
    prev,       \* ctx.previous_decrypted_nonce of the receiver
    wire,       \* frames in flight, in order
    sent,       \* every frame the sender produced (what an attacker captured)
    accepted,   \* history: nonces decrypt_buf accepted, in order
    open,       \* the receiver's lfd_linker is still looping
    verdict,    \* history: why decrypt_buf last failed, or "none"
    replays,    \* number of frames the adversary injected
    link        \* the transport of this session, one of LINKS

vars == <<nonce, prev, wire, sent, accepted, open, verdict, replays, link>>

Idx == 0..NONCE_BYTES-1
Nonces == [Idx -> 0..BYTE-1]
Frames == [nonce : Nonces, len : 0..FRAME_SIZE + ABYTES]

\* The nonce as the little-endian integer sodium_increment counts in.
RECURSIVE Digits(_, _)
Digits(n, i) == IF i = NONCE_BYTES THEN 0
                ELSE n[i] + BYTE * Digits(n, i + 1)
NonceValue(n) == Digits(n, 0)

\* Bound: the 96-bit counter cannot wrap within a session; the scaled-down
\* one is stopped before it would.
NonceRoom(n) == NonceValue(n) + 1 < BYTE ^ NONCE_BYTES

-----------------------------------------------------------------------------
(* The code.                                                               *)

\* Variant: the byte is not reduced modulo 256 on a carry.
IncrementNoWrap(n) ==
    [i \in Idx |-> IF \A j \in 0..i-1 : n[j] = BYTE - 1 THEN n[i] + 1 ELSE n[i]]

\* sodium_increment(ctx.nonce, NPUBBYTES): add one, carrying from byte 0.
Increment(n) ==
    [i \in Idx |-> IF \A j \in 0..i-1 : n[j] = BYTE - 1
                   THEN (n[i] + 1) % BYTE
                   ELSE n[i]]

\* Variants: only the first byte is compared; a byte equal to the mark
\* counts as newer.
IsLowerOrEqualLowByte(a, b) == a[0] <= b[0]
IsLowerOrEqualStrict(a, b) == \A i \in Idx : a[i] < b[i]

\* is_lower_or_equal: true unless some byte of a exceeds that byte of b.
IsLowerOrEqual(a, b) == \A i \in Idx : a[i] <= b[i]

\* init_nonce: time and random bytes; any nonce may come out.
InitNonces == Nonces

\* sodium_malloc fills previous_decrypted_nonce with garbage bytes and
\* alloc_encrypt never clears it.
InitPrev == [i \in Idx |-> GARBAGE]

\* encrypt_buf returns plaintext + tag + nonce bytes.
CiphertextLen(l) == l + ABYTES

\* decrypt_buf's length guard.
LengthOk(len) == len >= ABYTES /\ len <= FRAME_SIZE

Init ==
    /\ nonce \in InitNonces
    /\ prev = InitPrev
    /\ wire = <<>>
    /\ sent = {}
    /\ accepted = <<>>
    /\ open = TRUE
    /\ verdict = "none"
    /\ replays = 0
    /\ link \in LINKS

\* Local device readable: dev_read returns l bytes, lfd_run_down runs
\* encrypt_buf, proto_write sends the frame and the nonce moves on.
EncryptBuf(l) ==
    LET f == [nonce |-> nonce, len |-> CiphertextLen(l)] IN
    /\ open
    /\ Cardinality(sent) < MAX_SENT
    /\ NonceRoom(nonce)
    /\ wire' = Append(wire, f)
    /\ sent' = sent \cup {f}
    /\ nonce' = Increment(nonce)
    /\ UNCHANGED <<prev, accepted, open, verdict, replays, link>>

\* Network readable: proto_read returns frame i of the wire and
\* lfd_run_up runs decrypt_buf on it.  Failure ends the session.
DecryptBuf(i) ==
    LET f == wire[i] IN
    /\ open
    /\ wire' = [j \in 1..Len(wire)-1 |-> IF j < i THEN wire[j] ELSE wire[j+1]]
    /\ CASE ~LengthOk(f.len) ->
              open' = FALSE /\ verdict' = "length" /\ UNCHANGED <<prev, accepted>>
         [] IsLowerOrEqual(f.nonce, prev) ->
              open' = FALSE /\ verdict' = "stale" /\ UNCHANGED <<prev, accepted>>
         [] OTHER ->
              prev' = f.nonce /\ accepted' = Append(accepted, f.nonce)
              /\ UNCHANGED <<open, verdict>>
    /\ UNCHANGED <<nonce, sent, replays, link>>

-----------------------------------------------------------------------------
(* The environment.                                                        *)

\* The transport drops a frame.
Lose(i) ==
    /\ link.lossy
    /\ wire' = [j \in 1..Len(wire)-1 |-> IF j < i THEN wire[j] ELSE wire[j+1]]
    /\ UNCHANGED <<nonce, prev, sent, accepted, open, verdict, replays, link>>

\* An attacker re-injects a frame it captured earlier.
Replay(f) ==
    /\ link.adversary
    /\ replays < MAX_REPLAYS
    /\ wire' = Append(wire, f)
    /\ replays' = replays + 1
    /\ UNCHANGED <<nonce, prev, sent, accepted, open, verdict, link>>

\* Frames proto_read can return next: the head, or any when reordering.
Deliverable == IF link.reorder THEN DOMAIN wire ELSE {i \in DOMAIN wire : i = 1}

Next ==
    \/ \E l \in 1..DEV_READ_MAX : EncryptBuf(l)
    \/ \E i \in Deliverable : DecryptBuf(i)
    \/ \E i \in DOMAIN wire : Lose(i)
    \/ \E f \in sent : Replay(f)

Spec == Init /\ [][Next]_vars

-----------------------------------------------------------------------------
(* Properties.                                                             *)

TypeOK ==
    /\ nonce \in Nonces /\ prev \in Nonces
    /\ wire \in Seq(Frames) /\ sent \subseteq Frames
    /\ accepted \in Seq(Nonces) /\ open \in BOOLEAN
    /\ verdict \in {"none", "length", "stale"}
    /\ replays \in 0..MAX_REPLAYS /\ link \in LINKS

\* On a link without attacker or reordering, once the receiver has
\* accepted one frame, the in-order stream of frames encrypt_buf produces
\* (some perhaps lost) never makes decrypt_buf fail: the byte-wise test in
\* is_lower_or_equal must agree with the carries of sodium_increment.
SessionSurvivesOnceSynced ==
    ~link.adversary /\ ~link.reorder /\ Len(accepted) > 0 => open

\* Spec 4.4 and 8: the nonces decrypt_buf accepts are strictly increasing,
\* so a captured frame delivered again is rejected.
AcceptedNoncesIncrease ==
    \A i, j \in DOMAIN accepted :
        i < j => NonceValue(accepted[i]) < NonceValue(accepted[j])

\* Spec 8, scenario 4 (in its simplest form): a frame delivered again right
\* after it was accepted is rejected by decrypt_buf, however the attacker
\* interleaves its copies with the sender's frames.
ImmediateReplayRejected ==
    \A i \in 1..Len(accepted) - 1 : accepted[i] # accepted[i + 1]

=============================================================================
