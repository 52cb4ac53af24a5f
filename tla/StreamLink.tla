----------------------------- MODULE StreamLink -----------------------------
(***************************************************************************)
(* One direction of a session, from the sending lfd_linker's device    *)
(* read to the receiving lfd_linker's device write, at the level of frame  *)
(* lengths.                                                                *)
(*                                                                         *)
(* The sender reads a packet from its device (pipe_read/pty_read, at most  *)
(* VTUN_FRAME_SIZE bytes), runs it down the stack (comp_lzo, encrypt_buf)  *)
(* and writes it with tcp_write (a 2-byte big-endian header and the body) *)
(* or udp_write (one datagram).  The receiver reads it with tcp_read       *)
(* (draining an oversized frame in chunks) or udp_read (connecting to the  *)
(* first sender when late connect is on), dispatches the header's flags as lfd_linker does and runs the  *)
(* body up the stack (decrypt_buf, decomp_lzo) to its device.              *)
(*                                                                         *)
(* A TCP byte stream is a sequence of chunks: a header (2 bytes, its word)   *)
(* or the body of a frame (a byte count and the packet it carries).        *)
(* Reads consume bytes, not chunks, so a reader that loses count reads     *)
(* payload bytes as a header.  Payloads are abstract: a decoder returns    *)
(* the packet its frame carries.  A datagram network holds whole           *)
(* datagrams in order and may lose any of them.                            *)
(***************************************************************************)
EXTENDS Naturals, Sequences, SequencesExt

CONSTANTS
    PROFILES,      \* the module sets the negotiated flags may select
    DEV_LENS,      \* lengths a device read may return
    MAX_PACKETS,   \* packets the sender reads from its device
    NET_CAN_FAIL,  \* whether the connection may break, or writes and datagrams fail
    TRANSPORTS,    \* the transports a session may use: "tcp", "udp"
    LATE_CONNECT   \* whether the receiver's UDP socket waits for the first datagram

Lzo     == "lzo"
Encrypt == "encrypt"

ASSUME PROFILES \subseteq SUBSET {Lzo, Encrypt}
ASSUME MAX_PACKETS \in Nat /\ NET_CAN_FAIL \in BOOLEAN /\ LATE_CONNECT \in BOOLEAN
ASSUME TRANSPORTS \subseteq {"tcp", "udp"}

(***************************************************************************)
(* vtun.h's frame constants and the header's flag codes.                   *)
(***************************************************************************)
VTUN_FRAME_SIZE     == 2048
VTUN_FRAME_OVERHEAD == 100
VTUN_FSIZE_MASK     == 4095      \* 0x0fff
VTUN_CONN_CLOSE     == 4096      \* 0x1000
VTUN_ECHO_REQ       == 8192      \* 0x2000
VTUN_ECHO_REP       == 16384     \* 0x4000
VTUN_BAD_FRAME      == 32768     \* 0x8000

ASSUME DEV_LENS \subseteq 1..VTUN_FRAME_SIZE

\* x & VTUN_FSIZE_MASK and x & ~VTUN_FSIZE_MASK of a 16-bit word.
LenBits(w)  == w % (VTUN_FSIZE_MASK + 1)
FlagBits(w) == w - LenBits(w)

\* libsodium's AES-GCM tag and nonce sizes, and encrypt_buf's bounds.
crypto_aead_ABYTES    == 16
crypto_aead_NPUBBYTES == 12
MESSAGE_MAX_SIZE      == VTUN_FRAME_SIZE
CIPHERTEXT_ABYTES     == crypto_aead_ABYTES + crypto_aead_NPUBBYTES
CIPHERTEXT_MAX_SIZE   == MESSAGE_MAX_SIZE

\* Sizes lzo1x_1_15_compress may return for n bytes: the extremes, a run of
\* equal bytes and incompressible data (LZO's bound n + n/16 + 64 + 3).
LzoOut(n) == {3 + n \div 64, n + n \div 16 + 64 + 3}

VARIABLES
    prof,       \* the modules of this session, fixed
    proto,      \* its transport, fixed
    connected,  \* the receiver's is_rmt_fd_connected
    stream,     \* what was written and not yet read: chunks or datagrams
    spc,        \* the sender: "run" in lfd_linker, "done" after it
    wlen,       \* history: wlen[p] is the length tcp_write was given for packet p
    rpc,        \* the receiver: "hdr" in tcp_read, "drain", "done"
    left,       \* flen still to drain
    cur,        \* the packet whose body is being drained
    delivered,  \* the packets the receiver wrote to its device, in order
    bad,        \* packets the receiver reported as VTUN_BAD_FRAME
    rejected,   \* packets a decoder of the receiver refused (-1)
    net,        \* "up" or "broken"
    desync      \* the receiver read payload bytes as a header

vars == <<prof, proto, connected, stream, spc, wlen, rpc, left, cur, delivered, bad, rejected,
          net, desync>>

Chunk == [kind : {"hdr", "body", "dgram"}, size : Nat, word : Nat, pkt : Nat]

(***************************************************************************)
(* The byte stream.                                                        *)
(***************************************************************************)
\* The two bytes htons(w) puts on the wire, recombined by ntohs.
Header(w) == [kind |-> "hdr", size |-> 2, pkt |-> 0,
              word |-> ((w % 65536) \div 256) * 256 + ((w % 65536) % 256)]
Body(k, p) == [kind |-> "body", size |-> k, word |-> 0, pkt |-> p]

Available(s) == FoldLeft(LAMBDA acc, c : acc + c.size, 0, s)

\* s without its first k bytes; a chunk read in part keeps its rest as
\* payload bytes.
RECURSIVE TakeBytes(_, _)
TakeBytes(s, k) ==
    IF k = 0 \/ s = <<>> THEN s
    ELSE IF Head(s).size <= k THEN TakeBytes(Tail(s), k - Head(s).size)
    ELSE <<[Head(s) EXCEPT !.size = @ - k, !.kind = "body"]>> \o Tail(s)

\* The other end has closed or the connection is gone: read returns 0.
AtEof == spc = "done" \/ net = "broken"

\* tcp_write: the header word htons(len) and len & VTUN_FSIZE_MASK bytes.
TcpWrite(s, len, p) ==
    s \o <<Header(len)>> \o
        (IF LenBits(len) > 0 THEN <<Body(LenBits(len), p)>> ELSE <<>>)

\* udp_write: one datagram of the header and len & VTUN_FSIZE_MASK bytes.
UdpWrite(s, len, p) ==
    Append(s, [Header(len) EXCEPT !.kind = "dgram", !.size = 2 + LenBits(len),
                                  !.pkt = p])

\* proto_write: tunnel() sets it to the session's transport.
ProtoWrite(s, len, p) ==
    IF proto = "tcp" THEN TcpWrite(s, len, p) ELSE UdpWrite(s, len, p)

\* What a write gives: write_n fails on a broken connection; udp_write
\* returns 0 on ENOBUFS (the datagram is dropped) and -1 on other errors.
WriteResults ==
    IF proto = "tcp" THEN {IF net = "up" THEN "ok" ELSE "error"}
    ELSE {"ok"} \cup (IF NET_CAN_FAIL THEN {"enobufs", "error"} ELSE {})

\* The stream after lfd_linker's proto_write(fd1, buf, VTUN_CONN_CLOSE).
CloseWrites(s) ==
    {IF r = "ok" THEN ProtoWrite(s, VTUN_CONN_CLOSE, 0) ELSE s : r \in WriteResults}

(***************************************************************************)
(* The sender's stack (lfd_run_down): the length out of each encoder, or   *)
(* -1.                                                                     *)
(***************************************************************************)
EncryptLen(len) ==
    IF len > MESSAGE_MAX_SIZE THEN -1 ELSE len + CIPHERTEXT_ABYTES

RunDownLens(f, n) ==
    LET afterLzo == IF Lzo \in f THEN LzoOut(n) ELSE {n}
    IN  IF Encrypt \in f THEN {EncryptLen(z) : z \in afterLzo} ELSE afterLzo

\* lfd_run_up over a frame of len bytes: -1 or the packet's length.
DecryptOk(len) == len >= CIPHERTEXT_ABYTES /\ len <= CIPHERTEXT_MAX_SIZE
RunUpOk(f, len) == Encrypt \in f => DecryptOk(len)

(***************************************************************************)
(* The sender.                                                             *)
(***************************************************************************)
Init ==
    /\ prof \in PROFILES
    /\ proto \in TRANSPORTS
    /\ connected \in IF proto = "udp" /\ LATE_CONNECT THEN {FALSE} ELSE {TRUE}
    /\ stream = IF proto = "tcp"                   \* lfd_linker's first frame
                THEN TcpWrite(<<>>, VTUN_ECHO_REQ, 0)
                ELSE UdpWrite(<<>>, VTUN_ECHO_REQ, 0)
    /\ spc = "run"
    /\ wlen = <<>>
    /\ rpc = "hdr"
    /\ left = 0
    /\ cur = 0
    /\ delivered = <<>>
    /\ bad = {}
    /\ rejected = {}
    /\ net = "up"
    /\ desync = FALSE

\* The device branch of lfd_linker: dev_read, lfd_run_down, proto_write.
\* A -1 from the stack or the write ends the loop, which then sends
\* VTUN_CONN_CLOSE; a write that returns 0 drops the packet.
DevToNet ==
    /\ spc = "run"
    /\ Len(wlen) < MAX_PACKETS
    /\ \E n \in DEV_LENS : \E len \in RunDownLens(prof, n) : \E r \in WriteResults :
          LET p == Len(wlen) + 1 IN
          /\ wlen' = Append(wlen, len)
          /\ CASE len = -1 \/ r = "error" ->
                    /\ spc' = "done" /\ stream' \in CloseWrites(stream)
               [] r = "enobufs" -> UNCHANGED <<spc, stream>>
               [] OTHER -> /\ stream' = ProtoWrite(stream, len, p)
                           /\ UNCHANGED spc
    /\ UNCHANGED <<prof, proto, connected, rpc, left, cur, delivered, bad, rejected, net, desync>>

\* The loop ends on a signal, the device's end or the keep-alive timeout;
\* lfd_linker sends VTUN_CONN_CLOSE and linkfd's caller closes the socket.
SenderStops ==
    /\ spc = "run"
    /\ spc' = "done"
    /\ stream' \in CloseWrites(stream)
    /\ UNCHANGED <<prof, proto, connected, wlen, rpc, left, cur, delivered, bad, rejected,
                   net, desync>>

\* The stream cut after its i-th chunk, or in the middle of it.
Cuts(s) ==
    {SubSeq(s, 1, i) : i \in 0..Len(s)} \cup
    {SubSeq(s, 1, i - 1) \o <<[s[i] EXCEPT !.size = @ \div 2, !.kind = "body"]>> :
        i \in {j \in DOMAIN s : s[j].size > 1}}

\* The connection breaks: the bytes in flight from some point on are lost.
NetBreaks ==
    /\ proto = "tcp"
    /\ NET_CAN_FAIL
    /\ net = "up"
    /\ net' = "broken"
    /\ stream' \in Cuts(stream)
    /\ UNCHANGED <<prof, proto, connected, spc, wlen, rpc, left, cur, delivered, bad, rejected,
                   desync>>

(***************************************************************************)
(* The receiver: tcp_read and the network branch of lfd_linker.            *)
(***************************************************************************)
\* Variant: >= where tcp_read has >.
OversizedFromMax(flen) == flen >= VTUN_FRAME_SIZE + VTUN_FRAME_OVERHEAD

\* tcp_read's test for a frame to drain.
Oversized(flen) == flen > VTUN_FRAME_SIZE + VTUN_FRAME_OVERHEAD

\* Variant: the drain reads one chunk, as if `while` were `if`.
DrainOverAfterOne(l, k) == TRUE

\* The drain loop ends when flen reaches 0.
DrainOver(l, k) == l - k = 0

\* Variant: the loop goes on (continue where lfd_linker has break).
BreakContinues == UNCHANGED rpc

\* The loop breaks: lfd_linker leaves with the session over.
Break == rpc' = "done"

\* What lfd_linker does with a header's flags (fl = len & ~VTUN_FSIZE_MASK):
\* BAD_FRAME and ECHO_REP continue, ECHO_REQ is answered (a failed reply
\* breaks), CONN_CLOSE breaks.  Any other combination falls through to
\* lfd_run_up on a buffer whose body tcp_read did not read: its -1 breaks,
\* anything else goes to dev_write and the loop continues.
DispatchFlags(fl) ==
    CASE fl = VTUN_CONN_CLOSE -> Break
      [] fl = VTUN_ECHO_REQ ->
            \E r \in WriteResults : IF r = "error" THEN Break ELSE UNCHANGED rpc
      [] fl \in {VTUN_BAD_FRAME, VTUN_ECHO_REP} -> UNCHANGED rpc
      [] OTHER -> Break \/ UNCHANGED rpc

\* tcp_read reads the 2-byte header: read_n returns 0 at the end of the
\* stream, and lfd_linker breaks on a length <= 0.
RecvHeader ==
    /\ proto = "tcp"
    /\ rpc = "hdr"
    /\ Available(stream) >= 2 \/ AtEof
    /\ IF Available(stream) < 2
       THEN /\ Break /\ stream' = <<>>
            /\ UNCHANGED <<left, cur, delivered, rejected, desync>>
       ELSE IF Head(stream).kind # "hdr"
       THEN \* two payload bytes taken for a header
            /\ desync' = TRUE /\ Break /\ stream' = TakeBytes(stream, 2)
            /\ UNCHANGED <<left, cur, delivered, rejected>>
       ELSE LET w    == Head(stream).word
                flen == LenBits(w)
                rest == Tail(stream)
            IN  CASE Oversized(flen) ->
                       /\ rpc' = "drain" /\ left' = flen /\ stream' = rest
                       /\ cur' = IF rest # <<>> THEN Head(rest).pkt ELSE 0
                       /\ UNCHANGED <<delivered, rejected, desync>>
                  [] FlagBits(w) # 0 ->
                       /\ DispatchFlags(FlagBits(w)) /\ stream' = rest
                       /\ UNCHANGED <<left, cur, delivered, rejected, desync>>
                  [] Available(rest) < flen ->
                       \* read_n of the body meets the end of the stream
                       /\ AtEof /\ Break /\ stream' = <<>>
                       /\ UNCHANGED <<left, cur, delivered, rejected, desync>>
                  [] OTHER ->
                       \* read_n(fd, buf, flen), then lfd_run_up and dev_write
                       LET b == Head(rest) IN
                       /\ stream' = TakeBytes(rest, flen)
                       /\ UNCHANGED <<left, cur>>
                       /\ IF b.kind # "body" \/ b.size # flen
                          THEN /\ desync' = TRUE /\ Break
                               /\ UNCHANGED <<delivered, rejected>>
                          ELSE /\ UNCHANGED desync
                               /\ IF RunUpOk(prof, flen)
                                  THEN /\ delivered' = Append(delivered, b.pkt)
                                       /\ UNCHANGED <<rpc, rejected>>
                                  ELSE /\ rejected' = rejected \cup {b.pkt}
                                       /\ Break /\ UNCHANGED delivered
    /\ UNCHANGED <<prof, proto, connected, spc, wlen, bad, net>>

\* One pass of the drain loop: read_n of min(flen, VTUN_FRAME_SIZE) bytes.
\* When flen reaches 0, or read_n returns 0 at the end of the stream,
\* tcp_read returns VTUN_BAD_FRAME and lfd_linker logs it and continues.
RecvDrain ==
    /\ rpc = "drain"
    /\ LET k == IF left < VTUN_FRAME_SIZE THEN left ELSE VTUN_FRAME_SIZE IN
       \/ /\ Available(stream) >= k
          /\ stream' = TakeBytes(stream, k)
          /\ IF DrainOver(left, k)
             THEN /\ rpc' = "hdr" /\ left' = 0 /\ bad' = bad \cup {cur}
             ELSE /\ left' = left - k /\ UNCHANGED <<rpc, bad>>
       \/ /\ Available(stream) < k /\ AtEof
          /\ stream' = <<>>
          /\ rpc' = "hdr" /\ left' = 0 /\ bad' = bad \cup {cur}
    /\ UNCHANGED <<prof, proto, connected, spc, wlen, cur, delivered, rejected, net, desync>>

\* The datagram network loses a datagram.
DatagramLost ==
    /\ proto = "udp"
    /\ NET_CAN_FAIL
    /\ \E i \in DOMAIN stream : stream' = RemoveAt(stream, i)
    /\ UNCHANGED <<prof, proto, connected, spc, wlen, rpc, left, cur, delivered,
                   bad, rejected, net, desync>>

\* udp_read: on an unconnected socket, recvfrom(MSG_PEEK) names the sender
\* and connect() binds the socket to it; then one readv of the header and
\* at most VTUN_FRAME_SIZE + VTUN_FRAME_OVERHEAD bytes.  A datagram whose
\* body is not the header's length is VTUN_BAD_FRAME.
RecvDatagram ==
    /\ proto = "udp"
    /\ rpc = "hdr"
    /\ stream # <<>>
    /\ connected' = TRUE
    /\ stream' = Tail(stream)
    /\ LET d    == Head(stream)
           rlen == Min({d.size, 2 + VTUN_FRAME_SIZE + VTUN_FRAME_OVERHEAD})
           flen == LenBits(d.word)
       IN  CASE rlen < 2 \/ rlen - 2 # flen ->
                  /\ bad' = bad \cup {d.pkt}
                  /\ UNCHANGED <<rpc, delivered, rejected>>
             [] FlagBits(d.word) # 0 ->
                  /\ DispatchFlags(FlagBits(d.word))
                  /\ UNCHANGED <<bad, delivered, rejected>>
             [] RunUpOk(prof, flen) ->
                  /\ delivered' = Append(delivered, d.pkt)
                  /\ UNCHANGED <<rpc, bad, rejected>>
             [] OTHER ->
                  /\ rejected' = rejected \cup {d.pkt} /\ Break
                  /\ UNCHANGED <<bad, delivered>>
    /\ UNCHANGED <<prof, proto, spc, wlen, left, cur, net, desync>>

\* The late connect's recvfrom or connect fails: udp_read returns -1.
LateConnectFails ==
    /\ proto = "udp"
    /\ NET_CAN_FAIL
    /\ rpc = "hdr"
    /\ ~connected
    /\ stream # <<>>
    /\ Break
    /\ UNCHANGED <<prof, proto, connected, stream, spc, wlen, left, cur,
                   delivered, bad, rejected, net, desync>>

Next ==
    \/ DevToNet
    \/ SenderStops
    \/ NetBreaks
    \/ RecvHeader
    \/ RecvDrain
    \/ DatagramLost
    \/ RecvDatagram
    \/ LateConnectFails

Spec == Init /\ [][Next]_vars

\* lfd_linker's select() waits on the socket with the keep-alive timeout
\* and reads it whenever it is readable (data or the end of the stream):
\* a read the receiver can make is eventually made.
Receive == RecvHeader \/ RecvDrain \/ RecvDatagram \/ LateConnectFails

FairSpec == Spec /\ WF_vars(Receive)

(***************************************************************************)
(* Properties.                                                             *)
(***************************************************************************)
TypeOK ==
    /\ stream \in Seq(Chunk)
    /\ rpc \in {"hdr", "drain", "done"}
    /\ spc \in {"run", "done"}

\* tcp_read stays in step with tcp_write: every header the receiver reads
\* is a header the sender wrote, also after an oversized frame was drained
\* and after a header's flags were handled without reading a body.
StreamInSync == ~desync

\* The receiver reports VTUN_BAD_FRAME exactly for the frames longer than
\* VTUN_FRAME_SIZE + VTUN_FRAME_OVERHEAD: every frame it reported bad was
\* written that long by the sender, and none it passed up the stack was.
BadFramesOversized ==
    /\ \A p \in bad \ {0} : LenBits(wlen[p]) > VTUN_FRAME_SIZE + VTUN_FRAME_OVERHEAD
    /\ \A p \in ToSet(delivered) \cup rejected :
          LenBits(wlen[p]) <= VTUN_FRAME_SIZE + VTUN_FRAME_OVERHEAD

\* A frame of packet p is on the wire.
OnWire(p) == \E i \in DOMAIN stream : stream[i].pkt = p

\* What the receiver made of packet p: written to its device, reported as
\* VTUN_BAD_FRAME, or refused by lfd_run_up.
Consumed(p) == p \in ToSet(delivered) \cup bad \cup rejected

\* On a TCP connection, every frame tcp_write put on the wire is eventually
\* consumed by tcp_read, through a body read or the drain, or the
\* receiver's loop ends (at the end of the stream after a break, or on a
\* rejected frame): the drain and the end-of-stream exits never leave the
\* receiver waiting with a frame unread.
FramesConsumed ==
    \A p \in 1..MAX_PACKETS :
        (proto = "tcp" /\ OnWire(p)) ~> (Consumed(p) \/ rpc = "done")

\* Every packet the sender read from its device reaches the receiver's
\* device: none is refused by the sender's stack, drained as a bad frame or
\* refused by the receiver's stack (spec 3: no transform produces more than
\* MAX_FRAME + MAX_OVERHEAD bytes, and ingress reverses egress).
Lost == {p \in DOMAIN wlen : wlen[p] = -1} \cup bad \cup rejected

PacketsDelivered == Lost \subseteq {0}

=============================================================================
