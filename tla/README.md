# TLA+ models of vtun

This directory holds TLA+ models of the vtun sources under `src/`. Each model
is checked with TLC. `PROJECT.json` lists:

- the components and their status,
- every TLC run and what it is expected to give,
- the mutants that show each checked property can fail,
- the source lines each definition models,
- the findings,
- the hazards of the code.

Run a check with `tlc -workers 2 -config <cfg> <MC module>`, for example
`tlc -config ClientLoop_sessions.cfg MCClientLoop`.

## The system and how its parts interact

A vtun client connects to a server over TCP. The session then goes through
these stages:

1. **Handshake** (`auth.c`). Four text lines: `CKEY`, `SKEY`, `CACK`,
   `FLAGS`, after the server's banner. They authenticate both ends with a
   key `Ak` derived from the passphrase, and derive a session key by
   Diffie-Hellman. The server's feature flags travel as a string rendered
   by `bf2cf` and parsed by `cf2bf`. Each accepted connection is served by
   its own `auth_server` process. The host lock (`lock_host`) allows one
   session per host.
2. **Tunnel setup** (`tunnel.c`). Opens the local device (tun, tap, pty or
   pipe) unless persist = keep left it open. Chooses the framing
   (`tcp_proto.c` or `udp_proto.c`) and forks the child that runs the
   up-commands. Then calls `linkfd`. Afterwards it runs the down-commands
   and destroys the interface unless persist = keep.
3. **Link engine** (`linkfd.c`). `linkfd` builds the transform stack:
   - `lfd_lzo.c` (LZO),
   - `lfd_encrypt.c` (AES-GCM) or `lfd_legacy_encrypt.c` (Blowfish),
   - the shaper.

   It installs the `sig_term`, `sig_hup` and `sig_alarm` handlers and runs
   `lfd_linker`, a `select()` loop over the network and device
   descriptors. The loop also handles the in-band control frames and
   keep-alive. It ends on a signal, an error, the peer's close, or a
   keep-alive timeout. On `VTUN_SIG_TERM` it clears `persist`. `linkfd`
   returns `linker_term`.
4. **Client supervisor** (`client.c`). Loops on `client_term`. Each
   iteration resolves, binds, connects, authenticates and calls `tunnel`.
   It stores `tunnel`'s result in `client_term`, then sleeps and
   reconnects or exits, according to persist.

The process is single-threaded. Its concurrency is signals: handlers run
between any two statements of the loop. The peer, the network (and an
attacker on it) and the operator are the other actors.

## Modules

| Module | Models | Checked through |
|---|---|---|
| `AeadReplay` | `lfd_encrypt.c`: nonces and replay test, one direction | `MCAeadReplay` |
| `LinkEngine` | `linkfd.c`: `linkfd`, `lfd_linker`, the handlers | `MCLinkEngine` |
| `LinkAbstract` | what `linkfd` promises its caller | `LinkEngine` (refinement), `ClientLoop` (composition) |
| `ClientLoop` | `client.c`'s `client()` and `tunnel.c`'s `tunnel()` | `MCClientLoop` |
| `Handshake` | `auth.c`: `auth_server`, `auth_client`, `bf2cf`, `cf2bf` | `MCHandshake` |
| `StreamLink` | one direction of a session on the wire: `tcp_proto.c`, `udp_proto.c`, the frame lengths out of `lfd_lzo.c` and `lfd_encrypt.c`, and `lfd_linker`'s flag dispatch | `MCStreamLink` |
| `TransformStack` | `linkfd.c`'s module list across the sessions of one process, with `lfd_lzo.c` and the allocation of `lfd_legacy_encrypt.c` | `MCTransformStack` |

### `AeadReplay`: one direction of the AES-GCM transform

**State:**
- the sender's `ctx.nonce`;
- the receiver's `previous_decrypted_nonce` (`prev`);
- the frames in flight (`wire`);
- the transport of the session (`link`, fixed at Init);
- history: the frames sent, the nonces accepted, why a frame was last
  rejected.

Nonces are scaled down to `NONCE_BYTES` bytes of base `BYTE`. They keep
the byte order that `sodium_increment` uses: byte 0 is the least
significant.

**Actions:**
- `EncryptBuf` is `encrypt_buf`: it appends a frame and runs the
  `sodium_increment` carry (`Increment`).
- `DecryptBuf` is `decrypt_buf`: the length guard, then
  `is_lower_or_equal` against the mark, then the mark update. A -1 makes
  `lfd_linker` break, which closes the session (`open`).

**Environment:** a transport that may lose (`lossy`) or reorder
(`reorder`) frames, and an attacker that re-injects captured frames
(`adversary`). These are the fields of the `LINKS` records.

**Initial states:**
- The first nonce is any value, because `init_nonce` uses time and random
  bytes.
- The mark is the garbage byte that `sodium_malloc` leaves (`GARBAGE`).

**Abstraction:** the cipher is abstracted. Only frames the sender produced
can authenticate, so a frame is its nonce and its length.

### `LinkEngine`: `linkfd()` and `lfd_linker()`

`pc` follows the loop at the points where a signal handler can change what
the loop reads next:

| `pc` | Meaning |
|---|---|
| `setup` | handlers installed, `linker_term = 0` not yet run |
| `top` | the `while` test (`LoopTest`) |
| `select` | blocked in `select()` |
| `ka` | the keep-alive block |
| `ka_clear` | the `ka_need_verify = 0` store |
| `remote` | the network branch, every frame flag |
| `local` | the device branch |
| `closing` | after the loop: close notification, `persist` cleared on TERM |
| `cleanup` | `linkfd`'s teardown, handlers still installed |
| `done` | `linkfd` has returned |

**Signal handlers:** `SigTerm` is `sig_term` and `sig_hup`. `SigAlarm` is
the keep-alive part of `sig_alarm`. A handler that runs while the loop is
in `select()` makes `select()` return `EINTR`.

**Start and `select()` failures:** `LinkerStart` is the top of
`lfd_linker`. If `lfd_alloc` of the buffer fails (`ALLOC_CAN_FAIL`),
`lfd_linker` returns 0 at once, and `pc` goes straight to `cleanup`. On
that path nothing clears `linker_term`, the persist test is skipped, and
no `CONN_CLOSE` is sent. Otherwise the first ECHO_REQ goes out unless
the NAT hack delays it (`NAT_HACK`). `select()` may fail with an errno
other than `EINTR` (`SELECT_CAN_FAIL`), and the loop then breaks. The
`send_a_packet` block (`linkfd.c:274`) is left out: nothing in this tree
sets `send_a_packet`.

**Environment:**
- the peer sends frames of each kind: data, garbled data, ECHO_REQ,
  ECHO_REP, CONN_CLOSE, bad frame, end of stream;
- the connection may break;
- the device produces packets or reaches end of file.

**Statics:** `linker_term` and `ka_need_verify` start with the values an
earlier session of the same process may have left.

**Timing assumption:** `sig_alarm` re-arms the keep-alive countdown at
`ka_interval + 1` seconds, and `select()` waits at most `ka_interval`. So
`select()` returns normally between two keep-alive expiries
(`alarmPending`).

**History variables:** `sinceRx` counts expiries since the network was
last read. `termSeen` records that a SIGTERM arrived.

**Refinement.** `Phase` maps `pc` onto `LinkAbstract`'s phases:
- `setup` is `setup`, and the failed allocation's jump to `cleanup` is
  `Abort`;
- the loop and `closing` are `run`;
- `cleanup` is `closed`;
- `done` is `done`.

`persist` maps to 1 or 0. `LinkRefines` is `LinkAbstract`'s `Spec`,
fairness included, under that mapping.

### `LinkAbstract`: what `linkfd` promises

**State:** `phase` (setup, run, closed, done), `linker_term` and
`persist`.

**Actions:**
- `Start` clears the flag.
- `Abort` goes from setup to closed when the loop cannot start. It leaves
  the flag and persist as they are, so `linkfd` returns a request from
  an earlier session, or one caught during setup.
- `Signal` records a signal in any phase before `done`.
- `Close` ends the run and clears persist exactly on `VTUN_SIG_TERM`.
- `Return` returns `linker_term`.

**Fairness:** setup, teardown and return always happen, and a run whose
flag is set ends. `LinkEngine`'s `TermEndsLoop` and `LinkRefines` check
that `linkfd` gives this. `ClientLoop` then uses `LinkAbstract` in place
of the loop's 10^7 states.

### `ClientLoop`: the client process

`cpc` is where `client()` or `tunnel()` is:
- `test` and `body`: the loop test and the reconnect/persist decision;
- `sleep`;
- `addr`: address, socket, bind; a failure is a `continue`, which skips
  `close(s)`;
- `connect` and `auth`;
- `tunnel`: device, `udp_session`, fork;
- `linkfd`, with `LinkAbstract`'s phase as `lfPhase`;
- `down`: teardown, `client_term = tunnel(host)`;
- `close`;
- `exit`.

`persistConf` holds the settings the process was started with (`-p` and
the host's persist). Init chooses them from `CLI_PERSIST` and
`HOST_PERSIST`. Failures of the environment are the members of `FAILURES`
that may happen.

**Signals:**
- `ClientSigTerm` is `client.c`'s handler, installed except while
  `linkfd`'s handlers are. SIGHUP is `SIG_IGN` outside `linkfd`.
- `LinkSignal` is `linkfd`'s handlers, through `LinkAbstract`'s `Signal`.

`linkfd` itself is `LinkStart`, `LinkAbort` (with the `alloc` failure),
`LinkClose` and `LinkReturn`, which are `LinkAbstract`'s steps.

**History variables:** `termSent` and `opens` (devices allocated).

### `Handshake`: authentication and flag negotiation

**Processes:** the server processes `SERVERS` (each with `sstage` and the
`scpk` it accepted) and one client making `ATTEMPTS` calls of
`auth_client`.

**Cryptography is symbolic:**
- A public key is `<<"C", attempt>>`, `<<"S", server>>` or the attacker's.
- A line records the key it is hashed under (`mac`) and what its hash
  binds (`bind`).
- The attacker knows every line sent (`msgs`) and its own key `Ax`.

The attacker delivers any line it has seen to any reader, and forges lines
hashed under `Ax` over the public keys it has seen (`Forged`). Delivery is
its choice; a read that returns nothing is a `Timeout`.

**Actions** are one `readn_t` line each:
- `ServerCkey`, `ServerCack` and `ServerTimeout`: every failure prints
  `ERR`.
- `ClientDeriveKey` is `derive_key` at the start of `auth_client`. The
  client host's `akey` starts as `NoAkey` (NULL). A set `akey` makes
  `derive_key` return 0 at once. Otherwise `sodium_malloc` may fail
  (-1, `akey` stays NULL), or scrypt derives `Ak`, or scrypt fails (-1)
  and leaves the allocation's bytes (`Garbage`) in `akey`. The client
  hashes its lines under `akey`, and checks the server's under it.
- A forked server process derives its key afresh in `ServerCkey`
  (`DeriveResults`). A -1 breaks out of the loop, like a bad CKEY.
  `DERIVE_CAN_FAIL` says whether scrypt may fail.
- `ClientBanner`, `ClientSkey`, `ClientFlags` and `ClientTimeout`.
  `ClientFlags` runs `cf2bf` before it checks `flhash`, as the code does.
- `NewAttempt` is the next iteration of `client()`, which clears the
  flags the server supplies.

**Flag strings:** `Render` is `bf2cf` and `Parse` is `cf2bf`. They work on
token sequences: a character plus the number `strtol` reads after it.
`Parse` keeps the length test, `strchr('<')`, the per-character loop with
its partial writes, and the `== ERANGE` and `ptr == p` tests.
`Intended` is the reference they are checked against: the flags, zlevel,
cipher and speed a host profile asks the client to run with.
`Variations(h)` is the host `h` with every choice of features and every
choice of numbers from `CHECKED_NUMS`.

### `TransformStack`: the module list across sessions

`linkfd` keeps the transform stack in the globals `lfd_mod_head` and
`lfd_mod_tail`, linked through the `next` and `prev` fields of the
static `struct lfd_mod` of each module. A client calls `linkfd` once per
session, so the list and those fields outlive a session.

**State:** `stack` is the record `[head, tail, next, prev]`; `flags` is
the module set of the current session. `client()` takes each session's
flags from the server's FLAGS line (`auth.c:451`), so every `linkfd`
call chooses its set afresh from `PROFILES`; `pc` is `idle` between
`linkfd` calls, `run` in `lfd_linker`, `hung` or `crashed`. `ingress`
holds the peer's frames in flight, `egress` the frames sent this
session, and `lastIn` what `lfd_run_up` made of the last frame read.

**Actions:**
- `LinkfdAlloc(f)`, `LinkfdAllocFails(f, k)` and `LinkfdAllocCrashes(f, k)` are
  one `linkfd` call each: `BuildStack` (the `lfd_add_mod` calls for the
  flags, in linkfd's order) and `lfd_alloc_mod` from the head. The
  allocation succeeds; or the `k`-th module's alloc fails and `linkfd`
  returns 0 without `lfd_free_mod`; or `alloc_legacy_encrypt` runs
  `strlen` on the passphrase that `derive_key` (`auth.c:76`) has already
  freed, and the process dies.
- `DevPacket` is the device branch: `lfd_run_down` then the write.
- `PeerSend` is the peer, whose stack is correct for the same flags.
- `NetFrameDeliver`, `NetFrameFails` and `NetFrameSpins` are the network
  branch: `lfd_run_up` gives a positive length (the device gets it), 0
  (the frame is dropped), -1
  (the loop breaks, `linkfd` frees the stack and returns), or never
  returns.
- `LinkClose` is every other end of the link, with `lfd_free_mod`.

**Abstraction:** frames are symbolic. A frame is a packet number and the
layers the encoders put on it. A decoder takes off its own outer layer.
Given anything else, `decrypt_buf` fails (-1), `decomp_lzo` fails or
returns garbage, and `legacy_decrypt_buf` returns garbage or 0 (bad pad
length). A module the stale list still links in can decode a frame even
though it was not allocated in this session. `leaked` records that a
`linkfd` call returned without `lfd_free_mod`. Lengths are abstracted: every encoder returns a
positive length. The walks are `RECURSIVE` operators bounded by `Fuel`,
and running out of fuel means the walk goes round a cycle.

### `StreamLink`: frames on the wire

One sender's `lfd_linker` device branch and one receiver's network
branch, over the transport `tunnel()` chose for the session
(`TRANSPORTS`). The wire (`stream`) is a sequence of chunks: a TCP header
(2 bytes, its word rebuilt from the big-endian bytes), a TCP body of
`size` bytes, or a whole datagram. A chunk keeps the packet it belongs to
(`pkt`), so the model can tell which packet a frame carries, and what
lengths the stack gave it (`wlen`).

**Sender:**
- `DevToNet` reads a packet of a length in `DEV_LENS` from the device
  and runs it down the stack (`RunDownLens`). `comp_lzo` may give its
  best or worst case (`LzoOut`); `encrypt_buf` adds 28 bytes or refuses
  more than `MESSAGE_MAX_SIZE` (`EncryptLen`). A -1 ends the session.
  The frame goes out through `ProtoWrite`: `TcpWrite` or `UdpWrite`.
  `WriteResults` is what the write can give: `write_n` fails on a
  broken TCP connection; `udp_write` returns 0 on `ENOBUFS`, dropping
  the frame, and -1 on another error.
- `SenderStops` is a device close; it writes `VTUN_CONN_CLOSE`
  (`CloseWrites`).

**Receiver:**
- TCP: `RecvHeader` is `tcp_read`: the header (at end of stream it
  returns 0 and the loop breaks), the oversize test (`Oversized`), the
  flag return, the body read. `RecvDrain` is the drain loop, in chunks
  of at most `VTUN_FRAME_SIZE`, with its end-of-stream exit
  (`DrainOver`).
- UDP: `RecvDatagram` is `udp_read`. It first does the late connect if
  the socket is not connected (`connected`), then one `readv` truncated
  at `VTUN_FRAME_SIZE + VTUN_FRAME_OVERHEAD` bytes of body, then the
  length test that gives `VTUN_BAD_FRAME`. `LateConnectFails` is the
  failing `recvfrom` or `connect`.
- `DispatchFlags` is `lfd_linker`'s handling of the returned flags:
  `VTUN_CONN_CLOSE` breaks, `VTUN_ECHO_REQ` is answered (a failed reply
  breaks), and `VTUN_BAD_FRAME` and `VTUN_ECHO_REP` continue. Any other
  combination falls through to `lfd_run_up`, on a buffer whose body was
  not read, which may break or continue. No writer in the model produces
  such a combination. A data frame is delivered if
  `lfd_run_up` accepts it (`RunUpOk`, `decrypt_buf`'s bounds), and
  otherwise the loop breaks.

**Environment:**
- `NetBreaks` cuts a TCP connection at any byte (`Cuts`).
- `DatagramLost` drops any datagram in flight. It is the network, not
  code of this tree.

**History variables:**
- `delivered` is the sequence of packets written to the device.
- `bad` holds the frames reported as `VTUN_BAD_FRAME`.
- `rejected` holds the frames `lfd_run_up` refused.
- `desync` records a `tcp_read` that took body bytes for a header.

## Runs

| run | expect | what it shows |
|---|---|---|
| aead_links | pass | On an in-order lossy link, from every initial nonce, once a frame is accepted no later one of the sender is rejected. On a reordering link with an attacker, the copy of the frame just accepted is always rejected. |
| aead_replay | violation | After byte 0 wraps, a captured frame is accepted twice (finding). |
| linker_keepalive | pass | Across all interleavings of peer frames, alarms, a signal, network failure and device close: the type invariant holds, and there is no timeout before more than `ka_maxfail` silent periods. |
| linker_lost_term | violation | A SIGTERM before `linker_term = 0` is lost (finding). |
| linker_refines | pass | Once the loop runs, a signal always makes `linkfd` return (`TermEndsLoop`). `linkfd` implements `LinkAbstract`, fairness included (`LinkRefines`). The failed buffer allocation (`Abort`), the NAT hack and `select()` errors are enabled. |
| client_sessions | pass | For every persist setting: a persistent client exits only after SIGTERM or a device failure; while persist = keep stands, the interface is opened once; a SIGTERM in the loop ends the client unless a SIGHUP replaces it. |
| handshake_auth | pass | Against the attacker, a completed client shares its key with a completed server process of the same exchange and runs with that server's flags. The lock is taken only for an exchange the real client took part in. Over every variation of the server's host, with numbers 0, 9 and 34, `cf2bf` accepts what `bf2cf` rendered exactly when no number equals `ERANGE`, and then yields the profile's features but for the SHAPE flag of a speed-0 shaper (`FlagsRoundTrip`). |
| handshake_derive | violation | After scrypt failed once in the client's `derive_key`, every later attempt of the reconnect loop finds `host->akey` set, skips the derivation, and hashes its CKEY under `sodium_malloc`'s bytes instead of `Ak` (finding). A persistent client never authenticates again. |
| stack_sessions | pass | Over three `linkfd` calls, each with its own negotiated stack and allocations that may fail: a session whose `linkfd` starts from an emptied list sends only frames carrying exactly its own layers in order, so the peer can decode them, although freed modules keep their old `next`/`prev` links (`FreshStackEncodes`). Without the premise the property fails: after `{lzo}` fails to allocate, an `{encrypt}` session encodes with LZO and then AES-GCM (part of the stack_reverse finding). |
| stack_reverse | violation | After a failed `lfd_alloc_mod`, the next session re-adds modules that are still in the list. Their `prev` links form a cycle, `lfd_run_up` decodes the peer's frame twice, and the session ends on the peer's first frame (finding). |
| stream_sync | pass | Under every stack and both transports, with device reads of 1, 1959 and 2048 bytes, a TCP connection that may break at any byte, and datagrams that may be lost: `tcp_read` stays in step with `tcp_write` through flag frames and the drain (`StreamInSync`). `VTUN_BAD_FRAME` is reported for exactly the frames longer than `VTUN_FRAME_SIZE + VTUN_FRAME_OVERHEAD`, by TCP's drain and by UDP's truncating `readv` alike (`BadFramesOversized`). Under weak fairness of the receiver, every frame on a TCP connection is eventually consumed (delivered, reported bad or rejected), or the receiver's loop ends (`FramesConsumed`). |
| stream_lost | violation | A full 2048-byte device read never reaches the peer's device under any stack that transforms it (finding). With LZO and AES-GCM, `encrypt_buf` refuses the 2243-byte worst case and the sender's session ends. With LZO alone, the peer drains the frame as bad; this case rests on LZO's documented worst-case bound `n + n/16 + 64 + 3`, a conservative size that `lzo1x_1_15_compress` is not known to reach. With AES-GCM alone, the 2076-byte frame fails `decrypt_buf`'s bound and the peer's session ends. |

Each property of a passing run has a mutant in `PROJECT.json`. Each
mutant is a variant of a mapped definition, defined just before it, that a
plausible bug would produce. TLC finds the property violated with it.

## Observations not among the runs

The run list is kept to one run per question. These were seen while
modelling; most are also recorded as hazards:
- **The first frame meets an uninitialised mark.**
  `previous_decrypted_nonce` is allocated with `sodium_malloc`, which
  fills it with `0xdb`, and is never set. A first frame whose nonce
  compares lower or equal to `db db ...` byte by byte is rejected, and
  the session ends. `AeadReplay` starts from any mark (`GARBAGE`) and any
  nonce, and `SessionSurvivesOnceSynced` is stated from the first
  accepted frame on.
- **Retries without sleep after a SIGHUP.** `client()` sleeps before a
  reconnection only when `client_term != VTUN_SIG_HUP`
  (`client.c:78`). After a session ended by SIGHUP, `client_term` stays
  `VTUN_SIG_HUP` while connections keep failing, so a client whose
  server is down retries at once, forever.
- **Keep-alive deadline.** `lfd_linker` tests `idle > ka_maxfail` before
  raising `idle`, and the first silent period sends no probe. So with
  `ka_maxfail = 1` the session ends on the third expiry, not the second.
  `NoPrematureTimeout` covers only the early side.
- **Socket leak.** A failed `bind()` continues the loop without
  `close(s)` (`client.c:117`). `ClientLoop` counts the open sockets.
- **A SIGTERM during tunnel setup is lost.** `client()`'s `sig_term`
  sets `client_term`, but a SIGTERM that arrives during connect,
  authentication or `tunnel()`'s setup is overwritten by
  `client_term = tunnel(host)` (`client.c:143`). The client then
  reconnects although it was told to stop. `ClientLoop` models the
  window (`ClientSigTerm`).
- **`== ERANGE` and `S0` in `cf2bf`.** A speed, level or cipher of 34
  is refused, and the SHAPE flag of a shaper with `spd_in = 0` is
  dropped. `FlagsRoundTrip` states that these are the only two
  disagreements between `bf2cf` and `cf2bf`.
- **A rejected frame ends the session.** `decrypt_buf` returns -1 on a
  replayed or reordered frame, and `lfd_linker` breaks (`linkfd.c:318`).
  Spec 8, scenario 4 says a replay is dropped silently. On UDP, one
  reordered datagram ends the session. `AeadReplay` models the break
  (`open`); no run checks it.
- **Late connect takes the first sender.** With the NAT hack, `udp_read`
  connects the socket to whoever sent the first datagram
  (`udp_proto.c:105`). A stray datagram that arrives first captures the
  session. `StreamLink` has one sender per link.
- **The legacy cipher never runs.** `alloc_legacy_encrypt` hashes
  `host->passwd`, which `derive_key` freed and set to NULL during
  authentication. Every session with the legacy cipher dies in `linkfd`
  (`LinkfdAllocCrashes`). Its decoder can still run, unallocated, when a
  failed `lfd_alloc_mod` leaves it in the list (`Decode`).
- **Modules leak on a failed allocation.** `lfd_alloc_mod` stops at the
  first failing module. The modules before it keep their buffers, and
  `linkfd` never frees them.
- **SIGHUP after SIGTERM.** `linkfd`'s handlers stay installed after the
  loop. A SIGHUP that follows a SIGTERM makes `linkfd` return
  `VTUN_SIG_HUP` with persist already cleared. The client then reconnects
  instead of exiting, with a fresh interface. `TermInLoopExits` and
  `DeviceOpenedOnce` are stated with this exception.

## Bounds

**AeadReplay.** Two nonce bytes of base 4 give 16 nonces. Five frames are
enough for the low byte to wrap, with a carry into byte 1, from any
initial nonce. A frame size of 4 with an overhead of 2 keeps both edges of
the length guard reachable. Two replays let the attacker interleave a copy
before and after a fresh frame.

**LinkEngine.**
- `KA_MAXFAIL = 1` with 3–4 alarms reaches timeout, probe and reset in
  every order.
- Two peer frames, one device packet and one or two signals cover every
  branch of the loop, including a signal at each `pc`.

**ClientLoop.**
- Three connection attempts are enough to fail, reconnect and fail
  again.
- Two signals give TERM-then-HUP and HUP-then-TERM.
- Every failure kind is enabled.

**Handshake.**
- Two server processes and two client attempts are enough for a line of
  one exchange to be replayed into another, and for the lock to be
  contested.
- Two server profiles: one that parses, one that renders `S34`.
- One forged flag string.
- `CHECKED_NUMS = {0, 9, 34}`: a speed of 0, a legal number, and
  `ERANGE`. With the five feature flags this gives 864 variations of
  each server host.
- `Handshake_derive` has one server process and two attempts: the
  fewest in which a failed derivation is followed by a later one.

**StreamLink.**
- Device reads of 1, 1959 and 2048 bytes. With LZO's worst case, 1959
  bytes give exactly 2148 = `VTUN_FRAME_SIZE + VTUN_FRAME_OVERHEAD`, the
  largest frame that passes, and 2048 bytes give more. With AES-GCM,
  2048 bytes give 2076.
- All four stacks and both transports, with a receiver that is not yet
  connected.
- Three packets, so that a frame follows a drained or lost one.
- The TCP stream may break inside a header, a body or a drain.

**TransformStack.** The four profiles cover each module alone and
together, and the legacy cipher; each session picks one. Three sessions
give a failed allocation, a session on the corrupted list (with the same
or another stack), and a session after it has
been freed. Two packets each way let a frame follow a rejected one.
`Fuel` (7) is longer than any acyclic walk of three modules.

**Counters** (frames, replays, alarms, signals, attempts) are capped by
named constants in the guards.

## Fairness

- **`LinkEngine`** assumes weak fairness of the loop's own steps
  (`Linker`). `select()` is called with a timeout of `ka_interval`, and
  nothing else blocks the single thread. So a loop step that stays
  enabled is eventually taken.
- **`ClientLoop`** assumes weak fairness of the client process (`sleep`
  and `connect_t` return), and of `linkfd`'s setup and return
  (`Process`). `linkfd`'s loop is not forced to end: only its end once
  the flag is set is fair, which is what `LinkEngine` shows. A session
  without a signal may run forever.
- **Everything else gets no fairness.** This covers the peer, the
  network, the device, the signals and the attacker. `Handshake` and
  `AeadReplay` check only safety.
- **`StreamLink`** assumes weak fairness of the receiver's reads
  (`Receive`). `lfd_linker` waits in `select()` on the socket and reads
  it whenever it is readable, with data or with the end of the stream.
  The sender, the network and the device get no fairness. `StreamLink`'s cfgs
  turn deadlock checking off: a session that ended, or a sender with
  nothing left to send, is a final state.
- **Deadlock checking.** The handshake, a session and the client's
  bounded attempts all end, and so do `TransformStack`'s sessions (or
  they crash or hang). The cfgs that say `CHECK_DEADLOCK FALSE` are
  for models whose final states are those ends.

## Not modelled, and why

These parts are not in this source tree and enter the models only as
their environment:
- `server.c`, `lib.c`, `lock.c`: `lock_host` is modelled from its use,
  and the lock is never released within a run;
- the configuration parser;
- the shaper, zlib and the tun/tap drivers.

Other parts are left out as well:
- **Statistics:** `sig_usr1` and the statistics half of `sig_alarm`. No
  property reads the counters.
- **LZO's compressor and the devices:** library calls and plain I/O.
  `TransformStack` keeps LZO's allocation and what its encode and
  decode do to a frame.
- **Legacy padding:** `legacy_encrypt_buf` and `legacy_decrypt_buf`.
  No session reaches them (see the observations).
- **`lfd_check_up` and `lfd_check_down`:** only the shaper, which is not
  in this tree, has the `avail` functions they call.
- **Datagram reordering and duplication** in `StreamLink`: only the
  AES-GCM replay window depends on order, and `AeadReplay`'s links
  reorder and re-inject frames.
- **scrypt:** a symbolic key (`Ak`) or a failure.
- **`main.c`:** argument parsing and daemonisation.
- **Up and down commands:** in `tunnel()`, the child's descriptor
  plumbing.

## Plan

1. **Done:**
   - `AeadReplay`;
   - `LinkEngine`, and `LinkAbstract` with the refinement;
   - `ClientLoop`;
   - `Handshake`, with `bf2cf` and `cf2bf`;
   - `TransformStack`: the module list across sessions, LZO, and the
     allocation of the legacy cipher;
   - `StreamLink`: TCP and UDP framing with the stack's frame lengths;
   - `derive_key` in `Handshake`, and the `bf2cf`/`cf2bf` round trip.
2. **Handshake liveness:** without an attacker and under fair delivery,
   a handshake completes.
3. **Both directions in `StreamLink`:** echo replies and the keep-alive
   over the real framing.

The project has 12 runs, the limit. A new question needs a new run, so
it has to replace a run or be checked inside an existing one.
