----------------------------- MODULE Handshake -----------------------------
(***************************************************************************)
(* The authentication handshake of auth.c: auth_client against forked      *)
(* auth_server processes, with an attacker that owns the network.          *)
(*                                                                         *)
(*   server -> "VTUN server ver"                                           *)
(*   client -> CKEY host ts cpk H_Ak(ts cpk)                               *)
(*   server -> SKEY spk H_Ak(spk h1)                                       *)
(*   client -> CACK H_Ak("CACK" skey)                                      *)
(*   server -> FLAGS bf2cf(host) H_Ak(flags cack)                          *)
(*                                                                         *)
(* Cryptography is symbolic.  A public key is <<"C", attempt>>,            *)
(* <<"S", server>> or the attacker's "A"; the session key H_Ak(DH) is the  *)
(* pair <<cpk, spk>>.  A message records the key it is hashed under (mac)  *)
(* and what its hash binds (bind): h1 binds cpk, skey and cack bind        *)
(* <<spk, cpk>>.  The attacker knows every message sent and a key "Ax"     *)
(* that is not Ak: it can deliver any message it has seen, to anyone, and  *)
(* forge messages hashed under Ax.  Delivery is therefore the attacker's   *)
(* choice; a readn_t that never returns a line is a Timeout.               *)
(*                                                                         *)
(* The feature flags travel as a flag string, a sequence of tokens: a      *)
(* character and, after S, C, L and E, the number strtol reads there       *)
(* (NoDigits when there is none).                                          *)
(***************************************************************************)
EXTENDS Integers, Sequences, FiniteSets

CONSTANTS
    SERVERS,        \* auth_server processes, one per accepted connection
    ATTEMPTS,       \* auth_client calls of the client's reconnect loop
    HOST_FLAGS,     \* the server's host profiles (records, see Profiles)
    FORGED_FLAGS,   \* flag strings the attacker may send
    CHECKED_NUMS,   \* the numbers of the host profiles bf2cf/cf2bf are checked on
    DERIVE_CAN_FAIL \* scrypt in derive_key may fail (its memory limit)

Ak == "Ak"          \* the key derived from the host's passphrase
Ax == "Ax"          \* the attacker's key
NoAkey == "none"    \* host->akey == NULL
Garbage == "G"      \* the bytes sodium_malloc leaves in a fresh host->akey
NoDigits == -1      \* strtol found no digits: s = 0 and ptr == p
ERANGE == 34

Atoms == {"TCP", "UDP", "TTY", "PIPE", "ETHER", "TUN", "SHAPE", "ZLIB",
          "LZO", "KEEP_ALIVE", "ENCRYPT"}
Nums == 0..40
Token == [c : {"<", ">", "T", "U", "t", "p", "e", "u", "S", "C", "L", "K",
               "E", "F", "x"}, n : Nums \cup {NoDigits}]
Profiles == [prot : {"TCP", "UDP"}, type : {"TTY", "PIPE", "ETHER", "TUN"},
             shape : BOOLEAN, spd_in : Nums, zlib : BOOLEAN, lzo : BOOLEAN,
             zlevel : Nums, keepalive : BOOLEAN, encrypt : BOOLEAN,
             cipher : Nums]
\* What cf2bf writes into the client's host: flags, zlevel, cipher, spd_out.
Features == [bits : SUBSET Atoms, zlevel : Nums, cipher : Nums,
             spd_out : Nums]

ASSUME /\ SERVERS \subseteq Nat \ {0} /\ ATTEMPTS \in Nat /\ HOST_FLAGS \subseteq Profiles
       /\ FORGED_FLAGS \subseteq Seq(Token) /\ CHECKED_NUMS \subseteq Nums
       /\ DERIVE_CAN_FAIL \in BOOLEAN

-----------------------------------------------------------------------------
(* bf2cf and cf2bf.                                                        *)

Tok(ch) == [c |-> ch, n |-> NoDigits]
Num(ch, k) == [c |-> ch, n |-> k]
Letter == [TCP |-> "T", UDP |-> "U", TTY |-> "t", PIPE |-> "p",
           ETHER |-> "e", TUN |-> "u"]
If(b, s) == IF b THEN s ELSE <<>>

\* bf2cf: '<', protocol, type, S<spd_in>, C<zlevel>, L<zlevel>, K,
\* E<cipher>, '>'.
Render(h) ==
    <<Tok("<"), Tok(Letter[h.prot]), Tok(Letter[h.type])>>
    \o If(h.shape, <<Num("S", h.spd_in)>>)
    \o If(h.zlib, <<Num("C", h.zlevel)>>)
    \o If(h.lzo, <<Num("L", h.zlevel)>>)
    \o If(h.keepalive, <<Tok("K")>>)
    \o If(h.encrypt, <<Num("E", h.cipher)>>)
    \o <<Tok(">")>>

\* Characters of a token: the letter and the decimal digits after it.
RECURSIVE DecimalLen(_)
DecimalLen(k) == IF k < 10 THEN 1 ELSE 1 + DecimalLen(k \div 10)
TokLen(t) == 1 + (IF t.n = NoDigits THEN 0 ELSE DecimalLen(t.n))
RECURSIVE StrLen(_)
StrLen(s) == IF s = <<>> THEN 0 ELSE TokLen(Head(s)) + StrLen(Tail(s))

\* strtol's result as cf2bf tests it: the value compared with ERANGE, and
\* ptr == p when there are no digits.
StrtolValue(t) == IF t.n = NoDigits THEN 0 ELSE t.n
BadNumber(t) == StrtolValue(t) = ERANGE \/ t.n = NoDigits

\* A character of the cf2bf loop that makes it return -1: an unknown one,
\* or a number strtol reads as ERANGE or (but after E) not at all.
StepFails(t) ==
    CASE t.c \in {"S", "C", "L"} -> BadNumber(t)
      [] t.c = "E" -> StrtolValue(t) = ERANGE
      [] t.c \in {"t", "p", "e", "u", "T", "U", "K", "F"} -> FALSE
      [] OTHER -> TRUE

\* The 'L' case copied from 'C' without changing the flag.
StepLzoAsZlib(h, t) ==
    CASE t.c \in {"t", "p", "e", "u"} ->
             [h EXCEPT !.bits = @ \cup {CHOOSE a \in DOMAIN Letter : Letter[a] = t.c}]
      [] t.c \in {"T", "U"} ->
             [h EXCEPT !.bits = (@ \ {"TCP", "UDP"})
                                \cup {IF t.c = "T" THEN "TCP" ELSE "UDP"}]
      [] t.c = "K" -> [h EXCEPT !.bits = @ \cup {"KEEP_ALIVE"}]
      [] t.c \in {"C", "L"} -> [h EXCEPT !.bits = @ \cup {"ZLIB"}, !.zlevel = t.n]
      [] t.c = "E" -> [h EXCEPT !.bits = @ \cup {"ENCRYPT"}, !.cipher = StrtolValue(t)]
      [] t.c = "S" /\ t.n > 0 -> [h EXCEPT !.bits = @ \cup {"SHAPE"}, !.spd_out = t.n]
      [] OTHER -> h

\* What one character of the cf2bf loop writes into the host.
Step(h, t) ==
    CASE t.c \in {"t", "p", "e", "u"} ->
             [h EXCEPT !.bits = @ \cup {CHOOSE a \in DOMAIN Letter : Letter[a] = t.c}]
      [] t.c \in {"T", "U"} ->
             [h EXCEPT !.bits = (@ \ {"TCP", "UDP"})
                                \cup {IF t.c = "T" THEN "TCP" ELSE "UDP"}]
      [] t.c = "K" -> [h EXCEPT !.bits = @ \cup {"KEEP_ALIVE"}]
      [] t.c = "C" -> [h EXCEPT !.bits = @ \cup {"ZLIB"}, !.zlevel = t.n]
      [] t.c = "L" -> [h EXCEPT !.bits = @ \cup {"LZO"}, !.zlevel = t.n]
      [] t.c = "E" -> [h EXCEPT !.bits = @ \cup {"ENCRYPT"}, !.cipher = StrtolValue(t)]
      [] t.c = "S" /\ t.n > 0 -> [h EXCEPT !.bits = @ \cup {"SHAPE"}, !.spd_out = t.n]
      [] OTHER -> h

\* The loop from the character after '<': [ok, host] where host holds the
\* writes made before the loop returned (cf2bf writes host->flags as it
\* goes).
RECURSIVE ParseFrom(_, _)
ParseFrom(s, h) ==
    IF s = <<>> THEN [ok |-> FALSE, host |-> h]
    ELSE CASE Head(s).c = ">" -> [ok |-> TRUE, host |-> h]
           [] StepFails(Head(s)) -> [ok |-> FALSE, host |-> h]
           [] OTHER -> ParseFrom(Tail(s), Step(h, Head(s)))

\* cf2bf: length check, strchr(str, '<'), then the loop.
Parse(s, h) ==
    LET at == {i \in DOMAIN s : s[i].c = "<"}
        first == CHOOSE i \in at : \A j \in at : i <= j
    IN  IF StrLen(s) >= 32 \/ at = {} THEN [ok |-> FALSE, host |-> h]
        ELSE ParseFrom(SubSeq(s, first + 1, Len(s)), h)

\* What a host profile asks the client to run with: the reference that
\* bf2cf followed by cf2bf is compared with.
Intended(h) ==
    [bits    |-> {h.prot, h.type}
                 \cup {a \in {"SHAPE", "ZLIB", "LZO", "KEEP_ALIVE", "ENCRYPT"} :
                      CASE a = "SHAPE" -> h.shape
                        [] a = "ZLIB" -> h.zlib
                        [] a = "LZO" -> h.lzo
                        [] a = "KEEP_ALIVE" -> h.keepalive
                        [] OTHER -> h.encrypt},
     zlevel  |-> IF h.zlib \/ h.lzo THEN h.zlevel ELSE 0,
     cipher  |-> IF h.encrypt THEN h.cipher ELSE 0,
     spd_out |-> IF h.shape THEN h.spd_in ELSE 0]

\* A number bf2cf renders that equals ERANGE.
RendersErange(h) ==
    \/ h.shape /\ h.spd_in = ERANGE
    \/ (h.zlib \/ h.lzo) /\ h.zlevel = ERANGE
    \/ h.encrypt /\ h.cipher = ERANGE

\* The host h with every choice of features and of numbers in CHECKED_NUMS.
Variations(h) ==
    {[h EXCEPT !.shape = v[1], !.zlib = v[2], !.lzo = v[3], !.keepalive = v[4],
               !.encrypt = v[5], !.spd_in = n[1], !.zlevel = n[2], !.cipher = n[3]] :
        v \in BOOLEAN \X BOOLEAN \X BOOLEAN \X BOOLEAN \X BOOLEAN,
        n \in CHECKED_NUMS \X CHECKED_NUMS \X CHECKED_NUMS}

-----------------------------------------------------------------------------
(* State.                                                                  *)

VARIABLES
    msgs,       \* every line sent: what the attacker knows
    sstage,     \* auth_server's stage per process: step2, step3, done, fail
    scpk,       \* client_pk the server process took from CKEY
    lock,       \* the server process holding lock_host, or NoServer
    hostFlags,  \* the server's host profile, rendered by bf2cf
    attempt,    \* the client's current auth_client call
    cstage,     \* auth_client's stage: key, init, step2, step3, done, fail
    akey,       \* the client host's akey: NoAkey, Ak or Garbage
    cspk,       \* server_pk the client took from SKEY, or NoKey
    cflags      \* the client host's flags, zlevel, cipher, spd_out

vars == <<msgs, sstage, scpk, lock, hostFlags, attempt, cstage, akey, cspk, cflags>>

ClientPk(a) == <<"C", a>>
ServerPk(s) == <<"S", s>>
AttackerPk == <<"A", 0>>
NoKey == <<"none", 0>>
NoServer == 0

Banner == [t |-> "VTUN"]
Err == [t |-> "ERR"]
Junk == [t |-> "junk"]          \* a line that fails to parse or decode
CKey(cpk, k) == [t |-> "CKEY", bind |-> cpk, mac |-> k]
SKey(spk, cpk, k) == [t |-> "SKEY", spk |-> spk, bind |-> cpk, mac |-> k]
CAck(spk, cpk, k) == [t |-> "CACK", bind |-> <<spk, cpk>>, mac |-> k]
Flags(f, spk, cpk, k) ==
    [t |-> "FLAGS", flags |-> f, bind |-> <<spk, cpk>>, mac |-> k]

\* What the attacker can forge: lines hashed under its own key, over the
\* public keys it has seen.
SeenCpks == {m.bind : m \in {x \in msgs : x.t = "CKEY"}} \cup {AttackerPk}
SeenSpks == {m.spk : m \in {x \in msgs : x.t = "SKEY"}} \cup {AttackerPk}
Forged ==
    {Junk, CKey(AttackerPk, Ax)}
    \cup {SKey(AttackerPk, c, Ax) : c \in SeenCpks}
    \cup {CAck(sp, c, Ax) : sp \in SeenSpks, c \in SeenCpks}
    \cup {Flags(f, sp, c, Ax) : f \in FORGED_FLAGS, sp \in SeenSpks, c \in SeenCpks}

\* The lines that can be delivered to a reader.
Deliverable == msgs \cup Forged

NoFeatures == [bits |-> {}, zlevel |-> 0, cipher |-> 0, spd_out |-> 0]

Init ==
    /\ msgs = {Banner}
    /\ sstage = [s \in SERVERS |-> "step2"]
    /\ scpk = [s \in SERVERS |-> NoKey]
    /\ lock = NoServer
    /\ hostFlags \in HOST_FLAGS
    /\ attempt = 1 /\ cstage = "key" /\ akey = NoAkey /\ cspk = NoKey
    /\ cflags = NoFeatures

-----------------------------------------------------------------------------
(* auth_server: one readn_t line per step; any failure prints ERR.        *)

svars == <<sstage, scpk, lock, hostFlags>>
cvars == <<attempt, cstage, akey, cspk, cflags>>

\* Variant: the recomputed hash is compared on its key only, not on what
\* it binds.
ServerAcceptsAnyBinding(m, b) == m.mac = Ak

\* sodium_memcmp of H_Ak over what this process expects with the hash it
\* received.
ServerAccepts(m, b) == m.mac = Ak /\ m.bind = b

\* success == 0: print_p(fd, "ERR\n"), auth_server returns NULL.
ServerFails(s) ==
    /\ sstage' = [sstage EXCEPT ![s] = "fail"]
    /\ msgs' = msgs \cup {Err}

\* ST_STEP2: CKEY with a known host and a good h1; answer SKEY with a
\* fresh server key pair.  Anything else breaks out of the loop.
\* What derive_key returns in a fresh server process: 0, or -1 when scrypt
\* fails.
DeriveResults == IF DERIVE_CAN_FAIL THEN {0, -1} ELSE {0}

ServerCkey(s, m) ==
    /\ sstage[s] = "step2"
    /\ \E derived \in DeriveResults :
       IF m.t = "CKEY" /\ derived = 0 /\ ServerAccepts(m, m.bind)
       THEN /\ sstage' = [sstage EXCEPT ![s] = "step3"]
            /\ scpk' = [scpk EXCEPT ![s] = m.bind]
            /\ msgs' = msgs \cup {SKey(ServerPk(s), m.bind, Ak)}
       ELSE ServerFails(s) /\ UNCHANGED scpk
    /\ UNCHANGED <<lock, hostFlags>> /\ UNCHANGED cvars

\* ST_STEP3: CACK over this process's skey; lock_host; FLAGS.  The DH step
\* after FLAGS cannot fail here: every public key of the model is a
\* point of the curve.
ServerCack(s, m) ==
    /\ sstage[s] = "step3"
    /\ IF /\ m.t = "CACK"
          /\ ServerAccepts(m, <<ServerPk(s), scpk[s]>>)
          /\ lock = NoServer
       THEN /\ lock' = s
            /\ sstage' = [sstage EXCEPT ![s] = "done"]
            /\ msgs' = msgs \cup
                   {Flags(Render(hostFlags), ServerPk(s), scpk[s], Ak)}
       ELSE ServerFails(s) /\ UNCHANGED lock
    /\ UNCHANGED <<scpk, hostFlags>> /\ UNCHANGED cvars

\* readn_t times out or the connection closes.
ServerTimeout(s) ==
    /\ sstage[s] \in {"step2", "step3"}
    /\ ServerFails(s)
    /\ UNCHANGED <<scpk, lock, hostFlags>> /\ UNCHANGED cvars

-----------------------------------------------------------------------------
(* auth_client: a failure returns 0 without a word to the server.          *)

ClientAccepts(m, b) == m.mac = akey /\ m.bind = b

ClientFails == cstage' = "fail"

\* derive_key at the start of auth_client: a host whose akey is set
\* returns 0 at once.  Otherwise akey is allocated (or sodium_malloc
\* fails and derive_key returns -1), scrypt derives Ak from
\* the passphrase or fails (leaving the allocation's bytes in akey), and
\* the passphrase is freed either way; on -1 auth_client returns 0.
ClientDeriveKey ==
    /\ cstage = "key"
    /\ IF akey # NoAkey
       THEN cstage' = "init" /\ UNCHANGED akey
       ELSE \/ akey' = Ak /\ cstage' = "init"
            \/ DERIVE_CAN_FAIL /\ akey' = Garbage /\ ClientFails  \* scrypt
            \/ DERIVE_CAN_FAIL /\ UNCHANGED akey /\ ClientFails  \* sodium_malloc
    /\ UNCHANGED <<msgs, attempt, cspk, cflags>> /\ UNCHANGED svars

\* ST_INIT: the server's banner; answer CKEY with a fresh key pair.
ClientBanner(m) ==
    /\ cstage = "init"
    /\ IF m.t = "VTUN"
       THEN cstage' = "step2" /\ msgs' = msgs \cup {CKey(ClientPk(attempt), akey)}
       ELSE ClientFails /\ UNCHANGED msgs
    /\ UNCHANGED <<attempt, akey, cspk, cflags>> /\ UNCHANGED svars

\* ST_STEP2: SKEY whose hash binds this client's h1; answer CACK.
ClientSkey(m) ==
    /\ cstage = "step2"
    /\ IF m.t = "SKEY" /\ ClientAccepts(m, ClientPk(attempt))
       THEN /\ cstage' = "step3" /\ cspk' = m.spk
            /\ msgs' = msgs \cup {CAck(m.spk, ClientPk(attempt), akey)}
       ELSE ClientFails /\ UNCHANGED <<cspk, msgs>>
    /\ UNCHANGED <<attempt, akey, cflags>> /\ UNCHANGED svars

\* ST_STEP3: FLAGS.  cf2bf writes the host's flags first; only then is
\* flhash checked.
ClientFlags(m) ==
    /\ cstage = "step3"
    /\ IF m.t = "FLAGS"
       THEN LET p == Parse(m.flags, cflags) IN
            /\ cflags' = p.host
            /\ cstage' = IF p.ok /\ ClientAccepts(m, <<cspk, ClientPk(attempt)>>)
                          THEN "done" ELSE "fail"
       ELSE ClientFails /\ UNCHANGED cflags
    /\ UNCHANGED <<msgs, attempt, akey, cspk>> /\ UNCHANGED svars

ClientTimeout ==
    /\ cstage \in {"init", "step2", "step3"}
    /\ ClientFails
    /\ UNCHANGED <<msgs, attempt, akey, cspk, cflags>> /\ UNCHANGED svars

\* client()'s next iteration: spd_in = spd_out = 0 and the flags the
\* server supplies cleared (flags &= VTUN_CLNT_MASK); zlevel and cipher
\* stay.
NewAttempt ==
    /\ cstage \in {"done", "fail"}
    /\ attempt < ATTEMPTS
    /\ attempt' = attempt + 1 /\ cstage' = "key" /\ cspk' = NoKey
    /\ cflags' = [cflags EXCEPT !.bits = {}, !.spd_out = 0]
    /\ UNCHANGED <<msgs, akey>> /\ UNCHANGED svars

Next ==
    \/ \E s \in SERVERS, m \in Deliverable : ServerCkey(s, m) \/ ServerCack(s, m)
    \/ \E s \in SERVERS : ServerTimeout(s)
    \/ \E m \in Deliverable : ClientBanner(m) \/ ClientSkey(m) \/ ClientFlags(m)
    \/ ClientDeriveKey
    \/ ClientTimeout
    \/ NewAttempt

Spec == Init /\ [][Next]_vars

-----------------------------------------------------------------------------
(* Properties.                                                             *)

FlagsRoundTrip ==
    \A h \in Variations(hostFlags) :
        LET r == Parse(Render(h), NoFeatures)
        IN  /\ r.ok <=> ~RendersErange(h)
            /\ r.ok => r.host = [Intended(h) EXCEPT !.bits =
                                    @ \ (IF h.spd_in = 0 THEN {"SHAPE"} ELSE {})]

\* Spec 2 and 4.1: Ak is derived from the passphrase, and the client hashes
\* its CKEY and CACK under Ak.  auth_client calls derive_key on every
\* attempt of client()'s loop, on the same host.
ClientHashesUnderAk ==
    \A m \in msgs : m.t \in {"CKEY", "CACK"} => m.mac = Ak

\* Spec 4.1: a server process commits the host to its lock only for an
\* exchange the genuine client took part in: the client sent CACK over
\* this process's SKEY.  A replayed CKEY or CACK must not lock the host.
LockHeldForGenuineClient ==
    lock \in SERVERS =>
        \E m \in msgs : /\ m.t = "CACK" /\ m.mac = Ak
                       /\ m.bind = <<ServerPk(lock), scpk[lock]>>

=============================================================================
