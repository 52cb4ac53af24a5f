---------------------------- MODULE MCHandshake -----------------------------
(* Two forked auth_server processes, two auth_client calls, and the        *)
(* attacker's flag string asking for zlib compression.                     *)
EXTENDS Handshake

\* vtund.conf: tcp, tun, lzo 1, keepalive, encrypt with cipher 1.
ProfileTun == [prot |-> "TCP", type |-> "TUN", shape |-> FALSE, spd_in |-> 0,
               zlib |-> FALSE, lzo |-> TRUE, zlevel |-> 1, keepalive |-> TRUE,
               encrypt |-> TRUE, cipher |-> 1]

\* udp, ether, shaper at 34 kbit/s.
ProfileShaped == [ProfileTun EXCEPT !.prot = "UDP", !.type = "ETHER",
                  !.shape = TRUE, !.spd_in = 34, !.lzo = FALSE]

HostFlags == {ProfileTun, ProfileShaped}

\* "<TuC9>"
ForgedFlags == {<<Tok("<"), Tok("T"), Tok("u"), Num("C", 9), Tok(">")>>}
=============================================================================
