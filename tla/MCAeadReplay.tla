---------------------------- MODULE MCAeadReplay ----------------------------
(* Small instances of AeadReplay: 2-byte nonces of base 4, so that the low *)
(* byte wraps after four frames and the carry reaches byte 1.              *)
EXTENDS AeadReplay

\* TCP, or UDP that loses datagrams: in order, no attacker.
LinkInOrder == [adversary |-> FALSE, lossy |-> TRUE, reorder |-> FALSE]

\* TCP with an on-path attacker that injects captured frames in order.
LinkTcpAttacked == [adversary |-> TRUE, lossy |-> FALSE, reorder |-> FALSE]

\* UDP with an attacker: datagrams reordered and re-injected.
LinkUdpAttacked == [adversary |-> TRUE, lossy |-> FALSE, reorder |-> TRUE]

LinksAll == {LinkInOrder, LinkUdpAttacked}
LinksTcpAttacked == {LinkTcpAttacked}
=============================================================================
