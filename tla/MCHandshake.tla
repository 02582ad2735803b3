---------------------------- MODULE MCHandshake ----------------------------
(* Small instances of Handshake. *)
EXTENDS Handshake

Ip4 == [ip |-> <<10, 0, 0, 1>>, port |-> <<0, 53>>]
Ip6 == [ip |-> [i \in 1..16 |-> i], port |-> <<0, 53>>]
MCDests    == {Ip4, Ip6}
MCPayloads == {<<7>>, <<1, 9>>}
=============================================================================
