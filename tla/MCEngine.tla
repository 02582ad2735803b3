------------------------------ MODULE MCEngine ------------------------------
(* Instances of Engine for TLC.                                            *)
EXTENDS Engine

CONSTANTS pA, pB, eth0, eth1

\* Two keys of the desktop (mark 0, REST always on) and one of the CLI.
KeyA == [policy |-> pA, iface |-> eth0, mark |-> 0, udp |-> 2, rest |-> TRUE]
KeyB == [policy |-> pB, iface |-> eth1, mark |-> 0, udp |-> 0, rest |-> TRUE]
KeyC == [policy |-> pB, iface |-> NoIface, mark |-> 1, udp |-> 0,
         rest |-> FALSE]

\* Runs and reloads that change policy, interface and mark.
MCKeys       == {KeyA, KeyC}
MCReloadKeys == {KeyA}

\* Keys without a REST server, for the runs about a session and the timeout.
Quiet(ks)   == {[k EXCEPT !.rest = FALSE] : k \in ks}
MCQuietKeys == Quiet({KeyA, KeyB, KeyC})
MCBoundKeys == Quiet({KeyA, KeyB})
=============================================================================
