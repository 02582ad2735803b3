----------------------------- MODULE MCDesktop ------------------------------
(***************************************************************************)
(* Instances of Desktop.                                                   *)
(***************************************************************************)
EXTENDS Desktop, TLC

CONSTANTS none, r1, r2, p1, p2, t1, t2

\* The configuration of NewApp (empty proxy), two that differ in what restarts
\* the engine, and one that differs from the last in what a Reload takes over
\* and in what it does not.
MCDefault == [restart |-> none, policy |-> p1, tuning |-> t1]
MCOne     == [restart |-> r1, policy |-> p1, tuning |-> t1]
MCTwo     == [restart |-> r2, policy |-> p1, tuning |-> t1]
MCTwoB    == [restart |-> r2, policy |-> p2, tuning |-> t2]

MCConfigs      == {MCDefault, MCOne, MCTwo, MCTwoB}
MCThreeConfigs == {MCDefault, MCOne, MCTwo}
\* Concurrent SaveConfig calls are interchangeable.
Sym == Permutations(Savers)
=============================================================================
