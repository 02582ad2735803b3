---------------------------- MODULE MCHostRoutes ----------------------------
(* Instances of HostRoutes for TLC.                                        *)
EXTENDS HostRoutes, TLC

CONSTANTS a, b, lo

\* The two routable addresses behave alike.
Sym == Permutations({a, b})
=============================================================================
