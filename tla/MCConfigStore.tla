--------------------------- MODULE MCConfigStore ---------------------------
(* Small instances of ConfigStore. *)
EXTENDS ConfigStore

\* One configuration per form of the proxy and per mode a user or an older
\* version of the program may have written.
MCInputs ==
  {[mode |-> "", route |-> "none", proxy |-> "bare"],
   [mode |-> "bypass", route |-> "direct", proxy |-> "s5"],
   [mode |-> "rules", route |-> "proxy", proxy |-> "upper"],
   [mode |-> "weird", route |-> "proxy", proxy |-> "other"]}
=============================================================================
