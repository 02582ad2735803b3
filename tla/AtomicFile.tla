----------------------------- MODULE AtomicFile -----------------------------
(***************************************************************************)
(* What loadConfigLocked and LoadGeoIP can take for granted of the files    *)
(* replaceFileAtomic writes.  A file is replaced as a whole, by the write   *)
(* in progress, or left alone, except for two steps: the name is left       *)
(* without a file by a write that is given up between its two renames       *)
(* (Lose), and a content that was never synced is torn by a power failure   *)
(* (Tear).                                                                  *)
(***************************************************************************)
CONSTANTS
  Contents,   \* the complete contents writers produce
  Absent,     \* there is no file
  Torn        \* an incomplete one

VARIABLES
  value,     \* what a reader finds, who does not look between the two renames
  pending,   \* the content of the write in progress, or Absent
  acked,     \* the content last reported as stored
  aside,     \* the file has been moved away, to make room for the new one
  durable,   \* a power failure leaves it alone
  syncs      \* the writers sync what they write

vars == <<value, pending, acked, aside, durable, syncs>>

Init ==
  /\ value \in Contents \cup {Absent} /\ pending = Absent /\ acked = Absent
  /\ aside = FALSE /\ durable = TRUE /\ syncs \in BOOLEAN

Begin ==
  /\ pending = Absent /\ pending' \in Contents
  /\ UNCHANGED <<value, acked, aside, durable, syncs>>

SetAside ==
  /\ pending # Absent /\ ~aside /\ aside' = TRUE
  /\ UNCHANGED <<value, pending, acked, durable, syncs>>

Store ==
  /\ pending # Absent /\ value' = pending
  /\ aside' = FALSE /\ durable' = syncs
  /\ UNCHANGED <<pending, acked, syncs>>

Ack ==
  /\ pending # Absent /\ ~aside /\ value = pending
  /\ acked' = value /\ pending' = Absent
  /\ UNCHANGED <<value, aside, durable, syncs>>

Stopped == pending' = Absent /\ aside' = FALSE /\ UNCHANGED <<acked, syncs>>
Abort == Stopped /\ UNCHANGED <<value, durable>>
Lose  == Stopped /\ aside /\ value' = Absent /\ durable' = TRUE
Tear  == Stopped /\ ~aside /\ ~durable /\ value' = Torn /\ durable' = TRUE

Next == Begin \/ SetAside \/ Store \/ Ack \/ Abort \/ Lose \/ Tear
Spec == Init /\ [][Next]_vars
=============================================================================
