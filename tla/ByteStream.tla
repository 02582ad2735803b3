----------------------------- MODULE ByteStream -----------------------------
(***************************************************************************)
(* What io.CopyBuffer in tunnel/tcp.go relies on, in one direction, of     *)
(* every net.Conn it is handed: the bytes read are the bytes written, in   *)
(* order; io.EOF comes only when the writer has closed and everything it   *)
(* wrote has been read; any other error comes only from a broken network.  *)
(***************************************************************************)
EXTENDS Naturals, Sequences

CONSTANT Length   \* bound on the bytes written; byte i of the stream is i

VARIABLES
  sent,        \* the bytes of every Write so far
  delivered,   \* the bytes Read has returned
  closed,      \* the writing side is closed
  broken,      \* the connection below was lost
  end          \* what Read has returned besides bytes: "none", "eof", "error"

vars == <<sent, delivered, closed, broken, end>>

Init ==
  /\ sent = <<>> /\ delivered = <<>>
  /\ closed = FALSE /\ broken = FALSE /\ end = "none"

Write ==
  /\ ~closed
  /\ \E k \in 1..(Length - Len(sent)) :
       sent' = sent \o [i \in 1..k |-> Len(sent) + i]
  /\ UNCHANGED <<delivered, closed, broken, end>>

Close == closed' = TRUE /\ UNCHANGED <<sent, delivered, broken, end>>

Break == broken' = TRUE /\ UNCHANGED <<sent, delivered, closed, end>>

\* A Read that returns bytes, and with them the network's error at most.
Deliver ==
  /\ end = "none"
  /\ \E n \in (Len(delivered) + 1)..Len(sent) : delivered' = SubSeq(sent, 1, n)
  /\ end' = "none" \/ (broken /\ end' = "error")
  /\ UNCHANGED <<sent, closed, broken>>

Eof ==
  /\ end = "none" /\ closed /\ delivered = sent
  /\ end' = "eof"
  /\ UNCHANGED <<sent, delivered, closed, broken>>

Fail ==
  /\ end = "none" /\ broken
  /\ end' = "error"
  /\ UNCHANGED <<sent, delivered, closed, broken>>

Receive == Deliver \/ Eof \/ Fail
Next == Write \/ Close \/ Break \/ Receive

\* A reader that keeps calling Read gets what there is, then the end.
Spec == Init /\ [][Next]_vars /\ WF_vars(Receive)
=============================================================================
