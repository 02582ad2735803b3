-------------------------- MODULE TCPSessionProofs --------------------------
(***************************************************************************)
(* Theorems about TCPSession, for streams of any length.                   *)
(***************************************************************************)
EXTENDS TCPSession, TLAPS

\* What each direction has passed on at each point of its loop, and that only
\* an aborted stream ends before the end the peer gave it.
StreamInv ==
  \A d \in Dirs :
    /\ ps[d] = "read" => out[d] = taken[d]
    /\ ps[d] = "write" => out[d] + 1 = taken[d]
    /\ ps[d] \in {"half", "done"} /\ ~aborted =>
         fin[d] /\ taken[d] = sent[d] /\ out[d] = sent[d]
    /\ finOut[d] => ps[d] = "done"

\* Nothing but an abort breaks a connection under the pipe.
WholeInv ==
  st = "piping" /\ ~aborted => \A d \in Dirs : open[d] /\ ~reset[d]

\* A reset is an abort, and the origin is open until the session ends.
EarlyInv ==
  ~aborted => /\ \A d \in Dirs : ~reset[d]
              /\ st \in {"offered", "dialing"} => open["up"]

IInv == TypeOK /\ StreamInv /\ WholeInv /\ EarlyInv

\* A session that is handed to the tunnel satisfies the invariant.
LEMMA InitIInv == Init => IInv
  <1> SUFFICES ASSUME Init PROVE IInv
    OBVIOUS
  <1>1. /\ sent \in Counts /\ taken \in Counts /\ out \in Counts
        /\ \A d \in Dirs : out[d] <= taken[d] /\ taken[d] <= sent[d]
    BY TCPAssumption DEF Init, Counts
  <1>2. /\ fin \in [Dirs -> BOOLEAN] /\ finOut \in [Dirs -> BOOLEAN]
        /\ open \in [Dirs -> BOOLEAN] /\ reset \in [Dirs -> BOOLEAN]
    BY Zenon DEF Init
  <1>3. /\ ps \in [Dirs -> {"read", "write", "half", "done"}]
        /\ timer \in [Dirs -> {"none", "armed", "expired"}]
    BY DEF Init
  <1>4. TypeOK
    BY <1>1, <1>2, <1>3 DEF Init, TypeOK
  <1>5. StreamInv
    BY DEF Init, StreamInv
  <1>6. WholeInv /\ EarlyInv
    BY DEF Init, WholeInv, EarlyInv, Dirs
  <1> QED
    BY <1>4, <1>5, <1>6 DEF IInv

\* A step of unidirectionalStream keeps the invariant.
LEMMA PumpStep ==
  ASSUME IInv, NEW e \in Dirs, Pump(e)
  PROVE  IInv'
  <1>0. MaxChunks \in Nat /\ Other(e) \in Dirs /\ st = "piping"
    BY TCPAssumption DEF Dirs, Other, Pump, Read, ReadEOF, ReadError, Write,
                         WriteError, HalfClose, Move
  <1>1. /\ UNCHANGED <<st, peerVars, open, reset, halves, deadlines, joined,
                     tclosed>>
        /\ aborted => aborted'
    BY DEF IInv, TypeOK, Pump, Read, ReadEOF, ReadError, Write, WriteError,
           HalfClose, HalfClosed
  <1>2. WholeInv' /\ EarlyInv'
    BY <1>1 DEF IInv, WholeInv, EarlyInv
  <1>3. /\ timer' \in [Dirs -> {"none", "armed", "expired"}]
        /\ finOut' \in [Dirs -> BOOLEAN]
        /\ ps' \in [Dirs -> {"read", "write", "half", "done"}]
        /\ aborted' \in BOOLEAN
    <2> USE <1>0 DEF IInv, TypeOK, Move
    <2>1. CASE HalfClose(e)
      BY <2>1 DEF HalfClose, Deadline, Broken
    <2>2. CASE ReadError(e)
      BY <2>2 DEF ReadError, pipeVars
    <2>3. CASE Read(e) \/ ReadEOF(e) \/ Write(e) \/ WriteError(e)
      BY <2>3 DEF Read, ReadEOF, Write, WriteError, pipeVars
    <2> QED
      BY <2>1, <2>2, <2>3 DEF Pump
  <1>4. /\ taken' \in Counts /\ out' \in Counts
        /\ \A d \in Dirs : out'[d] <= taken'[d] /\ taken'[d] <= sent[d]
    <2> USE <1>0 DEF IInv, TypeOK, Counts, StreamInv, Move
    <2>1. CASE Read(e)
      BY <2>1 DEF Read
    <2>2. CASE Write(e)
      BY <2>2 DEF Write
    <2>3. CASE ReadEOF(e) \/ ReadError(e) \/ WriteError(e) \/ HalfClose(e)
      BY <2>3 DEF ReadEOF, ReadError, WriteError, HalfClose, pipeVars
    <2> QED
      BY <2>1, <2>2, <2>3 DEF Pump
  <1>5. TypeOK'
    BY <1>1, <1>3, <1>4 DEF IInv, TypeOK, peerVars
  <1>6. StreamInv'
    <2> SUFFICES ASSUME NEW d \in Dirs
                 PROVE  /\ ps'[d] = "read" => out'[d] = taken'[d]
                        /\ ps'[d] = "write" => out'[d] + 1 = taken'[d]
                        /\ ps'[d] \in {"half", "done"} /\ ~aborted' =>
                             fin'[d] /\ taken'[d] = sent'[d] /\ out'[d] = sent'[d]
                        /\ finOut'[d] => ps'[d] = "done"
      BY DEF StreamInv
    <2>0. /\ fin' = fin /\ sent' = sent
          /\ ps[d] = "read" => out[d] = taken[d]
          /\ ps[d] = "write" => out[d] + 1 = taken[d]
          /\ ps[d] \in {"half", "done"} /\ ~aborted =>
               fin[d] /\ taken[d] = sent[d] /\ out[d] = sent[d]
          /\ finOut[d] => ps[d] = "done"
          /\ out[d] \in Nat /\ taken[d] \in Nat /\ sent[d] \in Nat
      BY <1>0, <1>1 DEF IInv, TypeOK, StreamInv, Counts, peerVars
    <2>1. CASE e # d
      <3>1. /\ ps'[d] = ps[d] /\ out'[d] = out[d] /\ taken'[d] = taken[d]
            /\ finOut'[d] = finOut[d]
        BY <1>0, <2>1 DEF IInv, TypeOK, Counts, Pump, Read, ReadEOF, ReadError,
                     Write, WriteError, HalfClose, Move, pipeVars
      <3> QED
        BY <1>1, <2>0, <3>1
    <2>2. CASE e = d
      <3>0. /\ ps \in [Dirs -> {"read", "write", "half", "done"}]
            /\ taken \in Counts /\ out \in Counts /\ finOut \in [Dirs -> BOOLEAN]
        BY DEF IInv, TypeOK
      <3> USE <1>0, <2>0, <2>2, <3>0 DEF Move, Counts
      <3>1. CASE Read(e)
        BY <3>1 DEF Read
      <3>2. CASE Write(e)
        BY <3>2 DEF Write
      <3>3. CASE ReadEOF(e)
        BY <3>3 DEF ReadEOF, pipeVars
      <3>4. CASE ReadError(e)
        <4>1. aborted'
          BY <3>4 DEF ReadError, Broken, IInv, WholeInv, TypeOK
        <4> QED
          BY <3>4, <4>1 DEF ReadError, pipeVars
      <3>5. CASE WriteError(e)
        <4>1. aborted'
          BY <3>5 DEF WriteError, Broken, IInv, WholeInv, TypeOK
        <4> QED
          BY <3>5, <4>1 DEF WriteError, pipeVars
      <3>6. CASE HalfClose(e)
        <4>1. ps[d] = "half" /\ ps'[d] = "done"
              /\ UNCHANGED <<taken, out, aborted>>
          BY <3>6 DEF HalfClose
        <4> QED
          BY <4>1
      <3> QED
        BY <3>1, <3>2, <3>3, <3>4, <3>5, <3>6 DEF Pump
    <2> QED
      BY <2>1, <2>2
  <1> QED
    BY <1>2, <1>5, <1>6 DEF IInv

\* Every step keeps the invariant.
LEMMA NextIInv == IInv /\ [Next]_vars => IInv'
  <1> SUFFICES ASSUME IInv, [Next]_vars PROVE IInv'
    OBVIOUS
  <1>0. MaxChunks \in Nat
    BY TCPAssumption
  <1>1. CASE \E d \in Dirs : Pump(d)
    BY <1>1, PumpStep
  <1>2. CASE Handler \/ Dial \/ TunnelClose
    <2>1. open' \in [Dirs -> BOOLEAN]
      BY <1>2 DEF IInv, TypeOK, Handler, Accept, PipeDone, Finish, Dial,
                  TunnelClose
    <2>2. joined' \in BOOLEAN /\ tclosed' \in BOOLEAN
          /\ st' \in {"offered", "dialing", "piping", "closing", "closed"}
      BY <1>2 DEF IInv, TypeOK, Handler, Accept, PipeDone, Finish, Dial,
                  TunnelClose
    <2>3. UNCHANGED <<ps, peerVars, pipeVars, reset, timer, halves, deadlines,
                    aborted>>
      BY <1>2 DEF Handler, Accept, PipeDone, Finish, Dial, TunnelClose
    <2>4. TypeOK' /\ StreamInv'
      BY <2>1, <2>2, <2>3 DEF IInv, TypeOK, StreamInv, peerVars, pipeVars
    <2>5. EarlyInv' /\ WholeInv'
      <3> USE DEF IInv, TypeOK, EarlyInv, WholeInv
      <3>1. CASE Dial
        BY <3>1 DEF Dial, Dirs
      <3>2. CASE TunnelClose
        BY <3>2 DEF TunnelClose
      <3>3. CASE Handler
        BY <3>3 DEF Handler, Accept, PipeDone, Finish
      <3> QED
        BY <1>2, <3>1, <3>2, <3>3
    <2> QED
      BY <2>4, <2>5 DEF IInv
  <1>3. ASSUME NEW e \in Dirs, PeerSend(e) PROVE IInv'
    BY <1>0, <1>3 DEF PeerSend, IInv, TypeOK, StreamInv, WholeInv, EarlyInv,
                      Counts, pipeVars
  <1>4. ASSUME NEW e \in Dirs, PeerFin(e) PROVE IInv'
    BY <1>0, <1>4 DEF PeerFin, IInv, TypeOK, StreamInv, WholeInv, EarlyInv,
                      Counts, pipeVars
  <1>5. ASSUME NEW e \in Dirs, PeerReset(e) PROVE IInv'
    BY <1>0, <1>5 DEF PeerReset, IInv, TypeOK, StreamInv, WholeInv, EarlyInv,
                      Counts, peerVars, pipeVars
  <1>6. ASSUME NEW e \in Dirs, Expire(e) PROVE IInv'
    BY <1>0, <1>6 DEF Expire, IInv, TypeOK, StreamInv, WholeInv, EarlyInv,
                      Counts, peerVars, pipeVars
  <1>7. CASE StackClose \/ RestClose
    <2>1. open' \in [Dirs -> BOOLEAN] /\ joined' \in BOOLEAN /\ aborted'
      BY <1>7 DEF StackClose, RestClose, IInv, TypeOK
    <2>2. aborted' \in BOOLEAN
      BY <1>7 DEF StackClose, RestClose
    <2>3. UNCHANGED <<st, ps, peerVars, pipeVars, reset, timer, halves,
                    deadlines, tclosed>>
      BY <1>7 DEF StackClose, RestClose
    <2> QED
      BY <2>1, <2>2, <2>3 DEF IInv, TypeOK, StreamInv, WholeInv, EarlyInv, peerVars,
                              pipeVars
  <1>8. CASE UNCHANGED vars
    BY <1>8 DEF vars, IInv, TypeOK, StreamInv, WholeInv, EarlyInv, peerVars,
                pipeVars
  <1> QED
    BY <1>1, <1>2, <1>3, <1>4, <1>5, <1>6, <1>7, <1>8 DEF Next

-----------------------------------------------------------------------------
\* The inductive invariant holds in every reachable state of a session.
THEOREM SessionInvariant == Spec => []IInv
  BY InitIInv, NextIInv, PTL DEF Spec

\* No chunk reaches a peer twice or out of nowhere, and every variable keeps its
\* type, for streams of any length.
THEOREM TypeCorrect == Spec => []TypeOK
  BY SessionInvariant, PTL DEF IInv

\* A half-close is only passed on behind the whole stream, unless a stream was
\* cut (unidirectionalStream), for streams of any length.
THEOREM NoTruncation == Spec => []FinMeansComplete
  <1>1. IInv => FinMeansComplete
    BY DEF IInv, StreamInv, FinMeansComplete
  <1> QED
    BY <1>1, SessionInvariant, PTL
=============================================================================
