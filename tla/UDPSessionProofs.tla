-------------------------- MODULE UDPSessionProofs --------------------------
(***************************************************************************)
(* Theorems about UDPSession, for every timeout and queue length.          *)
(***************************************************************************)
EXTENDS UDPSession, TLAPS

\* While a direction waits in ReadFrom, its deadline lies at least Timeout
\* after the last datagram passed on in either direction.
DeadlineInv ==
  \A d \in Dirs : ps[d] = "read" => left[d] + idle >= Timeout

\* The tracker is listed only while the pipe runs, on an open socket or on one
\* that was closed under it, and never
\* again once one of the two closers has taken it off the list.
ListInv ==
  /\ joined => st = "piping" /\ (open["down"] \/ cut)
  /\ rest # "idle" => st \notin {"new", "dialing"}
  /\ rest = "half" => ~joined

IInv == TypeOK /\ DeadlineInv /\ ListInv

\* The state in which HandleUDP is called satisfies the invariant.
LEMMA InitIInv == Init => IInv
  <1> SUFFICES ASSUME Init PROVE IInv
    OBVIOUS
  <1>1. open \in [Dirs -> BOOLEAN]
    BY Zenon DEF Init
  <1>2. TypeOK
    <2>1. left \in [Dirs -> 0..Timeout] /\ queue \in [Dirs -> 0..MaxQueue]
          /\ stray \in 0..MaxQueue /\ idle \in 0..Timeout
      BY UDPAssumption DEF Init
    <2>2. ps \in [Dirs -> PumpPCs]
      BY DEF Init, PumpPCs
    <2>3. joined \in BOOLEAN /\ talk \in BOOLEAN /\ cut \in BOOLEAN
          /\ st \in {"new", "dialing", "piping", "closing", "closed"}
          /\ rest \in {"idle", "got", "half"}
      BY DEF Init
    <2> QED
      BY <1>1, <2>1, <2>2, <2>3 DEF TypeOK
  <1>3. DeadlineInv
    BY DEF Init, DeadlineInv
  <1>4. ListInv
    BY DEF Init, ListInv
  <1> QED
    BY <1>2, <1>3, <1>4 DEF IInv

\* A step of the goroutine of one direction keeps the types.
LEMMA PumpType ==
  ASSUME TypeOK, NEW d \in Dirs, Pump(d)
  PROVE  TypeOK'
  <1> USE UDPAssumption DEF TypeOK, Move, PumpPCs
  <1>0. Other(d) \in Dirs
    BY DEF Dirs, Other
  <1>1. CASE Arm(d)
    BY <1>1 DEF Arm
  <1>2. CASE Read(d)
    <2>1. queue' \in [Dirs -> 0..MaxQueue]
      BY <1>2 DEF Read
    <2> QED
      BY <1>2, <2>1 DEF Read
  <1>3. CASE ReadError(d) \/ ReadTimeout(d)
    BY <1>3 DEF ReadError, ReadTimeout
  <1>4. CASE Drop
    BY <1>4 DEF Drop, LeftAfterDrop
  <1>5. CASE Write(d)
    BY <1>5 DEF Write
  <1>6. CASE Extend(d)
    BY <1>0, <1>6 DEF Extend, Extended
  <1> QED
    BY <1>1, <1>2, <1>3, <1>4, <1>5, <1>6 DEF Pump

\* Every step keeps the types.
LEMMA TypeStep == TypeOK /\ [Next]_vars => TypeOK'
  <1> SUFFICES ASSUME TypeOK, [Next]_vars PROVE TypeOK'
    OBVIOUS
  <1> USE UDPAssumption DEF TypeOK
  <1>1. CASE Handler \/ Dial
    BY <1>1 DEF Handler, Handle, Dial, PipeDone, Finish, TrackerClose, Dirs
  <1>2. CASE \E d \in Dirs : Pump(d)
    BY <1>2, PumpType
  <1>3. CASE \E d \in Dirs : ReadFails(d) \/ Send(d)
    BY <1>3 DEF ReadFails, Move, PumpPCs, Send
  <1>4. CASE SendStray \/ Silence \/ StackClose \/ RemoteClose
    <2>1. CASE SendStray
      BY <2>1 DEF SendStray
    <2>2. CASE Silence
      BY <2>2 DEF Silence
    <2>3. CASE StackClose
      BY <2>3 DEF StackClose, Dirs
    <2>4. CASE RemoteClose
      BY <2>4 DEF RemoteClose, Dirs
    <2> QED
      BY <1>4, <2>1, <2>2, <2>3, <2>4
  <1>5. CASE RestSnapshot \/ RestClose
    BY <1>5 DEF RestSnapshot, RestClose, TrackerClose, CloseSocket, Dirs
  <1>6. CASE Tick
    BY <1>6 DEF Tick
  <1>7. CASE UNCHANGED vars
    BY <1>7 DEF vars
  <1> QED
    BY <1>1, <1>2, <1>3, <1>4, <1>5, <1>6, <1>7 DEF Next

\* Every step keeps the deadlines ahead of the idle time.
LEMMA DeadlineStep == IInv /\ [Next]_vars => DeadlineInv'
  <1> SUFFICES ASSUME IInv, [Next]_vars, NEW d \in Dirs, ps'[d] = "read"
               PROVE  left'[d] + idle' >= Timeout
    BY DEF DeadlineInv
  <1> USE UDPAssumption DEF IInv, TypeOK, DeadlineInv
  <1>1. CASE left' = left /\ idle' = idle /\ ps'[d] = ps[d]
    BY <1>1
  <1>2. CASE Tick
    BY <1>2 DEF Tick
  <1>3. ASSUME NEW e \in Dirs, Arm(e) PROVE left'[d] + idle' >= Timeout
    BY <1>3 DEF Arm, Move
  <1>4. ASSUME NEW e \in Dirs, Extend(e) PROVE left'[d] + idle' >= Timeout
    <2>1. d # e
      BY <1>4 DEF Extend, Move
    <2>2. d = Other(e)
      BY <2>1 DEF Dirs, Other
    <2> QED
      BY <1>4, <2>2 DEF Extend, Extended
  <1>5. ASSUME NEW e \in Dirs,
               Read(e) \/ ReadError(e) \/ ReadFails(e) \/ ReadTimeout(e) \/ Write(e)
                 \/ Drop
        PROVE  left' = left /\ idle' = idle /\ ps'[d] = ps[d]
    BY <1>5 DEF Read, ReadError, ReadFails, ReadTimeout, Write, Drop, LeftAfterDrop, Move
  <1>6. \/ Tick
        \/ \E e \in Dirs : Arm(e) \/ Extend(e)
        \/ left' = left /\ idle' = idle /\ ps'[d] = ps[d]
    BY <1>5 DEF Next, Pump, vars, Handler, Handle, Dial, PipeDone, Finish, Send,
                SendStray, Silence, StackClose, RemoteClose, RestSnapshot, RestClose
  <1> QED
    BY <1>1, <1>2, <1>3, <1>4, <1>6

\* Every step keeps the tracker off the list once it is closed.
LEMMA ListStep == IInv /\ [Next]_vars => ListInv'
  <1> SUFFICES ASSUME IInv, [Next]_vars PROVE ListInv'
    OBVIOUS
  <1> USE DEF IInv, ListInv
  <1>0. open \in [Dirs -> BOOLEAN]
    BY DEF TypeOK
  <1>1. CASE Handler \/ Dial
    <2>1. CASE Handle
      BY <2>1 DEF Handle
    <2>2. CASE Dial
      BY <1>0, <2>2 DEF Dial, Dirs
    <2>3. CASE PipeDone \/ Finish
      BY <2>3 DEF PipeDone, Finish, TrackerClose
    <2> QED
      BY <1>1, <2>1, <2>2, <2>3 DEF Handler
  <1>2. CASE StackClose \/ RemoteClose
    BY <1>0, <1>2 DEF StackClose, RemoteClose, Dirs
  <1>3. CASE RestSnapshot \/ RestClose
    BY <1>3 DEF RestSnapshot, RestClose, TrackerClose, CloseSocket
  <1>4. CASE UNCHANGED <<st, open, joined, rest, cut>>
    BY <1>4
  <1>5. \/ Handler \/ Dial \/ StackClose \/ RemoteClose
        \/ RestSnapshot \/ RestClose
        \/ UNCHANGED <<st, open, joined, rest, cut>>
    BY DEF Next, Pump, vars, Send, SendStray, Silence, Tick, Arm, Read, ReadError,
           ReadFails, ReadTimeout, Drop, Write, Extend
  <1> QED
    BY <1>1, <1>2, <1>3, <1>4, <1>5

-----------------------------------------------------------------------------
\* The inductive invariant holds in every reachable state of a session.
THEOREM SessionInvariant == Spec => []IInv
  BY InitIInv, TypeStep, DeadlineStep, ListStep, PTL DEF Spec, IInv

\* A direction times out only after Timeout without a datagram passed on in
\* either direction, for every timeout (copyPacketData).
THEOREM KeepAlive == Spec => NotReclaimedEarly
  <1>1. IInv /\ [Next]_vars
          => [\A d \in Dirs : TimedOut(d) => idle = Timeout]_vars
    <2> SUFFICES ASSUME IInv, Next, NEW d \in Dirs, TimedOut(d)
                 PROVE  idle = Timeout
      BY DEF vars
    <2> USE UDPAssumption DEF IInv, TypeOK
    <2>1. left[d] = 0
      BY DEF TimedOut
    <2>2. left[d] + idle >= Timeout
      BY DEF DeadlineInv, TimedOut
    <2> QED
      BY <2>1, <2>2
  <1> QED
    BY <1>1, SessionInvariant, PTL DEF Spec, NotReclaimedEarly

\* A closed session is not listed, also when REST and the session close the
\* tracker at the same time, and a listed one has lost its socket only where it
\* was closed under the tracker (udpTracker.Close).
THEOREM ListingTrue == Spec => []ClosedIsUnlisted
  <1>1. IInv => ClosedIsUnlisted
    BY DEF IInv, ListInv, ClosedIsUnlisted
  <1> QED
    BY <1>1, SessionInvariant, PTL

\* Type correctness of a UDP session; a deadline lies between now and Timeout.
THEOREM TypeCorrect == Spec => []TypeOK
  <1>1. IInv => TypeOK
    BY DEF IInv
  <1> QED
    BY SessionInvariant, <1>1, PTL
=============================================================================
