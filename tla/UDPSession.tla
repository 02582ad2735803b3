----------------------------- MODULE UDPSession -----------------------------
(***************************************************************************)
(* One UDP session of the tunnel (tunnel/udp.go) with its tracker          *)
(* (tunnel/statistic/tracker.go): handleUDPConn, the two goroutines of     *)
(* pipePacket that run copyPacketData, the filter of                       *)
(* symmetricNATPacketConn and the REST call that closes the session.       *)
(*                                                                         *)
(* Time is discrete.  A read deadline is kept as the time left until it    *)
(* passes; time.Now and SetReadDeadline are one step.  Direction "up" reads *)
(* from the origin (the TUN side), "down" from the remote (the proxy).     *)
(***************************************************************************)
EXTENDS Naturals

CONSTANTS
  Timeout,   \* t.udpTimeout.Load()
  MaxQueue   \* bound on datagrams waiting in a socket

ASSUME UDPAssumption == Timeout \in Nat \ {0} /\ MaxQueue \in Nat \ {0}

VARIABLES
  st,      \* handleUDPConn: "new", "dialing", "piping", "closing", "closed"
  ps,      \* program counter of each copyPacketData
  left,    \* time left on the read deadline of each direction's source
  open,    \* whether each direction's source socket is open
  queue,   \* datagrams of the peer waiting in each source
  stray,   \* datagrams of other senders waiting at the remote
  joined,  \* the tracker is in Manager.connections
  rest,    \* a REST request that holds the tracker from a Snapshot
  cut,     \* the remote socket was closed under the tracker
  talk,    \* the two peers may still send
  idle     \* time since the last datagram was passed on, up to Timeout

vars == <<st, ps, left, open, queue, stray, joined, rest, cut, talk, idle>>

Dirs     == {"up", "down"}
Other(d) == IF d = "up" THEN "down" ELSE "up"

Init ==
  /\ st = "new"
  /\ ps = [d \in Dirs |-> "arm"]
  /\ left = [d \in Dirs |-> 0]
  /\ open = [d \in Dirs |-> d = "up"]
  /\ queue = [d \in Dirs |-> 0] /\ stray = 0
  /\ joined = FALSE /\ rest = "idle" /\ cut = FALSE
  /\ talk = TRUE /\ idle = 0

-----------------------------------------------------------------------------
(***************************************************************************)
(* handleUDPConn.                                                          *)
(***************************************************************************)
\* HandleUDP hands the connection to process, which starts the handler.
Handle ==
  /\ st = "new" /\ st' = "dialing"
  /\ UNCHANGED <<ps, left, open, queue, stray, joined, rest, cut, talk, idle>>

\* t.Proxy().DialUDP; NewUDPTracker joins the manager, or the origin is closed.
Dial ==
  /\ st = "dialing"
  /\ \/ /\ st' = "piping" /\ joined' = TRUE
        /\ open' = [open EXCEPT !["down"] = TRUE]
     \/ st' = "closed" /\ open' = [d \in Dirs |-> FALSE] /\ UNCHANGED joined
  /\ UNCHANGED <<ps, left, queue, stray, rest, cut, talk, idle>>

CloseSocket == open' = [open EXCEPT !["down"] = FALSE] /\ UNCHANGED joined

\* Mutant: udpTracker.Close closes the socket before it leaves the manager.
TrackerCloseSocketFirst == CloseSocket

\* The first half of udpTracker.Close is manager.Leave, the second the socket.
TrackerClose == joined' = FALSE /\ UNCHANGED open

\* wg.Wait returns and the deferred pc.Close begins.
PipeDone ==
  /\ st = "piping" /\ \A d \in Dirs : ps[d] = "done"
  /\ st' = "closing"
  /\ TrackerClose
  /\ UNCHANGED <<ps, left, queue, stray, rest, cut, talk, idle>>

\* The second half of pc.Close, then uc.Close.
Finish ==
  /\ st = "closing" /\ st' = "closed"
  /\ open' = [d \in Dirs |-> FALSE]
  /\ UNCHANGED <<joined, ps, left, queue, stray, rest, cut, talk, idle>>

-----------------------------------------------------------------------------
(***************************************************************************)
(* copyPacketData of direction d.                                          *)
(***************************************************************************)
Move(d, from, to) ==
  /\ st = "piping" /\ ps[d] = from
  /\ ps' = [ps EXCEPT ![d] = to]

\* src.SetReadDeadline at the head of the loop.
Arm(d) ==
  /\ Move(d, "arm", "read")
  /\ left' = [left EXCEPT ![d] = Timeout]
  /\ UNCHANGED <<st, open, queue, stray, joined, rest, cut, talk, idle>>

\* ReadFrom returns a datagram of the peer.
Read(d) ==
  /\ Move(d, "read", "write")
  /\ open[d] /\ left[d] > 0 /\ queue[d] > 0
  /\ queue' = [queue EXCEPT ![d] = @ - 1]
  /\ UNCHANGED <<st, left, open, stray, joined, rest, cut, talk, idle>>

\* ReadFrom of a closed socket returns an error.
ReadError(d) ==
  /\ Move(d, "read", "done")
  /\ ~open[d]
  /\ UNCHANGED <<st, left, open, queue, stray, joined, rest, cut, talk, idle>>

\* ReadFrom of an open socket returns an error that is no timeout: a malformed
\* SOCKS5 datagram, a port reported unreachable.  Any error ends the direction.
ReadFails(d) ==
  /\ Move(d, "read", "done")
  /\ open[d] /\ left[d] > 0
  /\ UNCHANGED <<st, left, open, queue, stray, joined, rest, cut, talk, idle>>

\* ReadFrom returns a timeout, whether datagrams wait or not.
ReadTimeout(d) ==
  /\ Move(d, "read", "done")
  /\ open[d] /\ left[d] = 0
  /\ UNCHANGED <<st, left, open, queue, stray, joined, rest, cut, talk, idle>>

\* Mutant: a dropped datagram returns to the head of the loop.
LeftAfterDropRearmed == [left EXCEPT !["down"] = Timeout]

\* symmetricNATPacketConn.ReadFrom reads again under the same deadline.
LeftAfterDrop == left

\* A datagram of another sender is dropped.
Drop ==
  /\ st = "piping" /\ ps["down"] = "read"
  /\ open["down"] /\ left["down"] > 0 /\ stray > 0
  /\ stray' = stray - 1
  /\ left' = LeftAfterDrop
  /\ UNCHANGED <<st, ps, open, queue, joined, rest, cut, talk, idle>>

\* Mutant: an error of WriteTo is ignored and the loop goes on.
WriteGoesOn(d) ==
  /\ Move(d, "write", "extend")
  /\ UNCHANGED <<st, left, open, queue, stray, joined, rest, cut, talk, idle>>

\* dst.WriteTo: any error ends the direction.
Write(d) ==
  /\ \/ Move(d, "write", "extend") /\ open[Other(d)]
     \/ Move(d, "write", "done")
  /\ UNCHANGED <<st, left, open, queue, stray, joined, rest, cut, talk, idle>>

\* Mutant: copyPacketData without dst.SetReadDeadline.
ExtendNothing(d) == left

\* Mutant: the timeout is added to the deadline, not to the time of now.
ExtendedFromDeadline(d) == [left EXCEPT ![Other(d)] = @ + Timeout]

\* The deadline dst.SetReadDeadline leaves for the other direction.
Extended(d) == [left EXCEPT ![Other(d)] = Timeout]

Extend(d) ==
  /\ Move(d, "extend", "arm")
  /\ left' = Extended(d)
  /\ idle' = 0
  /\ UNCHANGED <<st, open, queue, stray, joined, rest, cut, talk>>

-----------------------------------------------------------------------------
(***************************************************************************)
(* The environment: peers, other senders, the stack, REST, time.           *)
(***************************************************************************)
Send(d) ==
  /\ talk /\ queue[d] < MaxQueue
  /\ queue' = [queue EXCEPT ![d] = @ + 1]
  /\ UNCHANGED <<st, ps, left, open, stray, joined, rest, cut, talk, idle>>

SendStray ==
  /\ stray < MaxQueue
  /\ stray' = stray + 1
  /\ UNCHANGED <<st, ps, left, open, queue, joined, rest, cut, talk, idle>>

\* The peers fall silent for good.
Silence ==
  /\ talk /\ talk' = FALSE
  /\ UNCHANGED <<st, ps, left, open, queue, stray, joined, rest, cut, idle>>

\* The stack closes the origin under the session (engine.stop).
StackClose ==
  /\ open["up"] /\ open' = [open EXCEPT !["up"] = FALSE]
  /\ UNCHANGED <<st, ps, left, queue, stray, joined, rest, cut, talk, idle>>

\* The goroutine of socks5.DialUDP closes the packet socket under the tracker
\* when the control connection ends; no other proxy closes it from below.
RemoteClose ==
  /\ open["down"] /\ open' = [open EXCEPT !["down"] = FALSE]
  /\ cut' = TRUE
  /\ UNCHANGED <<st, ps, left, queue, stray, joined, rest, talk, idle>>

\* closeConnection and closeAllConnections: Snapshot, then Close of a tracker
\* that may have been closed in between.
RestSnapshot ==
  /\ rest = "idle" /\ joined /\ rest' = "got"
  /\ UNCHANGED <<st, ps, left, open, queue, stray, joined, cut, talk, idle>>

RestClose ==
  /\ \/ /\ rest = "got" /\ rest' = "half"
        /\ TrackerClose
     \/ /\ rest = "half" /\ rest' = "idle"
        /\ CloseSocket
  /\ UNCHANGED <<st, ps, left, queue, stray, cut, talk, idle>>

Tick ==
  /\ st = "piping"
  /\ left' = [d \in Dirs |-> IF left[d] = 0 THEN 0 ELSE left[d] - 1]
  /\ idle' = IF idle = Timeout THEN Timeout ELSE idle + 1
  /\ UNCHANGED <<st, ps, open, queue, stray, joined, rest, cut, talk>>

-----------------------------------------------------------------------------
Handler == Handle \/ PipeDone \/ Finish
Pump(d) == Arm(d) \/ Read(d) \/ ReadError(d) \/ ReadTimeout(d)
           \/ (d = "down" /\ Drop) \/ Write(d) \/ Extend(d)

Next ==
  \/ Handler \/ Dial
  \/ \E d \in Dirs : Pump(d) \/ ReadFails(d) \/ Send(d)
  \/ SendStray \/ Silence \/ StackClose \/ RemoteClose
  \/ RestSnapshot \/ RestClose
  \/ Tick

Spec == Init /\ [][Next]_vars

\* Goroutines are scheduled and time passes.  Nobody is forced to send, to fall
\* silent, to close anything or to break a datagram, and DialUDP need not return:
\* the handshake of the SOCKS5 proxy has no deadline.
Fairness ==
  /\ WF_vars(Handler) /\ WF_vars(Tick)
  /\ \A d \in Dirs : WF_vars(Pump(d))

FairSpec == Spec /\ Fairness

-----------------------------------------------------------------------------
(***************************************************************************)
(* Properties.                                                             *)
(***************************************************************************)
PumpPCs == {"arm", "read", "write", "extend", "done"}

\* Every variable has its type; in particular no deadline is ever further away
\* than the timeout (copyPacketData).
TypeOK ==
  /\ st \in {"new", "dialing", "piping", "closing", "closed"}
  /\ ps \in [Dirs -> PumpPCs]
  /\ left \in [Dirs -> 0..Timeout]
  /\ open \in [Dirs -> BOOLEAN]
  /\ queue \in [Dirs -> 0..MaxQueue] /\ stray \in 0..MaxQueue
  /\ joined \in BOOLEAN /\ rest \in {"idle", "got", "half"}
  /\ cut \in BOOLEAN /\ talk \in BOOLEAN /\ idle \in 0..Timeout

TimedOut(d) ==
  ps[d] = "read" /\ ps'[d] = "done" /\ open[d] /\ left[d] = 0

\* A direction is only ever given up for lack of traffic when no datagram was
\* passed on in either direction for the whole timeout: a one-way stream keeps
\* the silent direction of its session alive (copyPacketData).
NotReclaimedEarly ==
  [][\A d \in Dirs : TimedOut(d) => idle = Timeout]_vars

\* A session that was closed is off the REST listing, whether it ended by
\* itself, REST closed it or both did at the same time (udpTracker.Close).  A
\* listed one is open, but where its socket was closed under the tracker
\* (socks5.go:126-132).
ClosedIsUnlisted ==
  /\ joined => open["down"] \/ cut
  /\ st = "closed" => ~joined

\* A session whose socket was closed under the tracker does not stay listed,
\* although its origin may go on sending: one direction ends in its read, the
\* other in its write or by its own deadline (copyPacketData).
CutSessionLeaves == (joined /\ cut) ~> ~joined

\* A session whose peers have fallen silent ends, however many datagrams other
\* senders direct at its port (symmetricNATPacketConn.ReadFrom).
SilentSessionEnds == (st = "piping" /\ ~talk) ~> (st = "closed")
=============================================================================
