----------------------------- MODULE TCPSession -----------------------------
(***************************************************************************)
(* One TCP session of the tunnel (tunnel/tunnel.go, tunnel/tcp.go) with    *)
(* its tracker (tunnel/statistic/tracker.go): HandleTCP and process,       *)
(* handleTCPConn, the two goroutines of pipe with their half-close, the    *)
(* REST call that closes a session, and peers that send, finish or reset.  *)
(*                                                                         *)
(* A connection is named after the direction that reads from it: "up" is   *)
(* the origin (the TUN side), "down" the remote.  Data are counted in      *)
(* reads; a write to a peer that reads returns.                            *)
(***************************************************************************)
EXTENDS Naturals

CONSTANT MaxChunks   \* bound on what each peer sends

ASSUME TCPAssumption == MaxChunks \in Nat \ {0}

VARIABLES
  st,       \* "offered", "dialing", "piping", "closing", "closed"
  ps,       \* program counter of each unidirectionalStream
  sent,     \* chunks each peer has sent
  fin,      \* whether each peer has finished sending
  taken,    \* chunks read from each connection
  out,      \* chunks written to the other connection
  finOut,   \* the other peer was told that the stream is over
  open,     \* each connection is not closed locally
  reset,    \* each connection was reset by its peer
  timer,    \* the half-close read deadline of each connection
  halves,   \* the remote connection implements CloseWrite
  deadlines, \* the remote connection supports SetReadDeadline
  joined,   \* the tracker is in Manager.connections
  tclosed,  \* Tunnel.Close was called
  aborted   \* history: a reset, a deadline, the stack or REST cut a stream

peerVars == <<sent, fin>>
pipeVars == <<taken, out, finOut>>
vars == <<st, ps, peerVars, pipeVars, open, reset, timer, halves, deadlines,
          joined, tclosed, aborted>>

Dirs     == {"up", "down"}
Other(d) == IF d = "up" THEN "down" ELSE "up"

Init ==
  /\ st = "offered"
  /\ ps = [d \in Dirs |-> "read"]
  /\ sent = [d \in Dirs |-> 0] /\ taken = sent /\ out = sent
  /\ fin = [d \in Dirs |-> FALSE] /\ finOut = fin /\ reset = fin
  /\ open = [d \in Dirs |-> d = "up"]
  /\ timer = [d \in Dirs |-> "none"]
  \* The channel of an ssh proxy has neither, every other connection a deadline.
  /\ halves \in BOOLEAN /\ deadlines \in BOOLEAN /\ (halves => deadlines)
  /\ joined = FALSE /\ tclosed = FALSE /\ aborted = FALSE

-----------------------------------------------------------------------------
(***************************************************************************)
(* HandleTCP, process and handleTCPConn.                                   *)
(***************************************************************************)
\* The unbuffered queue: process receives unless its context is done, HandleTCP
\* gives up when the tunnel is closed.  With both ready either may be taken.
Accept ==
  /\ st = "offered"
  /\ \/ st' = "dialing" /\ UNCHANGED open
     \/ tclosed /\ st' = "closed" /\ open' = [d \in Dirs |-> FALSE]
  /\ UNCHANGED <<ps, peerVars, pipeVars, reset, timer, halves,
                 deadlines, joined, tclosed, aborted>>

\* Tunnel.Close.  Nothing of a session that was accepted looks at it any more.
TunnelClose ==
  /\ st = "offered" /\ ~tclosed /\ tclosed' = TRUE
  /\ UNCHANGED <<st, ps, peerVars, pipeVars, open, reset, timer, halves,
                 deadlines, joined, aborted>>

\* DialContext of the proxy; NewTCPTracker joins, or the origin is closed.
Dial ==
  /\ st = "dialing"
  /\ \/ /\ st' = "piping" /\ joined' = TRUE
        /\ open' = [open EXCEPT !["down"] = TRUE]
     \/ st' = "closed" /\ open' = [d \in Dirs |-> FALSE] /\ UNCHANGED joined
  /\ UNCHANGED <<ps, peerVars, pipeVars, reset, timer, halves,
                 deadlines, tclosed,
                 aborted>>

\* wg.Wait returns; the deferred remoteConn.Close leaves the manager first.
PipeDone ==
  /\ st = "piping" /\ \A d \in Dirs : ps[d] = "done"
  /\ st' = "closing" /\ joined' = FALSE
  /\ UNCHANGED <<ps, peerVars, pipeVars, open, reset, timer, halves,
                 deadlines, tclosed,
                 aborted>>

\* The remote socket is closed, then the origin.
Finish ==
  /\ st = "closing" /\ st' = "closed"
  /\ open' = [d \in Dirs |-> FALSE]
  /\ UNCHANGED <<ps, peerVars, pipeVars, reset, timer, halves,
                 deadlines, joined, tclosed, aborted>>

-----------------------------------------------------------------------------
(***************************************************************************)
(* unidirectionalStream of direction d: io.CopyBuffer, then the half-close. *)
(***************************************************************************)
Move(d, from, to) ==
  /\ st = "piping" /\ ps[d] = from
  /\ ps' = [ps EXCEPT ![d] = to]

Broken(c) == ~open[c] \/ reset[c]

Read(d) ==
  /\ Move(d, "read", "write")
  /\ ~Broken(d) /\ timer[d] # "expired" /\ taken[d] < sent[d]
  /\ taken' = [taken EXCEPT ![d] = @ + 1]
  /\ UNCHANGED <<st, peerVars, out, finOut, open, reset, timer, halves,
                 deadlines, joined, tclosed, aborted>>

ReadEOF(d) ==
  /\ Move(d, "read", "half")
  /\ ~Broken(d) /\ timer[d] # "expired" /\ fin[d] /\ taken[d] = sent[d]
  /\ UNCHANGED <<st, peerVars, pipeVars, open, reset, timer, halves,
                 deadlines, joined, tclosed, aborted>>

\* An error of the read; a deadline that has passed fails every read.
ReadError(d) ==
  /\ Move(d, "read", "half")
  /\ Broken(d) \/ timer[d] = "expired"
  /\ aborted' = (aborted \/ timer[d] = "expired")
  /\ UNCHANGED <<st, peerVars, pipeVars, open, reset, timer, halves,
                 deadlines, joined, tclosed>>

\* Mutant: a chunk that was written is written again.
WriteAgain(d) ==
  /\ Move(d, "write", "write")
  /\ ~Broken(Other(d))
  /\ out' = [out EXCEPT ![d] = @ + 1]
  /\ UNCHANGED <<st, peerVars, taken, finOut, open, reset, timer, halves,
                 deadlines, joined, tclosed, aborted>>

Write(d) ==
  /\ Move(d, "write", "read")
  /\ ~Broken(Other(d))
  /\ out' = [out EXCEPT ![d] = @ + 1]
  /\ UNCHANGED <<st, peerVars, taken, finOut, open, reset, timer, halves,
                 deadlines, joined, tclosed, aborted>>

WriteError(d) ==
  /\ Move(d, "write", "half")
  /\ Broken(Other(d))
  /\ UNCHANGED <<st, peerVars, pipeVars, open, reset, timer, halves,
                 deadlines, joined, tclosed, aborted>>

\* Mutant: the destination is closed, not only its write side.
HalfCloseBoth(d) == [open EXCEPT ![Other(d)] = FALSE]

\* src.CloseRead and dst.CloseWrite leave the other direction open.
HalfClosed(d) == open

\* Mutant: unidirectionalStream without dst.SetReadDeadline.
NoDeadline(d) == timer

\* dst.SetReadDeadline(tcpWaitTimeout): the other direction reads from dst.  Its
\* error is dropped: a closed connection, or a remote without deadlines.
Deadline(d) ==
  IF open[Other(d)] /\ (d = "up" => deadlines)
  THEN [timer EXCEPT ![Other(d)] = "armed"] ELSE timer

\* The half-close: CloseRead, CloseWrite where it is implemented, the deadline.
HalfClose(d) ==
  /\ Move(d, "half", "done")
  /\ finOut' = [finOut EXCEPT ![d] = ~Broken(Other(d)) /\ (d = "up" => halves)]
  /\ open' = HalfClosed(d)
  /\ timer' = Deadline(d)
  /\ UNCHANGED <<st, peerVars, taken, out, reset, halves, deadlines, joined,
                 tclosed, aborted>>

-----------------------------------------------------------------------------
(***************************************************************************)
(* The environment: peers, the stack, the clock, REST.                     *)
(***************************************************************************)
PeerSend(d) ==
  /\ open[d] /\ ~fin[d] /\ ~reset[d] /\ sent[d] < MaxChunks
  /\ sent' = [sent EXCEPT ![d] = @ + 1]
  /\ UNCHANGED <<st, ps, fin, pipeVars, open, reset, timer, halves,
                 deadlines, joined, tclosed, aborted>>

PeerFin(d) ==
  /\ open[d] /\ ~fin[d] /\ fin' = [fin EXCEPT ![d] = TRUE]
  /\ UNCHANGED <<st, ps, sent, pipeVars, open, reset, timer, halves,
                 deadlines, joined, tclosed, aborted>>

PeerReset(d) ==
  /\ open[d] /\ ~reset[d]
  /\ reset' = [reset EXCEPT ![d] = TRUE]
  /\ aborted' = TRUE
  /\ UNCHANGED <<st, ps, peerVars, pipeVars, open, timer, halves,
                 deadlines, joined, tclosed>>

\* engine.stop closes the stack, and the origin with it.
StackClose ==
  /\ open["up"] /\ open' = [open EXCEPT !["up"] = FALSE]
  /\ aborted' = TRUE
  /\ UNCHANGED <<st, ps, peerVars, pipeVars, reset, timer, halves,
                 deadlines, joined, tclosed>>

Expire(d) ==
  /\ timer[d] = "armed" /\ timer' = [timer EXCEPT ![d] = "expired"]
  /\ UNCHANGED <<st, ps, peerVars, pipeVars, open, reset, halves, deadlines,
                 joined, tclosed, aborted>>

\* closeConnection of a listed tracker: Leave, then Close of the remote.  The
\* interleavings inside are those of UDPSession; a tracker that has been closed
\* in between is closed again without effect.
RestClose ==
  /\ joined /\ joined' = FALSE
  /\ open' = [open EXCEPT !["down"] = FALSE]
  /\ aborted' = TRUE
  /\ UNCHANGED <<st, ps, peerVars, pipeVars, reset, timer, halves,
                 deadlines, tclosed>>

-----------------------------------------------------------------------------
Pump(d) == \/ Read(d) \/ ReadEOF(d) \/ ReadError(d)
           \/ Write(d) \/ WriteError(d) \/ HalfClose(d)
Handler == Accept \/ PipeDone \/ Finish

Next ==
  \/ Handler \/ Dial \/ TunnelClose
  \/ \E d \in Dirs : Pump(d) \/ Expire(d)
                     \/ PeerSend(d) \/ PeerFin(d) \/ PeerReset(d)
  \/ StackClose \/ RestClose

Spec == Init /\ [][Next]_vars

\* Goroutines are scheduled and time passes.  Peers need not send or finish,
\* and DialContext need not return: the proxy handshake has no deadline.
Fairness ==
  /\ WF_vars(Handler)
  /\ \A d \in Dirs : WF_vars(Pump(d)) /\ WF_vars(Expire(d))

FairSpec == Spec /\ Fairness

-----------------------------------------------------------------------------
(***************************************************************************)
(* Properties.                                                             *)
(***************************************************************************)
Counts == [Dirs -> 0..MaxChunks]

\* Every variable has its type, and no chunk reaches a peer twice: what was
\* written was read, what was read was sent (io.CopyBuffer in both directions).
TypeOK ==
  /\ st \in {"offered", "dialing", "piping", "closing", "closed"}
  /\ ps \in [Dirs -> {"read", "write", "half", "done"}]
  /\ sent \in Counts /\ taken \in Counts /\ out \in Counts
  /\ fin \in [Dirs -> BOOLEAN] /\ finOut \in [Dirs -> BOOLEAN]
  /\ open \in [Dirs -> BOOLEAN] /\ reset \in [Dirs -> BOOLEAN]
  /\ timer \in [Dirs -> {"none", "armed", "expired"}]
  /\ halves \in BOOLEAN /\ deadlines \in BOOLEAN
  /\ joined \in BOOLEAN /\ tclosed \in BOOLEAN
  /\ aborted \in BOOLEAN
  /\ \A d \in Dirs : out[d] <= taken[d] /\ taken[d] <= sent[d]

\* A peer that is told the stream is over has received all of it, as long as no
\* reset, deadline, stop of the stack or REST call cut a stream: the half-close
\* of one direction never truncates the other (unidirectionalStream).
FinMeansComplete ==
  \A d \in Dirs : finOut[d] /\ ~aborted => fin[d] /\ out[d] = sent[d]

\* Once one direction is over the session ends, even if the other peer neither
\* sends nor finishes and the remote cannot be half-closed: always when it is the
\* remote that finished, and when the origin did if the remote supports
\* deadlines, which the channel of an ssh proxy does not (tcpWaitTimeout).
HalfOpenEnds ==
  (st = "piping" /\ (ps["down"] = "done" \/ (ps["up"] = "done" /\ deadlines)))
    ~> (st = "closed")
=============================================================================
