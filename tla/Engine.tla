------------------------------- MODULE Engine -------------------------------
(***************************************************************************)
(* The engine package (engine/engine.go, engine/reload.go) together with   *)
(* the three pieces of global state it drives: the REST server of          *)
(* restapi/server.go, the socket options of dialer/dialer.go and the       *)
(* outbound proxy of tunnel.T().                                           *)
(*                                                                         *)
(* Three kinds of processes interleave:                                    *)
(*   - one control thread.  Every caller of StartE, StopE and Reload       *)
(*     serialises them (the desktop App holds App.mu, main.go is           *)
(*     sequential), so at most one of them is under way; pc says where.    *)
(*     _engineMu is held exactly while pc # "idle", except for the two     *)
(*     restapi.Stop steps of stop, which run before it is taken;           *)
(*   - one goroutine per restapi.Start, spawned by restAPI and never       *)
(*     joined;                                                             *)
(*   - sessions of the tunnel, which load the proxy and later the socket   *)
(*     options with atomic loads, outside every lock.                      *)
(***************************************************************************)
EXTENDS Naturals, FiniteSets

CONSTANTS
  Keys,         \* the engine.Key values in play: records, see KeyShape
  ReloadKeys,   \* the keys Reload is called with (the desktop never sets Mark)
  Servers,      \* identities of http.Server objects alive at one time (bound)
  Sessions,     \* tunnel sessions alive at one time (bound)
  NoServer,     \* the nil *http.Server
  NoPolicy,     \* the nil proxy
  Reject,       \* the proxy tunnel.init installs: reject everything
  NoIface,      \* Interface == ""
  DefaultUDP    \* udpSessionTimeout of tunnel/tunnel.go

\* A key reduced to what the code branches on: the proxy and the rules it
\* builds (policy), the interface to bind, the mark, the UDP timeout (0 when
\* unset) and whether a REST address is given.
KeyShape(k) ==
  /\ DOMAIN k = {"policy", "iface", "mark", "udp", "rest"}
  /\ k.policy \notin {NoPolicy, Reject}
  /\ k.mark \in Nat /\ k.udp \in Nat /\ k.rest \in BOOLEAN

ASSUME KeysAssumption ==
  /\ \A k \in Keys : KeyShape(k)
  /\ ReloadKeys \subseteq Keys
  /\ \A k \in ReloadKeys : k.mark = 0
  /\ NoServer \notin Servers
  /\ DefaultUDP \in Nat \ {0}

Policies == {k.policy : k \in Keys} \cup {NoPolicy, Reject}

\* The socket options a key asks for, as the set the dialer holds for it.
BindOpt(k) == IF k.iface = NoIface THEN {} ELSE {<<"bind", k.iface>>}
MarkOpt(k) == IF k.mark = 0 THEN {} ELSE {<<"mark", k.mark>>}
Opts(k)    == BindOpt(k) \cup MarkOpt(k)
AllOpts    == UNION {Opts(k) : k \in Keys}

VARIABLES
  pc,           \* program counter of the control thread
  key,          \* _defaultKey, as a set: {} before the first Insert
  next,         \* the argument of the Reload under way, as a set
  routing,      \* policy of _defaultRoutingProxy
  tproxy,       \* policy of tunnel.T().Proxy()
  device,       \* _defaultDevice # nil
  stack,        \* _defaultStack # nil
  opts,         \* the options registered with the DefaultDialer
  udp,          \* udpTimeout of tunnel.T()
  srv,          \* state of each REST goroutine
  closed,       \* http.Servers whose Close has been called
  port,         \* the server whose listener holds the REST address
  ptr,          \* _server
  grab,         \* the server pointer restapi.Stop has read
  sess          \* tunnel sessions

ctlVars  == <<key, next, routing, tproxy, device, stack, opts, udp>>
restVars == <<srv, closed, port, ptr>>
vars     == <<pc, key, next, routing, tproxy, device, stack, opts, udp,
              srv, closed, port, ptr, grab, sess>>

StartPCs  == {"reset", "bind", "mark", "rest", "netstack", "device", "stack"}
AbortPCs  == {"abortRead", "abortClose"}
StopPCs   == {"stopRead", "stopClose", "closeDevice", "closeStack"}
ReloadPCs == {"prepare", "rlReset", "rlBind", "commit"}
PCs       == {"idle"} \cup StartPCs \cup AbortPCs \cup StopPCs \cup ReloadPCs

SrvStates == {"none", "spawned", "bound", "published", "serving", "returned"}
NoSess    == [st |-> "none", policy |-> NoPolicy, opts |-> {}]
SessType  == [st : {"none", "accepted", "dialing", "open"},
              policy : Policies, opts : SUBSET AllOpts]

Running == device /\ stack

Init ==
  /\ pc = "idle"
  /\ key = {} /\ next = {}
  /\ routing = NoPolicy
  /\ tproxy = Reject
  /\ device = FALSE /\ stack = FALSE
  /\ opts = {}
  /\ udp = DefaultUDP
  /\ srv = [s \in Servers |-> "none"]
  /\ closed = {}
  /\ port = NoServer /\ ptr = NoServer /\ grab = NoServer
  /\ sess = [x \in Sessions |-> NoSess]

-----------------------------------------------------------------------------
(***************************************************************************)
(* start(): general, restAPI and netstack in turn; the first error leads   *)
(* to restapi.Stop() and the error is returned.                            *)
(***************************************************************************)
Fail == pc' = "abortRead"

\* Insert(k) followed by StartE().  Both callers start an engine that is not
\* running.  general parses the log level before it touches anything.  The
\* last conjunct is the bound on REST goroutines.
StartOp(k) ==
  /\ pc = "idle" /\ ~Running
  /\ k.rest => \E s \in Servers : srv[s] = "none"
  /\ key' = {k}
  /\ pc' = "reset" \/ Fail
  /\ UNCHANGED <<next, routing, tproxy, device, stack, opts, udp, restVars,
                 grab, sess>>

\* dialer.Reset() of general.
GeneralReset ==
  /\ pc = "reset" /\ pc' = "bind"
  /\ opts' = {}
  /\ UNCHANGED <<key, next, routing, tproxy, device, stack, udp, restVars,
                 grab, sess>>

\* Mutant: general without its test for an empty interface name.
GeneralBindUnguarded ==
  /\ pc = "bind"
  /\ \E k \in key :
       \/ pc' = "mark" /\ opts' = opts \cup {<<"bind", k.iface>>}
       \/ Fail /\ UNCHANGED opts
  /\ UNCHANGED <<key, next, routing, tproxy, device, stack, udp, restVars,
                 grab, sess>>

\* net.InterfaceByName may fail, after the options are gone.
GeneralBind ==
  /\ pc = "bind"
  /\ \E k \in key :
       \/ pc' = "mark" /\ opts' = opts \cup BindOpt(k)
       \/ k.iface # NoIface /\ Fail /\ UNCHANGED opts
  /\ UNCHANGED <<key, next, routing, tproxy, device, stack, udp, restVars,
                 grab, sess>>

\* The mark, then the UDP timeout: a key without one leaves the old one.
GeneralMark ==
  /\ pc = "mark"
  /\ \E k \in key :
       /\ opts' = opts \cup MarkOpt(k)
       /\ \/ k.udp = 0 /\ pc' = "rest" /\ UNCHANGED udp
          \/ k.udp > 0 /\ pc' = "rest" /\ udp' = k.udp
          \/ k.udp > 0 /\ Fail /\ UNCHANGED udp
  /\ UNCHANGED <<key, next, routing, tproxy, device, stack, restVars, grab,
                 sess>>

\* parseRestAPI, then `go restapi.Start`.
RestAPI ==
  /\ pc = "rest"
  /\ \E k \in key :
       \/ ~k.rest /\ pc' = "netstack" /\ UNCHANGED srv
       \/ k.rest /\ Fail /\ UNCHANGED srv
       \/ /\ k.rest /\ pc' = "netstack"
          /\ \E s \in Servers : srv[s] = "none"
                                /\ srv' = [srv EXCEPT ![s] = "spawned"]
  /\ UNCHANGED <<ctlVars, closed, port, ptr, grab, sess>>

\* netstack up to tunnel.T().SetProxy: parseMulticastGroups, parseProxy and
\* routing.NewWithConfig may each fail with nothing installed.
NetstackProxy ==
  /\ pc = "netstack"
  /\ \/ Fail /\ UNCHANGED <<routing, tproxy>>
     \/ /\ pc' = "device"
        /\ \E k \in key : routing' = k.policy /\ tproxy' = k.policy
  /\ UNCHANGED <<key, next, device, stack, opts, udp, restVars, grab, sess>>

\* parseDevice opens the TUN device.
NetstackDevice ==
  /\ pc = "device"
  /\ \/ pc' = "stack" /\ device' = TRUE
     \/ Fail /\ UNCHANGED device
  /\ UNCHANGED <<key, next, routing, tproxy, stack, opts, udp, restVars,
                 grab, sess>>

\* Mutant: netstack without the deferred device close.
NetstackStackNoDefer ==
  /\ pc = "stack"
  /\ \/ pc' = "idle" /\ stack' = TRUE
     \/ Fail /\ UNCHANGED stack
  /\ UNCHANGED <<device, key, next, routing, tproxy, opts, udp, restVars, grab,
                 sess>>

\* The buffer sizes and core.CreateStack; the deferred function closes the
\* device when either fails.
NetstackStack ==
  /\ pc = "stack"
  /\ \/ pc' = "idle" /\ stack' = TRUE /\ UNCHANGED device
     \/ Fail /\ device' = FALSE /\ UNCHANGED stack
  /\ UNCHANGED <<key, next, routing, tproxy, opts, udp, restVars, grab, sess>>

-----------------------------------------------------------------------------
(***************************************************************************)
(* restapi.Stop(): read _server under its mutex, then Close it without.    *)
(* A Close that finds the listener tracked by Serve releases the address;  *)
(* one that comes earlier only marks the server.                           *)
(***************************************************************************)
StopReadServer(from, none, some) ==
  /\ pc = from
  /\ grab' = ptr
  /\ pc' = IF ptr = NoServer THEN none ELSE some
  /\ UNCHANGED <<ctlVars, restVars, sess>>

\* server.Close() of the pointer read before; its error only matters to stop.
StopCloseServer(from, to) ==
  /\ pc = from /\ pc' \in to
  /\ closed' = IF srv[grab] = "none" THEN closed ELSE closed \cup {grab}
  /\ port' = IF port = grab /\ srv[grab] = "serving" THEN NoServer ELSE port
  /\ grab' = NoServer
  /\ UNCHANGED <<ctlVars, srv, ptr, sess>>

\* start ignores the error of restapi.Stop.
AbortRead  == StopReadServer("abortRead", "idle", "abortClose")
AbortClose == StopCloseServer("abortClose", {"idle"})

-----------------------------------------------------------------------------
(***************************************************************************)
(* stop(): also called on an engine that is not running.                   *)
(***************************************************************************)
StopOp ==
  /\ pc = "idle" /\ pc' = "stopRead"
  /\ UNCHANGED <<ctlVars, restVars, grab, sess>>

StopRead  == StopReadServer("stopRead", "closeDevice", "stopClose")
\* An error of Close leaves the engine as it is.
StopClose == StopCloseServer("stopClose", {"closeDevice", "idle"})

StopDevice ==
  /\ pc = "closeDevice" /\ pc' = "closeStack"
  /\ device' = FALSE
  /\ UNCHANGED <<key, next, routing, tproxy, stack, opts, udp, restVars,
                 grab, sess>>

\* Mutant: stop also takes the proxy away from the tunnel.
StopStackDropsProxy ==
  /\ pc = "closeStack" /\ pc' = "idle"
  /\ stack' = FALSE /\ routing' = NoPolicy /\ tproxy' = Reject
  /\ UNCHANGED <<key, next, device, opts, udp, restVars, grab, sess>>

\* stack.Close, stack.Wait and the reset of _defaultRoutingProxy.
StopStack ==
  /\ pc = "closeStack" /\ pc' = "idle"
  /\ stack' = FALSE /\ routing' = NoPolicy
  /\ UNCHANGED <<key, next, tproxy, device, opts, udp, restVars, grab, sess>>

-----------------------------------------------------------------------------
(***************************************************************************)
(* Reload(k).                                                              *)
(***************************************************************************)
ReloadOp(k) ==
  /\ pc = "idle" /\ Running
  /\ next' = {k} /\ pc' = "prepare"
  /\ UNCHANGED <<key, routing, tproxy, device, stack, opts, udp, restVars,
                 grab, sess>>

\* Mutant: dialer.Reset before the fallible look-ups.
ReloadPrepareResetFirst ==
  /\ pc = "prepare"
  /\ \/ pc' = "rlReset" /\ UNCHANGED next
     \/ pc' = "idle" /\ next' = {}
  /\ opts' = {}
  /\ UNCHANGED <<key, routing, tproxy, device, stack, udp, restVars, grab, sess>>

\* Everything that can fail: the proxy, the rules, the interface.
ReloadPrepare ==
  /\ pc = "prepare"
  /\ \/ pc' = "rlReset" /\ UNCHANGED next
     \/ pc' = "idle" /\ next' = {}
  /\ UNCHANGED <<key, routing, tproxy, device, stack, opts, udp, restVars,
                 grab, sess>>

ReloadReset ==
  /\ pc = "rlReset" /\ pc' = "rlBind"
  /\ opts' = {}
  /\ UNCHANGED <<key, next, routing, tproxy, device, stack, udp, restVars,
                 grab, sess>>

ReloadBind ==
  /\ pc = "rlBind" /\ pc' = "commit"
  /\ opts' = opts \cup UNION {BindOpt(k) : k \in next}
  /\ UNCHANGED <<key, next, routing, tproxy, device, stack, udp, restVars,
                 grab, sess>>

\* The assignments under _engineMu and the atomic SetProxy.
ReloadCommit ==
  /\ pc = "commit" /\ pc' = "idle"
  /\ \E k \in next : routing' = k.policy /\ tproxy' = k.policy
  /\ key' = next /\ next' = {}
  /\ UNCHANGED <<device, stack, opts, udp, restVars, grab, sess>>

-----------------------------------------------------------------------------
(***************************************************************************)
(* restapi.Start in its own goroutine.                                     *)
(***************************************************************************)
\* net.Listen fails while another listener holds the address, and may fail
\* for reasons of the host.
SrvListen(s) ==
  /\ srv[s] = "spawned"
  /\ \/ /\ port = NoServer
        /\ port' = s /\ srv' = [srv EXCEPT ![s] = "bound"]
     \/ srv' = [srv EXCEPT ![s] = "none"] /\ UNCHANGED port
  /\ UNCHANGED <<pc, ctlVars, closed, ptr, grab, sess>>

SrvPublish(s) ==
  /\ srv[s] = "bound"
  /\ srv' = [srv EXCEPT ![s] = "published"]
  /\ ptr' = s
  /\ UNCHANGED <<pc, ctlVars, closed, port, grab, sess>>

\* Mutant: the listener of a server closed early is never closed.
SrvServeKeepsListener(s) ==
  /\ srv[s] = "published"
  /\ srv' = [srv EXCEPT ![s] = IF s \in closed THEN "returned" ELSE "serving"]
  /\ UNCHANGED <<port, pc, ctlVars, closed, ptr, grab, sess>>

\* Serve returns at once, closing the listener, on a server already closed.
SrvServe(s) ==
  /\ srv[s] = "published"
  /\ IF s \in closed
     THEN srv' = [srv EXCEPT ![s] = "returned"] /\ port' = NoServer
     ELSE srv' = [srv EXCEPT ![s] = "serving"] /\ UNCHANGED port
  /\ UNCHANGED <<pc, ctlVars, closed, ptr, grab, sess>>

\* Serve returns because Close was called.
SrvExit(s) ==
  /\ srv[s] = "serving" /\ s \in closed
  /\ srv' = [srv EXCEPT ![s] = "returned"]
  /\ UNCHANGED <<pc, ctlVars, closed, port, ptr, grab, sess>>

\* Serve returns because Accept failed for good.
SrvAcceptError(s) ==
  /\ srv[s] = "serving" /\ s \notin closed
  /\ srv' = [srv EXCEPT ![s] = "returned"]
  /\ port' = NoServer
  /\ UNCHANGED <<pc, ctlVars, closed, ptr, grab, sess>>

\* Mutant: the deferred function clears _server whoever owns it.
ClearPtrAlways(s) == NoServer

\* The deferred function of restapi.Start: forget _server if it is ours.
ClearPtr(s) == IF ptr = s THEN NoServer ELSE ptr

SrvClear(s) ==
  /\ srv[s] = "returned"
  /\ srv' = [srv EXCEPT ![s] = "none"]
  /\ closed' = closed \ {s}
  /\ ptr' = ClearPtr(s)
  /\ UNCHANGED <<pc, ctlVars, port, grab, sess>>

SrvStep(s) == \/ SrvListen(s) \/ SrvPublish(s) \/ SrvServe(s)
              \/ SrvExit(s) \/ SrvClear(s)

-----------------------------------------------------------------------------
(***************************************************************************)
(* A session as the engine sees it.  The stack accepts it, a goroutine     *)
(* loads tunnel.T().Proxy() and dials; the dialer loads its options when   *)
(* the socket is created.  A session outlives Stop and Reload.             *)
(***************************************************************************)
SessAccept(x) ==
  /\ stack /\ sess[x].st = "none"
  /\ sess' = [sess EXCEPT ![x].st = "accepted"]
  /\ UNCHANGED <<pc, ctlVars, restVars, grab>>

SessDial(x) ==
  /\ sess[x].st = "accepted"
  /\ sess' = [sess EXCEPT ![x].st = "dialing", ![x].policy = tproxy]
  /\ UNCHANGED <<pc, ctlVars, restVars, grab>>

\* The dial may fail; a socket that connects carries the options of now.
SessConnect(x) ==
  /\ sess[x].st = "dialing"
  /\ \/ sess' = [sess EXCEPT ![x].st = "open", ![x].opts = opts]
     \/ sess' = [sess EXCEPT ![x] = NoSess]
  /\ UNCHANGED <<pc, ctlVars, restVars, grab>>

SessClose(x) ==
  /\ sess[x].st = "open"
  /\ sess' = [sess EXCEPT ![x] = NoSess]
  /\ UNCHANGED <<pc, ctlVars, restVars, grab>>

-----------------------------------------------------------------------------
CtlStep ==
  \/ GeneralReset \/ GeneralBind \/ GeneralMark \/ RestAPI
  \/ NetstackProxy \/ NetstackDevice \/ NetstackStack
  \/ AbortRead \/ AbortClose
  \/ StopRead \/ StopClose \/ StopDevice \/ StopStack
  \/ ReloadPrepare \/ ReloadReset \/ ReloadBind \/ ReloadCommit

Next ==
  \/ \E k \in Keys : StartOp(k)
  \/ StopOp
  \/ \E k \in ReloadKeys : ReloadOp(k)
  \/ CtlStep
  \/ \E s \in Servers : SrvStep(s) \/ SrvAcceptError(s)
  \/ \E x \in Sessions : SessAccept(x) \/ SessDial(x) \/ SessConnect(x)
                         \/ SessClose(x)

Spec == Init /\ [][Next]_vars

\* The Go scheduler runs every runnable goroutine: an operation under way and
\* a REST goroutine keep going.  Nothing makes a caller start an operation.
Fairness == WF_vars(CtlStep) /\ \A s \in Servers : WF_vars(SrvStep(s))

FairSpec == Spec /\ Fairness
-----------------------------------------------------------------------------
(***************************************************************************)
(* Properties.                                                             *)
(***************************************************************************)

\* Type invariant.
TypeOK ==
  /\ pc \in PCs
  /\ key \in SUBSET Keys /\ next \in SUBSET ReloadKeys
  /\ routing \in Policies /\ tproxy \in Policies
  /\ device \in BOOLEAN /\ stack \in BOOLEAN
  /\ opts \in SUBSET AllOpts
  /\ udp \in Nat
  /\ srv \in [Servers -> SrvStates]
  /\ closed \in SUBSET Servers
  /\ port \in Servers \cup {NoServer}
  /\ ptr \in Servers \cup {NoServer}
  /\ grab \in Servers \cup {NoServer}
  /\ sess \in [Sessions -> SessType]

\* Whenever no operation is under way, a running engine routes with the policy
\* of _defaultKey, reports the statistics of that same routing proxy, and its
\* dialer holds exactly the options that key asks for; and at every moment of
\* a live stack the tunnel's proxy is the one of _defaultKey, so no session is
\* ever dialled through a leftover of an earlier run or of a failed Reload.
PolicyMatchesKey ==
  /\ stack => \E k \in key : tproxy = k.policy /\ routing = k.policy
  /\ (pc = "idle" /\ Running) => \E k \in key : opts = Opts(k)

\* Observers of the engine (Running, the REST statistics, GetTrafficStats) take
\* _engineMu and so see it between operations only.  They never see half of
\* it: the device is open exactly when the stack is, also after a start that
\* failed at any of its steps, so a failed start never leaks the TUN device.
NeverHalfBuilt == pc = "idle" => (device <=> stack)

\* Every REST server that is published and not yet closed is the one _server
\* points to, whatever the order in which goroutines of successive runs reach
\* their deferred clean-up: a later restapi.Stop can always reach it.
ServingIsTracked ==
  \A s \in Servers :
    (srv[s] \in {"published", "serving"} /\ s \notin closed) => ptr = s

\* A session accepted by a live stack is dialled through a configured policy,
\* even when Stop, a failing start or Reload runs between the accept and the
\* load of the proxy: never through the rejecting default of the tunnel.
SessionHasPolicy ==
  \A x \in Sessions :
    sess[x].st \in {"dialing", "open"} => sess[x].policy \notin {NoPolicy, Reject}

\* A REST server closed before Serve has seen its listener still gives the
\* address back, so that the restapi.Start of the next run can listen.
ClosedServerFreesPort ==
  \A s \in Servers : (s \in closed /\ port = s) ~> (port # s)

\* README.md:40: outbound sockets are bound to the selected interface.  For keys
\* that all name an interface, every socket that connects is bound to one.
EgressBound ==
  \A x \in Sessions : sess[x].st = "open" => sess[x].opts # {}
=============================================================================
