----------------------------- MODULE HostRoutes -----------------------------
(***************************************************************************)
(* The Windows route transaction of the desktop application:               *)
(* setupRoutesLocked and teardownRoutesLocked (desktop/platform_windows.go) *)
(* as startLocked and stopLocked (desktop/app.go) call them.  App.mu is    *)
(* held for the whole of a start or a stop, so one of them is under way at *)
(* a time and pc says at which command it is; the network and the DNS      *)
(* change between the commands.                                            *)
(*                                                                         *)
(* The process may die between two commands and be started again.          *)
(*                                                                         *)
(* Commands are external programs.  Any of them may fail (a fault; at most *)
(* MaxFaults of them), `route ADD` fails when the route exists, and `route *)
(* DELETE` of a route that does not exist may or may not report an error.  *)
(* Closing the TUN device removes the adapter, and its routes with it.     *)
(***************************************************************************)
EXTENDS Naturals, FiniteSets

CONSTANTS
  IPs,         \* addresses the SOCKS5 host may resolve to
  Loopback,    \* those of them that are loopback addresses
  Networks,    \* physical networks: gateway and interface index
  MaxFaults,   \* bound on failing commands
  MaxSwitches  \* bound on changes of the network and of the DNS answer

ASSUME RoutesAssumption ==
  /\ Loopback \subseteq IPs
  /\ MaxFaults \in Nat /\ MaxSwitches \in Nat
  /\ Networks # {}

VARIABLES
  pc,        \* next command of the start or stop under way
  ret,       \* who called teardownRoutesLocked: "setup" or "stop"
  core,      \* engine.Running(): the adapter exists
  resolved,  \* what resolveProxyIPs answered in the last setup
  todo,      \* addresses still to be handled by the loop at pc
  added,     \* the slice of that name in setupRoutesLocked
  phys,      \* gateway and physicalIndex of the setup under way
  up,        \* App.up
  deflt,     \* the TUN default route is in the table
  hosts,     \* host routes in the table: <<address, network>>
  net,       \* the physical network of now
  dns,       \* what the SOCKS5 host resolves to now
  faults,    \* failing commands so far
  switches,  \* changes of net and dns so far
  undone     \* a clean-up command of a failed setup has failed, or a crash left
             \* host routes behind

vars == <<pc, ret, core, resolved, todo, added, phys, up, deflt, hosts, net,
          dns, faults, switches, undone>>
tableVars == <<deflt, hosts>>
envVars   == <<net, dns, switches>>

Routable == IPs \ Loopback
NoRoutes == [active |-> FALSE, ips |-> {}, phys |-> CHOOSE n \in Networks : TRUE]
UpType   == [active : BOOLEAN, ips : SUBSET Routable, phys : Networks]
Tracked  == {<<ip, up.phys>> : ip \in up.ips}

SetupPCs == {"probe", "addr", "dns", "hosts", "default", "verify"}
UndoPCs  == {"cleanup", "undo"}
TearPCs  == {"tdDefault", "tdHosts", "tdRestore"}
PCs      == {"idle", "stopCore"} \cup SetupPCs \cup UndoPCs \cup TearPCs

Init ==
  /\ pc = "idle" /\ ret = "stop"
  /\ core = FALSE
  /\ resolved = {} /\ todo = {} /\ added = {}
  /\ phys \in Networks /\ net = phys
  /\ up = NoRoutes
  /\ deflt = FALSE /\ hosts = {}
  /\ dns \in SUBSET IPs \ {{}}
  /\ faults = 0 /\ switches = 0
  /\ undone = FALSE

\* A command fails without having done anything.
Fault == faults < MaxFaults /\ faults' = faults + 1

\* `route DELETE r` in a loop over todo: the route is gone or, if it was not
\* there, the command may also have failed (then onFail).
Delete(r, onOK, onFail) ==
  \/ onOK /\ hosts' = hosts \ {r} /\ UNCHANGED faults
  \/ onFail /\ Fault /\ UNCHANGED hosts
  \/ r \notin hosts /\ onFail /\ UNCHANGED <<hosts, faults>>

-----------------------------------------------------------------------------
(***************************************************************************)
(* startLocked and setupRoutesLocked.                                      *)
(***************************************************************************)
\* startLocked up to engine.StartE: the endpoint check, the choice of the
\* interface and StartE itself fail with nothing changed.
Start ==
  /\ pc = "idle" /\ ~core
  /\ core' = TRUE /\ pc' = "probe"
  /\ UNCHANGED <<ret, resolved, todo, added, phys, up, tableVars, envVars,
                 faults, undone>>

\* Mutant: host routes for loopback addresses too.
SetupProbeNoSkip ==
  /\ pc = "probe" /\ pc' = "addr"
  /\ resolved' = dns /\ todo' = dns /\ added' = {} /\ phys' = net
  /\ UNCHANGED <<ret, core, up, tableVars, envVars, faults, undone>>

\* The queries of setupRoutesLocked: interfaces, gateway, SOCKS5 addresses.
\* Loopback addresses are skipped by the loop that adds host routes.
SetupProbe ==
  /\ pc = "probe"
  /\ \/ /\ pc' = "addr"
        /\ resolved' = dns /\ todo' = dns \ Loopback
        /\ added' = {} /\ phys' = net
        /\ UNCHANGED faults
     \/ Fault /\ pc' = "undo" /\ UNCHANGED <<resolved, todo, added, phys>>
  /\ UNCHANGED <<ret, core, up, tableVars, envVars, undone>>

\* netsh set address, then netsh set dns: both return without a clean-up.
SetupNetsh(from, to) ==
  /\ pc = from
  /\ \/ pc' = to /\ UNCHANGED faults
     \/ Fault /\ pc' = "undo"
  /\ UNCHANGED <<ret, core, resolved, todo, added, phys, up, tableVars,
                 envVars, undone>>

SetAddress == SetupNetsh("addr", "dns")
SetDNS     == SetupNetsh("dns", "hosts")

\* Mutant: the default route is added before the loop is through.
AddHostsDoneEarly ==
  /\ pc = "hosts" /\ pc' = "default"
  /\ UNCHANGED <<ret, core, resolved, todo, added, phys, up, tableVars,
                 envVars, faults, undone>>

\* The loop over the proxy addresses; the first error runs cleanup.
AddHost(ip) ==
  /\ pc = "hosts" /\ ip \in todo
  /\ \/ /\ <<ip, phys>> \notin hosts
        /\ hosts' = hosts \cup {<<ip, phys>>}
        /\ added' = added \cup {ip} /\ todo' = todo \ {ip}
        /\ UNCHANGED <<pc, faults>>
     \/ /\ Fault \/ (<<ip, phys>> \in hosts /\ UNCHANGED faults)
        /\ pc' = "cleanup" /\ todo' = added
        /\ UNCHANGED <<hosts, added>>
  /\ UNCHANGED <<ret, core, resolved, phys, up, deflt, envVars, undone>>

AddHostsDone ==
  /\ pc = "hosts" /\ todo = {} /\ pc' = "default"
  /\ UNCHANGED <<ret, core, resolved, todo, added, phys, up, tableVars,
                 envVars, faults, undone>>

\* route ADD of the default route through the TUN, then a.up is assigned.
AddDefault ==
  /\ pc = "default"
  /\ \/ /\ ~deflt /\ deflt' = TRUE
        /\ up' = [active |-> TRUE, ips |-> added, phys |-> phys]
        /\ pc' = "verify"
        /\ UNCHANGED <<todo, faults>>
     \/ /\ Fault \/ (deflt /\ UNCHANGED faults)
        /\ pc' = "cleanup" /\ todo' = added
        /\ UNCHANGED <<deflt, up>>
  /\ UNCHANGED <<ret, core, resolved, added, phys, hosts, envVars, undone>>

\* windowsTunDefaultRouteReady; a failure tears everything down again.
Verify ==
  /\ pc = "verify"
  /\ \/ deflt /\ pc' = "idle" /\ UNCHANGED <<ret, faults>>
     \/ Fault /\ pc' = "tdDefault" /\ ret' = "setup"
  /\ UNCHANGED <<core, resolved, todo, added, phys, up, tableVars, envVars,
                 undone>>

\* The closure cleanup: errors are ignored.
CleanupHost(ip) ==
  /\ pc = "cleanup" /\ ip \in todo
  /\ todo' = todo \ {ip}
  /\ Delete(<<ip, phys>>, UNCHANGED undone, undone' = TRUE)
  /\ UNCHANGED <<pc, ret, core, resolved, added, phys, up, deflt, envVars>>

CleanupDone ==
  /\ pc = "cleanup" /\ todo = {} /\ pc' = "undo"
  /\ UNCHANGED <<ret, core, resolved, todo, added, phys, up, tableVars,
                 envVars, faults, undone>>

\* engine.StopE: the adapter goes and takes the default route along; an error
\* (of the REST server) leaves the engine running.
CloseCore ==
  \/ core' = FALSE /\ deflt' = FALSE /\ UNCHANGED faults
  \/ Fault /\ UNCHANGED <<core, deflt>>

\* `_ = engine.StopE()` in startLocked after a failed setup.
UndoStart ==
  /\ pc = "undo" /\ pc' = "idle"
  /\ CloseCore
  /\ UNCHANGED <<ret, resolved, todo, added, phys, up, hosts, envVars, undone>>

-----------------------------------------------------------------------------
(***************************************************************************)
(* stopLocked and teardownRoutesLocked.                                    *)
(***************************************************************************)
Stop ==
  /\ pc = "idle"
  /\ ret' = "stop"
  /\ pc' = IF up.active THEN "tdDefault" ELSE "stopCore"
  /\ UNCHANGED <<core, resolved, todo, added, phys, up, tableVars, envVars,
                 faults, undone>>

\* teardownRoutesLocked returns an error: stopLocked gives up with the engine
\* running, setupRoutesLocked ignores it.
TearFails ==
  /\ pc' = IF ret = "stop" THEN "idle" ELSE "undo"
  /\ undone' = IF ret = "stop" THEN undone ELSE TRUE

\* Mutant: the loop of the teardown goes on after an error and drops it.
TearHostIgnoresError(ip) ==
  /\ pc = "tdHosts" /\ ip \in todo
  /\ todo' = todo \ {ip}
  /\ Delete(<<ip, up.phys>>, UNCHANGED undone, UNCHANGED undone)
  /\ UNCHANGED <<pc, ret, core, resolved, added, phys, up, deflt, envVars>>

TearDefault ==
  /\ pc = "tdDefault"
  /\ \/ /\ deflt' = FALSE /\ todo' = up.ips /\ pc' = "tdHosts"
        /\ UNCHANGED <<faults, undone>>
     \/ /\ Fault \/ (~deflt /\ UNCHANGED faults)
        /\ TearFails
        /\ UNCHANGED <<deflt, todo>>
  /\ UNCHANGED <<ret, core, resolved, added, phys, up, hosts, envVars>>

TearHost(ip) ==
  /\ pc = "tdHosts" /\ ip \in todo
  /\ Delete(<<ip, up.phys>>,
            todo' = todo \ {ip} /\ UNCHANGED <<pc, undone>>,
            TearFails /\ UNCHANGED todo)
  /\ UNCHANGED <<ret, core, resolved, added, phys, up, deflt, envVars>>

TearHostsDone ==
  /\ pc = "tdHosts" /\ todo = {} /\ pc' = "tdRestore"
  /\ UNCHANGED <<ret, core, resolved, todo, added, phys, up, tableVars,
                 envVars, faults, undone>>

\* restoreTunConfig, and a.up is cleared when everything went well.
TearRestore ==
  /\ pc = "tdRestore"
  /\ \/ /\ up' = NoRoutes
        /\ pc' = IF ret = "stop" THEN "stopCore" ELSE "undo"
        /\ UNCHANGED <<faults, undone>>
     \/ Fault /\ TearFails /\ UNCHANGED up
  /\ UNCHANGED <<ret, core, resolved, todo, added, phys, tableVars, envVars>>

StopCore ==
  /\ pc = "stopCore" /\ pc' = "idle"
  /\ CloseCore
  /\ UNCHANGED <<ret, resolved, todo, added, phys, up, hosts, envVars, undone>>

-----------------------------------------------------------------------------
(***************************************************************************)
(* The environment: the machine moves to another network, the name of the  *)
(* SOCKS5 host resolves to something else.                                 *)
(***************************************************************************)
SwitchNetwork(n, d) ==
  /\ switches < MaxSwitches /\ switches' = switches + 1
  /\ net' = n /\ dns' = d
  /\ UNCHANGED <<pc, ret, core, resolved, todo, added, phys, up, tableVars,
                 faults, undone>>

\* The process dies between two commands.  The adapter goes with it; App.up is
\* lost and the host routes stay, so that ADD of one of them fails from then on.
Crash ==
  /\ Fault
  /\ pc' = "idle" /\ core' = FALSE /\ deflt' = FALSE
  /\ up' = NoRoutes /\ resolved' = {} /\ todo' = {} /\ added' = {}
  /\ undone' = (undone \/ hosts # {})
  /\ UNCHANGED <<ret, phys, hosts, envVars>>

Command ==
  \/ SetupProbe \/ SetAddress \/ SetDNS
  \/ \E ip \in IPs : AddHost(ip) \/ CleanupHost(ip) \/ TearHost(ip)
  \/ AddHostsDone \/ AddDefault \/ Verify \/ CleanupDone \/ UndoStart
  \/ TearDefault \/ TearHostsDone \/ TearRestore \/ StopCore

Next ==
  \/ Start \/ Stop \/ Crash
  \/ Command
  \/ \E n \in Networks, d \in SUBSET IPs \ {{}} : SwitchNetwork(n, d)

Spec == Init /\ [][Next]_vars

-----------------------------------------------------------------------------
(***************************************************************************)
(* Properties.                                                             *)
(***************************************************************************)

\* Type invariant.
TypeOK ==
  /\ pc \in PCs /\ ret \in {"setup", "stop"}
  /\ core \in BOOLEAN /\ deflt \in BOOLEAN /\ undone \in BOOLEAN
  /\ resolved \in SUBSET IPs /\ dns \in SUBSET IPs
  /\ todo \in SUBSET Routable /\ added \in SUBSET Routable
  /\ phys \in Networks /\ net \in Networks
  /\ up \in UpType
  /\ hosts \in SUBSET (Routable \X Networks)
  /\ faults \in Nat /\ switches \in Nat

\* At every moment at which the default route points into the TUN, also in the
\* middle of a start, of a stop, of a roll-back, after any of them failed at any
\* command, and after a crash left routes behind, each routable address the
\* SOCKS5 host resolved to when the routes were set up has its host route through
\* the network recorded in a.up then: the default route is never raised too early
\* nor the host routes taken down too early.  Of what the name resolves to later,
\* and of a later network, nothing is said: the code stores networkSignature and
\* never compares it, although README.md:39 promises that routes are rebuilt.
AntiLoop ==
  deflt => \A ip \in resolved \ Loopback : <<ip, up.phys>> \in hosts

\* Between operations every route this application added is in a.up, so that a
\* later Stop removes it, and an engine that is down has no routes; a Stop that
\* failed at any command forgets nothing.  The exceptions are a failed setup one
\* of whose clean-up commands failed too, and a crash while there are routes.
NothingForgotten ==
  (pc = "idle" /\ ~undone) =>
     /\ hosts \subseteq Tracked
     /\ deflt => up.active
     /\ up.active => core
=============================================================================
