---------------------------- MODULE RouteProofs ----------------------------
(***************************************************************************)
(* Theorems about the two places that decide the way of a packet: the      *)
(* routes of the host (HostRoutes), for any set of addresses and networks  *)
(* and any number of failing commands, and the policy inside the tunnel    *)
(* with its counters (Routing), for any number of sessions and bytes, and  *)
(* with its reader of GeoIP files (GeoIP), for any file.                   *)
(***************************************************************************)
EXTENDS HostRoutes, Routing, FiniteSetTheorems, SequenceTheorems, WellFoundedInduction, TLAPS

-----------------------------------------------------------------------------
(***************************************************************************)
(* HostRoutes.                                                             *)
(***************************************************************************)
\* What the host routes cover at each command of the transaction: the default
\* route exists only where the host routes are complete.
CoverInv ==
  /\ ~core => ~deflt
  /\ pc \in SetupPCs \cup UndoPCs => core
  /\ pc \in TearPCs /\ ret = "setup" => core
  /\ pc \in (SetupPCs \ {"verify"}) \cup {"cleanup", "tdHosts", "tdRestore"}
       => ~deflt
  /\ pc \in {"addr", "dns"} => resolved \ Loopback \subseteq todo
  /\ pc = "hosts" => \A ip \in resolved \ Loopback :
                       ip \in todo \/ <<ip, phys>> \in hosts
  /\ pc = "default" => \A ip \in resolved \ Loopback : <<ip, phys>> \in hosts
  /\ deflt => \A ip \in resolved \ Loopback : <<ip, up.phys>> \in hosts

\* Which routes exist at each command, as long as no clean-up has failed.
Owned(ips, n) == \A r \in hosts : r[1] \in ips /\ r[2] = n

OwnInv ==
  /\ ~up.active => up.ips = {}
  /\ pc \in TearPCs \cup {"verify"} => up.active
  /\ pc = "tdHosts" => todo \subseteq up.ips
  /\ ~undone =>
       /\ pc \in {"idle", "verify", "tdDefault"} => Owned(up.ips, up.phys)
       /\ pc \in {"probe", "addr", "dns", "undo", "tdRestore", "stopCore"} =>
            hosts = {}
       /\ pc \in {"hosts", "default"} => Owned(added, phys)
       /\ pc = "cleanup" => Owned(todo, phys)
       /\ pc = "tdHosts" => Owned(todo, up.phys)
       /\ pc \in {"probe", "addr", "dns", "hosts", "default", "cleanup", "undo",
                 "stopCore"} => ~up.active
       /\ up.active => core
       /\ deflt => up.active

IInv == TypeOK /\ CoverInv /\ OwnInv

\* The initial state, with empty tables, satisfies the invariant.
LEMMA InitIInv == Init => IInv
  <1> SUFFICES ASSUME Init PROVE IInv
    OBVIOUS
  <1> USE RoutesAssumption
  <1>1. NoRoutes \in UpType
    BY DEF NoRoutes, UpType
  <1>2. TypeOK
    BY <1>1 DEF Init, TypeOK, PCs, Routable
  <1>3. CoverInv
    BY DEF Init, CoverInv, SetupPCs, UndoPCs, TearPCs
  <1>4. OwnInv
    BY DEF Init, OwnInv, Owned, NoRoutes, TearPCs
  <1> QED
    BY <1>2, <1>3, <1>4 DEF IInv

\* Every command keeps the types.
LEMMA TypeStep ==
  TypeOK /\ [Next]_vars => TypeOK'
  <1> SUFFICES ASSUME TypeOK, [Next]_vars PROVE TypeOK'
    OBVIOUS
  <1>0. faults' \in Nat
    <2>1. faults' = faults \/ Fault
      BY DEF Next, vars, Command, Delete, CloseCore, Start, Stop, SetupProbe,
             SetAddress, SetDNS, SetupNetsh, AddHost, AddHostsDone, AddDefault,
             Verify, CleanupHost, CleanupDone, UndoStart, TearDefault, TearHost,
             TearHostsDone, TearRestore, StopCore, SwitchNetwork, Crash
    <2> QED
      BY <2>1 DEF TypeOK, Fault
  <1> USE <1>0, RoutesAssumption DEF TypeOK, PCs, SetupPCs, UndoPCs, TearPCs
  <1>1. CASE Start
    BY <1>1 DEF Start, tableVars, envVars
  <1>2. CASE SetupProbe
    BY <1>2 DEF SetupProbe, Routable, tableVars, envVars
  <1>3. CASE SetAddress
    BY <1>3 DEF SetAddress, SetupNetsh, tableVars, envVars
  <1>4. CASE SetDNS
    BY <1>4 DEF SetDNS, SetupNetsh, tableVars, envVars
  <1>5. CASE \E ip \in IPs : AddHost(ip)
    BY <1>5 DEF AddHost, tableVars, envVars
  <1>6. CASE AddHostsDone
    BY <1>6 DEF AddHostsDone, tableVars, envVars
  <1>7. CASE AddDefault
    <2>1. [active |-> TRUE, ips |-> added, phys |-> phys] \in UpType
      BY DEF UpType
    <2>2. up' \in UpType /\ deflt' \in BOOLEAN
      BY <1>7, <2>1 DEF AddDefault
    <2> QED
      BY <1>7, <2>2 DEF AddDefault, envVars
  <1>8. CASE Verify
    BY <1>8 DEF Verify, tableVars, envVars
  <1>9. CASE \E ip \in IPs : CleanupHost(ip)
    BY <1>9 DEF CleanupHost, Delete, tableVars, envVars
  <1>10. CASE CleanupDone
    BY <1>10 DEF CleanupDone, tableVars, envVars
  <1>11. CASE UndoStart
    BY <1>11 DEF UndoStart, CloseCore, tableVars, envVars
  <1>12. CASE Stop
    BY <1>12 DEF Stop, tableVars, envVars
  <1>13. CASE TearDefault
    BY <1>13 DEF TearDefault, UpType, TearFails, tableVars, envVars
  <1>14. CASE \E ip \in IPs : TearHost(ip)
    BY <1>14 DEF TearHost, Delete, TearFails, tableVars, envVars
  <1>15. CASE TearHostsDone
    BY <1>15 DEF TearHostsDone, tableVars, envVars
  <1>16. CASE TearRestore
    <2>1. NoRoutes \in UpType
      BY DEF NoRoutes, UpType
    <2>2. up' \in UpType /\ undone' \in BOOLEAN
      BY <1>16, <2>1 DEF TearRestore, TearFails
    <2> QED
      BY <1>16, <2>2 DEF TearRestore, TearFails, tableVars, envVars
  <1>17. CASE StopCore
    BY <1>17 DEF StopCore, CloseCore, tableVars, envVars
  <1>18. CASE \E n \in Networks, d \in SUBSET IPs \ {{}} : SwitchNetwork(n, d)
    BY <1>18 DEF SwitchNetwork, tableVars, envVars
  <1>19. CASE UNCHANGED vars
    BY <1>19 DEF vars
  <1>20. CASE Crash
    <2>1. NoRoutes \in UpType
      BY DEF NoRoutes, UpType
    <2> QED
      BY <1>20, <2>1 DEF Crash, envVars
  <1> QED
    BY <1>1, <1>2, <1>3, <1>4, <1>5, <1>6, <1>7, <1>8, <1>9, <1>10, <1>11, <1>12, <1>13, <1>14, <1>15, <1>16, <1>17, <1>18, <1>19, <1>20
       DEF Next, Command

\* Every command keeps the host routes complete under the default route.
LEMMA CoverStep ==
  TypeOK /\ CoverInv /\ [Next]_vars => CoverInv'
  <1> SUFFICES ASSUME TypeOK, CoverInv, [Next]_vars PROVE CoverInv'
    OBVIOUS
  <1> USE RoutesAssumption DEF TypeOK, CoverInv, SetupPCs, UndoPCs, TearPCs
  <1>1. CASE Start
    BY <1>1 DEF Start, tableVars, envVars
  <1>2. CASE SetupProbe
    BY <1>2 DEF SetupProbe, tableVars, envVars
  <1>3. CASE SetAddress
    BY <1>3 DEF SetAddress, SetupNetsh, tableVars, envVars
  <1>4. CASE SetDNS
    BY <1>4 DEF SetDNS, SetupNetsh, tableVars, envVars
  <1>5. CASE \E ip \in IPs : AddHost(ip)
    BY <1>5 DEF AddHost, tableVars, envVars
  <1>6. CASE AddHostsDone
    BY <1>6 DEF AddHostsDone, tableVars, envVars
  <1>7. CASE AddDefault
    <2>1. CASE pc' = "verify"
      <3>1. up'.phys = phys
        BY <1>7, <2>1 DEF AddDefault
      <3> QED
        BY <1>7, <2>1, <3>1 DEF AddDefault
    <2>2. CASE pc' = "cleanup"
      BY <1>7, <2>2 DEF AddDefault
    <2> QED
      BY <1>7, <2>1, <2>2 DEF AddDefault
  <1>8. CASE Verify
    BY <1>8 DEF Verify, tableVars, envVars
  <1>9. CASE \E ip \in IPs : CleanupHost(ip)
    BY <1>9 DEF CleanupHost, Delete, tableVars, envVars
  <1>10. CASE CleanupDone
    BY <1>10 DEF CleanupDone, tableVars, envVars
  <1>11. CASE UndoStart
    <2>1. \/ ~core' /\ ~deflt'
          \/ UNCHANGED <<core, deflt>>
      BY <1>11 DEF UndoStart, CloseCore
    <2>2. pc' = "idle" /\ UNCHANGED <<hosts, up, resolved>>
      BY <1>11 DEF UndoStart
    <2>3. CASE ~core' /\ ~deflt'
      BY <2>2, <2>3
    <2>4. CASE UNCHANGED <<core, deflt>>
      BY <2>2, <2>4
    <2> QED
      BY <2>1, <2>3, <2>4
  <1>12. CASE Stop
    BY <1>12 DEF Stop, tableVars, envVars
  <1>13. CASE TearDefault
    <2>1. CASE pc' = "tdHosts"
      <3>1. ~deflt'
        BY <1>13, <2>1 DEF TearDefault, TearFails
      <3> QED
        BY <1>13, <2>1, <3>1 DEF TearDefault
    <2>2. CASE pc' # "tdHosts"
      <3>1. UNCHANGED <<deflt, hosts, up, resolved, core>>
        BY <1>13, <2>2 DEF TearDefault
      <3>2. pc' \in {"idle", "undo"} /\ (pc' = "undo" => ret = "setup")
        BY <1>13, <2>2 DEF TearDefault, TearFails
      <3> QED
        BY <1>13, <3>1, <3>2 DEF TearDefault
    <2> QED
      BY <2>1, <2>2
  <1>14. CASE \E ip \in IPs : TearHost(ip)
    <2>1. PICK ip \in IPs : TearHost(ip)
      BY <1>14
    <2>2. ~deflt /\ UNCHANGED deflt
      BY <2>1 DEF TearHost
    <2>3. pc' \in {"tdHosts", "idle", "undo"} /\ (pc' = "undo" => ret = "setup")
      BY <2>1 DEF TearHost, Delete, TearFails
    <2> QED
      BY <2>1, <2>2, <2>3 DEF TearHost
  <1>15. CASE TearHostsDone
    BY <1>15 DEF TearHostsDone, tableVars, envVars
  <1>16. CASE TearRestore
    BY <1>16 DEF TearRestore, UpType, TearFails, tableVars, envVars
  <1>17. CASE StopCore
    BY <1>17 DEF StopCore, CloseCore, tableVars, envVars
  <1>18. CASE \E n \in Networks, d \in SUBSET IPs \ {{}} : SwitchNetwork(n, d)
    BY <1>18 DEF SwitchNetwork, tableVars, envVars
  <1>19. CASE UNCHANGED vars
    BY <1>19 DEF vars
  <1>20. CASE Crash
    BY <1>20 DEF Crash, envVars
  <1> QED
    BY <1>1, <1>2, <1>3, <1>4, <1>5, <1>6, <1>7, <1>8, <1>9, <1>10, <1>11, <1>12, <1>13, <1>14, <1>15, <1>16, <1>17, <1>18, <1>19, <1>20
       DEF Next, Command

\* Every command keeps track of the routes that exist.
LEMMA OwnStep ==
  TypeOK /\ CoverInv /\ OwnInv /\ [Next]_vars => OwnInv'
  <1> SUFFICES ASSUME TypeOK, CoverInv, OwnInv, [Next]_vars PROVE OwnInv'
    OBVIOUS
  <1> USE RoutesAssumption DEF TypeOK, OwnInv, Owned, TearPCs
  <1>1. CASE Start
    BY <1>1 DEF Start, CoverInv, tableVars, envVars
  <1>2. CASE SetupProbe
    BY <1>2 DEF SetupProbe, tableVars, envVars
  <1>3. CASE SetAddress
    BY <1>3 DEF SetAddress, SetupNetsh, tableVars, envVars
  <1>4. CASE SetDNS
    BY <1>4 DEF SetDNS, SetupNetsh, tableVars, envVars
  <1>5. CASE \E ip \in IPs : AddHost(ip)
    BY <1>5 DEF AddHost, tableVars, envVars
  <1>6. CASE AddHostsDone
    BY <1>6 DEF AddHostsDone, tableVars, envVars
  <1>7. CASE AddDefault
    <2>1. CASE pc' = "verify"
      <3>1. up' = [active |-> TRUE, ips |-> added, phys |-> phys]
        BY <1>7, <2>1 DEF AddDefault
      <3> QED
        BY <1>7, <2>1, <3>1 DEF AddDefault, CoverInv, SetupPCs
    <2>2. CASE pc' = "cleanup"
      BY <1>7, <2>2 DEF AddDefault
    <2> QED
      BY <1>7, <2>1, <2>2 DEF AddDefault
  <1>8. CASE Verify
    BY <1>8 DEF Verify, tableVars, envVars
  <1>9. CASE \E ip \in IPs : CleanupHost(ip)
    BY <1>9 DEF CleanupHost, Delete, tableVars, envVars
  <1>10. CASE CleanupDone
    BY <1>10 DEF CleanupDone, tableVars, envVars
  <1>11. CASE UndoStart
    BY <1>11 DEF UndoStart, CloseCore, CoverInv, tableVars, envVars
  <1>12. CASE Stop
    BY <1>12 DEF Stop, tableVars, envVars
  <1>13. CASE TearDefault
    BY <1>13 DEF TearDefault, TearFails, tableVars, envVars
  <1>14. CASE \E ip \in IPs : TearHost(ip)
    <2>1. PICK ip \in IPs : TearHost(ip)
      BY <1>14
    <2>2. CASE pc' = "tdHosts"
      BY <2>1, <2>2 DEF TearHost, Delete, TearFails
    <2>3. CASE pc' # "tdHosts"
      <3>1. TearFails /\ UNCHANGED <<todo, hosts, up, core, deflt, ret>>
        BY <2>1, <2>3 DEF TearHost, Delete
      <3> QED
        BY <2>1, <3>1 DEF TearHost, TearFails
    <2> QED
      BY <2>2, <2>3
  <1>15. CASE TearHostsDone
    BY <1>15 DEF TearHostsDone, tableVars, envVars
  <1>16. CASE TearRestore
    <2>1. CASE up' = NoRoutes /\ pc' = (IF ret = "stop" THEN "stopCore" ELSE "undo")
               /\ UNCHANGED undone
      <3>1. ~up'.active /\ up'.ips = {}
        BY <2>1 DEF NoRoutes
      <3>2. ~deflt /\ UNCHANGED <<deflt, hosts>>
        BY <1>16 DEF TearRestore, CoverInv, tableVars
      <3> QED
        BY <1>16, <2>1, <3>1, <3>2 DEF TearRestore
    <2>2. CASE TearFails /\ UNCHANGED up
      BY <1>16, <2>2 DEF TearRestore, TearFails, tableVars
    <2> QED
      BY <1>16, <2>1, <2>2 DEF TearRestore
  <1>17. CASE StopCore
    BY <1>17 DEF StopCore, CloseCore, CoverInv, tableVars, envVars
  <1>18. CASE \E n \in Networks, d \in SUBSET IPs \ {{}} : SwitchNetwork(n, d)
    BY <1>18 DEF SwitchNetwork, tableVars, envVars
  <1>19. CASE UNCHANGED vars
    BY <1>19 DEF vars
  <1>20. CASE Crash
    <2>1. ~up'.active /\ up'.ips = {}
      BY <1>20 DEF Crash, NoRoutes
    <2>2. ~undone' => hosts' = {}
      BY <1>20 DEF Crash
    <2> QED
      BY <1>20, <2>1, <2>2 DEF Crash
  <1> QED
    BY <1>1, <1>2, <1>3, <1>4, <1>5, <1>6, <1>7, <1>8, <1>9, <1>10, <1>11, <1>12, <1>13, <1>14, <1>15, <1>16, <1>17, <1>18, <1>19, <1>20
       DEF Next, Command

-----------------------------------------------------------------------------
\* The inductive invariant holds whatever commands fail.
THEOREM RoutesInvariant == Spec => []IInv
  <1>1. IInv /\ [Next]_vars => IInv'
    BY TypeStep, CoverStep, OwnStep DEF IInv
  <1> QED
    BY InitIInv, <1>1, PTL DEF Spec

\* While the default route points into the TUN, the addresses resolved at its setup
\* have their host routes, through the network of the setup.
THEOREM NeverLoops == Spec => []AntiLoop
  <1>1. IInv => AntiLoop
    BY DEF IInv, CoverInv, AntiLoop, TypeOK, UpType
  <1> QED
    BY RoutesInvariant, <1>1, PTL

\* Between operations a.up accounts for every route the application added,
\* unless the roll-back of a failed setup failed itself.
THEOREM RoutesAccounted == Spec => []NothingForgotten
  <1>1. IInv => NothingForgotten
    BY DEF IInv, TypeOK, OwnInv, Owned, NothingForgotten, Tracked, UpType
  <1> QED
    BY RoutesInvariant, <1>1, PTL

\* Type correctness: only routable addresses ever get a host route.
THEOREM TypeCorrect == Spec => []TypeOK
  <1>1. IInv => TypeOK
    BY DEF IInv
  <1> QED
    BY RoutesInvariant, <1>1, PTL

-----------------------------------------------------------------------------
(***************************************************************************)
(* Sums and numbers of sessions.                                           *)
(***************************************************************************)
One(b) == IF b THEN 1 ELSE 0

\* The units of a function of numbers are finitely many.
LEMMA UnitsFinite ==
  ASSUME NEW f \in [Sessions -> Nat]
  PROVE  IsFiniteSet(Units(f)) /\ SumOver(f) \in Nat
<1> DEFINE Column(s) == {s} \X (1..f[s])
           Columns == {Column(s) : s \in Sessions}
<1>1. IsFiniteSet(Columns)
  <2>1. IsFiniteSet(Sessions)
    BY RoutingAssumption
  <2> DEFINE h == [s \in Sessions |-> Column(s)]
  <2>2. h \in Surjection(Sessions, Columns)
    BY DEF Surjection
  <2> HIDE DEF h, Columns
  <2> QED BY <2>1, <2>2, FS_Surjection
<1>2. ASSUME NEW T \in Columns PROVE IsFiniteSet(T)
  <2>1. PICK s \in Sessions : T = Column(s)
    OBVIOUS
  <2>2. IsFiniteSet({s})
    BY FS_Singleton
  <2>3. IsFiniteSet(1..f[s])
    BY FS_Interval
  <2> QED BY <2>1, <2>2, <2>3, FS_Product
<1>3. IsFiniteSet(UNION Columns)
  <2> HIDE DEF Columns
  <2> QED BY <1>1, <1>2, FS_UNION
<1> QED BY <1>3, FS_CardinalityType DEF Units, SumOver

\* What is in Units, pair by pair.
LEMMA UnitsMember ==
  ASSUME NEW f \in [Sessions -> Nat], NEW u
  PROVE  u \in Units(f) <=> \E s \in Sessions, i \in Nat : u = <<s, i>> /\ i \in 1..f[s]
BY DEF Units

\* One more in one place is one more in the sum.
LEMMA SumAdd ==
  ASSUME NEW f \in [Sessions -> Nat], NEW g \in [Sessions -> Nat], NEW s \in Sessions,
         g[s] = f[s] + 1, \A x \in Sessions \ {s} : g[x] = f[x]
  PROVE  SumOver(g) = SumOver(f) + 1
<1> DEFINE u == <<s, f[s] + 1>>
<1>1. u \notin Units(f)
  BY UnitsMember
<1>2. Units(g) = Units(f) \cup {u}
  <2>1. ASSUME NEW v \in Units(g) PROVE v \in Units(f) \cup {u}
    <3>1. PICK x \in Sessions, i \in Nat : v = <<x, i>> /\ i \in 1..g[x]
      BY UnitsMember
    <3>2. CASE x = s /\ i = f[s] + 1
      BY <3>1, <3>2
    <3>3. CASE ~(x = s /\ i = f[s] + 1)
      <4>1. i \in 1..f[x]
        BY <3>1, <3>3
      <4> QED BY <3>1, <4>1, UnitsMember
    <3> QED BY <3>2, <3>3
  <2>2. ASSUME NEW v \in Units(f) PROVE v \in Units(g)
    <3>1. PICK x \in Sessions, i \in Nat : v = <<x, i>> /\ i \in 1..f[x]
      BY UnitsMember
    <3>2. i \in 1..g[x]
      BY <3>1
    <3> QED BY <3>1, <3>2, UnitsMember
  <2>3. u \in Units(g)
    <3>1. f[s] + 1 \in 1..g[s]
      OBVIOUS
    <3> QED BY <3>1, UnitsMember
  <2> QED BY <2>1, <2>2, <2>3
<1>3. IsFiniteSet(Units(f))
  BY UnitsFinite
<1> HIDE DEF u
<1> QED BY <1>1, <1>2, <1>3, FS_AddElement DEF SumOver

\* A function that is nowhere larger has no larger sum.
LEMMA SumLeq ==
  ASSUME NEW f \in [Sessions -> Nat], NEW g \in [Sessions -> Nat],
         \A x \in Sessions : f[x] <= g[x]
  PROVE  SumOver(f) <= SumOver(g)
<1>1. Units(f) \subseteq Units(g)
  <2> SUFFICES ASSUME NEW v \in Units(f) PROVE v \in Units(g)
    OBVIOUS
  <2>1. PICK x \in Sessions, i \in Nat : v = <<x, i>> /\ i \in 1..f[x]
    BY UnitsMember
  <2>2. i \in 1..g[x]
    BY <2>1
  <2> QED BY <2>1, <2>2, UnitsMember
<1>2. IsFiniteSet(Units(g))
  BY UnitsFinite
<1> QED BY <1>1, <1>2, FS_Subset DEF SumOver

\* The sum of zeros.
LEMMA SumZero ==
  ASSUME NEW f \in [Sessions -> Nat], \A x \in Sessions : f[x] = 0
  PROVE  SumOver(f) = 0
<1>1. Units(f) = {}
  BY UnitsMember
<1> QED BY <1>1, FS_EmptySet DEF SumOver

\* The sessions at some places are finitely many.
LEMMA AtCountType ==
  ASSUME NEW places
  PROVE  AtCount(places) \in Nat /\ AtCount(places)' \in Nat
BY RoutingAssumption, FS_Subset, FS_CardinalityType DEF AtCount

\* Only session s moves: what that does to the number of sessions at places.
LEMMA AtCountStep ==
  ASSUME NEW places, NEW s \in Sessions,
         \A x \in Sessions \ {s} : ses'[x].at = ses[x].at
  PROVE  AtCount(places)' + One(ses[s].at \in places)
           = AtCount(places) + One(ses'[s].at \in places)
<1> DEFINE A == {x \in Sessions : ses[x].at \in places}
           B == {x \in Sessions : ses'[x].at \in places}
           C == A \ {s}
<1>1. IsFiniteSet(C)
  BY RoutingAssumption, FS_Subset
<1>2. A = (IF ses[s].at \in places THEN C \cup {s} ELSE C)
  OBVIOUS
<1>3. B = (IF ses'[s].at \in places THEN C \cup {s} ELSE C)
  OBVIOUS
<1>4. s \notin C
  OBVIOUS
<1>5. AtCount(places) = Cardinality(A) /\ AtCount(places)' = Cardinality(B)
  BY DEF AtCount
<1> HIDE DEF A, B, C
<1>6. Cardinality(C \cup {s}) = Cardinality(C) + 1 /\ Cardinality(C) \in Nat
  BY <1>1, <1>4, FS_AddElement, FS_CardinalityType
<1> QED BY <1>2, <1>3, <1>5, <1>6 DEF One

(***************************************************************************)
(* The inductive invariant of the counters: what a byte has passed, per    *)
(* session and in all.                                                     *)
(***************************************************************************)
Modes == {"", "global", "direct", "rules"}
Vias  == {"none", "failed", "direct", "proxy"}
Ats   == {"idle", "rtTotal", "rtTemp", "mgrTemp", "mgrTotal", "own"}
SessionType == [via : Vias, at : Ats, moved : Nat, own : Nat]
CounterType == [total : Nat, temp : Nat, rate : Nat, sum : Nat]

RoutingTypes ==
  /\ router.mode \in Modes
  /\ ses \in [Sessions -> SessionType]
  /\ rt \in CounterType /\ mgr \in CounterType
  /\ ticks \in [due : BOOLEAN, fired : BOOLEAN, loaded : BOOLEAN]

\* At most one byte of a session is on its way, and only a proxied one passes
\* the counters of routing/.
ByteInv(r) ==
  /\ r.at \in {"rtTotal", "rtTemp"} => r.via = "proxy"
  /\ r.via \in {"none", "failed"} => r.moved = 0
  /\ r.own + One(r.at # "idle") = r.moved
ByteInvs == \A s \in Sessions : ByteInv(ses[s])

BeforeTotal == {"rtTotal", "rtTemp", "mgrTemp", "mgrTotal"}
MovedInv ==
  /\ mgr.total = SumOver(OwnBy) + AtCount({"own"})
  /\ mgr.total + AtCount(BeforeTotal) = Moved
  /\ Moved <= MaxMoves

RoutingInv == /\ RoutingTypes /\ ByteInvs
              /\ ProxiedSampledOnce /\ ManagerSamplesOnce /\ MovedInv

\* What the sums are sums of.
LEMMA SumTypes ==
  ASSUME RoutingTypes
  PROVE  /\ MovedBy \in [Sessions -> Nat] /\ Moved \in Nat
         /\ ProxiedBy \in [Sessions -> Nat] /\ SumOver(ProxiedBy) \in Nat
         /\ OwnBy \in [Sessions -> Nat] /\ SumOver(OwnBy) \in Nat
<1>1. MovedBy \in [Sessions -> Nat] /\ ProxiedBy \in [Sessions -> Nat]
        /\ OwnBy \in [Sessions -> Nat]
  BY DEF MovedBy, ProxiedBy, OwnBy, RoutingTypes, SessionType
<1> QED BY <1>1, UnitsFinite DEF Moved

\* The initial states satisfy the invariant.
LEMMA RoutingInitInv == RoutingInit => RoutingInv
<1> SUFFICES ASSUME RoutingInit PROVE RoutingInv
  OBVIOUS
<1>1. RoutingTypes
  BY DEF RoutingInit, RoutingTypes, SessionType, CounterType, Counter, NoRouter, Modes, Vias, Ats
<1>2. ByteInvs
  BY DEF RoutingInit, ByteInvs, ByteInv, One
<1>3. SumOver(MovedBy) = 0
  <2>1. \A s \in Sessions : MovedBy[s] = 0
    BY DEF RoutingInit, MovedBy
  <2> QED BY <1>1, <2>1, SumTypes, SumZero
<1>4. SumOver(ProxiedBy) = 0
  <2>1. \A s \in Sessions : ProxiedBy[s] = 0
    BY DEF RoutingInit, ProxiedBy
  <2> QED BY <1>1, <2>1, SumTypes, SumZero
<1>5. SumOver(OwnBy) = 0
  <2>1. \A s \in Sessions : OwnBy[s] = 0
    BY DEF RoutingInit, OwnBy
  <2> QED BY <1>1, <2>1, SumTypes, SumZero
<1>6. ASSUME NEW places, "idle" \notin places PROVE AtCount(places) = 0
  <2>1. {s \in Sessions : ses[s].at \in places} = {}
    BY <1>6 DEF RoutingInit
  <2> QED BY <2>1, FS_EmptySet DEF AtCount
<1>7. AtCount({"rtTotal"}) = 0 /\ AtCount({"rtTemp"}) = 0 /\ AtCount({"mgrTotal"}) = 0
      /\ AtCount({"own"}) = 0 /\ AtCount(BeforeTotal) = 0
  BY <1>6 DEF BeforeTotal
<1>8. rt = Counter /\ mgr = Counter /\ ~ticks.loaded
  BY DEF RoutingInit
<1>9. ProxiedSampledOnce /\ ManagerSamplesOnce
  BY <1>4, <1>7, <1>8 DEF ProxiedSampledOnce, ManagerSamplesOnce, Counter
<1>10. MovedInv
  BY <1>3, <1>5, <1>7, <1>8, RoutingAssumption DEF MovedInv, Moved, Counter
<1> QED BY <1>1, <1>2, <1>9, <1>10 DEF RoutingInv

\* A step that leaves the sessions alone leaves every sum and number of them.
LEMMA SameSessions ==
  ASSUME ses' = ses
  PROVE  /\ MovedBy' = MovedBy /\ Moved' = Moved /\ ProxiedBy' = ProxiedBy /\ OwnBy' = OwnBy
         /\ SumOver(ProxiedBy)' = SumOver(ProxiedBy) /\ SumOver(OwnBy)' = SumOver(OwnBy)
         /\ \A places : AtCount(places)' = AtCount(places)
BY DEF MovedBy, Moved, ProxiedBy, OwnBy, SumOver, Units, AtCount

\* Building the router keeps its mode among the known ones: a bad one is an error.
LEMMA BuildStep == RoutingInv /\ Build => RoutingInv'
<1> SUFFICES ASSUME RoutingInv, Build PROVE RoutingInv'
  OBVIOUS
<1>1. router'.mode \in Modes
  <2>1. CASE router' = [NoRouter EXCEPT !.error = TRUE]
    BY <2>1 DEF NoRouter, Modes
  <2>2. CASE router' = NewWithConfig(cfg, SubSeq(File, 1, cut)) /\ ~BadConfig(cfg)
    <3>1. router'.mode = IF cfg.mode = "" THEN "global" ELSE cfg.mode
      BY <2>2 DEF NewWithConfig
    <3>2. cfg.mode \in Modes
      BY <2>2 DEF BadConfig, Modes
    <3> QED BY <3>1, <3>2 DEF Modes
  <2> QED BY <2>1, <2>2 DEF Build
<1>2. UNCHANGED <<ses, rt, mgr, ticks>>
  BY DEF Build
<1> QED BY <1>1, <1>2, SameSessions DEF RoutingInv, RoutingTypes, ByteInvs, ProxiedSampledOnce,
          ManagerSamplesOnce, MovedInv

\* A sample of the proxied traffic moves what waits into the sum of the samples.
LEMMA StatsStep == RoutingInv /\ Stats => RoutingInv'
<1> SUFFICES ASSUME RoutingInv, Stats PROVE RoutingInv'
  OBVIOUS
<1>1. UNCHANGED <<router, ses, mgr>>
  BY DEF Stats
<1>2. rt' = [total |-> rt.total, temp |-> 0, rate |-> rt.temp, sum |-> rt.sum + rt.temp]
      /\ rt.sum \in Nat /\ rt.temp \in Nat /\ rt.total \in Nat
  BY DEF Stats, AfterSample, RoutingInv, RoutingTypes, CounterType
<1>3. ticks' \in [due : BOOLEAN, fired : BOOLEAN, loaded : BOOLEAN] /\ ticks'.loaded = ticks.loaded
  BY DEF Stats, RoutingInv, RoutingTypes
<1>4. RoutingTypes'
  BY <1>1, <1>2, <1>3 DEF RoutingInv, RoutingTypes, CounterType
<1>5. ProxiedSampledOnce'
  <2>1. AtCount({"rtTemp"}) \in Nat
    BY AtCountType
  <2> QED BY <1>1, <1>2, <2>1, SameSessions DEF RoutingInv, ProxiedSampledOnce
<1> QED BY <1>1, <1>3, <1>4, <1>5, SameSessions DEF RoutingInv, ByteInvs, ManagerSamplesOnce, MovedInv

\* The manager's sample: what it has loaded is not counted again as waiting.
LEMMA HandleLoadStep == RoutingInv /\ HandleLoad => RoutingInv'
<1> SUFFICES ASSUME RoutingInv, HandleLoad PROVE RoutingInv'
  OBVIOUS
<1>1. UNCHANGED <<router, ses, rt>> /\ ~ticks.loaded
  BY DEF HandleLoad
<1>2. mgr' = [total |-> mgr.total, temp |-> mgr.temp, rate |-> mgr.temp, sum |-> mgr.sum + mgr.temp]
      /\ mgr.sum \in Nat /\ mgr.temp \in Nat /\ mgr.total \in Nat
  BY DEF HandleLoad, RoutingInv, RoutingTypes, CounterType
<1>3. ticks' \in [due : BOOLEAN, fired : BOOLEAN, loaded : BOOLEAN] /\ ticks'.loaded
  BY DEF HandleLoad, RoutingInv, RoutingTypes
<1>4. RoutingTypes'
  BY <1>1, <1>2, <1>3 DEF RoutingInv, RoutingTypes, CounterType
<1>5. ManagerSamplesOnce'
  <2>1. AtCount({"mgrTotal"}) \in Nat
    BY AtCountType
  <2> QED BY <1>1, <1>2, <1>3, <2>1, SameSessions DEF RoutingInv, ManagerSamplesOnce
<1>6. MovedInv'
  BY <1>1, <1>2, SameSessions DEF RoutingInv, MovedInv
<1> QED BY <1>1, <1>4, <1>5, <1>6, SameSessions DEF RoutingInv, ByteInvs, ProxiedSampledOnce

\* The reset drops what was added since the load: the samples only lose by it.
LEMMA HandleResetStep == RoutingInv /\ HandleReset => RoutingInv'
<1> SUFFICES ASSUME RoutingInv, HandleReset PROVE RoutingInv'
  OBVIOUS
<1>1. UNCHANGED <<router, ses, rt>> /\ ticks.loaded
  BY DEF HandleReset
<1>2. mgr' = [total |-> mgr.total, temp |-> 0, rate |-> mgr.rate, sum |-> mgr.sum]
      /\ mgr.sum \in Nat /\ mgr.rate \in Nat /\ mgr.total \in Nat
  BY DEF HandleReset, AfterHandle, RoutingInv, RoutingTypes, CounterType
<1>3. ticks' \in [due : BOOLEAN, fired : BOOLEAN, loaded : BOOLEAN] /\ ~ticks'.loaded
  BY DEF HandleReset, RoutingInv, RoutingTypes
<1>4. RoutingTypes'
  BY <1>1, <1>2, <1>3 DEF RoutingInv, RoutingTypes, CounterType
<1>5. ManagerSamplesOnce'
  <2>1. AtCount({"mgrTotal"}) \in Nat
    BY AtCountType
  <2> QED BY <1>1, <1>2, <1>3, <2>1, SameSessions DEF RoutingInv, ManagerSamplesOnce
<1>6. MovedInv'
  BY <1>1, <1>2, SameSessions DEF RoutingInv, MovedInv
<1> QED BY <1>1, <1>4, <1>5, <1>6, SameSessions DEF RoutingInv, ByteInvs, ProxiedSampledOnce

\* Time passes.
LEMMA TickStep == RoutingInv /\ Tick => RoutingInv'
<1> SUFFICES ASSUME RoutingInv, Tick PROVE RoutingInv'
  OBVIOUS
<1>1. UNCHANGED <<router, ses, rt, mgr>>
  BY DEF Tick
<1>2. ticks' \in [due : BOOLEAN, fired : BOOLEAN, loaded : BOOLEAN] /\ ticks'.loaded = ticks.loaded
  BY DEF Tick, RoutingInv, RoutingTypes
<1> QED BY <1>1, <1>2, SameSessions DEF RoutingInv, RoutingTypes, ByteInvs, ProxiedSampledOnce,
          ManagerSamplesOnce, MovedInv

\* A session is routed before it moves a byte: no sum changes.
LEMMA DialStep == ASSUME NEW s \in Sessions PROVE RoutingInv /\ DialContext(s) => RoutingInv'
<1> SUFFICES ASSUME RoutingInv, DialContext(s) PROVE RoutingInv'
  OBVIOUS
<1>1. UNCHANGED <<router, rt, mgr, ticks>> /\ ses[s].via = "none"
  BY DEF DialContext
<1>2. PICK via \in Vias : ses' = [ses EXCEPT ![s].via = via]
  BY DEF DialContext, Vias
<1>3. ses[s].moved = 0 /\ ses[s] \in SessionType
  BY <1>1 DEF RoutingInv, RoutingTypes, ByteInvs, ByteInv
<1>4. ses' \in [Sessions -> SessionType]
  BY <1>2, <1>3 DEF RoutingInv, RoutingTypes, SessionType
<1>5. \A x \in Sessions : /\ ses'[x].at = ses[x].at /\ ses'[x].moved = ses[x].moved
                          /\ ses'[x].own = ses[x].own /\ (x # s => ses'[x].via = ses[x].via)
  BY <1>2, <1>3 DEF RoutingInv, RoutingTypes, SessionType
<1>6. ByteInvs'
  <2> SUFFICES ASSUME NEW x \in Sessions PROVE ByteInv(ses'[x])
    BY DEF ByteInvs
  <2>1. ByteInv(ses[x])
    BY DEF RoutingInv, ByteInvs
  <2>2. CASE x # s
    BY <1>5, <2>1, <2>2 DEF ByteInv
  <2>3. CASE x = s
    <3>1. ses[s].at = "idle"
      BY <1>3, <2>1, <2>3 DEF ByteInv, One, SessionType
    <3> QED BY <1>3, <1>5, <2>1, <2>3, <3>1 DEF ByteInv
  <2> QED BY <2>2, <2>3
<1>7. MovedBy' = MovedBy /\ OwnBy' = OwnBy
  BY <1>5 DEF MovedBy, OwnBy
<1>8. ProxiedBy' = ProxiedBy
  BY <1>3, <1>5 DEF ProxiedBy
<1>9. ASSUME NEW places PROVE AtCount(places)' = AtCount(places)
  BY <1>5 DEF AtCount
<1>10. Moved' = Moved /\ SumOver(ProxiedBy)' = SumOver(ProxiedBy) /\ SumOver(OwnBy)' = SumOver(OwnBy)
  BY <1>7, <1>8 DEF Moved, SumOver, Units
<1> QED BY <1>1, <1>4, <1>6, <1>9, <1>10 DEF RoutingInv, RoutingTypes, ProxiedSampledOnce,
          ManagerSamplesOnce, MovedInv

\* A byte moves.
LEMMA MoveStep == ASSUME NEW s \in Sessions PROVE RoutingInv /\ Move(s) => RoutingInv'
<1> SUFFICES ASSUME RoutingInv, Move(s) PROVE RoutingInv'
  OBVIOUS
<1> DEFINE at == FirstCounter(ses[s].via)
<1>1. /\ UNCHANGED <<router, rt, mgr, ticks>> /\ Moved < MaxMoves
      /\ ses[s].via \in {"direct", "proxy"} /\ ses[s].at = "idle"
      /\ ses' = [ses EXCEPT ![s].moved = @ + 1, ![s].at = at]
  BY DEF Move
<1>2. ses[s] \in SessionType /\ ByteInv(ses[s]) /\ RoutingTypes
  BY DEF RoutingInv, RoutingTypes, ByteInvs
<1>3. at = (IF ses[s].via = "proxy" THEN "rtTotal" ELSE "mgrTemp")
  BY DEF FirstCounter
<1> HIDE DEF at
<1>4. ses'[s] = [via |-> ses[s].via, at |-> at, moved |-> ses[s].moved + 1, own |-> ses[s].own]
  BY <1>1, <1>2 DEF RoutingTypes, SessionType
<1>5. \A x \in Sessions \ {s} : ses'[x] = ses[x]
  BY <1>1, <1>2 DEF RoutingTypes
<1>6. ses' \in [Sessions -> SessionType]
  <2>1. ses'[s] \in SessionType
    BY <1>2, <1>3, <1>4 DEF SessionType, Ats
  <2> QED BY <1>1, <1>2, <1>5, <2>1 DEF RoutingTypes
<1>7. RoutingTypes'
  BY <1>1, <1>2, <1>6 DEF RoutingTypes
<1>8. ByteInvs'
  <2>1. ByteInv(ses'[s])
    BY <1>1, <1>2, <1>3, <1>4 DEF ByteInv, One, SessionType
  <2> QED BY <1>5, <2>1 DEF RoutingInv, ByteInvs
<1>9. Moved' = Moved + 1
  <2>1. MovedBy' \in [Sessions -> Nat] /\ MovedBy \in [Sessions -> Nat]
    BY <1>2, <1>7, SumTypes DEF RoutingTypes, MovedBy, SessionType
  <2>2. MovedBy'[s] = MovedBy[s] + 1 /\ \A x \in Sessions \ {s} : MovedBy'[x] = MovedBy[x]
    BY <1>4, <1>5 DEF MovedBy
  <2>3. Moved' = SumOver(MovedBy')
    BY DEF Moved, SumOver, Units
  <2> QED BY <2>1, <2>2, <2>3, SumAdd DEF Moved
<1>10. SumOver(OwnBy)' = SumOver(OwnBy)
  <2>1. OwnBy' = OwnBy
    BY <1>4, <1>5 DEF OwnBy
  <2> QED BY <2>1 DEF SumOver, Units
<1>11. SumOver(ProxiedBy)' = SumOver(ProxiedBy) + One(ses[s].via = "proxy")
  <2>1. ProxiedBy' \in [Sessions -> Nat] /\ ProxiedBy \in [Sessions -> Nat]
    BY <1>2, <1>7 DEF RoutingTypes, ProxiedBy, SessionType
  <2>2. SumOver(ProxiedBy)' = SumOver(ProxiedBy')
    BY DEF SumOver, Units
  <2>3. \A x \in Sessions \ {s} : ProxiedBy'[x] = ProxiedBy[x]
    BY <1>5 DEF ProxiedBy
  <2>4. CASE ses[s].via = "proxy"
    <3>1. ProxiedBy'[s] = ProxiedBy[s] + 1
      BY <1>4, <2>4 DEF ProxiedBy
    <3> QED BY <2>1, <2>2, <2>3, <2>4, <3>1, SumAdd DEF One
  <2>5. CASE ses[s].via # "proxy"
    <3>1. ProxiedBy' = ProxiedBy
      BY <1>4, <1>5, <2>5 DEF ProxiedBy
    <3>2. SumOver(ProxiedBy) \in Nat
      BY <2>1, UnitsFinite
    <3> QED BY <2>2, <2>5, <3>1, <3>2 DEF One
  <2> QED BY <2>4, <2>5
<1>12. ASSUME NEW places, "idle" \notin places
       PROVE  AtCount(places)' = AtCount(places) + One(at \in places)
  <2>1. AtCount(places)' + One(ses[s].at \in places) = AtCount(places) + One(ses'[s].at \in places)
    BY <1>5, AtCountStep
  <2>2. AtCount(places) \in Nat /\ AtCount(places)' \in Nat
    BY AtCountType
  <2> QED BY <1>1, <1>4, <1>12, <2>1, <2>2 DEF One
<1>13. /\ AtCount({"rtTemp"})' = AtCount({"rtTemp"})
       /\ AtCount({"mgrTotal"})' = AtCount({"mgrTotal"})
       /\ AtCount({"own"})' = AtCount({"own"})
       /\ AtCount({"rtTotal"})' = AtCount({"rtTotal"}) + One(ses[s].via = "proxy")
       /\ AtCount(BeforeTotal)' = AtCount(BeforeTotal) + 1
  <2>1. AtCount({"rtTemp"}) \in Nat /\ AtCount({"mgrTotal"}) \in Nat /\ AtCount({"own"}) \in Nat
    BY AtCountType
  <2>2. at \notin {"rtTemp"} /\ at \notin {"mgrTotal"} /\ at \notin {"own"} /\ at \in BeforeTotal
        /\ (at \in {"rtTotal"} <=> ses[s].via = "proxy")
    BY <1>3 DEF BeforeTotal
  <2> QED BY <1>12, <2>1, <2>2 DEF One, BeforeTotal
<1>14. MovedInv'
  <2>1. Moved \in Nat /\ AtCount(BeforeTotal) \in Nat /\ mgr.total \in Nat
    BY <1>2, SumTypes, AtCountType DEF RoutingTypes, CounterType
  <2> QED BY <1>1, <1>9, <1>10, <1>13, <2>1, RoutingAssumption DEF RoutingInv, MovedInv
<1>15. ProxiedSampledOnce'
  <2>1. AtCount({"rtTotal"}) \in Nat /\ rt.total \in Nat /\ SumOver(ProxiedBy) \in Nat
    BY <1>2, SumTypes, AtCountType DEF RoutingTypes, CounterType
  <2> QED BY <1>1, <1>11, <1>13, <2>1 DEF RoutingInv, ProxiedSampledOnce, One
<1>16. ManagerSamplesOnce'
  BY <1>1, <1>13 DEF RoutingInv, ManagerSamplesOnce
<1> QED BY <1>7, <1>8, <1>14, <1>15, <1>16 DEF RoutingInv

(***************************************************************************)
(* The counters, one after the other.  Each is a move of one session from  *)
(* a place to the next and one more in a counter.                          *)
(***************************************************************************)
\* What At(s, from, to) leaves as it was, and what it does to the numbers.
Moves(s, from, to) ==
  /\ ses[s].at = from /\ from # "idle" /\ to \in Ats
  /\ \A x \in Sessions : ses'[x].via = ses[x].via /\ ses'[x].moved = ses[x].moved
  /\ \A x \in Sessions \ {s} : ses'[x] = ses[x]
  /\ ses'[s].at = to
  /\ ses' \in [Sessions -> SessionType]

\* At is such a move, and leaves the own counters alone.
LEMMA AtMoves ==
  ASSUME RoutingInv, NEW s \in Sessions, NEW from, from # "idle", NEW to \in Ats,
         At(s, from, to)
  PROVE  Moves(s, from, to) /\ \A x \in Sessions : ses'[x].own = ses[x].own
<1>1. ses \in [Sessions -> SessionType] /\ ses[s].at = from
      /\ ses' = [ses EXCEPT ![s].at = to]
  BY DEF RoutingInv, RoutingTypes, At
<1>2. ses'[s] = [via |-> ses[s].via, at |-> to, moved |-> ses[s].moved, own |-> ses[s].own]
  BY <1>1 DEF SessionType
<1>3. \A x \in Sessions \ {s} : ses'[x] = ses[x]
  BY <1>1
<1>4. ses'[s] \in SessionType
  BY <1>1, <1>2 DEF SessionType
<1>5. ses' \in [Sessions -> SessionType]
  BY <1>1, <1>3, <1>4
<1>6. ses'[s].via = ses[s].via /\ ses'[s].moved = ses[s].moved /\ ses'[s].own = ses[s].own
      /\ ses'[s].at = to
  BY <1>2
<1>7. \A x \in Sessions : /\ ses'[x].via = ses[x].via /\ ses'[x].moved = ses[x].moved
                          /\ ses'[x].own = ses[x].own
  BY <1>3, <1>6, Zenon
<1> QED BY <1>1, <1>3, <1>5, <1>6, <1>7, Zenon DEF Moves

\* The sums and numbers after such a move.
LEMMA MovesCounts ==
  ASSUME NEW s \in Sessions, NEW from, NEW to, Moves(s, from, to)
  PROVE  /\ Moved' = Moved /\ SumOver(ProxiedBy)' = SumOver(ProxiedBy)
         /\ \A places : AtCount(places)' + One(from \in places) = AtCount(places) + One(to \in places)
<1>1. MovedBy' = MovedBy /\ ProxiedBy' = ProxiedBy
  BY DEF Moves, MovedBy, ProxiedBy
<1>2. Moved' = Moved /\ SumOver(ProxiedBy)' = SumOver(ProxiedBy)
  BY <1>1 DEF Moved, SumOver, Units
<1>3. ASSUME NEW places
      PROVE  AtCount(places)' + One(from \in places) = AtCount(places) + One(to \in places)
  <2>1. AtCount(places)' + One(ses[s].at \in places) = AtCount(places) + One(ses'[s].at \in places)
    BY AtCountStep DEF Moves
  <2> QED BY <2>1 DEF Moves
<1> QED BY <1>2, <1>3

\* The numbers the invariant speaks of.
Numbers ==
  /\ AtCount({"rtTotal"}) \in Nat /\ AtCount({"rtTotal"})' \in Nat
  /\ AtCount({"rtTemp"}) \in Nat /\ AtCount({"rtTemp"})' \in Nat
  /\ AtCount({"mgrTotal"}) \in Nat /\ AtCount({"mgrTotal"})' \in Nat
  /\ AtCount({"own"}) \in Nat /\ AtCount({"own"})' \in Nat
  /\ AtCount(BeforeTotal) \in Nat /\ AtCount(BeforeTotal)' \in Nat
  /\ rt.total \in Nat /\ rt.temp \in Nat /\ rt.rate \in Nat /\ rt.sum \in Nat
  /\ mgr.total \in Nat /\ mgr.temp \in Nat /\ mgr.rate \in Nat /\ mgr.sum \in Nat
  /\ Moved \in Nat /\ SumOver(ProxiedBy) \in Nat /\ SumOver(OwnBy) \in Nat

\* They are numbers.
LEMMA NumbersHold == ASSUME RoutingInv PROVE Numbers
<1>1. /\ AtCount({"rtTotal"}) \in Nat /\ AtCount({"rtTotal"})' \in Nat
      /\ AtCount({"rtTemp"}) \in Nat /\ AtCount({"rtTemp"})' \in Nat
      /\ AtCount({"mgrTotal"}) \in Nat /\ AtCount({"mgrTotal"})' \in Nat
      /\ AtCount({"own"}) \in Nat /\ AtCount({"own"})' \in Nat
  BY AtCountType
<1>2. AtCount(BeforeTotal) \in Nat /\ AtCount(BeforeTotal)' \in Nat
  BY AtCountType DEF BeforeTotal
<1>3. Moved \in Nat /\ SumOver(ProxiedBy) \in Nat /\ SumOver(OwnBy) \in Nat
  BY SumTypes DEF RoutingInv
<1>4. /\ rt.total \in Nat /\ rt.temp \in Nat /\ rt.rate \in Nat /\ rt.sum \in Nat
      /\ mgr.total \in Nat /\ mgr.temp \in Nat /\ mgr.rate \in Nat /\ mgr.sum \in Nat
  BY DEF RoutingInv, RoutingTypes, CounterType
<1> QED BY <1>1, <1>2, <1>3, <1>4 DEF Numbers

\* Between two counters a session keeps what ByteInv says of it.
LEMMA MovesByteInvs ==
  ASSUME RoutingInv, NEW s \in Sessions, NEW from, NEW to, Moves(s, from, to), to # "idle",
         to \in {"rtTotal", "rtTemp"} => from \in {"rtTotal", "rtTemp"},
         ses'[s].own = ses[s].own
  PROVE  ByteInvs'
<1>1. ByteInv(ses[s])
  BY DEF RoutingInv, ByteInvs
<1>2. ByteInv(ses'[s])
  BY <1>1 DEF Moves, ByteInv, One
<1> QED BY <1>2 DEF RoutingInv, ByteInvs, Moves

\* The byte joins the total of the proxied traffic.
LEMMA AddRtTotalStep ==
  ASSUME NEW s \in Sessions
  PROVE  RoutingInv /\ AddRtTotal(s) /\ UNCHANGED <<router, ticks>> => RoutingInv'
<1> SUFFICES ASSUME RoutingInv, AddRtTotal(s), UNCHANGED <<router, ticks>> PROVE RoutingInv'
  OBVIOUS
<1>1. Moves(s, "rtTotal", "rtTemp") /\ \A x \in Sessions : ses'[x].own = ses[x].own
  BY AtMoves DEF AddRtTotal, Ats
<1>2. Numbers
  BY NumbersHold
<1>3. rt' = [total |-> rt.total + 1, temp |-> rt.temp, rate |-> rt.rate, sum |-> rt.sum] /\ mgr' = mgr
  BY DEF AddRtTotal, RoutingInv, RoutingTypes, CounterType
<1>4. /\ AtCount({"rtTotal"})' = AtCount({"rtTotal"}) - 1
      /\ AtCount({"rtTemp"})' = AtCount({"rtTemp"}) + 1
      /\ AtCount({"mgrTotal"})' = AtCount({"mgrTotal"})
      /\ AtCount({"own"})' = AtCount({"own"})
      /\ AtCount(BeforeTotal)' = AtCount(BeforeTotal)
  <2>1. \A places : AtCount(places)' + One("rtTotal" \in places) = AtCount(places) + One("rtTemp" \in places)
    BY <1>1, MovesCounts
  <2>2. AtCount({"rtTotal"})' = AtCount({"rtTotal"}) - 1
    BY <1>2, <2>1 DEF One, Numbers
  <2>3. AtCount({"rtTemp"})' = AtCount({"rtTemp"}) + 1
    BY <1>2, <2>1 DEF One, Numbers
  <2>4. AtCount({"mgrTotal"})' = AtCount({"mgrTotal"})
    BY <1>2, <2>1 DEF One, Numbers
  <2>5. AtCount({"own"})' = AtCount({"own"})
    BY <1>2, <2>1 DEF One, Numbers
  <2>6. AtCount(BeforeTotal)' = AtCount(BeforeTotal)
    BY <1>2, <2>1 DEF One, Numbers, BeforeTotal
  <2> QED BY <2>2, <2>3, <2>4, <2>5, <2>6
<1>5. Moved' = Moved /\ SumOver(ProxiedBy)' = SumOver(ProxiedBy) /\ SumOver(OwnBy)' = SumOver(OwnBy)
  <2>1. OwnBy' = OwnBy
    BY <1>1 DEF OwnBy
  <2>2. SumOver(OwnBy)' = SumOver(OwnBy)
    BY <2>1 DEF SumOver, Units
  <2> QED BY <1>1, <2>2, MovesCounts
<1>6. RoutingTypes'
  BY <1>1, <1>2, <1>3 DEF RoutingInv, RoutingTypes, CounterType, Moves, Numbers
<1>7. ByteInvs'
  BY <1>1, MovesByteInvs
<1>8. ProxiedSampledOnce'
  BY <1>2, <1>3, <1>4, <1>5 DEF RoutingInv, ProxiedSampledOnce, Numbers
<1>9. ManagerSamplesOnce'
  BY <1>2, <1>3, <1>4 DEF RoutingInv, ManagerSamplesOnce, Numbers
<1>10. MovedInv'
  BY <1>2, <1>3, <1>4, <1>5 DEF RoutingInv, MovedInv, Numbers
<1> QED BY <1>6, <1>7, <1>8, <1>9, <1>10 DEF RoutingInv

\* The byte joins what waits for the next sample.
LEMMA AddRtTempStep ==
  ASSUME NEW s \in Sessions
  PROVE  RoutingInv /\ AddRtTemp(s) /\ UNCHANGED <<router, ticks>> => RoutingInv'
<1> SUFFICES ASSUME RoutingInv, AddRtTemp(s), UNCHANGED <<router, ticks>> PROVE RoutingInv'
  OBVIOUS
<1>1. Moves(s, "rtTemp", "mgrTemp") /\ \A x \in Sessions : ses'[x].own = ses[x].own
  BY AtMoves DEF AddRtTemp, Ats
<1>2. Numbers
  BY NumbersHold
<1>3. rt' = [total |-> rt.total, temp |-> rt.temp + 1, rate |-> rt.rate, sum |-> rt.sum] /\ mgr' = mgr
  BY DEF AddRtTemp, RoutingInv, RoutingTypes, CounterType
<1>4. /\ AtCount({"rtTotal"})' = AtCount({"rtTotal"})
      /\ AtCount({"rtTemp"})' = AtCount({"rtTemp"}) - 1
      /\ AtCount({"mgrTotal"})' = AtCount({"mgrTotal"})
      /\ AtCount({"own"})' = AtCount({"own"})
      /\ AtCount(BeforeTotal)' = AtCount(BeforeTotal)
  <2>1. \A places : AtCount(places)' + One("rtTemp" \in places) = AtCount(places) + One("mgrTemp" \in places)
    BY <1>1, MovesCounts
  <2>2. AtCount({"rtTotal"})' = AtCount({"rtTotal"})
    BY <1>2, <2>1 DEF One, Numbers
  <2>3. AtCount({"rtTemp"})' = AtCount({"rtTemp"}) - 1
    BY <1>2, <2>1 DEF One, Numbers
  <2>4. AtCount({"mgrTotal"})' = AtCount({"mgrTotal"})
    BY <1>2, <2>1 DEF One, Numbers
  <2>5. AtCount({"own"})' = AtCount({"own"})
    BY <1>2, <2>1 DEF One, Numbers
  <2>6. AtCount(BeforeTotal)' = AtCount(BeforeTotal)
    BY <1>2, <2>1 DEF One, Numbers, BeforeTotal
  <2> QED BY <2>2, <2>3, <2>4, <2>5, <2>6
<1>5. Moved' = Moved /\ SumOver(ProxiedBy)' = SumOver(ProxiedBy) /\ SumOver(OwnBy)' = SumOver(OwnBy)
  <2>1. OwnBy' = OwnBy
    BY <1>1 DEF OwnBy
  <2>2. SumOver(OwnBy)' = SumOver(OwnBy)
    BY <2>1 DEF SumOver, Units
  <2> QED BY <1>1, <2>2, MovesCounts
<1>6. RoutingTypes'
  BY <1>1, <1>2, <1>3 DEF RoutingInv, RoutingTypes, CounterType, Moves, Numbers
<1>7. ByteInvs'
  BY <1>1, MovesByteInvs
<1>8. ProxiedSampledOnce'
  BY <1>2, <1>3, <1>4, <1>5 DEF RoutingInv, ProxiedSampledOnce, Numbers
<1>9. ManagerSamplesOnce'
  BY <1>2, <1>3, <1>4 DEF RoutingInv, ManagerSamplesOnce, Numbers
<1>10. MovedInv'
  BY <1>2, <1>3, <1>4, <1>5 DEF RoutingInv, MovedInv, Numbers
<1> QED BY <1>6, <1>7, <1>8, <1>9, <1>10 DEF RoutingInv

\* The byte joins what waits for the manager.
LEMMA AddMgrTempStep ==
  ASSUME NEW s \in Sessions
  PROVE  RoutingInv /\ AddMgrTemp(s) /\ UNCHANGED <<router, ticks>> => RoutingInv'
<1> SUFFICES ASSUME RoutingInv, AddMgrTemp(s), UNCHANGED <<router, ticks>> PROVE RoutingInv'
  OBVIOUS
<1>1. Moves(s, "mgrTemp", "mgrTotal") /\ \A x \in Sessions : ses'[x].own = ses[x].own
  BY AtMoves DEF AddMgrTemp, Ats
<1>2. Numbers
  BY NumbersHold
<1>3. mgr' = [total |-> mgr.total, temp |-> mgr.temp + 1, rate |-> mgr.rate, sum |-> mgr.sum] /\ rt' = rt
  BY DEF AddMgrTemp, RoutingInv, RoutingTypes, CounterType
<1>4. /\ AtCount({"rtTotal"})' = AtCount({"rtTotal"})
      /\ AtCount({"rtTemp"})' = AtCount({"rtTemp"})
      /\ AtCount({"mgrTotal"})' = AtCount({"mgrTotal"}) + 1
      /\ AtCount({"own"})' = AtCount({"own"})
      /\ AtCount(BeforeTotal)' = AtCount(BeforeTotal)
  <2>1. \A places : AtCount(places)' + One("mgrTemp" \in places) = AtCount(places) + One("mgrTotal" \in places)
    BY <1>1, MovesCounts
  <2>2. AtCount({"rtTotal"})' = AtCount({"rtTotal"})
    BY <1>2, <2>1 DEF One, Numbers
  <2>3. AtCount({"rtTemp"})' = AtCount({"rtTemp"})
    BY <1>2, <2>1 DEF One, Numbers
  <2>4. AtCount({"mgrTotal"})' = AtCount({"mgrTotal"}) + 1
    BY <1>2, <2>1 DEF One, Numbers
  <2>5. AtCount({"own"})' = AtCount({"own"})
    BY <1>2, <2>1 DEF One, Numbers
  <2>6. AtCount(BeforeTotal)' = AtCount(BeforeTotal)
    BY <1>2, <2>1 DEF One, Numbers, BeforeTotal
  <2> QED BY <2>2, <2>3, <2>4, <2>5, <2>6
<1>5. Moved' = Moved /\ SumOver(ProxiedBy)' = SumOver(ProxiedBy) /\ SumOver(OwnBy)' = SumOver(OwnBy)
  <2>1. OwnBy' = OwnBy
    BY <1>1 DEF OwnBy
  <2>2. SumOver(OwnBy)' = SumOver(OwnBy)
    BY <2>1 DEF SumOver, Units
  <2> QED BY <1>1, <2>2, MovesCounts
<1>6. RoutingTypes'
  BY <1>1, <1>2, <1>3 DEF RoutingInv, RoutingTypes, CounterType, Moves, Numbers
<1>7. ByteInvs'
  BY <1>1, MovesByteInvs
<1>8. ProxiedSampledOnce'
  BY <1>2, <1>3, <1>4, <1>5 DEF RoutingInv, ProxiedSampledOnce, Numbers
<1>9. ManagerSamplesOnce'
  BY <1>2, <1>3, <1>4 DEF RoutingInv, ManagerSamplesOnce, Numbers
<1>10. MovedInv'
  BY <1>2, <1>3, <1>4, <1>5 DEF RoutingInv, MovedInv, Numbers
<1> QED BY <1>6, <1>7, <1>8, <1>9, <1>10 DEF RoutingInv

\* The byte joins the manager's total.
LEMMA AddMgrTotalStep ==
  ASSUME NEW s \in Sessions
  PROVE  RoutingInv /\ AddMgrTotal(s) /\ UNCHANGED <<router, ticks>> => RoutingInv'
<1> SUFFICES ASSUME RoutingInv, AddMgrTotal(s), UNCHANGED <<router, ticks>> PROVE RoutingInv'
  OBVIOUS
<1>1. Moves(s, "mgrTotal", "own") /\ \A x \in Sessions : ses'[x].own = ses[x].own
  BY AtMoves DEF AddMgrTotal, Ats
<1>2. Numbers
  BY NumbersHold
<1>3. mgr' = [total |-> mgr.total + 1, temp |-> mgr.temp, rate |-> mgr.rate, sum |-> mgr.sum] /\ rt' = rt
  BY DEF AddMgrTotal, RoutingInv, RoutingTypes, CounterType
<1>4. /\ AtCount({"rtTotal"})' = AtCount({"rtTotal"})
      /\ AtCount({"rtTemp"})' = AtCount({"rtTemp"})
      /\ AtCount({"mgrTotal"})' = AtCount({"mgrTotal"}) - 1
      /\ AtCount({"own"})' = AtCount({"own"}) + 1
      /\ AtCount(BeforeTotal)' = AtCount(BeforeTotal) - 1
  <2>1. \A places : AtCount(places)' + One("mgrTotal" \in places) = AtCount(places) + One("own" \in places)
    BY <1>1, MovesCounts
  <2>2. AtCount({"rtTotal"})' = AtCount({"rtTotal"})
    BY <1>2, <2>1 DEF One, Numbers
  <2>3. AtCount({"rtTemp"})' = AtCount({"rtTemp"})
    BY <1>2, <2>1 DEF One, Numbers
  <2>4. AtCount({"mgrTotal"})' = AtCount({"mgrTotal"}) - 1
    BY <1>2, <2>1 DEF One, Numbers
  <2>5. AtCount({"own"})' = AtCount({"own"}) + 1
    BY <1>2, <2>1 DEF One, Numbers
  <2>6. AtCount(BeforeTotal)' = AtCount(BeforeTotal) - 1
    BY <1>2, <2>1 DEF One, Numbers, BeforeTotal
  <2> QED BY <2>2, <2>3, <2>4, <2>5, <2>6
<1>5. Moved' = Moved /\ SumOver(ProxiedBy)' = SumOver(ProxiedBy) /\ SumOver(OwnBy)' = SumOver(OwnBy)
  <2>1. OwnBy' = OwnBy
    BY <1>1 DEF OwnBy
  <2>2. SumOver(OwnBy)' = SumOver(OwnBy)
    BY <2>1 DEF SumOver, Units
  <2> QED BY <1>1, <2>2, MovesCounts
<1>6. RoutingTypes'
  BY <1>1, <1>2, <1>3 DEF RoutingInv, RoutingTypes, CounterType, Moves, Numbers
<1>7. ByteInvs'
  BY <1>1, MovesByteInvs
<1>8. ProxiedSampledOnce'
  BY <1>2, <1>3, <1>4, <1>5 DEF RoutingInv, ProxiedSampledOnce, Numbers
<1>9. ManagerSamplesOnce'
  BY <1>2, <1>3, <1>4 DEF RoutingInv, ManagerSamplesOnce, Numbers
<1>10. MovedInv'
  BY <1>2, <1>3, <1>4, <1>5 DEF RoutingInv, MovedInv, Numbers
<1> QED BY <1>6, <1>7, <1>8, <1>9, <1>10 DEF RoutingInv

\* The byte joins the connection's own total, and the session is idle again.
LEMMA AddOwnStep ==
  ASSUME NEW s \in Sessions
  PROVE  RoutingInv /\ AddOwn(s) /\ UNCHANGED <<router, ticks>> => RoutingInv'
<1> SUFFICES ASSUME RoutingInv, AddOwn(s), UNCHANGED <<router, ticks>> PROVE RoutingInv'
  OBVIOUS
<1>1. /\ rt' = rt /\ mgr' = mgr /\ ses[s].at = "own" /\ ses \in [Sessions -> SessionType]
      /\ ses' = [ses EXCEPT ![s].at = "idle", ![s].own = @ + 1]
  BY DEF AddOwn, RoutingInv, RoutingTypes
<1>2. ses'[s] = [via |-> ses[s].via, at |-> "idle", moved |-> ses[s].moved, own |-> ses[s].own + 1]
  BY <1>1 DEF SessionType
<1>3. \A x \in Sessions \ {s} : ses'[x] = ses[x]
  BY <1>1
<1>4. ses' \in [Sessions -> SessionType]
  <2>1. ses'[s] \in SessionType
    BY <1>1, <1>2 DEF SessionType, Ats
  <2> QED BY <1>1, <1>3, <2>1
<1>5. Moves(s, "own", "idle")
  BY <1>1, <1>2, <1>3, <1>4 DEF Moves, Ats
<1>6. Numbers
  BY NumbersHold
<1>7. /\ AtCount({"rtTotal"})' = AtCount({"rtTotal"})
      /\ AtCount({"rtTemp"})' = AtCount({"rtTemp"})
      /\ AtCount({"mgrTotal"})' = AtCount({"mgrTotal"})
      /\ AtCount({"own"})' = AtCount({"own"}) - 1
      /\ AtCount(BeforeTotal)' = AtCount(BeforeTotal)
  <2>1. \A places : AtCount(places)' + One("own" \in places) = AtCount(places) + One("idle" \in places)
    BY <1>5, MovesCounts
  <2>2. AtCount({"rtTotal"})' = AtCount({"rtTotal"})
    BY <1>6, <2>1 DEF One, Numbers
  <2>3. AtCount({"rtTemp"})' = AtCount({"rtTemp"})
    BY <1>6, <2>1 DEF One, Numbers
  <2>4. AtCount({"mgrTotal"})' = AtCount({"mgrTotal"})
    BY <1>6, <2>1 DEF One, Numbers
  <2>5. AtCount({"own"})' = AtCount({"own"}) - 1
    BY <1>6, <2>1 DEF One, Numbers
  <2>6. AtCount(BeforeTotal)' = AtCount(BeforeTotal)
    BY <1>6, <2>1 DEF One, Numbers, BeforeTotal
  <2> QED BY <2>2, <2>3, <2>4, <2>5, <2>6
<1>8. Moved' = Moved /\ SumOver(ProxiedBy)' = SumOver(ProxiedBy)
  BY <1>5, MovesCounts
<1>9. SumOver(OwnBy)' = SumOver(OwnBy) + 1
  <2>1. OwnBy \in [Sessions -> Nat] /\ OwnBy' \in [Sessions -> Nat]
    BY <1>1, <1>4 DEF OwnBy, SessionType
  <2>2. OwnBy'[s] = OwnBy[s] + 1 /\ \A x \in Sessions \ {s} : OwnBy'[x] = OwnBy[x]
    BY <1>2, <1>3 DEF OwnBy
  <2>3. SumOver(OwnBy)' = SumOver(OwnBy')
    BY DEF SumOver, Units
  <2> QED BY <2>1, <2>2, <2>3, SumAdd
<1>10. RoutingTypes'
  BY <1>1, <1>4 DEF RoutingInv, RoutingTypes
<1>11. ByteInvs'
  <2>1. ByteInv(ses[s]) /\ ses[s] \in SessionType
    BY <1>1 DEF RoutingInv, ByteInvs
  <2>2. ByteInv(ses'[s])
    BY <1>1, <1>2, <2>1 DEF ByteInv, One, SessionType
  <2> QED BY <1>3, <2>2 DEF RoutingInv, ByteInvs
<1>12. ProxiedSampledOnce' /\ ManagerSamplesOnce'
  BY <1>1, <1>7, <1>8 DEF RoutingInv, ProxiedSampledOnce, ManagerSamplesOnce
<1>13. MovedInv'
  BY <1>1, <1>6, <1>7, <1>8, <1>9 DEF RoutingInv, MovedInv, Numbers
<1> QED BY <1>10, <1>11, <1>12, <1>13 DEF RoutingInv

\* Every step keeps the invariant.
LEMMA RoutingNextInv == RoutingInv /\ [RoutingNext]_routingVars => RoutingInv'
<1> SUFFICES ASSUME RoutingInv, [RoutingNext]_routingVars PROVE RoutingInv'
  OBVIOUS
<1>1. CASE Build \/ Stats \/ HandleLoad \/ HandleReset \/ Tick
  BY <1>1, BuildStep, StatsStep, HandleLoadStep, HandleResetStep, TickStep
<1>2. ASSUME NEW s \in Sessions, DialContext(s) \/ Move(s) \/ Count(s) PROVE RoutingInv'
  <2>1. CASE DialContext(s) \/ Move(s)
    BY <2>1, DialStep, MoveStep
  <2>2. CASE Count(s)
    BY <2>2, AddRtTotalStep, AddRtTempStep, AddMgrTempStep, AddMgrTotalStep, AddOwnStep DEF Count
  <2> QED BY <1>2, <2>1, <2>2
<1>3. CASE UNCHANGED routingVars
  BY <1>3, SameSessions DEF routingVars, RoutingInv, RoutingTypes, ByteInvs, ProxiedSampledOnce,
     ManagerSamplesOnce, MovedInv
<1> QED BY <1>1, <1>2, <1>3 DEF RoutingNext

\* The counters of every session and of the two totals agree in every
\* reachable state (uploaded, PushUploaded, handle, snapshot).
THEOREM CountersInvariant == RoutingSpec => []RoutingInv
BY RoutingInitInv, RoutingNextInv, PTL DEF RoutingSpec

\* With no byte on its way the manager's total is what was moved.
LEMMA NoneOnTheWay ==
  ASSUME RoutingInv, AtCount(BeforeTotal \cup {"own"}) = 0
  PROVE  mgr.total = Moved
<1> DEFINE A == {s \in Sessions : ses[s].at \in BeforeTotal \cup {"own"}}
           B == {s \in Sessions : ses[s].at \in BeforeTotal}
<1>1. IsFiniteSet(A) /\ IsFiniteSet(B)
  BY RoutingAssumption, FS_Subset
<1>2. Cardinality(A) = 0 /\ AtCount(BeforeTotal) = Cardinality(B)
  BY DEF AtCount
<1>3. B \subseteq A
  OBVIOUS
<1> HIDE DEF A, B
<1>4. Cardinality(B) = 0
  BY <1>1, <1>2, <1>3, FS_EmptySet
<1> QED BY <1>2, <1>4, NumbersHold DEF RoutingInv, MovedInv, Numbers

\* No byte is counted twice or missed by the three counters and their samplers,
\* for any number of sessions (trafficCounter, Manager, tcpTracker).
THEOREM CountersAlwaysAgree == RoutingSpec => []CountersAgree
<1>1. RoutingInv => CountersAgree
  <2> SUFFICES ASSUME RoutingInv PROVE CountersAgree
    OBVIOUS
  <2>1. {"rtTotal", "rtTemp", "mgrTemp", "mgrTotal", "own"} = BeforeTotal \cup {"own"}
    BY DEF BeforeTotal
  <2>2. ConnectionsWithinTotal
    BY <2>1, NoneOnTheWay DEF RoutingInv, MovedInv, ConnectionsWithinTotal
  <2> QED BY <2>2 DEF RoutingInv, CountersAgree
<1> QED BY <1>1, CountersInvariant, PTL

\* Type correctness of the policy and the counters: no total is ever ahead of
\* the bytes that moved, no connection's own total of its bytes.
THEOREM RoutingTypeCorrect == RoutingSpec => []RoutingTypeOK
<1>1. RoutingInv => RoutingTypeOK
  <2> SUFFICES ASSUME RoutingInv PROVE RoutingTypeOK
    OBVIOUS
  <2>1. Numbers /\ RoutingTypes
    BY NumbersHold DEF RoutingInv
  <2>2. ASSUME NEW s \in Sessions PROVE ses[s].via \in Vias /\ ses[s].at \in Ats /\ ses[s].own \in 0..ses[s].moved
    <3>1. ses[s] \in SessionType /\ ByteInv(ses[s])
      BY DEF RoutingInv, RoutingTypes, ByteInvs
    <3> QED BY <3>1 DEF SessionType, ByteInv, One
  <2>3. mgr.total \in 0..MaxMoves
    <3>1. MaxMoves \in Nat
      BY RoutingAssumption, Zenon
    <3>2. mgr.total + AtCount(BeforeTotal) = Moved /\ Moved <= MaxMoves
      BY DEF RoutingInv, MovedInv
    <3> QED BY <2>1, <3>1, <3>2 DEF Numbers
  <2>4. rt.total \in 0..MaxMoves
    <3>1. SumOver(ProxiedBy) <= Moved
      <4>1. MovedBy \in [Sessions -> Nat] /\ ProxiedBy \in [Sessions -> Nat]
        BY <2>1, SumTypes
      <4>2. \A x \in Sessions : ProxiedBy[x] <= MovedBy[x]
        BY <2>1 DEF ProxiedBy, MovedBy, RoutingTypes, SessionType
      <4> QED BY <4>1, <4>2, SumLeq DEF Moved
    <3>2. rt.total + AtCount({"rtTotal"}) = SumOver(ProxiedBy) /\ Moved <= MaxMoves
      BY DEF RoutingInv, ProxiedSampledOnce, MovedInv
    <3>3. MaxMoves \in Nat
      BY RoutingAssumption, Zenon
    <3> QED BY <2>1, <3>1, <3>2, <3>3 DEF Numbers
  <2> QED BY <2>1, <2>2, <2>3, <2>4 DEF RoutingTypeOK, Numbers, RoutingTypes, Modes, Vias, Ats
<1> QED BY <1>1, CountersInvariant, PTL

(***************************************************************************)
(* The two forms of an IPv4 address.                                       *)
(***************************************************************************)
\* An address without its IPv4-mapped form is not changed by Unmap, and mapping
\* is undone by it.
LEMMA UnmapMapped ==
  ASSUME NEW S, 0 \in S, 255 \in S, NEW u \in Seq(S), Len(u) = 4
  PROVE  Unmap(u) = u /\ Unmap(MapIP(u)) = u
<1>1. Unmap(u) = u
  BY DEF Unmap, IsMapped
<1>2. MappedHead \in Seq(S) /\ Len(MappedHead) = 12
  BY DEF MappedHead
<1> DEFINE m == MapIP(u)
<1>3. /\ m \in Seq(S) /\ Len(m) = 12 + 4
      /\ \A i \in 1..(12 + 4) : m[i] = IF i <= 12 THEN MappedHead[i] ELSE u[i - 12]
  <2>1. /\ MappedHead \o u \in Seq(S) /\ Len(MappedHead \o u) = Len(MappedHead) + Len(u)
        /\ \A i \in 1..(Len(MappedHead) + Len(u)) :
             (MappedHead \o u)[i] = IF i <= Len(MappedHead) THEN MappedHead[i]
                                    ELSE u[i - Len(MappedHead)]
    BY <1>2, ConcatProperties, Zenon
  <2> QED BY <1>2, <2>1, Zenon DEF MapIP
<1> HIDE DEF m
<1>4. \A i \in 1..16 : m[i] \in S
  <2>1. Len(m) = 16
    BY <1>3
  <2> QED BY <1>3, <2>1, ElementOfSeq, ZenonT(40)
<1>5. SubSeq(m, 1, 12) = MappedHead
  <2>1. /\ SubSeq(m, 1, 12) \in Seq(S) /\ Len(SubSeq(m, 1, 12)) = 12
        /\ \A i \in 1..12 : SubSeq(m, 1, 12)[i] = m[i]
    <3>1. \A i \in 1..12 : m[i] \in S
      BY <1>4, SMTT(30)
    <3> QED BY <3>1, SubSeqProperties
  <2>2. \A i \in 1..12 : SubSeq(m, 1, 12)[i] = MappedHead[i]
    <3> SUFFICES ASSUME NEW i \in 1..12 PROVE SubSeq(m, 1, 12)[i] = MappedHead[i]
      OBVIOUS
    <3> QED BY <1>3, <2>1, SMTT(30)
  <2> QED BY <1>2, <2>1, <2>2, SeqEqual, SMTT(30)
<1>6. SubSeq(m, 13, 16) = u
  <2>1. /\ SubSeq(m, 13, 16) \in Seq(S) /\ Len(SubSeq(m, 13, 16)) = 4
        /\ \A i \in 1..4 : SubSeq(m, 13, 16)[i] = m[12 + i]
    <3>1. \A i \in 13..16 : m[i] \in S
      BY <1>4
    <3> QED BY <3>1, SubSeqProperties
  <2>2. \A i \in 1..4 : SubSeq(m, 13, 16)[i] = u[i]
    <3> SUFFICES ASSUME NEW i \in 1..4 PROVE SubSeq(m, 13, 16)[i] = u[i]
      OBVIOUS
    <3>1. 12 + i \in 1..(12 + 4) /\ ~(12 + i <= 12) /\ (12 + i) - 12 = i
      OBVIOUS
    <3>2. m[12 + i] = u[i]
      BY <1>3, <3>1
    <3> QED BY <2>1, <3>2
  <2> QED BY <2>1, <2>2, SeqEqual
<1>7. Unmap(m) = u
  BY <1>3, <1>5, <1>6 DEF Unmap, IsMapped
<1> QED BY <1>1, <1>7 DEF m

\* Unmap gives an address.
LEMMA UnmapType ==
  ASSUME NEW S, NEW ip \in Seq(S)
  PROVE  Unmap(ip) \in Seq(S)
<1>1. CASE IsMapped(ip)
  <2>1. \A i \in 13..16 : ip[i] \in S
    <3>1. Len(ip) = 16
      BY <1>1 DEF IsMapped
    <3> SUFFICES ASSUME NEW i \in 13..16 PROVE ip[i] \in S
      OBVIOUS
    <3>2. i \in 1..Len(ip)
      BY <3>1
    <3> QED BY <3>2, ElementOfSeq
  <2>2. SubSeq(ip, 13, 16) \in Seq(S)
    BY <2>1, SubSeqProperties
  <2> QED BY <1>1, <2>2 DEF Unmap
<1>2. CASE ~IsMapped(ip)
  BY <1>2 DEF Unmap
<1> QED BY <1>1, <1>2

\* routeIP decides on the unmapped address, so that both forms of a
\* destination take the same way, whatever the rules and the file.
THEOREM MappedAlwaysAlike == RoutingSpec => []MappedAlike
<1>1. MappedAlike
  <2> SUFFICES ASSUME NEW ip \in Destinations, Len(Unmap(ip)) = 4
               PROVE  UseDirect(router, Unmap(ip)) <=> UseDirect(router, MapIP(Unmap(ip)))
    BY DEF MappedAlike
  <2> DEFINE u == Unmap(ip)
  <2>1. u \in Seq(0..255)
    <3>1. ip \in Seq(0..255)
      BY RoutingAssumption
    <3> QED BY <3>1, UnmapType
  <2>2. Unmap(u) = u /\ Unmap(MapIP(u)) = u
    BY <2>1, UnmapMapped
  <2> HIDE DEF u
  <2>3. RouteIP(router, u) <=> RouteIP(router, MapIP(u))
    BY <2>2 DEF RouteIP
  <2>4. UseDirect(router, u) <=> UseDirect(router, MapIP(u))
    BY <2>3 DEF UseDirect
  <2> QED BY <2>4 DEF u
<1> QED BY <1>1, PTL

-----------------------------------------------------------------------------
(***************************************************************************)
(* Induction over numbers, with a set in the place of a predicate.         *)
(***************************************************************************)
\* A set of numbers has a least one.
LEMMA LeastNat ==
  ASSUME NEW T \in SUBSET Nat, T # {}
  PROVE  \E n \in T : \A m \in T : n <= m
<1>1. PICK n \in T : \A m \in T : <<m, n>> \notin OpToRel(<, Nat)
  BY WFMin, NatLessThanWellFounded
<1>2. ASSUME NEW m \in T PROVE n <= m
  <2>1. <<m, n>> \in Nat \X Nat
    OBVIOUS
  <2>2. ~(m < n)
    BY <1>1, <2>1 DEF OpToRel
  <2> QED BY <2>2
<1> QED BY <1>2

\* A set with 0 and with the successor of each of its numbers has them all.
LEMMA SetInduction ==
  ASSUME NEW T \in SUBSET Nat, 0 \in T, \A n \in T : n + 1 \in T
  PROVE  \A n \in Nat : n \in T
<1> SUFFICES ASSUME NEW k \in Nat, k \notin T PROVE FALSE
  OBVIOUS
<1>1. Nat \ T \in SUBSET Nat /\ Nat \ T # {}
  OBVIOUS
<1>2. PICK n \in Nat \ T : \A m \in Nat \ T : n <= m
  BY <1>1, LeastNat
<1>3. n # 0 /\ n - 1 \in Nat
  BY <1>2
<1>4. n - 1 \in T
  BY <1>2, <1>3
<1>5. (n - 1) + 1 \in T
  BY <1>4
<1>6. (n - 1) + 1 = n
  OBVIOUS
<1> QED BY <1>5, <1>6

(***************************************************************************)
(* The fields of a message one after the other.                            *)
(***************************************************************************)
IsJoin(f, parts, n) ==
  f = [k \in 0..n |-> IF k = 0 THEN <<>> ELSE f[k - 1] \o parts[k]]

\* The recursion of JoinedUpTo has a solution, up to every number of parts.
LEMMA JoinExists ==
  ASSUME NEW parts
  PROVE  \A n \in Nat : \E f : IsJoin(f, parts, n)
<1> DEFINE T == {n \in Nat : \E f : IsJoin(f, parts, n)}
<1>1. 0 \in T
  <2> DEFINE f == [k \in 0..0 |-> <<>>]
  <2>1. IsJoin(f, parts, 0)
    BY DEF IsJoin
  <2> QED BY <2>1
<1>2. ASSUME NEW n \in T PROVE n + 1 \in T
  <2>1. PICK f : IsJoin(f, parts, n)
    OBVIOUS
  <2> DEFINE g == [k \in 0..(n + 1) |-> IF k = n + 1 THEN f[n] \o parts[n + 1] ELSE f[k]]
  <2>2. ASSUME NEW k \in 0..(n + 1)
        PROVE  g[k] = IF k = 0 THEN <<>> ELSE g[k - 1] \o parts[k]
    <3>1. CASE k = 0
      <4>1. f[0] = <<>>
        BY <2>1 DEF IsJoin
      <4> QED BY <3>1, <4>1
    <3>2. CASE k = n + 1
      <4>1. g[k - 1] = f[n] /\ g[k] = f[n] \o parts[n + 1]
        BY <3>2
      <4>2. k # 0 /\ parts[k] = parts[n + 1]
        BY <3>2
      <4> HIDE DEF g
      <4> QED BY <4>1, <4>2, Zenon
    <3>3. CASE k # 0 /\ k # n + 1
      <4>1. k \in 0..n /\ k - 1 \in 0..n
        BY <3>3
      <4>2. f[k] = f[k - 1] \o parts[k]
        BY <2>1, <3>3, <4>1 DEF IsJoin
      <4>3. g[k] = f[k] /\ g[k - 1] = f[k - 1]
        BY <3>3, <4>1
      <4> QED BY <3>3, <4>2, <4>3
    <3> QED BY <3>1, <3>2, <3>3
  <2>3. g = [k \in 0..(n + 1) |-> IF k = 0 THEN <<>> ELSE g[k - 1] \o parts[k]]
    BY <2>2
  <2>4. IsJoin(g, parts, n + 1)
    BY <2>3 DEF IsJoin
  <2> QED BY <2>4
<1> HIDE DEF T
<1>3. \A n \in Nat : n \in T
  <2>1. T \in SUBSET Nat
    BY DEF T
  <2> QED BY <1>1, <1>2, <2>1, SetInduction
<1> QED BY <1>3 DEF T

\* What JoinedUpTo computes.
LEMMA JoinedUpToDef ==
  ASSUME NEW parts, Len(parts) \in Nat
  PROVE  IsJoin(JoinedUpTo(parts), parts, Len(parts))
<1>1. \E f : IsJoin(f, parts, Len(parts))
  BY JoinExists
<1>2. JoinedUpTo(parts) = CHOOSE f : IsJoin(f, parts, Len(parts))
  BY Zenon DEF JoinedUpTo, IsJoin
<1> QED BY <1>1, <1>2, Zenon

\* The parts of a message: lengths and bytes.  Up(parts, k) is the message of
\* the first k parts.
Byte == 0..255
Bytestrings == Seq(Byte)
Up(parts, k) == JoinedUpTo(parts)[k]

\* A byte is a number.
LEMMA ByteIsNat == \A b \in Byte : b \in Nat /\ b \in Int /\ 0 <= b /\ b <= 255
BY DEF Byte

\* A piece of a byte string.
LEMMA SubBytes ==
  ASSUME NEW s, NEW m \in Int, NEW n \in Int, m <= n + 1, \A i \in m..n : s[i] \in Byte
  PROVE  /\ SubSeq(s, m, n) \in Seq(Byte) /\ Len(SubSeq(s, m, n)) = n - m + 1
         /\ \A i \in 1..(n - m + 1) : SubSeq(s, m, n)[i] = s[m + i - 1]
<1>1. /\ SubSeq(s, m, n) \in Seq(Byte)
      /\ Len(SubSeq(s, m, n)) = IF m <= n THEN n - m + 1 ELSE 0
      /\ \A i \in 1..(n - m + 1) : SubSeq(s, m, n)[i] = s[m + i - 1]
  BY SubSeqProperties
<1>2. ~(m <= n) => n - m + 1 = 0
  OBVIOUS
<1>3. Len(SubSeq(s, m, n)) = n - m + 1
  BY <1>1, <1>2, Zenon
<1> QED BY <1>1, <1>3, Zenon

\* What Up computes, part by part.
LEMMA UpRec ==
  ASSUME NEW parts \in Seq(Bytestrings)
  PROVE  /\ Up(parts, 0) = <<>> /\ Joined(parts) = Up(parts, Len(parts))
         /\ \A k \in 1..Len(parts) : Up(parts, k) = Up(parts, k - 1) \o parts[k]
<1>1. Len(parts) \in Nat
  OBVIOUS
<1>2. IsJoin(JoinedUpTo(parts), parts, Len(parts))
  BY <1>1, JoinedUpToDef
<1> DEFINE f == JoinedUpTo(parts)
<1>3. f = [k \in 0..Len(parts) |-> IF k = 0 THEN <<>> ELSE f[k - 1] \o parts[k]]
  BY <1>2, Zenon DEF IsJoin
<1> HIDE DEF f
<1>4. \A k \in 0..Len(parts) : f[k] = IF k = 0 THEN <<>> ELSE f[k - 1] \o parts[k]
  BY <1>3, Zenon
<1>5. f[0] = <<>>
  BY <1>1, <1>4
<1>6. ASSUME NEW k \in 1..Len(parts) PROVE f[k] = f[k - 1] \o parts[k]
  <2>1. k \in 0..Len(parts) /\ k # 0
    BY <1>1
  <2> QED BY <1>4, <2>1, Zenon
<1> QED BY <1>5, <1>6, Zenon DEF f, Up, Joined

\* A message is a byte string.
LEMMA UpBytes ==
  ASSUME NEW parts \in Seq(Bytestrings)
  PROVE  \A k \in 0..Len(parts) : Up(parts, k) \in Bytestrings
<1> DEFINE T == {k \in Nat : k <= Len(parts) => Up(parts, k) \in Bytestrings}
<1>1. 0 \in T
  <2>1. Up(parts, 0) \in Bytestrings
    BY UpRec, EmptySeq DEF Bytestrings
  <2> QED BY <2>1
<1>2. ASSUME NEW n \in T PROVE n + 1 \in T
  <2> SUFFICES ASSUME n + 1 <= Len(parts) PROVE Up(parts, n + 1) \in Bytestrings
    OBVIOUS
  <2>1. n \in Nat /\ n + 1 \in 1..Len(parts) /\ (n + 1) - 1 = n /\ n <= Len(parts)
    OBVIOUS
  <2>2. Up(parts, n) \in Bytestrings
    BY <2>1
  <2>3. parts[n + 1] \in Bytestrings
    BY <2>1, ElementOfSeq
  <2>4. Up(parts, n + 1) = Up(parts, n) \o parts[n + 1]
    BY <2>1, UpRec
  <2> QED BY <2>2, <2>3, <2>4, ConcatProperties, ZenonT(40) DEF Bytestrings
<1>3. T \in SUBSET Nat
  OBVIOUS
<1> HIDE DEF T
<1>4. \A n \in Nat : n \in T
  BY <1>1, <1>2, <1>3, SetInduction
<1> QED BY <1>4 DEF T

\* One part more.
LEMMA UpStep ==
  ASSUME NEW parts \in Seq(Bytestrings), NEW k \in 1..Len(parts)
  PROVE  /\ Up(parts, k - 1) \in Bytestrings /\ Up(parts, k) \in Bytestrings
         /\ Len(Up(parts, k)) = Len(Up(parts, k - 1)) + Len(parts[k])
         /\ \A i \in 1..Len(Up(parts, k - 1)) : Up(parts, k)[i] = Up(parts, k - 1)[i]
         /\ \A i \in 1..Len(parts[k]) : Up(parts, k)[Len(Up(parts, k - 1)) + i] = parts[k][i]
<1>1. k \in 0..Len(parts) /\ k - 1 \in 0..Len(parts)
  OBVIOUS
<1>2. Up(parts, k - 1) \in Bytestrings /\ Up(parts, k) \in Bytestrings
  BY <1>1, UpBytes, Zenon
<1> DEFINE a == Up(parts, k - 1)
           b == parts[k]
<1>3. Up(parts, k) = a \o b
  BY UpRec
<1>4. b \in Bytestrings
  BY ElementOfSeq
<1>5. a \in Bytestrings
  BY <1>2
<1> HIDE DEF a, b
<1>6. /\ Len(a \o b) = Len(a) + Len(b)
      /\ \A i \in 1..Len(a) + Len(b) : (a \o b)[i] = IF i <= Len(a) THEN a[i] ELSE b[i - Len(a)]
  BY <1>4, <1>5, ConcatProperties, Zenon DEF Bytestrings
<1>7. Len(a) \in Nat /\ Len(b) \in Nat
  BY <1>4, <1>5 DEF Bytestrings
<1>8. ASSUME NEW i \in 1..Len(a) PROVE (a \o b)[i] = a[i]
  <2>1. i \in 1..Len(a) + Len(b) /\ i <= Len(a)
    BY <1>7
  <2> QED BY <1>6, <2>1, Zenon
<1>9. ASSUME NEW i \in 1..Len(b) PROVE (a \o b)[Len(a) + i] = b[i]
  <2>1. Len(a) + i \in 1..Len(a) + Len(b) /\ ~(Len(a) + i <= Len(a)) /\ (Len(a) + i) - Len(a) = i
    BY <1>7
  <2> QED BY <1>6, <2>1, Zenon
<1> QED BY <1>2, <1>3, <1>6, <1>8, <1>9, Zenon DEF a, b

\* A bound stays one when something is added to it.
LEMMA LeqPlus ==
  ASSUME NEW x \in Nat, NEW y \in Nat, NEW z \in Nat, NEW w, x <= y, w = y + z
  PROVE  x <= w
OBVIOUS

\* The message of fewer parts is a prefix of the message of more.
UpPrefix(parts, j, k) ==
  /\ Len(Up(parts, j)) <= Len(Up(parts, k))
  /\ \A i \in 1..Len(Up(parts, j)) : Up(parts, k)[i] = Up(parts, j)[i]

\* It is one wherever the two are parts of the same message.
LEMMA UpIsPrefix ==
  ASSUME NEW parts \in Seq(Bytestrings), NEW j \in 0..Len(parts), NEW k \in j..Len(parts)
  PROVE  UpPrefix(parts, j, k)
<1> DEFINE T == {n \in Nat : j + n <= Len(parts) => UpPrefix(parts, j, j + n)}
<1>1. 0 \in T
  <2>1. Up(parts, j) \in Bytestrings
    BY UpBytes
  <2>2. Len(Up(parts, j)) \in Nat
    BY <2>1 DEF Bytestrings
  <2>3. j + 0 = j
    OBVIOUS
  <2> QED BY <2>2, <2>3 DEF UpPrefix
<1>2. ASSUME NEW n \in T PROVE n + 1 \in T
  <2> SUFFICES ASSUME j + (n + 1) <= Len(parts) PROVE UpPrefix(parts, j, j + (n + 1))
    OBVIOUS
  <2> DEFINE m == j + (n + 1)
  <2>1. n \in Nat /\ m \in 1..Len(parts) /\ m - 1 = j + n /\ j + n <= Len(parts)
    OBVIOUS
  <2>2. UpPrefix(parts, j, m - 1)
    BY <2>1
  <2> HIDE DEF m
  <2>3. /\ Up(parts, m - 1) \in Bytestrings
        /\ Len(Up(parts, m)) = Len(Up(parts, m - 1)) + Len(parts[m])
        /\ \A i \in 1..Len(Up(parts, m - 1)) : Up(parts, m)[i] = Up(parts, m - 1)[i]
    BY <2>1, UpStep, Zenon
  <2>4. Up(parts, j) \in Bytestrings /\ parts[m] \in Bytestrings
    BY <2>1, UpBytes, ElementOfSeq
  <2>5. Len(Up(parts, j)) \in Nat /\ Len(Up(parts, m - 1)) \in Nat /\ Len(parts[m]) \in Nat
    BY <2>3, <2>4 DEF Bytestrings
  <2>6. Len(Up(parts, j)) <= Len(Up(parts, m))
    <3>1. Len(Up(parts, j)) <= Len(Up(parts, m - 1))
      BY <2>2 DEF UpPrefix
    <3>2. Len(Up(parts, m)) = Len(Up(parts, m - 1)) + Len(parts[m])
      BY <2>3, Zenon
    <3> QED BY <2>5, <3>1, <3>2, LeqPlus, ZenonT(40)
  <2>7. ASSUME NEW i \in 1..Len(Up(parts, j)) PROVE Up(parts, m)[i] = Up(parts, j)[i]
    <3>1. Len(Up(parts, j)) <= Len(Up(parts, m - 1)) /\ Up(parts, m - 1)[i] = Up(parts, j)[i]
      BY <2>2 DEF UpPrefix
    <3>2. i \in 1..Len(Up(parts, m - 1))
      BY <2>5, <3>1
    <3> QED BY <2>3, <3>1, <3>2, Zenon
  <2>8. UpPrefix(parts, j, m)
    BY <2>6, <2>7 DEF UpPrefix
  <2> QED BY <2>8 DEF m
<1>3. T \in SUBSET Nat
  OBVIOUS
<1> HIDE DEF T
<1>4. k - j \in T
  <2>1. k - j \in Nat
    OBVIOUS
  <2> QED BY <1>1, <1>2, <1>3, <2>1, SetInduction
<1>5. j + (k - j) = k /\ k <= Len(parts)
  OBVIOUS
<1> QED BY <1>4, <1>5 DEF T

(***************************************************************************)
(* The loop over the fields of a message.                                  *)
(***************************************************************************)
\* A value that can be read ends after its tag and within the message.
LEMMA EndAtRange ==
  ASSUME NEW d \in Bytestrings, NEW at \in 1..Len(d), EndAt(d, at) # 0
  PROVE  EndAt(d, at) \in (at + 1)..Len(d)
<1>1. Len(d) \in Nat
  BY DEF Bytestrings
<1> DEFINE wt == d[at] % 8
           v == ValueEnd(d, at, wt)
<1>2. v <= Len(d) /\ EndAt(d, at) = v
  BY DEF EndAt, Ends
<1>3. v \in Nat /\ v >= at + 1
  <2>1. CASE at + 1 <= Len(d) /\ d[at + 1] < 128
    <3>1. d[at + 1] \in Nat
      <4>1. at + 1 \in 1..Len(d)
        BY <1>1, <2>1
      <4>2. d[at + 1] \in Byte
        BY <4>1, ElementOfSeq DEF Bytestrings
      <4> QED BY <4>2, ByteIsNat
    <3> HIDE DEF wt
    <3> QED BY <1>1, <2>1, <3>1 DEF ValueEnd
  <2>2. CASE ~(at + 1 <= Len(d) /\ d[at + 1] < 128)
    <3> HIDE DEF wt
    <3> QED BY <1>1, <2>2 DEF ValueEnd
  <2> QED BY <2>1, <2>2
<1> QED BY <1>1, <1>2, <1>3

FieldsStep(d, goesOn, f, at) ==
  IF StopsAt(d, at) THEN <<>>
  ELSE IF EndAt(d, at) = 0 THEN IF goesOn THEN f[at + 1] ELSE <<>>
  ELSE <<FieldAt(d, at)>> \o f[EndAt(d, at) + 1]
IsFields(f, d, goesOn, lo) == f = [at \in lo..(Len(d) + 1) |-> FieldsStep(d, goesOn, f, at)]

\* A step of the loop depends on later places only.
LEMMA FieldsStepLocal ==
  ASSUME NEW d \in Bytestrings, NEW goesOn, NEW f, NEW h, NEW at \in 1..(Len(d) + 1),
         \A x \in (at + 1)..(Len(d) + 1) : f[x] = h[x]
  PROVE  FieldsStep(d, goesOn, f, at) = FieldsStep(d, goesOn, h, at)
<1>1. Len(d) \in Nat
  BY DEF Bytestrings
<1>2. CASE StopsAt(d, at)
  BY <1>2, Zenon DEF FieldsStep
<1>3. CASE ~StopsAt(d, at)
  <2>1. at \in 1..Len(d)
    BY <1>1, <1>3 DEF StopsAt
  <2>2. f[at + 1] = h[at + 1]
    BY <1>1, <2>1
  <2>3. EndAt(d, at) # 0 => f[EndAt(d, at) + 1] = h[EndAt(d, at) + 1]
    <3> SUFFICES ASSUME EndAt(d, at) # 0 PROVE f[EndAt(d, at) + 1] = h[EndAt(d, at) + 1]
      OBVIOUS
    <3>1. EndAt(d, at) \in (at + 1)..Len(d)
      BY <2>1, EndAtRange
    <3>2. EndAt(d, at) + 1 \in (at + 1)..(Len(d) + 1)
      BY <1>1, <3>1
    <3> QED BY <3>2
  <2> QED BY <2>2, <2>3, Zenon DEF FieldsStep
<1> QED BY <1>2, <1>3

\* The recursion of FieldsFrom has a solution, from every place to the end.
LEMMA FieldsExist ==
  ASSUME NEW d \in Bytestrings, NEW goesOn
  PROVE  \E f : IsFields(f, d, goesOn, 1)
<1> DEFINE N == Len(d) + 1
           T == {n \in Nat : n < N => \E f : IsFields(f, d, goesOn, N - n)}
<1>1. N \in Nat /\ N >= 1 /\ Len(d) \in Nat
  BY DEF Bytestrings
<1>2. 0 \in T
  <2> DEFINE f == [at \in N..N |-> <<>>]
  <2>1. ASSUME NEW at \in N..N PROVE FieldsStep(d, goesOn, f, at) = <<>>
    <3>1. StopsAt(d, at)
      BY <1>1 DEF StopsAt
    <3> QED BY <3>1, Zenon DEF FieldsStep
  <2> HIDE DEF N
  <2>2. f = [at \in N..N |-> FieldsStep(d, goesOn, f, at)]
    BY <2>1, Zenon
  <2>3. N - 0 = N
    BY <1>1
  <2> HIDE DEF f
  <2>4. IsFields(f, d, goesOn, N - 0)
    BY <2>2, <2>3, Zenon DEF IsFields, N
  <2> QED BY <2>4
<1>3. ASSUME NEW n \in T PROVE n + 1 \in T
  <2> SUFFICES ASSUME n + 1 < N PROVE \E f : IsFields(f, d, goesOn, N - (n + 1))
    OBVIOUS
  <2>1. n \in Nat /\ n < N
    BY <1>1
  <2>2. PICK f : IsFields(f, d, goesOn, N - n)
    BY <2>1
  <2> DEFINE lo == N - (n + 1)
             h == [at \in lo..N |-> IF at = lo THEN FieldsStep(d, goesOn, f, lo) ELSE f[at]]
  <2>3. lo \in 1..N /\ N - n = lo + 1
    BY <1>1, <2>1
  <2>4. f = [at \in (lo + 1)..N |-> FieldsStep(d, goesOn, f, at)]
    BY <2>2, <2>3, Zenon DEF IsFields
  <2> HIDE DEF N, lo
  <2>5. \A x \in (lo + 1)..N : x \in lo..N /\ x # lo
    BY <1>1, <2>3
  <2>6. \A x \in (lo + 1)..N : f[x] = h[x]
    BY <2>5, Zenon
  <2>7. ASSUME NEW at \in lo..N PROVE h[at] = FieldsStep(d, goesOn, h, at)
    <3>1. at \in 1..N /\ \A x \in (at + 1)..N : x \in (lo + 1)..N
      BY <1>1, <2>3
    <3>2. \A x \in (at + 1)..N : f[x] = h[x]
      BY <2>6, <3>1, Zenon
    <3>3. FieldsStep(d, goesOn, f, at) = FieldsStep(d, goesOn, h, at)
      <4> HIDE DEF h
      <4> QED BY <3>1, <3>2, FieldsStepLocal, Zenon DEF N
    <3>4. h[at] = FieldsStep(d, goesOn, f, at)
      <4>1. CASE at = lo
        BY <4>1, Zenon
      <4>2. CASE at # lo
        <5>1. at \in (lo + 1)..N
          BY <1>1, <2>3, <4>2
        <5>2. f[at] = FieldsStep(d, goesOn, f, at)
          BY <2>4, <5>1, Zenon
        <5> QED BY <4>2, <5>2, Zenon
      <4> QED BY <4>1, <4>2
    <3> QED BY <3>3, <3>4, Zenon
  <2>8. h = [at \in lo..N |-> FieldsStep(d, goesOn, h, at)]
    BY <2>7, Zenon
  <2> HIDE DEF h
  <2>9. IsFields(h, d, goesOn, lo)
    BY <2>8, Zenon DEF IsFields, N
  <2> QED BY <2>9, Zenon DEF lo
<1>4. T \in SUBSET Nat
  OBVIOUS
<1>5. N - 1 \in Nat /\ N - 1 < N /\ N - (N - 1) = 1
  BY <1>1
<1> HIDE DEF T, N
<1>6. N - 1 \in T
  BY <1>2, <1>3, <1>4, <1>5, SetInduction
<1> QED BY <1>5, <1>6 DEF T

\* What FieldsFrom computes.
LEMMA FieldsFromDef ==
  ASSUME NEW d \in Bytestrings, NEW goesOn, NEW at \in 1..(Len(d) + 1)
  PROVE  FieldsFrom(d, goesOn)[at] = FieldsStep(d, goesOn, FieldsFrom(d, goesOn), at)
<1>1. \E f : IsFields(f, d, goesOn, 1)
  BY FieldsExist
<1>2. FieldsFrom(d, goesOn) = CHOOSE f : IsFields(f, d, goesOn, 1)
  BY Zenon DEF FieldsFrom, IsFields, FieldsStep
<1>3. IsFields(FieldsFrom(d, goesOn), d, goesOn, 1)
  BY <1>1, <1>2, Zenon
<1> DEFINE f == FieldsFrom(d, goesOn)
<1>4. f = [x \in 1..(Len(d) + 1) |-> FieldsStep(d, goesOn, f, x)]
  BY <1>3, Zenon DEF IsFields
<1> HIDE DEF f
<1>5. f[at] = FieldsStep(d, goesOn, f, at)
  BY <1>4, Zenon
<1> QED BY <1>5 DEF f

\* An encoded field: a tag, and a length with its value or a number.
WellFormed(x) ==
  /\ x \in Bytestrings /\ Len(x) >= 2 /\ x[1] \in 8..127 /\ x[2] \in 0..127
  /\ \/ x[1] % 8 = Bytes /\ Len(x) = x[2] + 2
     \/ x[1] % 8 = Varint /\ Len(x) = 2
FieldOf(x) ==
  [field |-> x[1] \div 8, wt |-> x[1] % 8,
   val |-> IF x[1] % 8 = Bytes THEN SubSeq(x, 3, Len(x)) ELSE <<x[2]>>]

\* d goes on with x after p bytes, as far as it goes.
GoesOnWith(d, p, x) == \A i \in 1..Len(x) : p + i <= Len(d) => d[p + i] = x[i]

\* The first two bytes of a field that d goes on with.
LEMMA TagBytes ==
  ASSUME NEW d \in Bytestrings, NEW x, WellFormed(x), NEW p \in Nat, p < Len(d),
         GoesOnWith(d, p, x)
  PROVE  /\ Len(d) \in Nat /\ Len(x) \in Nat /\ d[p + 1] = x[1]
         /\ p + 2 <= Len(d) => d[p + 2] = x[2]
         /\ ~StopsAt(d, p + 1)
<1>1. Len(d) \in Nat /\ Len(x) \in Nat /\ Len(x) >= 2
  BY DEF Bytestrings, WellFormed
<1>2. 1 \in 1..Len(x) /\ 2 \in 1..Len(x) /\ p + 1 <= Len(d)
  BY <1>1
<1>3. d[p + 1] = x[1]
  BY <1>2, Zenon DEF GoesOnWith
<1>4. p + 2 <= Len(d) => d[p + 2] = x[2]
  BY <1>2, Zenon DEF GoesOnWith
<1>5. x[1] \in 8..127
  BY DEF WellFormed
<1>6. IsTag(x[1])
  <2>1. ASSUME NEW b \in 8..127 PROVE IsTag(b)
    BY <2>1 DEF IsTag
  <2> QED BY <1>5, <2>1, Zenon
<1>7. ~(p + 1 > Len(d))
  BY <1>1
<1> QED BY <1>1, <1>3, <1>4, <1>6, <1>7, Zenon DEF StopsAt

\* Where the value of a field ends, whole or not.
LEMMA FieldValueEnd ==
  ASSUME NEW d \in Bytestrings, NEW x, WellFormed(x), NEW p \in Nat, p < Len(d),
         GoesOnWith(d, p, x)
  PROVE  ValueEnd(d, p + 1, x[1] % 8) = IF p + 2 <= Len(d) THEN p + Len(x) ELSE Len(d) + 1
<1>1. Len(d) \in Nat /\ Len(x) \in Nat /\ (p + 2 <= Len(d) => d[p + 2] = x[2])
  BY TagBytes
<1>2. (p + 1) + 1 = p + 2
  OBVIOUS
<1>3. x[2] \in 0..127
  BY DEF WellFormed
<1> DEFINE wt == x[1] % 8
           b == x[2]
<1>4. (wt = Bytes /\ Len(x) = b + 2) \/ (wt = Varint /\ Len(x) = 2)
  BY DEF WellFormed
<1>5. b \in 0..127
  BY <1>3
<1>6. p + 2 <= Len(d) => d[(p + 1) + 1] = b
  BY <1>1, <1>2, Zenon
<1> HIDE DEF wt, b
<1>7. CASE p + 2 <= Len(d)
  <2>1. d[(p + 1) + 1] = b /\ (p + 1) + 1 <= Len(d) /\ b < 128
    BY <1>5, <1>6, <1>7
  <2>2. CASE wt = Varint /\ Len(x) = 2
    <3>1. ValueEnd(d, p + 1, wt) = (p + 1) + 1
      BY <2>1, <2>2, Zenon DEF ValueEnd
    <3> QED BY <1>1, <1>7, <2>2, <3>1 DEF wt
  <2>3. CASE wt = Bytes /\ Len(x) = b + 2
    <3>1. ValueEnd(d, p + 1, wt) = (p + 1) + 1 + b
      <4>1. Bytes # Varint
        BY DEF Bytes, Varint
      <4> QED BY <2>1, <2>3, <4>1, Zenon DEF ValueEnd
    <3>2. (p + 1) + 1 + b = p + Len(x)
      BY <1>5, <2>3
    <3> QED BY <1>7, <3>1, <3>2, Zenon DEF wt
  <2> QED BY <1>4, <2>2, <2>3
<1>8. CASE ~(p + 2 <= Len(d))
  <2>1. ~((p + 1) + 1 <= Len(d))
    BY <1>8
  <2>2. wt # Fixed64 /\ wt # Fixed32
    BY <1>4 DEF Bytes, Varint, Fixed64, Fixed32
  <2>3. ValueEnd(d, p + 1, wt) = Len(d) + 1
    BY <2>1, <2>2, Zenon DEF ValueEnd
  <2> QED BY <1>8, <2>3, Zenon DEF wt
<1> QED BY <1>7, <1>8

\* A field that is there as a whole is read as it was written.
LEMMA WholeField ==
  ASSUME NEW d \in Bytestrings, NEW x, WellFormed(x), NEW p \in Nat,
         p + Len(x) <= Len(d), GoesOnWith(d, p, x)
  PROVE  ~StopsAt(d, p + 1) /\ EndAt(d, p + 1) = p + Len(x) /\ FieldAt(d, p + 1) = FieldOf(x)
<1>1. Len(d) \in Nat /\ Len(x) \in Nat /\ Len(x) >= 2 /\ x \in Bytestrings
  BY DEF Bytestrings, WellFormed
<1>2. p < Len(d) /\ p + 2 <= Len(d)
  BY <1>1
<1>3. d[p + 1] = x[1] /\ d[p + 2] = x[2] /\ ~StopsAt(d, p + 1)
  BY <1>2, TagBytes
<1> DEFINE wt == x[1] % 8
<1>4. ValueEnd(d, p + 1, wt) = p + Len(x)
  BY <1>2, FieldValueEnd
<1>5. EndAt(d, p + 1) = p + Len(x)
  BY <1>3, <1>4, Zenon DEF EndAt, Ends
<1>6. CASE wt = Bytes
  <2> DEFINE a == SubSeq(d, p + 3, p + Len(x))
             b == SubSeq(x, 3, Len(x))
  <2>1. \A i \in 3..Len(x) : x[i] \in Byte
    BY <1>1, ElementOfSeq DEF Bytestrings
  <2>2. \A i \in (p + 3)..(p + Len(x)) : d[i] \in Byte
    <3> SUFFICES ASSUME NEW i \in (p + 3)..(p + Len(x)) PROVE d[i] \in Byte
      OBVIOUS
    <3>1. i \in 1..Len(d)
      BY <1>1
    <3> QED BY <3>1, ElementOfSeq DEF Bytestrings
  <2>3. p + 3 \in Int /\ p + Len(x) \in Int /\ 3 \in Int /\ Len(x) \in Int
        /\ (p + Len(x)) - (p + 3) + 1 = Len(x) - 3 + 1
        /\ 3 <= Len(x) + 1 /\ p + 3 <= p + Len(x) + 1
    BY <1>1
  <2>4. /\ a \in Seq(Byte)
        /\ Len(a) = (p + Len(x)) - (p + 3) + 1
        /\ \A i \in 1..(p + Len(x)) - (p + 3) + 1 : a[i] = d[(p + 3) + i - 1]
    BY <2>2, <2>3, SubBytes, ZenonT(40)
  <2>5. /\ b \in Seq(Byte)
        /\ Len(b) = Len(x) - 3 + 1
        /\ \A i \in 1..Len(x) - 3 + 1 : b[i] = x[3 + i - 1]
    <3>1. PICK m \in Int : m = 3
      OBVIOUS
    <3>2. m <= Len(x) + 1 /\ \A i \in m..Len(x) : x[i] \in Byte
      BY <2>1, <2>3, <3>1, Zenon
    <3>3. Len(x) \in Int
      BY <1>1
    <3>4. /\ SubSeq(x, m, Len(x)) \in Seq(Byte) /\ Len(SubSeq(x, m, Len(x))) = Len(x) - m + 1
          /\ \A i \in 1..(Len(x) - m + 1) : SubSeq(x, m, Len(x))[i] = x[m + i - 1]
      BY <3>2, <3>3, SubBytes, Zenon
    <3> QED BY <3>1, <3>4, Zenon
  <2> HIDE DEF a, b
  <2>6. Len(a) = Len(b)
    BY <2>3, <2>4, <2>5, Zenon
  <2>7. ASSUME NEW i \in 1..Len(a) PROVE a[i] = b[i]
    <3>1. i \in 1..Len(x) - 3 + 1
      BY <1>1, <2>3, <2>4
    <3>2. (p + 3) + i - 1 = p + (3 + i - 1) /\ 3 + i - 1 \in 1..Len(x) /\ p + (3 + i - 1) <= Len(d)
      BY <1>1, <3>1
    <3>3. a[i] = d[p + (3 + i - 1)]
      BY <2>3, <2>4, <3>1, <3>2, Zenon
    <3>4. b[i] = x[3 + i - 1]
      BY <2>5, <3>1, Zenon
    <3>5. d[p + (3 + i - 1)] = x[3 + i - 1]
      BY <3>2, Zenon DEF GoesOnWith
    <3> QED BY <3>3, <3>4, <3>5, Zenon
  <2>8. a = b
    BY <2>4, <2>5, <2>6, <2>7, SeqEqual, Zenon
  <2>9. (p + 1) + 2 = p + 3
    OBVIOUS
  <2> QED BY <1>3, <1>5, <1>6, <2>8, <2>9, Zenon DEF FieldAt, FieldOf, a, b
<1>7. CASE wt # Bytes
  <2>1. Len(x) = 2
    BY <1>7 DEF WellFormed
  <2>2. d[p + Len(x)] = x[2]
    BY <1>3, <2>1, Zenon
  <2> QED BY <1>3, <1>5, <1>7, <2>2, Zenon DEF FieldAt, FieldOf
<1> QED BY <1>3, <1>5, <1>6, <1>7

\* A field that is cut off cannot be read.
LEMMA CutField ==
  ASSUME NEW d \in Bytestrings, NEW x, WellFormed(x), NEW p \in Nat, p < Len(d),
         Len(d) < p + Len(x), GoesOnWith(d, p, x)
  PROVE  ~StopsAt(d, p + 1) /\ EndAt(d, p + 1) = 0
<1>1. Len(d) \in Nat /\ Len(x) \in Nat /\ d[p + 1] = x[1] /\ ~StopsAt(d, p + 1)
  BY TagBytes
<1> DEFINE v == ValueEnd(d, p + 1, x[1] % 8)
<1>2. v = IF p + 2 <= Len(d) THEN p + Len(x) ELSE Len(d) + 1
  BY FieldValueEnd
<1> HIDE DEF v
<1>3. ~(v <= Len(d))
  BY <1>1, <1>2
<1> QED BY <1>1, <1>3, Zenon DEF v, EndAt, Ends

\* One element before a sequence.
LEMMA ConsSeq ==
  ASSUME NEW S, NEW j \in Nat, NEW s \in [1..j -> S], NEW r \in S
  PROVE  <<r>> \o s = [i \in 1..(j + 1) |-> IF i = 1 THEN r ELSE s[i - 1]]
<1>1. s \in Seq(S) /\ Len(s) = j
  OBVIOUS
<1>2. <<r>> \in Seq(S) /\ Len(<<r>>) = 1 /\ <<r>>[1] = r
  OBVIOUS
<1> DEFINE a == <<r>>
           t == [i \in 1..(j + 1) |-> IF i = 1 THEN r ELSE s[i - 1]]
<1>3. t \in Seq(S) /\ Len(t) = j + 1
  OBVIOUS
<1>4. a \in Seq(S) /\ Len(a) = 1 /\ a[1] = r
  BY <1>2
<1> HIDE DEF a
<1>5. /\ a \o s \in Seq(S) /\ Len(a \o s) = Len(a) + Len(s)
      /\ \A i \in 1..Len(a) + Len(s) : (a \o s)[i] = IF i <= Len(a) THEN a[i] ELSE s[i - Len(a)]
  BY <1>1, <1>4, ConcatProperties, Zenon
<1>6. Len(a \o s) = j + 1
  BY <1>1, <1>4, <1>5
<1>7. ASSUME NEW i \in 1..(j + 1) PROVE (a \o s)[i] = t[i]
  <2>1. i \in 1..Len(a) + Len(s) /\ (i <= Len(a) <=> i = 1)
    BY <1>1, <1>4
  <2>2. (a \o s)[i] = IF i = 1 THEN a[i] ELSE s[i - 1]
    BY <1>4, <1>5, <2>1, Zenon
  <2> QED BY <1>4, <2>2, Zenon
<1> HIDE DEF t
<1>8. a \o s = t
  BY <1>3, <1>5, <1>6, <1>7, SeqEqual, Zenon
<1> QED BY <1>8 DEF a, t

\* The bytes of a message that ends after n of them, part by part.
LEMMA PartBytes ==
  ASSUME NEW parts \in Seq(Bytestrings), NEW n \in 0..Len(Joined(parts))
  PROVE  /\ SubSeq(Joined(parts), 1, n) \in Bytestrings /\ Len(SubSeq(Joined(parts), 1, n)) = n
         /\ \A k \in 1..Len(parts) :
              GoesOnWith(SubSeq(Joined(parts), 1, n), Len(Up(parts, k - 1)), parts[k])
<1> DEFINE J == Joined(parts)
           d == SubSeq(J, 1, n)
<1>1. Len(parts) \in Nat /\ Len(parts) \in 0..Len(parts)
  OBVIOUS
<1>2. J = Up(parts, Len(parts)) /\ J \in Bytestrings
  BY <1>1, UpRec, UpBytes, Zenon
<1> HIDE DEF J
<1>3. Len(J) \in Nat /\ n \in Int /\ n \in Nat /\ n <= Len(J)
  <2>1. Len(J) \in Nat
    BY <1>2 DEF Bytestrings
  <2> QED BY <2>1 DEF J
<1>4. \A i \in 1..n : J[i] \in Byte
  <2> SUFFICES ASSUME NEW i \in 1..n PROVE J[i] \in Byte
    OBVIOUS
  <2>1. i \in 1..Len(J)
    BY <1>3
  <2> QED BY <1>2, <2>1, ElementOfSeq DEF Bytestrings
<1>5. d \in Seq(Byte) /\ Len(d) = n /\ \A i \in 1..n : d[i] = J[i]
  <2>1. PICK m \in Int : m = 1
    OBVIOUS
  <2>2. m <= n + 1 /\ \A i \in m..n : J[i] \in Byte
    BY <1>3, <1>4, <2>1
  <2>3. n \in Int
    BY <1>3
  <2>4. /\ SubSeq(J, m, n) \in Seq(Byte) /\ Len(SubSeq(J, m, n)) = n - m + 1
        /\ \A i \in 1..(n - m + 1) : SubSeq(J, m, n)[i] = J[m + i - 1]
    BY <2>2, <2>3, SubBytes, Zenon
  <2>5. n - m + 1 = n /\ \A i \in 1..n : m + i - 1 = i
    BY <1>3, <2>1
  <2>6. SubSeq(J, m, n) = d
    BY <2>1, Zenon
  <2> HIDE DEF d
  <2> QED BY <2>4, <2>5, <2>6, Zenon
<1> HIDE DEF d
<1>6. ASSUME NEW k \in 1..Len(parts) PROVE GoesOnWith(d, Len(Up(parts, k - 1)), parts[k])
  <2> DEFINE p == Len(Up(parts, k - 1))
  <2> SUFFICES ASSUME NEW i \in 1..Len(parts[k]), p + i <= Len(d) PROVE d[p + i] = parts[k][i]
    BY Zenon DEF GoesOnWith
  <2>1. /\ Up(parts, k - 1) \in Bytestrings /\ Up(parts, k) \in Bytestrings
        /\ Len(Up(parts, k)) = p + Len(parts[k])
        /\ Up(parts, k)[p + i] = parts[k][i]
    BY UpStep, Zenon
  <2>2. p \in Nat /\ Len(parts[k]) \in Nat
    <3>1. parts[k] \in Bytestrings
      BY ElementOfSeq
    <3> QED BY <2>1, <3>1 DEF Bytestrings
  <2>3. k \in 0..Len(parts) /\ Len(parts) \in k..Len(parts)
    BY <1>1
  <2>4. UpPrefix(parts, k, Len(parts))
    BY <2>3, UpIsPrefix
  <2>5. Len(Up(parts, k)) = p + Len(parts[k])
    BY <2>1, Zenon
  <2> HIDE DEF p
  <2>6. p + i \in 1..Len(Up(parts, k)) /\ p + i \in 1..Len(d)
    BY <1>3, <1>5, <2>2, <2>5
  <2>7. J[p + i] = Up(parts, k)[p + i]
    BY <1>2, <2>4, <2>6, Zenon DEF UpPrefix
  <2>8. d[p + i] = J[p + i]
    BY <1>5, <2>6, Zenon
  <2>9. Up(parts, k)[p + i] = parts[k][i]
    BY <2>1, Zenon DEF p
  <2> QED BY <2>7, <2>8, <2>9, Zenon
<1> QED BY <1>5, <1>6, Zenon DEF d, J, Bytestrings

\* The last j of the first m fields.
LastFields(parts, m, j) == [i \in 1..j |-> FieldOf(parts[m - j + i])]

\* The message of parts that ends after n bytes holds its first m parts, and no
\* whole part after them.  A reader that goes on after an error meets none.
Holds(parts, n, m, goesOn) ==
  /\ m \in 0..Len(parts) /\ Len(Up(parts, m)) <= n
  /\ m < Len(parts) => n < Len(Up(parts, m + 1))
  /\ n = Len(Up(parts, m)) \/ goesOn = FALSE

\* After the whole parts the loop stops.
LEMMA FieldsEnd ==
  ASSUME NEW parts \in Seq(Bytestrings), \A i \in 1..Len(parts) : WellFormed(parts[i]),
         NEW n \in 0..Len(Joined(parts)), NEW m, NEW goesOn, Holds(parts, n, m, goesOn)
  PROVE  FieldsFrom(SubSeq(Joined(parts), 1, n), goesOn)[Len(Up(parts, m)) + 1] = <<>>
<1> DEFINE d == SubSeq(Joined(parts), 1, n)
           p == Len(Up(parts, m))
<1>1. d \in Bytestrings /\ Len(d) = n
  BY PartBytes
<1>2. m \in 0..Len(parts) /\ p <= n /\ (m < Len(parts) => n < Len(Up(parts, m + 1)))
      /\ (n = p \/ goesOn = FALSE)
  BY DEF Holds
<1>3. p \in Nat
  <2>1. Up(parts, m) \in Bytestrings
    BY <1>2, UpBytes
  <2> QED BY <2>1 DEF Bytestrings
<1>4. Len(d) \in Nat /\ Len(parts) \in Nat
  BY <1>1 DEF Bytestrings
<1>5. p + 1 \in 1..(Len(d) + 1)
  <2> HIDE DEF p, d
  <2> QED BY <1>1, <1>2, <1>3, <1>4
<1>6. FieldsFrom(d, goesOn)[p + 1] = FieldsStep(d, goesOn, FieldsFrom(d, goesOn), p + 1)
  <2> HIDE DEF p, d
  <2> QED BY <1>1, <1>5, FieldsFromDef
<1>7. CASE n = p
  <2>1. StopsAt(d, p + 1)
    <3> HIDE DEF p, d
    <3>1. p + 1 > Len(d)
      BY <1>1, <1>3, <1>7
    <3> QED BY <3>1 DEF StopsAt
  <2> HIDE DEF p, d
  <2>2. FieldsFrom(d, goesOn)[p + 1] = <<>>
    BY <1>6, <2>1, Zenon DEF FieldsStep
  <2> QED BY <2>2 DEF p, d
<1>8. CASE n # p /\ goesOn = FALSE
  <2>1. m < Len(parts)
    <3> SUFFICES ASSUME m = Len(parts) PROVE FALSE
      BY <1>2, <1>4
    <3>1. Joined(parts) = Up(parts, m)
      BY UpRec
    <3>2. n \in 0..p
      BY <3>1
    <3> QED BY <1>2, <1>3, <1>8, <3>2
  <2> DEFINE x == parts[m + 1]
  <2>2. m + 1 \in 1..Len(parts) /\ (m + 1) - 1 = m
    BY <1>2, <1>4, <2>1
  <2>3. WellFormed(x) /\ GoesOnWith(d, p, x)
    BY <2>2, PartBytes
  <2>4. Len(Up(parts, m + 1)) = p + Len(x)
    <3>1. Len(Up(parts, m + 1)) = Len(Up(parts, (m + 1) - 1)) + Len(parts[m + 1])
      BY <2>2, UpStep, Zenon
    <3> QED BY <2>2, <3>1, Zenon
  <2> HIDE DEF p, d, x
  <2>5. p < Len(d) /\ Len(d) < p + Len(x)
    BY <1>1, <1>2, <1>3, <1>4, <1>8, <2>1, <2>4
  <2>6. ~StopsAt(d, p + 1) /\ EndAt(d, p + 1) = 0
    BY <1>1, <1>3, <2>3, <2>5, CutField
  <2>7. FieldsFrom(d, goesOn)[p + 1] = <<>>
    BY <1>6, <1>8, <2>6, Zenon DEF FieldsStep
  <2> QED BY <2>7 DEF p, d
<1> QED BY <1>2, <1>7, <1>8

\* A whole part is one field more.
LEMMA FieldsMore ==
  ASSUME NEW parts \in Seq(Bytestrings), \A i \in 1..Len(parts) : WellFormed(parts[i]),
         NEW n \in 0..Len(Joined(parts)), NEW m \in 0..Len(parts), NEW goesOn,
         Len(Up(parts, m)) <= n, NEW k \in 1..m
  PROVE  FieldsFrom(SubSeq(Joined(parts), 1, n), goesOn)[Len(Up(parts, k - 1)) + 1]
           = <<FieldOf(parts[k])>>
               \o FieldsFrom(SubSeq(Joined(parts), 1, n), goesOn)[Len(Up(parts, k)) + 1]
<1> DEFINE d == SubSeq(Joined(parts), 1, n)
           p == Len(Up(parts, k - 1))
           q == Len(Up(parts, k))
           r == Len(Up(parts, m))
           x == parts[k]
<1>1. d \in Bytestrings /\ Len(d) = n
  BY PartBytes
<1>2. k \in 1..Len(parts) /\ k \in 0..Len(parts) /\ m \in k..Len(parts)
  OBVIOUS
<1>3. WellFormed(x) /\ GoesOnWith(d, p, x)
  BY <1>2, PartBytes
<1>4. Up(parts, k - 1) \in Bytestrings /\ q = p + Len(x)
  BY <1>2, UpStep
<1>5. q <= r
  BY <1>2, UpIsPrefix DEF UpPrefix
<1>6. p \in Nat /\ Len(x) \in Nat /\ r \in Nat /\ Len(d) \in Nat /\ Len(x) >= 2
  <2>1. Up(parts, m) \in Bytestrings
    BY UpBytes
  <2> HIDE DEF d, x
  <2> QED BY <1>1, <1>3, <1>4, <2>1, SMTT(30) DEF Bytestrings, WellFormed
<1>7. r <= n
  OBVIOUS
<1> HIDE DEF d, p, q, r, x
<1>8. p + Len(x) <= Len(d) /\ p + 1 \in 1..(Len(d) + 1) /\ p + Len(x) # 0
  BY <1>1, <1>4, <1>5, <1>6, <1>7
<1>9. ~StopsAt(d, p + 1) /\ EndAt(d, p + 1) = q /\ FieldAt(d, p + 1) = FieldOf(x)
  BY <1>1, <1>3, <1>4, <1>6, <1>8, WholeField
<1>10. FieldsFrom(d, goesOn)[p + 1] = FieldsStep(d, goesOn, FieldsFrom(d, goesOn), p + 1)
  BY <1>1, <1>8, FieldsFromDef
<1>11. q # 0
  BY <1>4, <1>8
<1>12. FieldsFrom(d, goesOn)[p + 1] = <<FieldOf(x)>> \o FieldsFrom(d, goesOn)[q + 1]
  BY <1>9, <1>10, <1>11, Zenon DEF FieldsStep
<1> QED BY <1>12 DEF d, p, q, x

\* Reading undoes writing: a message that ends after n bytes is read as the
\* fields it holds as a whole.
LEMMA MessageFields ==
  ASSUME NEW parts \in Seq(Bytestrings), \A i \in 1..Len(parts) : WellFormed(parts[i]),
         NEW n \in 0..Len(Joined(parts)), NEW m, NEW goesOn, Holds(parts, n, m, goesOn)
  PROVE  Fields(SubSeq(Joined(parts), 1, n), goesOn) = [i \in 1..m |-> FieldOf(parts[i])]
<1> DEFINE F == FieldsFrom(SubSeq(Joined(parts), 1, n), goesOn)
           S == {FieldOf(parts[i]) : i \in 1..Len(parts)}
           T == {j \in Nat : j <= m => F[Len(Up(parts, m - j)) + 1] = LastFields(parts, m, j)}
<1>1. m \in 0..Len(parts) /\ m \in Nat /\ Len(Up(parts, m)) <= n /\ Len(parts) \in Nat
  BY DEF Holds
<1>2. 0 \in T
  <2>1. F[Len(Up(parts, m)) + 1] = <<>>
    BY FieldsEnd
  <2>2. LastFields(parts, m, 0) = <<>>
    BY DEF LastFields
  <2>3. m - 0 = m
    BY <1>1
  <2> HIDE DEF F
  <2>4. F[Len(Up(parts, m - 0)) + 1] = LastFields(parts, m, 0)
    BY <2>1, <2>2, <2>3, Zenon
  <2> QED BY <2>4
<1>3. ASSUME NEW j \in T PROVE j + 1 \in T
  <2> SUFFICES ASSUME j + 1 <= m PROVE F[Len(Up(parts, m - (j + 1))) + 1] = LastFields(parts, m, j + 1)
    OBVIOUS
  <2> DEFINE k == m - j
  <2>1. j \in Nat /\ j <= m /\ k \in 1..m /\ k - 1 = m - (j + 1) /\ k \in 1..Len(parts)
    BY <1>1
  <2>2. F[Len(Up(parts, k)) + 1] = LastFields(parts, m, j)
    BY <2>1
  <2>3. F[Len(Up(parts, k - 1)) + 1] = <<FieldOf(parts[k])>> \o F[Len(Up(parts, k)) + 1]
    <3> HIDE DEF k
    <3> QED BY <1>1, <2>1, FieldsMore
  <2> HIDE DEF F, S
  <2>4. FieldOf(parts[k]) \in S
    BY <2>1 DEF S
  <2>5. LastFields(parts, m, j) \in [1..j -> S]
    <3>1. \A i \in 1..j : m - j + i \in 1..Len(parts)
      BY <1>1, <2>1
    <3> QED BY <3>1, Zenon DEF LastFields, S
  <2> DEFINE s == LastFields(parts, m, j)
  <2>6. <<FieldOf(parts[k])>> \o s = [i \in 1..(j + 1) |-> IF i = 1 THEN FieldOf(parts[k]) ELSE s[i - 1]]
    <3> HIDE DEF s, k
    <3>1. s \in [1..j -> S]
      BY <2>5 DEF s
    <3> QED BY <2>1, <2>4, <3>1, ConsSeq
  <2>7. ASSUME NEW i \in 1..(j + 1)
        PROVE  (IF i = 1 THEN FieldOf(parts[k]) ELSE s[i - 1]) = FieldOf(parts[m - (j + 1) + i])
    <3>1. CASE i = 1
      <4>1. m - (j + 1) + i = k
        BY <1>1, <2>1, <3>1
      <4> HIDE DEF k, s
      <4> QED BY <3>1, <4>1, Zenon
    <3>2. CASE i # 1
      <4>1. i - 1 \in 1..j /\ m - j + (i - 1) = m - (j + 1) + i
        BY <1>1, <2>1, <3>2
      <4>2. s[i - 1] = FieldOf(parts[m - j + (i - 1)])
        BY <4>1, Zenon DEF LastFields
      <4> HIDE DEF s
      <4> QED BY <3>2, <4>1, <4>2, Zenon
    <3> QED BY <3>1, <3>2
  <2>8. <<FieldOf(parts[k])>> \o s = LastFields(parts, m, j + 1)
    <3> HIDE DEF s, k
    <3> QED BY <2>6, <2>7, Zenon DEF LastFields
  <2>9. F[Len(Up(parts, k - 1)) + 1] = LastFields(parts, m, j + 1)
    <3> HIDE DEF k
    <3> QED BY <2>2, <2>3, <2>8, Zenon DEF s
  <2> QED BY <2>1, <2>9, Zenon
<1>4. T \in SUBSET Nat
  OBVIOUS
<1> HIDE DEF T
<1>5. m \in T
  BY <1>1, <1>2, <1>3, <1>4, SetInduction
<1> HIDE DEF F, S
<1>6. F[Len(Up(parts, m - m)) + 1] = LastFields(parts, m, m)
  BY <1>1, <1>5 DEF T
<1>7. Up(parts, m - m) = <<>>
  <2>1. m - m = 0
    BY <1>1
  <2> QED BY <2>1, UpRec, Zenon
<1>8. Len(Up(parts, m - m)) + 1 = 1
  BY <1>7
<1>9. LastFields(parts, m, m) = [i \in 1..m |-> FieldOf(parts[i])]
  <2>1. \A i \in 1..m : m - m + i = i
    BY <1>1
  <2> QED BY <2>1, Zenon DEF LastFields
<1> QED BY <1>6, <1>8, <1>9, Zenon DEF F, Fields

(***************************************************************************)
(* Prefixes and entries, written and read.                                 *)
(***************************************************************************)
\* A field with a length and a value.
LEMMA LenBytesField ==
  ASSUME NEW tag \in {10, 18}, NEW val \in Bytestrings, Len(val) < 128
  PROVE  /\ WellFormed(LenBytes(tag, val)) /\ Len(LenBytes(tag, val)) = Len(val) + 2
         /\ FieldOf(LenBytes(tag, val)) = [field |-> tag \div 8, wt |-> Bytes, val |-> val]
<1> DEFINE n == Len(val)
           a == <<tag, n>>
           x == a \o val
<1>1. n \in Nat /\ n <= 127
  BY DEF Bytestrings
<1>2. tag \in Byte /\ n \in Byte
  <2> HIDE DEF n
  <2>1. tag \in Byte
    BY DEF Byte
  <2>2. n \in Byte
    BY <1>1 DEF Byte
  <2> QED BY <2>1, <2>2
<1>3. a \in Seq(Byte) /\ Len(a) = 2 /\ a[1] = tag /\ a[2] = n
  <2> HIDE DEF n
  <2> QED BY <1>2
<1> HIDE DEF a
<1>4. val \in Seq(Byte)
  BY DEF Bytestrings
<1>5. /\ x \in Seq(Byte) /\ Len(x) = Len(a) + Len(val)
      /\ \A i \in 1..Len(a) + Len(val) : x[i] = IF i <= Len(a) THEN a[i] ELSE val[i - Len(a)]
  BY <1>3, <1>4, ConcatProperties, Zenon
<1>6. Len(x) = n + 2 /\ Len(x) \in Nat
  <2>1. Len(x) = Len(a) + n
    BY <1>5, Zenon
  <2> HIDE DEF n, x
  <2> QED BY <1>1, <1>3, <2>1
<1>7. x[1] = tag /\ x[2] = n
  <2>1. 1 \in 1..Len(a) + Len(val) /\ 2 \in 1..Len(a) + Len(val) /\ 1 <= Len(a) /\ 2 <= Len(a)
    BY <1>1, <1>3
  <2>2. x[1] = a[1] /\ x[2] = a[2]
    <3> HIDE DEF x, n
    <3> QED BY <1>5, <2>1, Zenon
  <2> QED BY <1>3, <2>2, Zenon
<1>8. tag % 8 = Bytes /\ tag \in 8..127
  BY DEF Bytes
<1>9. SubSeq(x, 3, Len(x)) = val
  <2>1. \A i \in 3..Len(x) : x[i] \in Byte
    <3> SUFFICES ASSUME NEW i \in 3..Len(x) PROVE x[i] \in Byte
      OBVIOUS
    <3>1. i \in 1..Len(x)
      BY <1>6
    <3> HIDE DEF x
    <3> QED BY <1>5, <3>1, ElementOfSeq, Zenon
  <2>2. PICK m \in Int : m = 3
    OBVIOUS
  <2> DEFINE b == SubSeq(x, m, Len(x))
  <2>3. Len(x) \in Int
    BY <1>6
  <2> HIDE DEF x, n
  <2>4. m <= Len(x) + 1 /\ Len(x) - m + 1 = n
    BY <1>1, <1>6, <2>2
  <2>5. \A i \in m..Len(x) : x[i] \in Byte
    BY <2>1, <2>2, Zenon
  <2>6. /\ b \in Seq(Byte) /\ Len(b) = Len(x) - m + 1
        /\ \A i \in 1..(Len(x) - m + 1) : b[i] = x[m + i - 1]
    BY <2>3, <2>4, <2>5, SubBytes, Zenon
  <2> HIDE DEF b
  <2>7. Len(b) = n
    BY <2>4, <2>6, Zenon
  <2>8. ASSUME NEW i \in 1..n PROVE b[i] = val[i]
    <3>1. b[i] = x[m + i - 1]
      BY <2>4, <2>6, Zenon
    <3>2. m + i - 1 = i + 2 /\ i + 2 \in 1..Len(a) + n /\ ~(i + 2 <= Len(a)) /\ (i + 2) - Len(a) = i
      BY <1>1, <1>3, <2>2
    <3>3. x[i + 2] = val[i]
      BY <1>5, <3>2, Zenon DEF n
    <3> QED BY <3>1, <3>2, <3>3, Zenon
  <2>9. b = val
    BY <1>4, <2>6, <2>7, <2>8, SeqEqual, Zenon DEF n
  <2> QED BY <2>2, <2>9, Zenon DEF b
<1>10. LenBytes(tag, val) = x
  BY Zenon DEF LenBytes, a
<1> HIDE DEF x, n
<1>11. x[2] \in 0..127 /\ x[1] \in 8..127 /\ Len(x) >= 2 /\ Len(x) = x[2] + 2 /\ x[1] % 8 = Bytes
  <2>1. Len(x) >= 2 /\ n \in 0..127
    BY <1>1, <1>6
  <2> QED BY <1>6, <1>7, <1>8, <2>1, Zenon
<1>12. WellFormed(x)
  BY <1>5, <1>11, Zenon DEF WellFormed, Bytestrings
<1>13. FieldOf(x) = [field |-> tag \div 8, wt |-> Bytes, val |-> val]
  BY <1>7, <1>8, <1>9, Zenon DEF FieldOf
<1> QED BY <1>6, <1>10, <1>12, <1>13, Zenon DEF n

\* A field with a number.
LEMMA NumberField ==
  ASSUME NEW b \in 0..127
  PROVE  /\ WellFormed(<<16, b>>) /\ Len(<<16, b>>) = 2
         /\ FieldOf(<<16, b>>) = [field |-> 2, wt |-> Varint, val |-> <<b>>]
<1> DEFINE x == <<16, b>>
<1>1. x[1] = 16 /\ x[2] = b /\ Len(x) = 2 /\ 16 % 8 = 0 /\ 16 \div 8 = 2
  OBVIOUS
<1>2. x \in Seq(Byte)
  BY DEF Byte
<1>3. 2 >= 2 /\ 16 \in 8..127 /\ Varint = 0 /\ Bytes # 0
  BY DEF Varint, Bytes
<1> HIDE DEF x
<1>4. WellFormed(x)
  BY <1>1, <1>2, <1>3, Zenon DEF WellFormed, Bytestrings
<1>5. FieldOf(x) = [field |-> 2, wt |-> Varint, val |-> <<b>>]
  BY <1>1, <1>3, Zenon DEF FieldOf
<1> QED BY <1>1, <1>4, <1>5, Zenon DEF x

\* A message that is whole is read as all its fields.
LEMMA WholeMessage ==
  ASSUME NEW parts \in Seq(Bytestrings), \A i \in 1..Len(parts) : WellFormed(parts[i]), NEW goesOn
  PROVE  Fields(Joined(parts), goesOn) = [i \in 1..Len(parts) |-> FieldOf(parts[i])]
<1> DEFINE J == Joined(parts)
           n == Len(J)
           m == Len(parts)
<1>1. m \in Nat /\ m \in 0..Len(parts) /\ ~(m < Len(parts))
  OBVIOUS
<1>2. J = Up(parts, m) /\ J \in Bytestrings
  BY <1>1, UpRec, UpBytes, Zenon
<1> HIDE DEF m, J
<1>3. n \in Nat /\ n \in 0..n /\ n <= n
  BY <1>2 DEF Bytestrings
<1>4. Holds(parts, n, m, goesOn)
  BY <1>1, <1>2, <1>3, Zenon DEF Holds
<1>5. Fields(SubSeq(J, 1, n), goesOn) = [i \in 1..m |-> FieldOf(parts[i])]
  <2>1. n \in 0..Len(Joined(parts))
    BY <1>3 DEF J
  <2> QED BY <1>4, <2>1, MessageFields, Zenon DEF J
<1>6. SubSeq(J, 1, n) = J
  BY <1>2, SubSeqFull DEF Bytestrings
<1> QED BY <1>5, <1>6, Zenon DEF J, m

\* The two fields of a prefix.
LEMMA CIDRMessage ==
  ASSUME NEW p \in Prefixes, Len(p.ip) < 126
  PROVE  /\ CIDRFields(p) \in Seq(Bytestrings) /\ Len(CIDRFields(p)) = 2
         /\ \A i \in 1..2 : WellFormed(CIDRFields(p)[i])
         /\ FieldOf(CIDRFields(p)[1]) = [field |-> 1, wt |-> Bytes, val |-> p.ip]
         /\ FieldOf(CIDRFields(p)[2]) = [field |-> 2, wt |-> Varint, val |-> <<p.bits>>]
<1> DEFINE ip == p.ip
           b == p.bits
           x == LenBytes(10, ip)
           y == <<16, b>>
<1>1. ip \in Bytestrings /\ b \in 0..127 /\ Len(ip) < 126
  BY DEF Prefixes, Bytestrings, Byte
<1> HIDE DEF ip, b
<1>2. Len(ip) < 128 /\ 10 \in {10, 18} /\ 10 \div 8 = 1
  <2>1. Len(ip) \in Nat
    BY <1>1 DEF Bytestrings
  <2> QED BY <1>1, <2>1
<1>3. WellFormed(x) /\ FieldOf(x) = [field |-> 1, wt |-> Bytes, val |-> ip]
  <2>1. PICK tag \in {10, 18} : tag = 10
    OBVIOUS
  <2>2. WellFormed(LenBytes(tag, ip)) /\ FieldOf(LenBytes(tag, ip)) = [field |-> tag \div 8, wt |-> Bytes, val |-> ip]
    BY <1>1, <1>2, LenBytesField, Zenon
  <2> QED BY <1>2, <2>1, <2>2, Zenon
<1>4. WellFormed(y) /\ FieldOf(y) = [field |-> 2, wt |-> Varint, val |-> <<b>>]
  BY <1>1, NumberField, Zenon
<1> HIDE DEF x, y
<1>5. x \in Bytestrings /\ y \in Bytestrings
  BY <1>3, <1>4 DEF WellFormed
<1> DEFINE c == <<x, y>>
<1>6. c \in Seq(Bytestrings) /\ Len(c) = 2 /\ c[1] = x /\ c[2] = y
  BY <1>5
<1>7. CIDRFields(p) = c
  BY Zenon DEF CIDRFields, x, y, ip, b
<1> HIDE DEF c
<1>8. \A i \in 1..2 : WellFormed(c[i])
  <2>1. \A i \in 1..2 : i = 1 \/ i = 2
    OBVIOUS
  <2> QED BY <1>3, <1>4, <1>6, <2>1, Zenon
<1> QED BY <1>3, <1>4, <1>6, <1>7, <1>8, Zenon DEF ip, b

\* The largest of one number.
LEMMA MaxOne == ASSUME NEW n \in Int PROVE Max({n}) = n
<1>1. n \in {n} /\ \A y \in {n} : n >= y
  OBVIOUS
<1>2. \A x \in {n} : x = n
  OBVIOUS
<1> QED BY <1>1, <1>2, Zenon DEF Max

\* Reading a prefix undoes writing it, but for the form of its address.
LEMMA ReadCIDR ==
  ASSUME NEW p \in Prefixes, IsPrefix(p)
  PROVE  ParseGeoCIDR(Joined(CIDRFields(p))) = {Prefix(Unmap(p.ip), p.bits)}
<1> DEFINE c == CIDRFields(p)
           fs == Fields(Joined(c), TRUE)
<1>1. Len(p.ip) \in {4, 16} /\ p.bits <= 8 * Len(p.ip)
  BY DEF IsPrefix
<1>2. Len(p.ip) < 126
  <2>1. \A n \in {4, 16} : n < 126
    OBVIOUS
  <2> QED BY <1>1, <2>1, Zenon
<1>3. /\ c \in Seq(Bytestrings) /\ Len(c) = 2 /\ \A i \in 1..2 : WellFormed(c[i])
      /\ FieldOf(c[1]) = [field |-> 1, wt |-> Bytes, val |-> p.ip]
      /\ FieldOf(c[2]) = [field |-> 2, wt |-> Varint, val |-> <<p.bits>>]
  BY <1>2, CIDRMessage, Zenon
<1> HIDE DEF c
<1>4. fs = [i \in 1..2 |-> FieldOf(c[i])]
  BY <1>3, WholeMessage, Zenon
<1> HIDE DEF fs
<1>5. /\ Len(fs) = 2 /\ fs[1] = FieldOf(c[1]) /\ fs[2] = FieldOf(c[2])
  BY <1>4
<1> DEFINE ip == p.ip
           b == p.bits
<1>6. /\ fs[1].field = 1 /\ fs[1].wt = Bytes /\ fs[1].val = ip
      /\ fs[2].field = 2 /\ fs[2].wt = Varint /\ fs[2].val = <<b>>
  BY <1>3, <1>5
<1>7. Values(fs, 1, Bytes) = {1} /\ Values(fs, 2, Varint) = {2}
  <2>1. \A i \in 1..2 : i = 1 \/ i = 2
    OBVIOUS
  <2>2. 1 \in 1..2 /\ 2 \in 1..2 /\ 1 # 2
    OBVIOUS
  <2> QED BY <1>5, <1>6, <2>1, <2>2, Zenon DEF Values
<1>8. LastValue(fs, 1, Bytes, <<>>) = ip /\ LastValue(fs, 2, Varint, <<>>) = <<b>>
  <2>1. Max({1}) = 1 /\ Max({2}) = 2
    BY MaxOne
  <2>2. {1} # {} /\ {2} # {}
    OBVIOUS
  <2>3. LastValue(fs, 1, Bytes, <<>>) = fs[1].val
    BY <1>7, <2>1, <2>2, Zenon DEF LastValue
  <2>4. LastValue(fs, 2, Varint, <<>>) = fs[2].val
    BY <1>7, <2>1, <2>2, Zenon DEF LastValue
  <2> QED BY <1>6, <2>3, <2>4, Zenon
<1>9. <<b>> # <<>> /\ <<b>>[1] = b
  OBVIOUS
<1> QED BY <1>1, <1>8, <1>9, Zenon DEF ParseGeoCIDR, fs, c

\* A prefix as a field of its entry.
CIDRField(p) == [field |-> 2, wt |-> Bytes, val |-> Joined(CIDRFields(p))]

\* It is read as it was written.
LEMMA CIDRInEntry ==
  ASSUME NEW p \in Prefixes, IsPrefix(p)
  PROVE  WellFormed(EncodeCIDR(p)) /\ FieldOf(EncodeCIDR(p)) = CIDRField(p)
<1> DEFINE c == CIDRFields(p)
           J == Joined(c)
           n == Len(p.ip)
<1>1. n \in {4, 16}
  BY DEF IsPrefix
<1>2. n < 126 /\ n < 128
  <2>1. \A k \in {4, 16} : k < 126 /\ k < 128
    OBVIOUS
  <2> QED BY <1>1, <2>1, Zenon
<1>3. c \in Seq(Bytestrings) /\ Len(c) = 2
  BY <1>2, CIDRMessage, Zenon
<1>4. Len(c[1]) = n + 2 /\ Len(c[2]) = 2
  <2>1. p.ip \in Bytestrings /\ p.bits \in 0..127
    BY DEF Prefixes, Bytestrings, Byte
  <2>2. PICK tag \in {10, 18} : tag = 10
    OBVIOUS
  <2>3. Len(LenBytes(tag, p.ip)) = n + 2
    BY <1>2, <2>1, LenBytesField, Zenon
  <2>4. Len(<<16, p.bits>>) = 2
    OBVIOUS
  <2>5. c[1] = LenBytes(10, p.ip) /\ c[2] = <<16, p.bits>>
    BY DEF CIDRFields
  <2> QED BY <2>2, <2>3, <2>4, <2>5, Zenon
<1> HIDE DEF c, n
<1>5. J = Up(c, 2) /\ J \in Bytestrings
  <2>1. 2 \in 0..Len(c)
    BY <1>3
  <2> QED BY <1>3, <2>1, UpRec, UpBytes, Zenon
<1>6. Len(J) = n + 4
  <2>1. Len(Up(c, 0)) = 0
    <3>1. Up(c, 0) = <<>>
      BY <1>3, UpRec, Zenon
    <3> QED BY <3>1
  <2>2. \A k \in 1..Len(c) : Len(Up(c, k)) = Len(Up(c, k - 1)) + Len(c[k])
    BY <1>3, UpStep, Zenon
  <2>3. 1 \in 1..Len(c) /\ 2 \in 1..Len(c) /\ 1 - 1 = 0 /\ 2 - 1 = 1
    BY <1>3
  <2>4. Len(Up(c, 1)) = Len(Up(c, 0)) + Len(c[1])
    BY <2>2, <2>3, Zenon
  <2>5. Len(Up(c, 2)) = Len(Up(c, 1)) + Len(c[2])
    BY <2>2, <2>3, Zenon
  <2> HIDE DEF J
  <2>6. Len(J) = (0 + (n + 2)) + 2
    BY <1>4, <1>5, <2>1, <2>4, <2>5, Zenon
  <2> QED BY <1>1, <2>6
<1> HIDE DEF J
<1>7. Len(J) < 128 /\ 18 \div 8 = 2
  BY <1>1, <1>6
<1>8. WellFormed(LenBytes(18, J)) /\ FieldOf(LenBytes(18, J)) = [field |-> 2, wt |-> Bytes, val |-> J]
  <2>1. PICK tag \in {10, 18} : tag = 18
    OBVIOUS
  <2>2. WellFormed(LenBytes(tag, J)) /\ FieldOf(LenBytes(tag, J)) = [field |-> tag \div 8, wt |-> Bytes, val |-> J]
    BY <1>5, <1>7, <2>1, LenBytesField, Zenon
  <2> QED BY <1>7, <2>1, <2>2, Zenon
<1> QED BY <1>8, Zenon DEF EncodeCIDR, CIDRField, J, c

\* What EntriesAssumption says an entry is, before IsEntry.
EntryRecords == [country : Seq(0..255), prefixes : Seq(Prefixes)]

\* The fields of an entry: its country, then its prefixes.
LEMMA EntryMessage ==
  ASSUME NEW e \in EntryRecords, IsEntry(e)
  PROVE  /\ EntryFields(e) \in Seq(Bytestrings) /\ Len(EntryFields(e)) = Len(e.prefixes) + 1
         /\ \A i \in 1..Len(EntryFields(e)) : WellFormed(EntryFields(e)[i])
         /\ FieldOf(EntryFields(e)[1]) = [field |-> 1, wt |-> Bytes, val |-> e.country]
         /\ \A i \in 1..Len(e.prefixes) :
              FieldOf(EntryFields(e)[i + 1]) = CIDRField(e.prefixes[i])
<1> DEFINE ps == e.prefixes
           n == Len(ps)
           c == e.country
           x == LenBytes(10, c)
           fs == EntryFields(e)
<1>1. c \in Bytestrings /\ Len(c) < 128
  BY DEF EntryRecords, IsEntry, Bytestrings, Byte
<1>2. ps \in Seq(Prefixes) /\ n \in Nat
  BY DEF EntryRecords
<1>3. \A i \in 1..n : ps[i] \in Prefixes /\ IsPrefix(ps[i])
  <2>1. \A i \in 1..n : ps[i] \in Prefixes
    <3> HIDE DEF ps
    <3> QED BY <1>2, ElementOfSeq, Zenon
  <2>2. \A i \in 1..n : IsPrefix(ps[i])
    BY Zenon DEF IsEntry
  <2> QED BY <2>1, <2>2, Zenon
<1>4. fs = [i \in 1..(n + 1) |-> IF i = 1 THEN x ELSE EncodeCIDR(ps[i - 1])]
  BY Zenon DEF EntryFields
<1> HIDE DEF fs, ps, c, n
<1>5. WellFormed(x) /\ FieldOf(x) = [field |-> 1, wt |-> Bytes, val |-> c]
  <2>1. PICK tag \in {10, 18} : tag = 10
    OBVIOUS
  <2>2. WellFormed(LenBytes(tag, c)) /\ FieldOf(LenBytes(tag, c)) = [field |-> tag \div 8, wt |-> Bytes, val |-> c]
    BY <1>1, LenBytesField, Zenon
  <2>3. 10 \div 8 = 1
    OBVIOUS
  <2> QED BY <2>1, <2>2, <2>3, Zenon
<1> HIDE DEF x
<1>6. fs[1] = x
  <2>1. 1 \in 1..(n + 1)
    BY <1>2
  <2> QED BY <1>4, <2>1, Zenon
<1>7. ASSUME NEW i \in 1..n
      PROVE  WellFormed(fs[i + 1]) /\ FieldOf(fs[i + 1]) = CIDRField(ps[i])
  <2>1. i + 1 \in 1..(n + 1) /\ i + 1 # 1 /\ (i + 1) - 1 = i
    BY <1>2
  <2>2. fs[i + 1] = EncodeCIDR(ps[i])
    BY <1>4, <2>1, Zenon
  <2> QED BY <1>3, <2>2, CIDRInEntry, Zenon
<1>8. ASSUME NEW i \in 1..(n + 1) PROVE WellFormed(fs[i])
  <2>1. CASE i = 1
    BY <1>5, <1>6, <2>1, Zenon
  <2>2. CASE i # 1
    <3>1. i - 1 \in 1..n /\ (i - 1) + 1 = i
      BY <1>2, <2>2
    <3> QED BY <1>7, <3>1, Zenon
  <2> QED BY <2>1, <2>2
<1>9. fs \in [1..(n + 1) -> Bytestrings]
  <2>1. \A i \in 1..(n + 1) : fs[i] \in Bytestrings
    BY <1>8, Zenon DEF WellFormed
  <2> QED BY <1>4, <2>1, Zenon
<1>10. fs \in Seq(Bytestrings) /\ Len(fs) = n + 1
  BY <1>2, <1>9
<1> QED BY <1>5, <1>6, <1>7, <1>8, <1>10, Zenon DEF fs, ps, c, n

\* A country that is there is there in lower case.
LEMMA LowerSome == ASSUME NEW c \in Seq(0..255), c # <<>> PROVE Lower(c) # <<>>
<1>1. Len(c) \in Nat /\ Len(c) # 0
  OBVIOUS
<1>2. 1 \in 1..Len(c)
  BY <1>1
<1>3. DOMAIN Lower(c) = 1..Len(c)
  BY DEF Lower
<1>4. DOMAIN <<>> = {}
  OBVIOUS
<1> QED BY <1>2, <1>3, <1>4, Zenon

\* What an entry is read as: its country in lower case with each prefix.
Meant(e) == {Lower(e.country)} \X {AsRead(e.prefixes[i]) : i \in 1..Len(e.prefixes)}

\* Reading an entry undoes writing it, but for the case of its country and the
\* form of its addresses.
LEMMA ReadEntry ==
  ASSUME NEW e \in EntryRecords, IsEntry(e)
  PROVE  ParseGeoEntry(Joined(EntryFields(e))) = Meant(e)
<1> DEFINE x == EntryFields(e)
           fs == Fields(Joined(x), FALSE)
           ps == e.prefixes
           n == Len(ps)
<1>1. /\ x \in Seq(Bytestrings) /\ Len(x) = n + 1
      /\ \A i \in 1..Len(x) : WellFormed(x[i])
      /\ FieldOf(x[1]) = [field |-> 1, wt |-> Bytes, val |-> e.country]
      /\ \A i \in 1..n : FieldOf(x[i + 1]) = CIDRField(ps[i])
  BY EntryMessage, Zenon
<1>2. ps \in Seq(Prefixes) /\ n \in Nat
  BY DEF EntryRecords
<1>3. \A i \in 1..n : ps[i] \in Prefixes /\ IsPrefix(ps[i])
  <2>1. \A i \in 1..n : ps[i] \in Prefixes
    <3> HIDE DEF ps
    <3> QED BY <1>2, ElementOfSeq, Zenon
  <2>2. \A i \in 1..n : IsPrefix(ps[i])
    BY Zenon DEF IsEntry
  <2> QED BY <2>1, <2>2, Zenon
<1> HIDE DEF x, n, ps
<1>4. fs = [i \in 1..(n + 1) |-> FieldOf(x[i])]
  BY <1>1, WholeMessage, Zenon
<1> HIDE DEF fs
<1>5. Len(fs) = n + 1
  BY <1>2, <1>4
<1>6. fs[1] = [field |-> 1, wt |-> Bytes, val |-> e.country]
  <2>1. 1 \in 1..(n + 1)
    BY <1>2
  <2> QED BY <1>1, <1>4, <2>1, Zenon
<1>7. \A i \in 1..n : i + 1 \in 1..(n + 1) /\ fs[i + 1] = CIDRField(ps[i])
  <2>1. \A i \in 1..n : i + 1 \in 1..(n + 1)
    BY <1>2
  <2> QED BY <1>1, <1>4, <2>1, Zenon
<1>8. \A i \in 1..(n + 1) : i = 1 \/ \E j \in 1..n : i = j + 1
  <2> SUFFICES ASSUME NEW i \in 1..(n + 1), i # 1 PROVE \E j \in 1..n : i = j + 1
    OBVIOUS
  <2>1. i - 1 \in 1..n /\ i = (i - 1) + 1
    BY <1>2
  <2> QED BY <2>1
<1>9. /\ fs[1].field = 1 /\ fs[1].wt = Bytes /\ fs[1].val = e.country
  BY <1>6
<1>10. ASSUME NEW j \in 1..n
       PROVE fs[j + 1].field = 2 /\ fs[j + 1].wt = Bytes
             /\ fs[j + 1].val = Joined(CIDRFields(ps[j]))
  <2>1. fs[j + 1] = CIDRField(ps[j])
    BY <1>7, Zenon
  <2> DEFINE v == Joined(CIDRFields(ps[j]))
             r == fs[j + 1]
  <2>2. r = [field |-> 2, wt |-> Bytes, val |-> v]
    BY <2>1, Zenon DEF CIDRField
  <2> HIDE DEF v, r
  <2>3. r.field = 2 /\ r.wt = Bytes /\ r.val = v
    BY <2>2
  <2> QED BY <2>3, Zenon DEF v, r
<1>11. Values(fs, 1, Bytes) = {1}
  <2>1. 1 \in 1..(n + 1) /\ 1 # 2
    BY <1>2
  <2> QED BY <1>5, <1>8, <1>9, <1>10, <2>1, ZenonT(40) DEF Values
<1>12. Values(fs, 2, Bytes) = {i \in 1..(n + 1) : i # 1}
  <2>1. 1 # 2 /\ \A j \in 1..n : j + 1 # 1
    BY <1>2
  <2> QED BY <1>5, <1>8, <1>9, <1>10, <2>1, Zenon DEF Values
<1>13. LastValue(fs, 1, Bytes, <<>>) = e.country
  <2>1. Max({1}) = 1
    BY MaxOne
  <2>2. {1} # {}
    OBVIOUS
  <2> QED BY <1>9, <1>11, <2>1, <2>2, Zenon DEF LastValue
<1>14. Lower(e.country) # <<>>
  BY LowerSome DEF EntryRecords, IsEntry
<1>15. ASSUME NEW j \in 1..n PROVE ParseGeoCIDR(fs[j + 1].val) = {AsRead(ps[j])}
  BY <1>3, <1>10, ReadCIDR, Zenon DEF AsRead
<1> DEFINE U == UNION {ParseGeoCIDR(fs[i].val) : i \in Values(fs, 2, Bytes)}
           V == {AsRead(ps[i]) : i \in 1..n}
<1>16. U = V
  <2>1. ASSUME NEW u \in U PROVE u \in V
    <3>1. PICK i \in Values(fs, 2, Bytes) : u \in ParseGeoCIDR(fs[i].val)
      BY Zenon
    <3>2. PICK j \in 1..n : i = j + 1
      BY <1>8, <1>12, <3>1, Zenon
    <3> QED BY <1>15, <3>1, <3>2, Zenon
  <2>2. ASSUME NEW v \in V PROVE v \in U
    <3>1. PICK j \in 1..n : v = AsRead(ps[j])
      BY Zenon
    <3>2. j + 1 # 1 /\ j + 1 \in 1..(n + 1)
      BY <1>2
    <3>3. j + 1 \in Values(fs, 2, Bytes) /\ v \in ParseGeoCIDR(fs[j + 1].val)
      BY <1>12, <1>15, <3>1, <3>2, Zenon
    <3> QED BY <3>3, Zenon
  <2> HIDE DEF U, V
  <2> QED BY <2>1, <2>2, Zenon
<1> HIDE DEF U, V
<1>17. ParseGeoEntry(Joined(x)) = {Lower(e.country)} \X U
  BY <1>13, <1>14, Zenon DEF ParseGeoEntry, fs, U
<1> QED BY <1>16, <1>17, Zenon DEF Meant, V, ps, n, x

(***************************************************************************)
(* The file, whole or cut.                                                 *)
(***************************************************************************)
FileParts == [i \in 1..Len(Entries) |-> EncodeEntry(Entries[i])]

\* The file is the message of its entries.
LEMMA FileMessage ==
  /\ Len(Entries) \in Nat /\ FileParts \in Seq(Bytestrings) /\ Len(FileParts) = Len(Entries)
  /\ File = Joined(FileParts)
  /\ \A j \in 1..Len(Entries) :
       /\ Entries[j] \in EntryRecords /\ IsEntry(Entries[j]) /\ WellFormed(FileParts[j])
       /\ FieldOf(FileParts[j])
            = [field |-> 1, wt |-> Bytes, val |-> Joined(EntryFields(Entries[j]))]
<1> DEFINE n == Len(Entries)
           E == Entries
<1>1. E \in Seq(EntryRecords) /\ \A j \in 1..n : IsEntry(E[j])
  BY EntriesAssumption, Zenon DEF EntryRecords
<1> HIDE DEF E
<1>2. n \in Nat /\ \A j \in 1..n : E[j] \in EntryRecords
  <2>1. Len(E) \in Nat
    BY <1>1
  <2>2. \A j \in 1..Len(E) : E[j] \in EntryRecords
    BY <1>1, ElementOfSeq, Zenon
  <2> QED BY <2>1, <2>2, Zenon DEF E
<1> HIDE DEF n
<1>3. ASSUME NEW j \in 1..n
      PROVE  /\ WellFormed(FileParts[j])
             /\ FieldOf(FileParts[j]) = [field |-> 1, wt |-> Bytes, val |-> Joined(EntryFields(E[j]))]
  <2> DEFINE e == E[j]
             J == Joined(EntryFields(e))
  <2>1. e \in EntryRecords /\ IsEntry(e)
    BY <1>1, <1>2, Zenon
  <2> HIDE DEF e
  <2>2. EntryFields(e) \in Seq(Bytestrings)
    BY <2>1, EntryMessage, Zenon
  <2>3. Len(EntryFields(e)) \in 0..Len(EntryFields(e))
    BY <2>2
  <2>4. J \in Bytestrings
    BY <2>2, <2>3, UpRec, UpBytes, Zenon
  <2>5. Len(J) < 128
    BY <2>1, Zenon DEF IsEntry
  <2> HIDE DEF J
  <2>6. PICK tag \in {10, 18} : tag = 10
    OBVIOUS
  <2>7. WellFormed(LenBytes(tag, J)) /\ FieldOf(LenBytes(tag, J)) = [field |-> tag \div 8, wt |-> Bytes, val |-> J]
    BY <2>4, <2>5, LenBytesField, Zenon
  <2>8. 10 \div 8 = 1
    OBVIOUS
  <2>9. FileParts[j] = LenBytes(10, J)
    BY Zenon DEF FileParts, EncodeEntry, n, E, e, J
  <2> QED BY <2>6, <2>7, <2>8, <2>9, Zenon DEF J, e
<1>4. FileParts \in [1..n -> Bytestrings]
  <2>1. \A j \in 1..n : FileParts[j] \in Bytestrings
    BY <1>3, Zenon DEF WellFormed
  <2>2. FileParts = [i \in 1..n |-> EncodeEntry(Entries[i])]
    BY Zenon DEF FileParts, n
  <2> QED BY <2>1, <2>2, Zenon
<1>5. FileParts \in Seq(Bytestrings) /\ Len(FileParts) = n
  BY <1>2, <1>4
<1>6. File = Joined(FileParts)
  BY Zenon DEF File, EncodeFile, FileParts
<1> QED BY <1>1, <1>2, <1>3, <1>5, <1>6, Zenon DEF n, E

\* What is written of the first j entries.
LEMMA FirstEntries ==
  ASSUME NEW j \in 1..Len(Entries)
  PROVE  EncodeFile(SubSeq(Entries, 1, j)) = Up(FileParts, j)
<1> DEFINE F == FileParts
           G == [i \in 1..j |-> EncodeEntry(Entries[i])]
           T == {k \in Nat : k <= j => Up(G, k) = Up(F, k)}
<1>1. Len(Entries) \in Nat /\ F \in Seq(Bytestrings) /\ Len(F) = Len(Entries)
  BY FileMessage, Zenon
<1>2. j \in Nat /\ j <= Len(Entries)
  BY <1>1
<1>3. SubSeq(Entries, 1, j) = [i \in 1..j |-> Entries[i]]
  <2>1. Entries \in Seq(EntryRecords)
    BY EntriesAssumption, Zenon DEF EntryRecords
  <2> DEFINE E == Entries
  <2> HIDE DEF E
  <2>2. E \in Seq(EntryRecords) /\ Len(E) \in Nat /\ j <= Len(E) /\ j \in Nat
    BY <1>1, <1>2, <2>1, Zenon DEF E
  <2>3. SubSeq(E, 1, j) = [i \in 1..j |-> E[i]]
    BY <2>2
  <2> QED BY <2>3, Zenon DEF E
<1>4. EncodeFile(SubSeq(Entries, 1, j)) = Joined(G)
  <2> DEFINE s == [i \in 1..j |-> Entries[i]]
  <2>1. Len(s) = j /\ \A i \in 1..j : s[i] = Entries[i]
    BY <1>2
  <2> HIDE DEF s
  <2>2. EncodeFile(s) = Joined(G)
    BY <2>1, Zenon DEF EncodeFile
  <2> QED BY <1>3, <2>2, Zenon DEF s
<1>5. \A i \in 1..j : G[i] = F[i] /\ F[i] \in Bytestrings
  <2>1. \A i \in 1..j : i \in 1..Len(Entries)
    BY <1>1, <1>2
  <2>2. \A i \in 1..j : F[i] = EncodeEntry(Entries[i])
    BY <2>1, Zenon DEF FileParts
  <2>3. \A i \in 1..j : F[i] \in Bytestrings
    <3> HIDE DEF F
    <3> QED BY <1>1, <2>1, ElementOfSeq, Zenon
  <2> QED BY <2>2, <2>3, Zenon
<1> HIDE DEF F
<1>6. G \in Seq(Bytestrings) /\ Len(G) = j
  <2>1. G \in [1..j -> Bytestrings]
    BY <1>5, Zenon
  <2> HIDE DEF G
  <2> QED BY <1>2, <2>1
<1> HIDE DEF G
<1>7. 0 \in T
  <2>1. Up(G, 0) = Up(F, 0)
    BY <1>1, <1>6, UpRec, Zenon
  <2> QED BY <2>1
<1>8. ASSUME NEW k \in T PROVE k + 1 \in T
  <2> SUFFICES ASSUME k + 1 <= j PROVE Up(G, k + 1) = Up(F, k + 1)
    OBVIOUS
  <2>1. k \in Nat /\ k <= j /\ k + 1 \in 1..j /\ k + 1 \in 1..Len(F) /\ (k + 1) - 1 = k
    BY <1>1, <1>2
  <2>2. Up(G, k) = Up(F, k)
    BY <2>1
  <2> HIDE DEF T
  <2>3. Up(G, k + 1) = Up(G, k) \o G[k + 1]
    BY <1>6, <2>1, UpRec, Zenon
  <2>4. Up(F, k + 1) = Up(F, k) \o F[k + 1]
    BY <1>1, <2>1, UpRec, Zenon
  <2> QED BY <1>5, <2>1, <2>2, <2>3, <2>4, Zenon
<1>9. T \in SUBSET Nat
  OBVIOUS
<1> HIDE DEF T
<1>10. j \in T
  BY <1>2, <1>7, <1>8, <1>9, SetInduction
<1>11. Up(G, j) = Up(F, j)
  BY <1>2, <1>10 DEF T
<1> QED BY <1>4, <1>6, <1>11, UpRec, Zenon DEF F

\* A file that ends after n bytes holds some number of whole entries.
LEMMA WholeEntries ==
  ASSUME NEW n \in 0..Len(File)
  PROVE  \E m \in 0..Len(Entries) :
           /\ Holds(FileParts, n, m, FALSE)
           /\ \A j \in 1..Len(Entries) : j <= m <=> Len(Up(FileParts, j)) <= n
<1> DEFINE F == FileParts
           N == Len(Entries)
           W(j) == Len(Up(F, j))
           T == {k \in Nat : k <= N /\ W(N - k) <= n}
<1>1. N \in Nat /\ F \in Seq(Bytestrings) /\ Len(F) = N
  BY FileMessage, Zenon
<1> HIDE DEF F, N
<1>2. n \in Nat
  <2>1. File \in Bytestrings
    <3>1. N \in 0..Len(F)
      BY <1>1
    <3> QED BY <1>1, <3>1, FileMessage, UpRec, UpBytes, Zenon DEF F
  <2>2. Len(File) \in Nat
    BY <2>1 DEF Bytestrings
  <2> QED BY <2>2
<1>3. \A j \in 0..N : W(j) \in Nat
  <2> SUFFICES ASSUME NEW j \in 0..N PROVE W(j) \in Nat
    OBVIOUS
  <2>1. Up(F, j) \in Bytestrings
    BY <1>1, UpBytes, Zenon
  <2> QED BY <2>1 DEF Bytestrings
<1>4. W(0) = 0
  <2>1. Up(F, 0) = <<>>
    BY <1>1, UpRec, Zenon
  <2> QED BY <2>1
<1> HIDE DEF W
<1>5. N \in T
  <2>1. N - N = 0 /\ 0 <= n /\ N <= N
    BY <1>1, <1>2
  <2> QED BY <1>1, <1>4, <2>1
<1>6. T \in SUBSET Nat /\ T # {}
  BY <1>5
<1>7. PICK k \in T : \A l \in T : k <= l
  BY <1>6, LeastNat, Zenon
<1> DEFINE m == N - k
<1>8. m \in 0..N /\ W(m) <= n
  BY <1>1, <1>7
<1>9. ASSUME NEW j \in (m + 1)..N PROVE ~(W(j) <= n)
  <2> SUFFICES ASSUME W(j) <= n PROVE FALSE
    OBVIOUS
  <2>1. k \in Nat
    BY <1>7
  <2>2. N - j \in Nat /\ N - j <= N /\ N - (N - j) = j /\ ~(k <= N - j)
    BY <1>1, <2>1
  <2>3. N - j \in T
    BY <2>2
  <2> QED BY <1>7, <2>2, <2>3, Zenon
<1> HIDE DEF m, T
<1>10. ASSUME NEW j \in 1..N PROVE j <= m <=> W(j) <= n
  <2>1. CASE j <= m
    <3>1. j \in 0..Len(F) /\ m \in j..Len(F)
      BY <1>1, <1>8, <2>1
    <3>2. UpPrefix(F, j, m)
      BY <1>1, <3>1, UpIsPrefix, Zenon
    <3>3. W(j) <= W(m)
      BY <3>2, Zenon DEF UpPrefix, W
    <3>4. W(j) \in Nat /\ W(m) \in Nat
      BY <1>1, <1>3, <1>8, <3>1, Zenon
    <3> QED BY <1>2, <1>8, <2>1, <3>3, <3>4
  <2>2. CASE ~(j <= m)
    <3>1. j \in (m + 1)..N
      BY <1>1, <1>8, <2>2
    <3> QED BY <1>9, <2>2, <3>1, Zenon
  <2> QED BY <2>1, <2>2
<1>11. Holds(F, n, m, FALSE)
  <2>1. m < Len(F) => n < Len(Up(F, m + 1))
    <3> SUFFICES ASSUME m < N PROVE n < W(m + 1)
      BY <1>1, Zenon DEF W
    <3>1. m + 1 \in (m + 1)..N /\ m + 1 \in 0..N
      BY <1>1, <1>8
    <3>2. W(m + 1) \in Nat /\ ~(W(m + 1) <= n)
      BY <1>3, <1>9, <3>1, Zenon
    <3> QED BY <1>2, <3>2
  <2>2. Len(Up(F, m)) <= n /\ m \in 0..Len(F)
    BY <1>1, <1>8, Zenon DEF W
  <2> QED BY <2>1, <2>2, Zenon DEF Holds
<1>12. \A j \in 1..Len(Entries) : j <= m <=> Len(Up(FileParts, j)) <= n
  BY <1>10, Zenon DEF W, N, F
<1>13. m \in 0..Len(Entries)
  BY <1>8, Zenon DEF N
<1> QED BY <1>11, <1>12, <1>13, Zenon DEF F

\* What a file that ends early is read as: its whole entries.
LEMMA ReadFile ==
  ASSUME NEW n \in 0..Len(File)
  PROVE  LoadGeoIP(SubSeq(File, 1, n))
           = UNION {Meant(Entries[j]) : j \in {k \in 1..Len(Entries) :
                      Len(EncodeFile(SubSeq(Entries, 1, k))) <= n}}
<1> DEFINE F == FileParts
           N == Len(Entries)
           fs == Fields(SubSeq(File, 1, n), FALSE)
           S == {k \in 1..N : Len(EncodeFile(SubSeq(Entries, 1, k))) <= n}
<1>1. /\ N \in Nat /\ F \in Seq(Bytestrings) /\ Len(F) = N /\ File = Joined(F)
      /\ \A j \in 1..N :
           /\ Entries[j] \in EntryRecords /\ IsEntry(Entries[j]) /\ WellFormed(F[j])
           /\ FieldOf(F[j]) = [field |-> 1, wt |-> Bytes, val |-> Joined(EntryFields(Entries[j]))]
  BY FileMessage, Zenon
<1>2. PICK m \in 0..N : /\ Holds(F, n, m, FALSE)
                        /\ \A j \in 1..N : j <= m <=> Len(Up(F, j)) <= n
  BY WholeEntries, Zenon
<1>3. \A k \in 1..N : EncodeFile(SubSeq(Entries, 1, k)) = Up(F, k)
  BY FirstEntries, Zenon
<1> HIDE DEF F, N
<1>4. \A j \in 1..N : j \in S <=> j <= m
  BY <1>2, <1>3, Zenon
<1>5. \A j : j \in 1..m <=> j \in 1..N /\ j <= m
  BY <1>1, <1>2
<1>6. 1..m = S
  BY <1>4, <1>5, Zenon
<1> HIDE DEF S
<1>7. fs = [i \in 1..m |-> FieldOf(F[i])]
  BY <1>1, <1>2, MessageFields, Zenon
<1> HIDE DEF fs
<1>8. Len(fs) = m
  BY <1>1, <1>2, <1>7
<1>9. ASSUME NEW j \in 1..m PROVE fs[j].wt = Bytes /\ ParseGeoEntry(fs[j].val) = Meant(Entries[j])
  <2>1. j \in 1..N
    BY <1>5, Zenon
  <2>2. fs[j] = [field |-> 1, wt |-> Bytes, val |-> Joined(EntryFields(Entries[j]))]
    BY <1>1, <1>7, <2>1, Zenon
  <2>3. fs[j].wt = Bytes /\ fs[j].val = Joined(EntryFields(Entries[j]))
    <3> DEFINE v == Joined(EntryFields(Entries[j]))
               r == fs[j]
    <3> HIDE DEF v, r
    <3>1. r = [field |-> 1, wt |-> Bytes, val |-> v]
      BY <2>2, Zenon DEF v, r
    <3>2. r.wt = Bytes /\ r.val = v
      BY <3>1
    <3> QED BY <3>2, Zenon DEF v, r
  <2> QED BY <1>1, <2>1, <2>3, ReadEntry, Zenon
<1>10. {j \in 1..Len(fs) : fs[j].wt = Bytes} = 1..m
  BY <1>8, <1>9, Zenon
<1>11. LoadGeoIP(SubSeq(File, 1, n)) = UNION {ParseGeoEntry(fs[i].val) : i \in 1..m}
  BY <1>10, Zenon DEF LoadGeoIP, fs
<1>12. {ParseGeoEntry(fs[i].val) : i \in 1..m} = {Meant(Entries[i]) : i \in 1..m}
  BY <1>9, Zenon
<1> QED BY <1>6, <1>11, <1>12, Zenon DEF S, N

\* What a file of n bytes contains: the addresses of its whole entries.
LEMMA FileContains ==
  ASSUME NEW n \in 0..Len(File), NEW ip \in Destinations, NEW k \in 1..Len(Entries)
  PROVE  ContainsCountry(LoadGeoIP(SubSeq(File, 1, n)), ip, Entries[k].country) <=>
           \E j \in 1..Len(Entries) :
             /\ Lower(Entries[j].country) = Lower(Entries[k].country)
             /\ Len(EncodeFile(SubSeq(Entries, 1, j))) <= n
             /\ \E i \in 1..Len(Entries[j].prefixes) :
                  Within(AsRead(Entries[j].prefixes[i]), Unmap(ip))
<1> DEFINE N == Len(Entries)
           c == Entries[k].country
           Whole(j) == Len(EncodeFile(SubSeq(Entries, 1, j))) <= n
           S == {j \in 1..N : Whole(j)}
           geo == LoadGeoIP(SubSeq(File, 1, n))
<1>1. geo = UNION {Meant(Entries[j]) : j \in S}
  BY ReadFile, Zenon
<1> HIDE DEF geo
<1>2. ASSUME NEW e \in geo, e[1] = Lower(c), Within(e[2], Unmap(ip))
      PROVE  \E j \in 1..N : /\ Lower(Entries[j].country) = Lower(c) /\ Whole(j)
                             /\ \E i \in 1..Len(Entries[j].prefixes) :
                                  Within(AsRead(Entries[j].prefixes[i]), Unmap(ip))
  <2>1. PICK j \in S : e \in Meant(Entries[j])
    BY <1>1, Zenon
  <2>2. j \in 1..N /\ Whole(j)
    BY <2>1, Zenon
  <2> DEFINE L == Lower(Entries[j].country)
             P == {AsRead(Entries[j].prefixes[i]) : i \in 1..Len(Entries[j].prefixes)}
  <2>3. e \in {L} \X P
    BY <2>1, Zenon DEF Meant
  <2> HIDE DEF L, P
  <2>4. e[1] = L /\ e[2] \in P
    BY <2>3
  <2>5. PICK i \in 1..Len(Entries[j].prefixes) : e[2] = AsRead(Entries[j].prefixes[i])
    BY <2>4, Zenon DEF P
  <2>6. Within(AsRead(Entries[j].prefixes[i]), Unmap(ip))
    BY <1>2, <2>5, Zenon
  <2>7. Lower(Entries[j].country) = Lower(c)
    BY <1>2, <2>4, Zenon DEF L
  <2> QED BY <2>2, <2>6, <2>7, Zenon
<1>3. ASSUME NEW j \in 1..N, Lower(Entries[j].country) = Lower(c), Whole(j),
             NEW i \in 1..Len(Entries[j].prefixes), Within(AsRead(Entries[j].prefixes[i]), Unmap(ip))
      PROVE  \E e \in geo : e[1] = Lower(c) /\ Within(e[2], Unmap(ip))
  <2> DEFINE L == Lower(Entries[j].country)
             q == AsRead(Entries[j].prefixes[i])
             P == {AsRead(Entries[j].prefixes[x]) : x \in 1..Len(Entries[j].prefixes)}
             e == <<L, q>>
  <2>1. q \in P
    BY Zenon
  <2>2. Meant(Entries[j]) = {L} \X P
    BY Zenon DEF Meant
  <2>3. Within(q, Unmap(ip)) /\ L = Lower(c)
    BY <1>3, Zenon
  <2>4. j \in S
    BY <1>3, Zenon
  <2> HIDE DEF L, q, P, S
  <2>5. e \in {L} \X P /\ e[1] = L /\ e[2] = q
    BY <2>1
  <2>6. e \in geo
    BY <1>1, <2>2, <2>4, <2>5, Zenon
  <2> HIDE DEF e
  <2> QED BY <2>3, <2>5, <2>6, Zenon
<1> HIDE DEF S, Whole, c, N
<1>4. ContainsCountry(geo, ip, c) <=>
        \E j \in 1..N : /\ Lower(Entries[j].country) = Lower(c) /\ Whole(j)
                        /\ \E i \in 1..Len(Entries[j].prefixes) :
                             Within(AsRead(Entries[j].prefixes[i]), Unmap(ip))
  BY <1>2, <1>3, Zenon DEF ContainsCountry
<1> QED BY <1>4, Zenon DEF geo, c, N, Whole

\* The entries of a router that needs the file are those LoadGeoIP read.
FileRead ==
  /\ cut \in 0..Len(File)
  /\ router.made /\ NeedsFile(cfg) => router.geo = LoadGeoIP(SubSeq(File, 1, cut))

\* The router is built once from the file, as long as it then was.
LEMMA FileReadStep == ASSUME FileRead, [RoutingNext]_routingVars PROVE FileRead'
<1>1. CASE Build
  <2>1. cut' = cut /\ cfg' = cfg
    BY <1>1 DEF Build
  <2>2. NeedsFile(cfg)' <=> NeedsFile(cfg)
    BY <2>1 DEF NeedsFile
  <2>3. CASE router' = [NoRouter EXCEPT !.error = TRUE]
    <3>1. ~router'.made
      BY <2>3 DEF NoRouter
    <3> QED BY <2>1, <3>1 DEF FileRead
  <2>4. CASE router' = NewWithConfig(cfg, SubSeq(File, 1, cut))
    <3>1. NeedsFile(cfg) => router'.geo = LoadGeoIP(SubSeq(File, 1, cut))
      BY <2>4 DEF NewWithConfig
    <3> QED BY <2>1, <2>2, <3>1 DEF FileRead
  <2> QED BY <1>1, <2>3, <2>4 DEF Build
<1>2. CASE UNCHANGED <<cfg, cut, router>>
  BY <1>2 DEF FileRead, NeedsFile
<1>3. RoutingNext => Build \/ UNCHANGED <<cfg, cut, router>>
  BY DEF RoutingNext, Stats, HandleLoad, HandleReset, Tick, DialContext, Move, Count
<1> QED BY <1>1, <1>2, <1>3 DEF routingVars

\* CutFileReadsWholeEntries, for every list of entries whose lengths and numbers
\* fit in one byte (EntriesAssumption), every length at which the download may
\* have ended and every destination.
THEOREM CutFileAlwaysRead == RoutingSpec => []CutFileReadsWholeEntries
<1>1. RoutingInit => FileRead
  <2>1. RoutingInit => cut \in 0..Len(File)
    BY RoutingAssumption, Zenon DEF RoutingInit
  <2>2. RoutingInit => ~router.made
    <3>1. RoutingInit => router = NoRouter
      BY Zenon DEF RoutingInit
    <3>2. ~NoRouter.made
      BY DEF NoRouter
    <3> QED BY <3>1, <3>2, Zenon
  <2> QED BY <2>1, <2>2, Zenon DEF FileRead
<1>2. FileRead /\ [RoutingNext]_routingVars => FileRead'
  BY FileReadStep
<1>3. FileRead => CutFileReadsWholeEntries
  <2> SUFFICES ASSUME FileRead, router.made /\ NeedsFile(cfg),
                      NEW ip \in Destinations, NEW k \in 1..Len(Entries)
               PROVE  ContainsCountry(router.geo, ip, Entries[k].country) <=>
                        \E j \in 1..Len(Entries) :
                          /\ Lower(Entries[j].country) = Lower(Entries[k].country)
                          /\ Len(EncodeFile(SubSeq(Entries, 1, j))) <= cut
                          /\ \E i \in 1..Len(Entries[j].prefixes) :
                               Within(AsRead(Entries[j].prefixes[i]), Unmap(ip))
    BY Zenon DEF CutFileReadsWholeEntries
  <2>1. cut \in 0..Len(File) /\ router.geo = LoadGeoIP(SubSeq(File, 1, cut))
    BY Zenon DEF FileRead
  <2> DEFINE whole == \E j \in 1..Len(Entries) :
                        /\ Lower(Entries[j].country) = Lower(Entries[k].country)
                        /\ Len(EncodeFile(SubSeq(Entries, 1, j))) <= cut
                        /\ \E i \in 1..Len(Entries[j].prefixes) :
                             Within(AsRead(Entries[j].prefixes[i]), Unmap(ip))
  <2>2. ContainsCountry(LoadGeoIP(SubSeq(File, 1, cut)), ip, Entries[k].country) <=> whole
    BY <2>1, FileContains
  <2> HIDE DEF whole
  <2>3. ContainsCountry(router.geo, ip, Entries[k].country) <=> whole
    BY <2>1, <2>2, Zenon
  <2> QED BY <2>3 DEF whole
<1> QED BY <1>1, <1>2, <1>3, PTL DEF RoutingSpec

\* RulesAsRead: the two together, for every policy, every destination and every
\* such file.
THEOREM RulesAlwaysAsRead == RoutingSpec => []RulesAsRead
<1>1. MappedAlike /\ CutFileReadsWholeEntries => RulesAsRead
  BY Zenon DEF RulesAsRead
<1> QED BY <1>1, MappedAlwaysAlike, CutFileAlwaysRead, PTL

=============================================================================
