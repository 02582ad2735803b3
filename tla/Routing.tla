------------------------------ MODULE Routing ------------------------------
(***************************************************************************)
(* The routing policy between a session and its proxies                    *)
(* (routing/routing.go) and the byte counters on the way: those of the      *)
(* proxied traffic and those of statistic.Manager.  One direction of a      *)
(* connection is modelled; the other counts with the same code.             *)
(*                                                                         *)
(* Every atomic operation of a writer is a step.  Sampling is one step      *)
(* under sampleMu in routing/ and two in statistic/, which has no lock.     *)
(***************************************************************************)
EXTENDS FiniteSets, GeoIP

CONSTANTS
  Sessions,
  Configs,   \* routing.Config: mode, default, direct and proxy rules, geo
  Entries,   \* of the GeoIP file
  Cuts,      \* the lengths at which a download may have ended
  Destinations,
  MaxMoves   \* bound on the bytes moved

File == EncodeFile(Entries)

\* The entries GeoIP can write down: every number and length fits in a byte
\* below 128, a bound of this model and not of the format.
Prefixes == [ip : Seq(0..255), bits : 0..127]
IsPrefix(p) == Len(p.ip) \in {4, 16} /\ p.bits <= 8 * Len(p.ip)
IsEntry(e) ==
  /\ e.country # <<>> /\ Len(e.country) < 128 /\ Len(Joined(EntryFields(e))) < 128
  /\ \A i \in 1..Len(e.prefixes) : IsPrefix(e.prefixes[i])
ASSUME EntriesAssumption ==
  /\ Entries \in Seq([country : Seq(0..255), prefixes : Seq(Prefixes)])
  /\ \A j \in 1..Len(Entries) : IsEntry(Entries[j])

ASSUME RoutingAssumption ==
  /\ Cuts \subseteq 0..Len(File) /\ MaxMoves \in Nat /\ IsFiniteSet(Sessions)
  /\ \A ip \in Destinations : ip \in Seq(0..255) /\ Len(ip) \in {4, 16}

VARIABLES
  cfg, cut,
  router,   \* Proxy: mode, defaultD, rules, GeoIP entries; made; an error
  ses,      \* session: route, next counter, bytes moved and counted
  rt,       \* trafficCounter: total, temp, rate, and the sum of the rates
  mgr,      \* Manager: total, temp, blip, and the sum of the blips
  ticks     \* lastSample is a second old; the ticker fired, handle is between
            \* its two steps

routingVars == <<cfg, cut, router, ses, rt, mgr, ticks>>

-----------------------------------------------------------------------------
(***************************************************************************)
(* Building the policy.  A raw rule is a record of its form.               *)
(***************************************************************************)
Unsupported == {"geosite", "domain", "bad"}
\* parseRule: a set that is empty for an empty line.  A single address keeps
\* the 128 bits of its IPv4-mapped form.
ParseRule(raw) ==
  CASE raw.form = "empty"   -> {}
    [] raw.form = "private" -> {[type |-> "private"]}
    [] raw.form = "geoip"   -> {[type |-> "geoip", country |-> Lower(raw.country)]}
    [] raw.form = "cidr"    -> {[type |-> "cidr", prefix |-> Prefix(raw.ip, raw.bits)]}
    [] raw.form = "addr"    -> {[type |-> "cidr", prefix |-> Prefix(raw.ip, 8 * Len(raw.ip))]}
Rules(raws) == UNION {ParseRule(raw) : raw \in raws}
HasGeoIPRule(rules) == \E r \in rules : r.type = "geoip"

BadConfig(c) ==
  \/ c.default \notin {"", "proxy", "direct"}
  \/ c.mode \notin {"", "global", "direct", "rules"}
  \/ \E raw \in c.direct \cup c.proxy : raw.form \in Unsupported
NeedsFile(c) == c.geo # "" /\ HasGeoIPRule(Rules(c.direct) \cup Rules(c.proxy))

NewWithConfig(c, data) ==
  [mode     |-> IF c.mode = "" THEN "global" ELSE c.mode,
   defaultD |-> c.default = "direct",
   direct   |-> Rules(c.direct), proxy |-> Rules(c.proxy),
   geo      |-> IF NeedsFile(c) THEN LoadGeoIP(data) ELSE {},
   made     |-> TRUE, error |-> FALSE]

MatchIP(r, rule, ip) ==
  CASE rule.type = "cidr"    -> Within(rule.prefix, ip)
    [] rule.type = "private" -> IsPrivate(ip)
    [] rule.type = "geoip"   -> ContainsCountry(r.geo, ip, rule.country)

\* Mutant: routeIP takes the address as it is.
RouteIPRaw(r, ip) ==
  \/ \E rule \in r.direct : MatchIP(r, rule, ip)
  \/ r.defaultD /\ \A rule \in r.proxy : ~MatchIP(r, rule, ip)
\* routeIP: the direct rules first, then the proxy rules, then the default.
RouteIP(r, ip) ==
  LET u == Unmap(ip) IN
    \/ \E rule \in r.direct : MatchIP(r, rule, u)
    \/ r.defaultD /\ \A rule \in r.proxy : ~MatchIP(r, rule, u)

UseDirect(r, ip) == r.mode = "direct" \/ (r.mode = "rules" /\ RouteIP(r, ip))

-----------------------------------------------------------------------------
NoRouter == [mode |-> "", defaultD |-> FALSE, direct |-> {}, proxy |-> {}, geo |-> {},
             made |-> FALSE, error |-> FALSE]
Counter  == [total |-> 0, temp |-> 0, rate |-> 0, sum |-> 0]

RoutingInit ==
  /\ cfg \in Configs /\ cut \in Cuts
  /\ router = NoRouter
  /\ ses = [s \in Sessions |-> [via |-> "none", at |-> "idle", moved |-> 0, own |-> 0]]
  /\ rt = Counter /\ mgr = Counter
  /\ ticks = [due |-> TRUE, fired |-> FALSE, loaded |-> FALSE]

Build ==
  /\ ~router.made /\ ~router.error
  /\ IF BadConfig(cfg) \/ (NeedsFile(cfg) /\ cfg.geo = "missing")
     THEN router' = [NoRouter EXCEPT !.error = TRUE]
     ELSE router' = NewWithConfig(cfg, SubSeq(File, 1, cut))
  /\ UNCHANGED <<cfg, cut, ses, rt, mgr, ticks>>

\* DialContext, DialUDP, and the tracker that joins the manager.
DialContext(s) ==
  /\ router.made /\ ses[s].via = "none"
  /\ \E ip \in Destinations : \E via \in {"failed", IF UseDirect(router, ip) THEN "direct" ELSE "proxy"} :
       ses' = [ses EXCEPT ![s].via = via]
  /\ UNCHANGED <<cfg, cut, router, rt, mgr, ticks>>

\* The sum of f over the sessions: the number of its units, each a pair of a
\* session and a number.  Without recursion, so that proofs can use it.
Units(f)   == UNION {{s} \X (1..f[s]) : s \in Sessions}
SumOver(f) == Cardinality(Units(f))

MovedBy == [s \in Sessions |-> ses[s].moved]
Moved   == SumOver(MovedBy)

\* A byte goes through the connection.  statsConn wraps proxied ones only.
FirstCounter(via) == IF via = "proxy" THEN "rtTotal" ELSE "mgrTemp"
Move(s) ==
  /\ ses[s].via \in {"direct", "proxy"} /\ ses[s].at = "idle" /\ Moved < MaxMoves
  /\ ses' = [ses EXCEPT ![s].moved = @ + 1, ![s].at = FirstCounter(ses[s].via)]
  /\ UNCHANGED <<cfg, cut, router, rt, mgr, ticks>>

At(s, from, to) == ses[s].at = from /\ ses' = [ses EXCEPT ![s].at = to]

\* trafficCounter.uploaded.
AddRtTotal(s) == At(s, "rtTotal", "rtTemp") /\ rt' = [rt EXCEPT !.total = @ + 1]
                 /\ UNCHANGED mgr
AddRtTemp(s)  == At(s, "rtTemp", "mgrTemp") /\ rt' = [rt EXCEPT !.temp = @ + 1]
                 /\ UNCHANGED mgr
\* Manager.PushUploaded, then the tracker's own total.
AddMgrTemp(s)  == At(s, "mgrTemp", "mgrTotal") /\ mgr' = [mgr EXCEPT !.temp = @ + 1]
                  /\ UNCHANGED rt
AddMgrTotal(s) == At(s, "mgrTotal", "own") /\ mgr' = [mgr EXCEPT !.total = @ + 1]
                  /\ UNCHANGED rt
\* Mutant: the tracker counts a byte on the way in and on the way out.
AddOwnTwice(s) == /\ ses[s].at = "own"
                  /\ ses' = [ses EXCEPT ![s].at = "idle", ![s].own = @ + 2]
                  /\ UNCHANGED <<rt, mgr>>
AddOwn(s) == /\ ses[s].at = "own"
             /\ ses' = [ses EXCEPT ![s].at = "idle", ![s].own = @ + 1]
             /\ UNCHANGED <<rt, mgr>>
Count(s) == /\ AddRtTotal(s) \/ AddRtTemp(s) \/ AddMgrTemp(s) \/ AddMgrTotal(s) \/ AddOwn(s)
            /\ UNCHANGED <<cfg, cut, router, ticks>>

-----------------------------------------------------------------------------
\* Mutant: the rate is loaded and stays in uploadTemp.
AfterSampleKept(temp) == temp
\* uploadTemp.Swap(0).
AfterSample(temp) == 0
\* snapshot, called by GetTrafficStats: at most one sample a second.
Stats ==
  /\ router.made /\ ticks.due
  /\ rt' = [rt EXCEPT !.rate = rt.temp, !.sum = @ + rt.temp, !.temp = AfterSample(@)]
  /\ ticks' = [ticks EXCEPT !.due = FALSE]
  /\ UNCHANGED <<cfg, cut, router, ses, mgr>>

\* handle: Store(Load()), then Store(0); what is added between the two is in no
\* sample.
HandleLoad ==
  /\ ticks.fired /\ ~ticks.loaded
  /\ mgr' = [mgr EXCEPT !.rate = mgr.temp, !.sum = @ + mgr.temp]
  /\ ticks' = [ticks EXCEPT !.loaded = TRUE]
  /\ UNCHANGED <<cfg, cut, router, ses, rt>>
AfterHandle(temp) == 0
HandleReset ==
  /\ ticks.loaded
  /\ mgr' = [mgr EXCEPT !.temp = AfterHandle(@)]
  /\ ticks' = [ticks EXCEPT !.loaded = FALSE, !.fired = FALSE]
  /\ UNCHANGED <<cfg, cut, router, ses, rt>>

\* A second passes.
Tick ==
  /\ Moved < MaxMoves \/ \E s \in Sessions : ses[s].at # "idle"
  /\ ticks' = [ticks EXCEPT !.due = TRUE, !.fired = TRUE]
  /\ UNCHANGED <<cfg, cut, router, ses, rt, mgr>>

RoutingNext == \/ Build \/ Stats \/ HandleLoad \/ HandleReset \/ Tick
               \/ \E s \in Sessions : DialContext(s) \/ Move(s) \/ Count(s)

RoutingSpec == RoutingInit /\ [][RoutingNext]_routingVars

-----------------------------------------------------------------------------
\* Type invariant; no connection has counted more than it moved, and no total
\* exceeds what there is to move.
RoutingTypeOK ==
  /\ router.mode \in {"", "global", "direct", "rules"}
  /\ \A s \in Sessions :
       /\ ses[s].via \in {"none", "failed", "direct", "proxy"}
       /\ ses[s].at \in {"idle", "rtTotal", "rtTemp", "mgrTemp", "mgrTotal", "own"}
       /\ ses[s].own \in 0..ses[s].moved
  /\ \A c \in {rt, mgr} : c.total \in 0..MaxMoves /\ c.temp \in Nat /\ c.rate \in Nat

ProxiedBy == [s \in Sessions |-> IF ses[s].via = "proxy" THEN ses[s].moved ELSE 0]
OwnBy     == [s \in Sessions |-> ses[s].own]
AtCount(places) == Cardinality({s \in Sessions : ses[s].at \in places})

\* A destination takes the same route in its IPv4 and its IPv4-mapped form:
\* every kind of rule is compared with the unmapped address (routeIP, isPrivate,
\* ContainsCountry).  A rule or an entry that is itself written in mapped form is
\* another matter; AsRead says what becomes of it.
MappedAlike ==
  router.made => \A ip \in Destinations :
    LET u == Unmap(ip) IN
      Len(u) = 4 => (UseDirect(router, u) <=> UseDirect(router, MapIP(u)))

\* What parseGeoCIDR makes of a prefix.  An IPv4-mapped one is not what the file
\* means (routing.go:457-464): the address is unmapped and the bits stay, so that
\* more than 32 match nothing and fewer are bits of the IPv4 address.
AsRead(p) == Prefix(Unmap(p.ip), p.bits)

\* A GeoIP file that ends early is read as its whole entries, each with all its
\* prefixes, and as nothing else (LoadGeoIP): the download is not checked for its
\* length.  A prefix that is not IPv4-mapped matches what the file says; one that
\* is matches what AsRead makes of it.
CutFileReadsWholeEntries ==
  router.made /\ NeedsFile(cfg) => \A ip \in Destinations, k \in 1..Len(Entries) :
    ContainsCountry(router.geo, ip, Entries[k].country) <=>
      \E j \in 1..Len(Entries) :
        /\ Lower(Entries[j].country) = Lower(Entries[k].country)
        /\ Len(EncodeFile(SubSeq(Entries, 1, j))) <= cut
        /\ \E i \in 1..Len(Entries[j].prefixes) :
             Within(AsRead(Entries[j].prefixes[i]), Unmap(ip))

\* A rule is applied to a destination in either of its forms alike, and a GeoIP
\* rule to the whole entries of the file, wherever it ends.
RulesAsRead == MappedAlike /\ CutFileReadsWholeEntries

\* Every proxied byte is in exactly one sample or waits for the next, whoever
\* samples while sessions add (uploaded, snapshot); the rate is never ahead of
\* the total.
ProxiedSampledOnce ==
  /\ rt.sum + rt.temp + AtCount({"rtTemp"}) = rt.total
  /\ rt.total + AtCount({"rtTotal"}) = SumOver(ProxiedBy)

\* The manager loses bytes between the two steps of handle, but counts none
\* twice: what it sampled and has left is not more than what was pushed.
ManagerSamplesOnce ==
  mgr.sum + (IF ticks.loaded THEN 0 ELSE mgr.temp) <= mgr.total + AtCount({"mgrTotal"})

\* At any one moment the connections have not counted more together than the
\* total (PushUploaded comes before the connection's own counter), and no byte is
\* missing once the writers are through.  A REST response need not show it so:
\* Snapshot loads the totals first (manager.go:63-66) and each connection's
\* counter is read when the response is encoded (connections.go:33, 59).
ConnectionsWithinTotal ==
  /\ mgr.total = SumOver(OwnBy) + AtCount({"own"})
  /\ AtCount({"rtTotal", "rtTemp", "mgrTemp", "mgrTotal", "own"}) = 0 => mgr.total = Moved

\* The three places that count a byte, and their two samplers, agree at every
\* moment up to the bytes on their way (trafficCounter, Manager, tcpTracker).
CountersAgree == ProxiedSampledOnce /\ ManagerSamplesOnce /\ ConnectionsWithinTotal
=============================================================================
