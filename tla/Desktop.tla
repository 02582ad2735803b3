------------------------------ MODULE Desktop -------------------------------
(***************************************************************************)
(* The desktop application's control of its configuration and of the       *)
(* engine (desktop/app.go, desktop/config_hot_reload.go): SaveConfig calls *)
(* from the UI, Start and Stop from the UI and the tray, the watcher that  *)
(* polls config.json, edits of that file by other programs, and shutdown.  *)
(*                                                                         *)
(* Every section under App.mu is one step; SaveConfig and the watcher      *)
(* release the lock between their sections, and what they carry from one   *)
(* to the next may be stale.  A configuration is reduced to what           *)
(* applyRunningConfigLocked and Reload tell apart: the part whose change   *)
(* restarts the engine (Device, Interface, AutoRoute, Proxy), the part     *)
(* Reload takes over (mode, rules), and the part only a start applies, of  *)
(* which neither takes notice (MTU, the TCP buffers, UDPTimeout).  A       *)
(* checksum is identified with the content it is of.                       *)
(* App.err, which only GetStatus reads, is left out.                       *)
(***************************************************************************)
EXTENDS Naturals, FiniteSets

CONSTANTS
  Configs,    \* configurations that pass normalizeConfig: [restart, policy,
              \* tuning]
  Default,    \* the configuration of NewApp
  Routed,     \* restart parts with AutoRoute on
  NoProxy,    \* the restart part of a configuration with an empty Proxy
  Savers,     \* concurrent SaveConfig calls (bound)
  Garbage,    \* a config.json that cannot be read or parsed
  NoSum,      \* a checksum no trimmed file content has
  NoRoutes,   \* routeState{}
  Failing     \* the operations whose environment may fail

ASSUME DesktopAssumption ==
  /\ \A c \in Configs : DOMAIN c = {"restart", "policy", "tuning"}
  /\ Default \in Configs
  /\ Garbage \notin Configs /\ NoSum \notin Configs
  /\ NoRoutes \notin Routed
  /\ Failing \subseteq {"write", "startup", "start", "teardown", "StopE", "Reload"}

VARIABLES
  cfg,      \* App.cfg
  disk,     \* config.json
  sum,      \* App.configDiskChecksum
  eng,      \* the engine: running, configuration of the last start, and what
            \* the last start or Reload put in force
  up,       \* the restart part App.up holds routes for, or NoRoutes
  sv,       \* each SaveConfig call: program counter and its `old`
  wpc,      \* program counter of the watcher
  got,      \* what the watcher has read before it took the lock
  shut,     \* progress of shutdownNoPersist
  wanted,   \* history: the last Start or Stop that went through was a Start
  clean,    \* history: no configuration has failed to be applied since the
            \* last Start
  refused   \* history: the configuration last taken from a save or from the
            \* file has failed to be applied

vars == <<cfg, disk, sum, eng, up, sv, wpc, got, shut, wanted, clean,
          refused>>
app  == <<cfg, disk, sum>>

\* What Reload takes over from a configuration.
Loaded(c) == [restart |-> c.restart, policy |-> c.policy]

Off      == [on |-> FALSE, base |-> Default, live |-> Loaded(Default)]
On(c)    == [on |-> TRUE, base |-> c, live |-> Loaded(c)]
IdleSave == [pc |-> "idle", old |-> Default]

\* loadConfigLocked and refreshConfigChecksumLocked of startup.  The checksum
\* taken there is of the raw bytes: of a file with blanks around its JSON it is
\* not the one the watcher computes.
Init ==
  /\ disk \in Configs \cup {Garbage}
  /\ cfg = IF disk = Garbage THEN Default ELSE disk
  /\ sum \in {disk, NoSum} \cap (Configs \cup {NoSum})
  /\ eng = Off /\ up = NoRoutes
  /\ sv = [s \in Savers |-> IdleSave]
  /\ wpc = "tick" /\ got = Default
  /\ shut = "run"
  /\ wanted = FALSE /\ clean = TRUE /\ refused = FALSE

-----------------------------------------------------------------------------
(***************************************************************************)
(* startLocked, stopLocked and applyRunningConfigLocked as the sets of     *)
(* their outcomes on the engine and the routes.  HostRoutes has the steps. *)
(***************************************************************************)
Becomes(r) == eng' = r[1] /\ up' = r[2]

RoutesFor(c, u) == IF c.restart \in Routed THEN c.restart ELSE u

CanStart(c) == c.restart # NoProxy

StartOK(c, u) == IF CanStart(c) THEN {<<On(c), RoutesFor(c, u)>>} ELSE {}

\* A start that fails: the empty proxy is refused, the probes or StartE fail,
\* or setupRoutesLocked fails, with App.up untouched, torn down again or not
\* torn down, and StopE after it may fail and leave the engine running.
StartFails(c, u) ==
  IF ~CanStart(c) THEN {<<Off, u>>}
  ELSE IF "start" \notin Failing THEN {}
  ELSE IF c.restart \notin Routed THEN {<<Off, u>>}
  ELSE ({Off} \cup {On(c) : k \in Failing \cap {"StopE"}})
       \X ({u, NoRoutes} \cup {c.restart : k \in Failing \cap {"teardown"}})

\* A stop that fails: in the teardown, or in StopE after it.
StopFails ==
  {<<eng, up>> : k \in {k \in Failing : k = "teardown" /\ up # NoRoutes}}
  \cup {<<eng, NoRoutes>> : k \in Failing \cap {"StopE"}}

\* Mutant: applyRunningConfigLocked without its own test of engine.Running.
NeedsApplyUnchecked == TRUE

\* `if !engine.Running() { return nil }`
NeedsApply == eng.on

\* Mutant: a change of the proxy alone is hot-reloaded, too.
RestartsNever(old, new) == FALSE

\* Device, Interface, AutoRoute or Proxy differ.
Restarts(old, new) == old.restart # new.restart

\* applyRunningConfigLocked(old) with App.cfg = new, without an error: engine
\* and routes after it.  A Reload leaves MTU, buffers and timeout as they are.
ApplyOK(old, new) ==
  IF ~NeedsApply THEN {<<eng, up>>}
  ELSE IF ~CanStart(new) THEN {}
  ELSE IF Restarts(old, new) THEN StartOK(new, NoRoutes)
  ELSE {<<[eng EXCEPT !.live = Loaded(new)], up>>}

\* The start of the new configuration failed, the old one is started again; if
\* the failed start left the engine running, the second is a no-op.
RestartFails(old, new) ==
  UNION {IF r[1].on THEN {r} ELSE StartFails(old, r[2]) \cup StartOK(old, r[2]) :
           r \in StartFails(new, NoRoutes)}

\* applyRunningConfigLocked(old) with App.cfg = new, with an error: engine,
\* routes and App.cfg after it.  Only a failed start and a failed Reload put
\* the old configuration back.
ApplyFails(old, new) ==
  IF ~NeedsApply THEN {}
  ELSE IF ~CanStart(new) THEN {<<eng, up, new>>}
  ELSE IF Restarts(old, new)
  THEN {<<r[1], r[2], new>> : r \in StopFails}
       \cup {<<r[1], r[2], old>> : r \in RestartFails(old, new)}
  ELSE {<<eng, up, old>> : k \in Failing \cap {"Reload"}}

\* Mutant: shutdownNoPersist waits for the watcher with App.mu held.
MuHeldWhileWaiting == shut = "waiting"

\* shutdownNoPersist unlocks before it waits: no section under App.mu lasts
\* longer than a step.
MuHeld == FALSE

Alive == shut # "done"
Lock  == Alive /\ ~MuHeld

-----------------------------------------------------------------------------
(***************************************************************************)
(* Start and Stop, from the UI and from the tray.                          *)
(***************************************************************************)
Start ==
  /\ Lock
  /\ \/ /\ eng.on
        /\ UNCHANGED <<eng, up, wanted, clean>>
     \/ /\ ~eng.on
        /\ \E r \in StartOK(cfg, up) : Becomes(r)
        /\ wanted' = TRUE /\ clean' = TRUE
     \/ /\ ~eng.on
        /\ \E r \in StartFails(cfg, up) : Becomes(r)
        /\ wanted' = eng'.on /\ UNCHANGED clean
  /\ UNCHANGED <<cfg, disk, sum, sv, wpc, got, shut, refused>>

StopOK ==
  /\ eng' = Off /\ up' = NoRoutes
  /\ wanted' = FALSE

StopError ==
  /\ \E r \in StopFails : Becomes(r)
  /\ UNCHANGED wanted

Stop ==
  /\ Lock
  /\ StopOK \/ StopError
  /\ UNCHANGED <<cfg, disk, sum, sv, wpc, got, shut, clean, refused>>

-----------------------------------------------------------------------------
(***************************************************************************)
(* SaveConfig(c) of caller s.                                              *)
(***************************************************************************)
Goto(s, to) == sv' = [sv EXCEPT ![s].pc = to]
Return(s)   == sv' = [sv EXCEPT ![s] = IdleSave]

\* The first section under the lock, writeConfigLocked included.  It fails
\* with the file untouched, replaced (the verification failed) or lost (the
\* second rename of replaceFileAtomic and the way back failed); App.cfg is
\* restored in each case.
SaveWrite(s, c) ==
  /\ Lock /\ sv[s].pc = "idle"
  /\ \/ /\ sv' = [sv EXCEPT ![s] = [pc |-> "saved", old |-> cfg]]
        /\ cfg' = c /\ disk' = c /\ sum' = c
        /\ refused' = FALSE
     \/ /\ "write" \in Failing
        /\ disk' \in {disk, c, Garbage}
        /\ UNCHANGED <<cfg, sum, sv, refused>>
  /\ UNCHANGED <<eng, up, wpc, got, shut, wanted, clean>>

\* The configuration in App.cfg did not get through to the engine.
Refuse == clean' = FALSE /\ refused' = TRUE

\* setStartWithWindows: an error ends the call, the engine never learns.
SaveStartup(s) ==
  /\ Lock /\ sv[s].pc = "saved"
  /\ \/ Goto(s, "check") /\ UNCHANGED <<clean, refused>>
     \/ "startup" \in Failing /\ Return(s) /\ Refuse
  /\ UNCHANGED <<cfg, disk, sum, eng, up, wpc, got, shut, wanted>>

\* engine.Running() outside the lock.
SaveCheck(s) ==
  /\ Alive /\ sv[s].pc = "check"
  /\ IF eng.on THEN Goto(s, "apply") ELSE Return(s)
  /\ UNCHANGED <<app, eng, up, wpc, got, shut, wanted, clean, refused>>

\* The second section: apply whatever App.cfg is by now, against the old
\* configuration of this call.
SaveApply(s) ==
  /\ Lock /\ sv[s].pc = "apply"
  /\ Return(s)
  /\ \/ /\ \E r \in ApplyOK(sv[s].old, cfg) : Becomes(r)
        /\ UNCHANGED <<cfg, clean, refused>>
     \/ /\ \E r \in ApplyFails(sv[s].old, cfg) : Becomes(r) /\ cfg' = r[3]
        /\ Refuse
  /\ UNCHANGED <<disk, sum, wpc, got, shut, wanted>>

-----------------------------------------------------------------------------
(***************************************************************************)
(* The watcher: configWatchLoop and reloadConfigFromDisk.                  *)
(***************************************************************************)
\* Mutant: a file that cannot be read counts as read.
ReadableAlways == TRUE

\* readConfig returns no error.
Readable == disk # Garbage

\* The first read, outside the lock; an unreadable file ends the round.
WatchRead ==
  /\ Alive /\ wpc = "tick" /\ Readable
  /\ got' = disk /\ wpc' = "lock"
  /\ UNCHANGED <<app, eng, up, sv, shut, wanted, clean, refused>>

\* Mutant: the section under the lock trusts the first read.
SecondReadAgreesAlways == TRUE

\* The second read, under the lock, must give the same content.
SecondReadAgrees == disk = got


\* What a round given up after the second read leaves in configDiskChecksum.
SumAfterSkip == sum

\* Mutant: a failed reload leaves the checksum, and is tried again for ever.
SumAfterFailureStale == sum

\* What a failed reload leaves in configDiskChecksum.
SumAfterFailure == got

\* The section under the lock; a failed reload puts App.cfg back.
WatchApply ==
  /\ Lock /\ wpc = "lock" /\ wpc' = "tick"
  /\ \/ /\ got = sum \/ ~SecondReadAgrees
        /\ sum' = SumAfterSkip
        /\ UNCHANGED <<cfg, eng, up, clean, refused>>
     \/ /\ got # sum /\ SecondReadAgrees
        /\ IF eng.on THEN \E r \in ApplyOK(cfg, got) : Becomes(r)
           ELSE UNCHANGED <<eng, up>>
        /\ cfg' = got /\ sum' = got /\ refused' = FALSE
        /\ UNCHANGED clean
     \/ /\ got # sum /\ SecondReadAgrees /\ eng.on
        /\ \E r \in ApplyFails(cfg, got) : Becomes(r)
        /\ sum' = SumAfterFailure /\ Refuse
        /\ UNCHANGED cfg
  /\ UNCHANGED <<disk, sv, got, shut, wanted>>

\* The stop channel is closed.
WatchStop ==
  /\ wpc = "tick" /\ shut # "run"
  /\ wpc' = "gone"
  /\ UNCHANGED <<app, eng, up, sv, got, shut, wanted, clean, refused>>

\* Another program writes config.json.
ExternalEdit(d) ==
  /\ Alive
  /\ disk' = d
  /\ UNCHANGED <<cfg, sum, eng, up, sv, wpc, got, shut, wanted, clean, refused>>

-----------------------------------------------------------------------------
(***************************************************************************)
(* shutdownNoPersist: the section under the lock, then the wait.           *)
(***************************************************************************)
ShutdownStop ==
  /\ shut = "run" /\ shut' = "waiting"
  /\ IF eng.on \/ up # NoRoutes
     THEN StopOK \/ StopError
     ELSE UNCHANGED <<eng, up, wanted>>
  /\ UNCHANGED <<app, sv, wpc, got, clean, refused>>

ShutdownWait ==
  /\ shut = "waiting" /\ wpc = "gone"
  /\ shut' = "done"
  /\ UNCHANGED <<app, eng, up, sv, wpc, got, wanted, clean, refused>>

-----------------------------------------------------------------------------
SaveStep(s) == SaveStartup(s) \/ SaveCheck(s) \/ SaveApply(s)
Watch       == WatchRead \/ WatchApply

Next ==
  \/ Start \/ Stop
  \/ \E s \in Savers : SaveStep(s) \/ \E c \in Configs : SaveWrite(s, c)
  \/ Watch \/ WatchStop
  \/ \E d \in Configs \cup {Garbage} : ExternalEdit(d)
  \/ ShutdownStop \/ ShutdownWait

Spec == Init /\ [][Next]_vars

\* Goroutines are scheduled, App.mu is held for one step and the ticker of
\* the watcher never stops; of two ready cases select takes the stop channel
\* eventually.  Nothing forces the user, another program or the window.
Fairness ==
  /\ WF_vars(Watch)
  /\ SF_vars(WatchStop)
  /\ WF_vars(ShutdownWait)
  /\ \A s \in Savers : WF_vars(SaveStep(s))

FairSpec == Spec /\ Fairness

-----------------------------------------------------------------------------
(***************************************************************************)
(* Properties.                                                             *)
(***************************************************************************)
EngType  == [on : BOOLEAN, base : Configs, live : {Loaded(c) : c \in Configs}]
SaveType == [pc : {"idle", "saved", "check", "apply"}, old : Configs]
Restart  == {c.restart : c \in Configs}

\* Every variable has its type; in particular what the watcher works on is a
\* configuration that was parsed and normalised (reloadConfigFromDisk).
TypeOK ==
  /\ cfg \in Configs /\ disk \in Configs \cup {Garbage}
  /\ sum \in Configs \cup {NoSum}
  /\ eng \in EngType /\ up \in Restart \cup {NoRoutes}
  /\ sv \in [Savers -> SaveType]
  /\ wpc \in {"tick", "lock", "gone"} /\ got \in Configs
  /\ shut \in {"run", "waiting", "done"}
  /\ wanted \in BOOLEAN /\ clean \in BOOLEAN /\ refused \in BOOLEAN

\* A save whose look at engine.Running() is stale, or a reload of the watcher,
\* never starts the engine again after the user has stopped it
\* (applyRunningConfigLocked).
NoResurrection == eng.on => wanted

Pending(s) == sv[s].pc # "idle"

Settled == clean /\ eng.on /\ \A s \in Savers : ~Pending(s)

\* Once every SaveConfig call has returned, and if no configuration has failed
\* to be applied since the last Start, the running engine was started with the
\* Device, Interface, AutoRoute and Proxy the UI shows, and its mode and rules
\* are the ones in App.cfg, in whatever order the saves and the watcher were
\* applied (SaveConfig, reloadConfigFromDisk).  Nothing is said here of MTU, TCP
\* buffers and UDP timeout: a change of them alone does not restart the engine
\* (app.go:288) and Reload takes none of them over (reload.go:15-70), although it
\* is reported as hot-reloaded.
SettledConsistent ==
  Settled => eng.base.restart = cfg.restart /\ eng.live = Loaded(cfg)

\* But for a failed apply, which puts back the configuration of before, App.cfg
\* only ever changes to what config.json holds at that moment: the watcher never
\* undoes a save that came between its two reads (reloadConfigFromDisk).
SaveNeverReverted == [][cfg' # cfg => cfg' = disk' \/ refused']_vars

\* A config.json that is left alone is taken note of, even if applying it
\* fails: a bad configuration does not restart the engine every 700 ms.
EditConsumed ==
  \A c \in Configs :
    <>[](disk = c /\ shut = "run") => <>[](sum = c)


\* shutdownNoPersist does not wait for ever for a watcher that is itself
\* waiting for App.mu.
ShutdownReturns == shut = "waiting" ~> shut = "done"

\* README: a host route to the SOCKS5 server is added automatically.  While the
\* routes are up and no save is under way, they are the ones of the proxy the
\* engine dials.
RoutedProxy ==
  eng.on /\ up # NoRoutes /\ (\A s \in Savers : ~Pending(s)) =>
    up = eng.live.restart
=============================================================================
