---------------------------- MODULE DesktopProofs ----------------------------
(***************************************************************************)
(* Theorems about Desktop, for any configurations, any number of           *)
(* concurrent SaveConfig calls and any operations that fail.               *)
(***************************************************************************)
EXTENDS Desktop, TLAPS

UpType == Restart \cup {NoRoutes}

\* While the engine runs and nothing has failed to be applied since its Start,
\* whatever App.cfg asks of it beyond what it does is owed by a SaveConfig call under way: one that will
\* find the difference in the restart part, and one that will reload.
Owed ==
  clean /\ eng.on =>
    /\ \/ eng.base.restart = cfg.restart
       \/ \E s \in Savers : Pending(s) /\ sv[s].old.restart = eng.base.restart
    /\ eng.live = Loaded(cfg) \/ \E s \in Savers : Pending(s)

IInv == TypeOK /\ NoResurrection /\ Owed

\* Records of the engine and of a save.
LEMMA RecordTypes ==
  /\ Off \in EngType /\ ~Off.on
  /\ IdleSave \in SaveType /\ IdleSave.pc = "idle"
  /\ \A c \in Configs : /\ On(c) \in EngType
                        /\ On(c).on /\ On(c).base = c /\ On(c).live = Loaded(c)
  <1> DEFINE Lives == {Loaded(c) : c \in Configs}
  <1>1. \A c \in Configs : Loaded(c) \in Lives
    OBVIOUS
  <1>2. EngType = [on : BOOLEAN, base : Configs, live : Lives]
    BY DEF EngType
  <1> HIDE DEF Lives
  <1> QED
    BY <1>1, <1>2, DesktopAssumption DEF Off, On, IdleSave, SaveType

\* A start leaves the engine off or on with the configuration it was given,
\* and App.up a value of its type.
LEMMA StartOutcomes ==
  ASSUME NEW c \in Configs, NEW u \in UpType,
         NEW r \in StartOK(c, u) \cup StartFails(c, u)
  PROVE  r[1] \in EngType /\ r[2] \in UpType /\ r[1] \in {Off, On(c)}
  <1>1. Off \in EngType /\ On(c) \in EngType
    BY RecordTypes
  <1>2. c.restart \in UpType /\ NoRoutes \in UpType
    BY DEF UpType, Restart
  <1>3. CASE r \in StartOK(c, u)
    BY <1>1, <1>2, <1>3 DEF StartOK, RoutesFor
  <1>4. CASE r \in StartFails(c, u)
    BY <1>1, <1>2, <1>4 DEF StartFails
  <1> QED
    BY <1>3, <1>4

\* A start without an error has the engine on with the new configuration.
LEMMA StartOKOutcome ==
  ASSUME NEW c \in Configs, NEW u \in UpType, NEW r \in StartOK(c, u)
  PROVE  r[1] = On(c)
  BY DEF StartOK

\* A failed stop leaves the engine as it is.
LEMMA StopOutcomes ==
  ASSUME TypeOK, NEW r \in StopFails
  PROVE  r[1] = eng /\ r[2] \in UpType
  BY DEF StopFails, TypeOK, UpType

\* applyRunningConfigLocked without an error: nothing while the engine is off,
\* a restart with the new configuration, or a reload of it.
LEMMA ApplyOKOutcome ==
  ASSUME TypeOK, NEW old \in Configs, NEW new \in Configs,
         NEW r \in ApplyOK(old, new)
  PROVE  /\ r[1] \in EngType /\ r[2] \in UpType
         /\ ~eng.on => r[1] = eng
         /\ eng.on => /\ r[1].on /\ r[1].live = Loaded(new)
                      /\ \/ r[1].base = new
                         \/ /\ r[1].base = eng.base
                            /\ old.restart = new.restart
  <1>1. up \in UpType /\ NoRoutes \in UpType /\ eng \in EngType
    BY DEF TypeOK, UpType
  <1>2. CASE ~eng.on
    BY <1>1, <1>2 DEF ApplyOK, NeedsApply
  <1>3. CASE eng.on /\ old.restart # new.restart
    <2>1. r \in StartOK(new, NoRoutes)
      BY <1>3 DEF ApplyOK, NeedsApply, Restarts
    <2>2. r[1] = On(new) /\ r[2] \in UpType
      BY <1>1, <2>1, StartOutcomes, StartOKOutcome
    <2> QED
      BY <1>3, <2>2, RecordTypes
  <1>4. CASE eng.on /\ old.restart = new.restart
    <2> DEFINE Lives == {Loaded(c) : c \in Configs}
    <2>1. r = <<[eng EXCEPT !.live = Loaded(new)], up>>
      BY <1>4 DEF ApplyOK, NeedsApply, Restarts
    <2>2. Loaded(new) \in Lives
      OBVIOUS
    <2>3. EngType = [on : BOOLEAN, base : Configs, live : Lives]
      BY DEF EngType
    <2> HIDE DEF Lives
    <2> QED
      BY <1>1, <1>4, <2>1, <2>2, <2>3
  <1> QED
    BY <1>2, <1>3, <1>4

\* applyRunningConfigLocked with an error: it ran on a running engine, and
\* leaves values of the right types.
LEMMA ApplyFailsOutcome ==
  ASSUME TypeOK, NEW old \in Configs, NEW new \in Configs,
         NEW r \in ApplyFails(old, new)
  PROVE  eng.on /\ r[1] \in EngType /\ r[2] \in UpType /\ r[3] \in Configs
  <1>1. up \in UpType /\ NoRoutes \in UpType /\ eng \in EngType
    BY DEF TypeOK, UpType
  <1>2. eng.on
    BY DEF ApplyFails, NeedsApply
  <1>3. \A q \in StopFails : q[1] \in EngType /\ q[2] \in UpType
    BY <1>1, StopOutcomes
  <1>4. \A q \in RestartFails(old, new) : q[1] \in EngType /\ q[2] \in UpType
    <2>1. SUFFICES ASSUME NEW q \in RestartFails(old, new)
                   PROVE  q[1] \in EngType /\ q[2] \in UpType
      OBVIOUS
    <2>2. PICK m \in StartFails(new, NoRoutes) :
            q \in IF m[1].on THEN {m}
                  ELSE StartFails(old, m[2]) \cup StartOK(old, m[2])
      BY DEF RestartFails
    <2>3. m[1] \in EngType /\ m[2] \in UpType
      BY <1>1, StartOutcomes
    <2>4. CASE m[1].on
      BY <2>2, <2>3, <2>4
    <2>5. CASE ~m[1].on
      BY <2>2, <2>3, <2>5, StartOutcomes
    <2> QED
      BY <2>4, <2>5
  <1>5. \/ r \in {<<eng, up, new>>, <<eng, up, old>>}
        \/ \E q \in StopFails : r = <<q[1], q[2], new>>
        \/ \E q \in RestartFails(old, new) : r = <<q[1], q[2], old>>
    BY DEF ApplyFails
  <1> QED
    BY <1>1, <1>2, <1>3, <1>4, <1>5

\* The state startup leaves satisfies the invariant.
LEMMA InitIInv == Init => IInv
  <1> SUFFICES ASSUME Init PROVE IInv
    OBVIOUS
  <1>1. eng \in EngType /\ ~eng.on
    BY RecordTypes DEF Init
  <1>2. sv \in [Savers -> SaveType]
    BY RecordTypes DEF Init
  <1>3. cfg \in Configs /\ disk \in Configs \cup {Garbage}
        /\ sum \in Configs \cup {NoSum} /\ got \in Configs
    BY DesktopAssumption DEF Init
  <1> QED
    BY <1>1, <1>2, <1>3 DEF Init, IInv, TypeOK, NoResurrection, Owed

\* Start keeps the invariant: a started engine has App.cfg itself.
LEMMA StartStep == IInv /\ Start => IInv'
  <1> SUFFICES ASSUME IInv, Start PROVE IInv'
    OBVIOUS
  <1> USE DEF IInv, TypeOK, NoResurrection, Owed, Start
  <1>1. up \in UpType
    BY DEF UpType
  <1>2. CASE eng.on
    BY <1>2 DEF Pending
  <1>3. CASE ~eng.on
    <2>1. /\ eng' \in EngType /\ up' \in UpType
          /\ eng' \in {Off, On(cfg)}
          /\ eng'.on => wanted'
      BY <1>1, <1>3, StartOutcomes, RecordTypes DEF Becomes
    <2>2. eng'.on => eng'.base = cfg /\ eng'.live = Loaded(cfg)
      BY <2>1, RecordTypes
    <2>3. wanted' \in BOOLEAN /\ clean' \in BOOLEAN
      BY <1>3, <2>1 DEF EngType
    <2> QED
      BY <2>1, <2>2, <2>3 DEF UpType
  <1> QED
    BY <1>2, <1>3

\* stopLocked, from Stop or from shutdownNoPersist, switches the engine off
\* or leaves it as it is.
LEMMA StopLockedStep ==
  ASSUME IInv, StopOK \/ StopError
  PROVE  /\ eng' \in EngType /\ up' \in UpType
         /\ wanted' \in BOOLEAN
         /\ eng'.on => wanted'
         /\ eng' = eng \/ ~eng'.on
  <1>1. CASE StopOK
    BY <1>1, RecordTypes DEF StopOK, IInv, TypeOK, UpType
  <1>2. CASE StopError
    <2>1. eng' = eng /\ up' \in UpType
      BY <1>2, StopOutcomes DEF StopError, Becomes, IInv
    <2> QED
      BY <1>2, <2>1 DEF StopError, IInv, TypeOK, NoResurrection
  <1> QED
    BY <1>1, <1>2

\* The steps of SaveConfig keep the invariant.
LEMMA SaveSteps ==
  ASSUME IInv, NEW s \in Savers,
         SaveStep(s) \/ \E c \in Configs : SaveWrite(s, c)
  PROVE  IInv'
  <1> USE DEF IInv, TypeOK, NoResurrection
  <1>0. sv[s] \in SaveType /\ sv[s].old \in Configs
    BY DEF SaveType
  <1>1. ASSUME NEW c \in Configs, SaveWrite(s, c) PROVE IInv'
    <2>1. CASE sv' = [sv EXCEPT ![s] = [pc |-> "saved", old |-> cfg]] /\ cfg' = c
               /\ disk' = c /\ sum' = c /\ refused' = FALSE
      <3>1. [pc |-> "saved", old |-> cfg] \in SaveType
        BY DEF SaveType
      <3>2. sv' \in [Savers -> SaveType]
        BY <2>1, <3>1
      <3>3. Pending(s)' /\ sv[s].pc = "idle" /\ sv'[s].old = cfg
        BY <1>1, <2>1 DEF Pending, SaveWrite
      <3>4. \A t \in Savers : Pending(t) => Pending(t)' /\ sv'[t] = sv[t]
        BY <2>1, <3>3 DEF Pending
      <3>5. Owed'
        BY <1>1, <3>3, <3>4 DEF Owed, SaveWrite
      <3> QED
        BY <1>1, <2>1, <3>2, <3>5 DEF SaveWrite
    <2>2. CASE disk' \in {disk, c, Garbage}
               /\ UNCHANGED <<cfg, sum, sv, refused>>
      BY <1>1, <2>2 DEF SaveWrite, Owed, Pending
    <2> QED
      BY <1>1, <2>1, <2>2 DEF SaveWrite
  <1>2. CASE SaveStartup(s)
    <2>1. CASE Goto(s, "check") /\ UNCHANGED <<clean, refused>>
      <3>1. sv' \in [Savers -> SaveType]
        BY <1>0, <2>1 DEF Goto, SaveType
      <3>2. \A t \in Savers : Pending(t) =>
              Pending(t)' /\ sv'[t].old = sv[t].old
        BY <1>0, <2>1 DEF Goto, Pending, SaveType
      <3>3. Owed'
        BY <1>2, <2>1, <3>2 DEF Owed, SaveStartup
      <3> QED
        BY <1>2, <2>1, <3>1, <3>3 DEF SaveStartup
    <2>2. CASE Return(s) /\ Refuse
      BY <1>2, <2>2, RecordTypes DEF SaveStartup, Return, Refuse, Owed
    <2> QED
      BY <1>2, <2>1, <2>2 DEF SaveStartup
  <1>3. CASE SaveCheck(s)
    <2>1. CASE eng.on
      <3>1. sv' \in [Savers -> SaveType]
        BY <1>0, <1>3, <2>1 DEF SaveCheck, Goto, SaveType
      <3>2. \A t \in Savers : Pending(t) =>
              Pending(t)' /\ sv'[t].old = sv[t].old
        BY <1>0, <1>3, <2>1 DEF SaveCheck, Goto, Pending, SaveType
      <3>3. Owed'
        BY <1>3, <3>2 DEF Owed, SaveCheck, app
      <3> QED
        BY <1>3, <3>1, <3>3 DEF SaveCheck, app
    <2>2. CASE ~eng.on
      BY <1>3, <2>2, RecordTypes DEF SaveCheck, Return, Owed, app
    <2> QED
      BY <2>1, <2>2
  <1>4. CASE SaveApply(s)
    <2>1. sv' \in [Savers -> SaveType]
      BY <1>4, RecordTypes DEF SaveApply, Return
    <2>2. CASE /\ \E r \in ApplyOK(sv[s].old, cfg) : Becomes(r)
               /\ UNCHANGED <<cfg, clean, refused>>
      <3>1. /\ eng' \in EngType /\ up' \in UpType
            /\ ~eng.on => eng' = eng
            /\ eng.on => /\ eng'.on /\ eng'.live = Loaded(cfg)
                         /\ \/ eng'.base = cfg
                            \/ /\ eng'.base = eng.base
                               /\ sv[s].old.restart = cfg.restart
        BY <1>0, <2>2, ApplyOKOutcome DEF Becomes
      <3>2. \A t \in Savers \ {s} : Pending(t) => Pending(t)' /\ sv'[t] = sv[t]
        BY <1>4 DEF SaveApply, Return, Pending
      <3>3. Owed'
        BY <2>2, <3>1, <3>2 DEF Owed
      <3> QED
        BY <1>4, <2>1, <2>2, <3>1, <3>3 DEF SaveApply, UpType
    <2>3. CASE /\ \E r \in ApplyFails(sv[s].old, cfg) : Becomes(r) /\ cfg' = r[3]
               /\ Refuse
      <3>1. eng.on /\ eng' \in EngType /\ up' \in UpType /\ cfg' \in Configs
        BY <1>0, <2>3, ApplyFailsOutcome DEF Becomes
      <3> QED
        BY <1>4, <2>1, <2>3, <3>1 DEF SaveApply, Refuse, UpType, Owed
    <2> QED
      BY <1>4, <2>2, <2>3 DEF SaveApply
  <1> QED
    BY <1>1, <1>2, <1>3, <1>4 DEF SaveStep

\* The section of the watcher under the lock keeps the invariant.
LEMMA WatchApplyStep == IInv /\ WatchApply => IInv'
  <1> SUFFICES ASSUME IInv, WatchApply PROVE IInv'
    OBVIOUS
  <1> USE DEF IInv, TypeOK, NoResurrection, WatchApply
  <1>1. CASE sum' = SumAfterSkip /\ UNCHANGED <<cfg, eng, up, clean, refused>>
    BY <1>1 DEF SumAfterSkip, Owed, Pending
  <1>2. CASE /\ IF eng.on THEN \E r \in ApplyOK(cfg, got) : Becomes(r)
                ELSE UNCHANGED <<eng, up>>
             /\ cfg' = got /\ sum' = got /\ refused' = FALSE
             /\ UNCHANGED clean
    <2>1. /\ eng' \in EngType /\ up' \in UpType
          /\ ~eng.on => eng' = eng
          /\ eng.on => /\ eng'.on /\ eng'.live = Loaded(got)
                       /\ \/ eng'.base = got
                          \/ eng'.base = eng.base /\ cfg.restart = got.restart
      BY <1>2, ApplyOKOutcome DEF Becomes, UpType
    <2>2. Owed'
      BY <1>2, <2>1 DEF Owed, Pending
    <2> QED
      BY <1>2, <2>1, <2>2 DEF UpType
  <1>3. CASE /\ eng.on
             /\ \E r \in ApplyFails(cfg, got) : Becomes(r)
             /\ sum' = SumAfterFailure /\ Refuse
             /\ UNCHANGED cfg
    <2>1. eng' \in EngType /\ up' \in UpType
      BY <1>3, ApplyFailsOutcome DEF Becomes
    <2> QED
      BY <1>3, <2>1 DEF UpType, SumAfterFailure, Refuse, Owed
  <1> QED
    BY <1>1, <1>2, <1>3

\* Every step keeps the invariant.
LEMMA NextIInv == IInv /\ [Next]_vars => IInv'
  <1> SUFFICES ASSUME IInv, [Next]_vars PROVE IInv'
    OBVIOUS
  <1>1. CASE Start
    BY <1>1, StartStep
  <1>2. CASE Stop
    BY <1>2, StopLockedStep DEF Stop, IInv, TypeOK, NoResurrection, Owed, Pending, UpType
  <1>3. CASE \E s \in Savers : SaveStep(s) \/ \E c \in Configs : SaveWrite(s, c)
    BY <1>3, SaveSteps
  <1>4. CASE WatchRead
    BY <1>4 DEF WatchRead, Readable, app, IInv, TypeOK, NoResurrection, Owed, Pending
  <1>5. CASE WatchApply
    BY <1>5, WatchApplyStep
  <1>6. CASE WatchStop
    BY <1>6 DEF WatchStop, app, IInv, TypeOK, NoResurrection, Owed, Pending
  <1>7. CASE \E d \in Configs \cup {Garbage} : ExternalEdit(d)
    BY <1>7 DEF ExternalEdit, IInv, TypeOK, NoResurrection, Owed, Pending
  <1>8. CASE ShutdownStop
    <2>1. CASE StopOK \/ StopError
      BY <1>8, <2>1, StopLockedStep
         DEF ShutdownStop, app, IInv, TypeOK, NoResurrection, Owed, Pending, UpType
    <2>2. CASE UNCHANGED <<eng, up, wanted>>
      BY <1>8, <2>2
         DEF ShutdownStop, app, IInv, TypeOK, NoResurrection, Owed, Pending
    <2> QED
      BY <1>8, <2>1, <2>2 DEF ShutdownStop
  <1>9. CASE ShutdownWait
    BY <1>9 DEF ShutdownWait, app, IInv, TypeOK, NoResurrection, Owed, Pending
  <1>10. CASE UNCHANGED vars
    BY <1>10 DEF vars, IInv, TypeOK, NoResurrection, Owed, Pending
  <1> QED
    BY <1>1, <1>2, <1>3, <1>4, <1>5, <1>6, <1>7, <1>8, <1>9, <1>10 DEF Next, Watch

-----------------------------------------------------------------------------
\* The inductive invariant holds in every reachable state of the application.
THEOREM DesktopInvariant == Spec => []IInv
  BY InitIInv, NextIInv, PTL DEF Spec

\* Every variable keeps its type; the watcher only works on parsed contents.
THEOREM TypeCorrect == Spec => []TypeOK
  BY DesktopInvariant, PTL DEF IInv

\* No interleaving of saves, watcher and shutdown with Start and Stop has the
\* engine running after the user stopped it.
THEOREM StoppedStaysStopped == Spec => []NoResurrection
  BY DesktopInvariant, PTL DEF IInv

\* When all saves have returned and nothing has failed to be applied since the
\* last Start, the running engine has the application's Device, Interface,
\* AutoRoute, Proxy, mode and rules, for any number of saves; of MTU, buffers and
\* UDP timeout it says nothing.
THEOREM SavesSettle == Spec => []SettledConsistent
  <1>1. IInv => SettledConsistent
    BY DEF IInv, Owed, Settled, SettledConsistent
  <1> QED
    BY <1>1, DesktopInvariant, PTL

\* The application's configuration only changes to what config.json holds at
\* that moment, but for a failed apply that puts back the one of before: the watcher undoes no save.
THEOREM WatcherKeepsSaves == Spec => SaveNeverReverted
  <1>1. [Next]_vars => [cfg' # cfg => cfg' = disk' \/ refused']_vars
    <2> SUFFICES ASSUME Next, cfg' # cfg PROVE cfg' = disk' \/ refused'
      BY DEF vars
    <2>1. CASE \E s \in Savers : SaveStep(s) \/ \E c \in Configs : SaveWrite(s, c)
      BY <2>1 DEF SaveStep, SaveStartup, SaveCheck, SaveApply, SaveWrite, Refuse, app
    <2>2. CASE WatchApply
      BY <2>2 DEF WatchApply, SecondReadAgrees
    <2> QED
      BY <2>1, <2>2 DEF Next, Watch, Start, Stop, WatchRead, WatchStop,
                        ExternalEdit, ShutdownStop, ShutdownWait, app
  <1> QED
    BY <1>1, PTL DEF Spec, SaveNeverReverted
=============================================================================
