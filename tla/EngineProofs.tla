---------------------------- MODULE EngineProofs ----------------------------
(***************************************************************************)
(* Theorems about Engine, for every set of keys, servers and sessions.     *)
(***************************************************************************)
EXTENDS Engine, TLAPS

\* The REST half of the inductive invariant: who holds the address, who may be
\* marked closed, and what restapi.Stop holds between its two steps.
RestInv ==
  /\ \A s \in Servers :
       /\ port = s <=> \/ srv[s] \in {"bound", "published"}
                       \/ srv[s] = "serving" /\ s \notin closed
       /\ s \in closed => srv[s] \in {"published", "serving", "returned"}
  /\ ptr \in Servers => srv[ptr] \in {"published", "serving", "returned"}
  /\ pc \in {"abortClose", "stopClose"} =>
       /\ grab \in Servers
       /\ srv[grab] \in {"none", "published", "serving", "returned"}

\* The control half: which objects exist at each program counter.
PhaseInv ==
  /\ key = {} \/ \E k \in Keys : key = {k}
  /\ pc \in StartPCs \/ stack => key # {}
  /\ pc \in ReloadPCs => (Running /\ \E k \in ReloadKeys : next = {k})
  /\ pc \in StartPCs \cup AbortPCs => ~stack
  /\ pc \in (StartPCs \ {"stack"}) \cup AbortPCs => ~device
  /\ pc = "stack" => device
  /\ pc \in {"idle", "stopRead", "stopClose", "closeDevice"} => (device <=> stack)
  /\ pc = "closeStack" => ~device

\* The data half: what has been installed at each program counter.
InstalledInv ==
  /\ stack \/ pc \in {"device", "stack"} =>
       \A k \in key : tproxy = k.policy /\ routing = k.policy
  /\ pc \in {"bind", "rlBind"} => opts = {}
  /\ pc = "mark" => \A k \in key : opts = BindOpt(k)
  /\ pc \in {"rest", "netstack", "device", "stack"} =>
       \A k \in key : opts = Opts(k)
  /\ pc = "commit" => \A k \in next : opts = Opts(k)
  /\ Running /\ pc \notin {"rlBind", "commit"} => \A k \in key : opts = Opts(k)

\* Once a session exists the tunnel has a configured proxy, for good.
SessInv ==
  /\ \A x \in Sessions : sess[x].st # "none" => tproxy \notin {NoPolicy, Reject}
  /\ SessionHasPolicy

IInv == /\ TypeOK /\ RestInv /\ PhaseInv /\ InstalledInv
        /\ ServingIsTracked /\ SessInv

-----------------------------------------------------------------------------
\* The invariant of every run of the REST server and of StartE, StopE and
\* Reload holds initially.
LEMMA InitIInv == Init => IInv
  <1> SUFFICES ASSUME Init PROVE IInv
    OBVIOUS
  <1> USE KeysAssumption
  <1>1. TypeOK
    BY DEF Init, TypeOK, PCs, Policies, SrvStates, NoSess, SessType
  <1>2. RestInv /\ ServingIsTracked
    BY DEF Init, RestInv, ServingIsTracked
  <1>3. PhaseInv /\ InstalledInv
    BY DEF Init, PhaseInv, InstalledInv, StartPCs, ReloadPCs, AbortPCs, Running
  <1>4. SessInv
    BY DEF Init, SessInv, SessionHasPolicy, NoSess
  <1> QED
    BY <1>1, <1>2, <1>3, <1>4 DEF IInv

\* Every step keeps the types.
LEMMA TypeStep ==
  TypeOK /\ RestInv /\ [Next]_vars => TypeOK'
  <1> SUFFICES ASSUME TypeOK, RestInv, [Next]_vars PROVE TypeOK'
    BY DEF IInv
  <1> USE KeysAssumption DEF TypeOK, PCs, StartPCs, AbortPCs, StopPCs, ReloadPCs, SrvStates, SessType
  <1>1. CASE \E k \in Keys : StartOp(k)
    BY <1>1 DEF StartOp, Fail, restVars, ctlVars
  <1>2. CASE StopOp
    BY <1>2 DEF StopOp, restVars, ctlVars
  <1>3. CASE \E k \in ReloadKeys : ReloadOp(k)
    BY <1>3 DEF ReloadOp, restVars, ctlVars
  <1>4. CASE GeneralReset
    BY <1>4 DEF GeneralReset, restVars, ctlVars
  <1>5. CASE GeneralBind
    BY <1>5 DEF GeneralBind, Fail, restVars, ctlVars, KeyShape, AllOpts, Opts, BindOpt, MarkOpt
  <1>6. CASE GeneralMark
    BY <1>6 DEF GeneralMark, Fail, restVars, ctlVars, KeyShape, AllOpts, Opts, BindOpt, MarkOpt
  <1>7. CASE RestAPI
    BY <1>7 DEF RestAPI, Fail, restVars, ctlVars
  <1>8. CASE NetstackProxy
    BY <1>8 DEF NetstackProxy, Policies, Fail, restVars, ctlVars
  <1>9. CASE NetstackDevice
    BY <1>9 DEF NetstackDevice, Fail, restVars, ctlVars
  <1>10. CASE NetstackStack
    BY <1>10 DEF NetstackStack, Fail, restVars, ctlVars
  <1>11. CASE AbortRead
    BY <1>11 DEF AbortRead, StopReadServer, restVars, ctlVars
  <1>12. CASE AbortClose
    BY <1>12 DEF AbortClose, RestInv, StopCloseServer, restVars, ctlVars
  <1>13. CASE StopRead
    BY <1>13 DEF StopRead, StopReadServer, restVars, ctlVars
  <1>14. CASE StopClose
    BY <1>14 DEF StopClose, RestInv, StopCloseServer, restVars, ctlVars
  <1>15. CASE StopDevice
    BY <1>15 DEF StopDevice, restVars, ctlVars
  <1>16. CASE StopStack
    BY <1>16 DEF StopStack, Policies, restVars, ctlVars
  <1>17. CASE ReloadPrepare
    BY <1>17 DEF ReloadPrepare, restVars, ctlVars
  <1>18. CASE ReloadReset
    BY <1>18 DEF ReloadReset, restVars, ctlVars
  <1>19. CASE ReloadBind
    BY <1>19 DEF ReloadBind, restVars, ctlVars, KeyShape, AllOpts, Opts, BindOpt, MarkOpt
  <1>20. CASE ReloadCommit
    BY <1>20 DEF ReloadCommit, Policies, restVars, ctlVars, KeyShape
  <1>21. CASE \E s \in Servers : SrvListen(s)
    BY <1>21 DEF SrvListen, restVars, ctlVars
  <1>22. CASE \E s \in Servers : SrvPublish(s)
    BY <1>22 DEF SrvPublish, restVars, ctlVars
  <1>23. CASE \E s \in Servers : SrvServe(s)
    BY <1>23 DEF SrvServe, restVars, ctlVars
  <1>24. CASE \E s \in Servers : SrvExit(s)
    BY <1>24 DEF SrvExit, restVars, ctlVars
  <1>25. CASE \E s \in Servers : SrvClear(s)
    BY <1>25 DEF SrvClear, ClearPtr, restVars, ctlVars
  <1>26. CASE \E s \in Servers : SrvAcceptError(s)
    BY <1>26 DEF SrvAcceptError, restVars, ctlVars
  <1>27. CASE \E x \in Sessions : SessAccept(x)
    BY <1>27 DEF SessAccept, restVars, ctlVars, NoSess
  <1>28. CASE \E x \in Sessions : SessDial(x)
    <2>1. PICK x \in Sessions : SessDial(x)
      BY <1>28
    <2>2. [sess[x] EXCEPT !.st = "dialing", !.policy = tproxy] \in SessType
      OBVIOUS
    <2>3. sess' = [sess EXCEPT
                    ![x] = [sess[x] EXCEPT !.st = "dialing", !.policy = tproxy]]
      BY <2>1 DEF SessDial
    <2>4. sess' \in [Sessions -> SessType]
      BY <2>2, <2>3
    <2> QED
      BY <2>1, <2>4 DEF SessDial, restVars, ctlVars
  <1>29. CASE \E x \in Sessions : SessConnect(x)
    BY <1>29 DEF SessConnect, Policies, restVars, ctlVars, NoSess
  <1>30. CASE \E x \in Sessions : SessClose(x)
    BY <1>30 DEF SessClose, Policies, restVars, ctlVars, NoSess
  <1>31. CASE UNCHANGED vars
    BY <1>31 DEF vars, restVars, ctlVars
  <1> QED
    BY <1>1, <1>2, <1>3, <1>4, <1>5, <1>6, <1>7, <1>8, <1>9, <1>10, <1>11, <1>12, <1>13, <1>14, <1>15, <1>16, <1>17, <1>18, <1>19, <1>20, <1>21, <1>22, <1>23, <1>24, <1>25, <1>26, <1>27, <1>28, <1>29, <1>30, <1>31
       DEF Next, CtlStep, SrvStep

\* Every step keeps the book-keeping of the REST servers: the listener holds
\* the address, so no other server can be published beside it.
LEMMA RestStep ==
  TypeOK /\ RestInv /\ ServingIsTracked /\ [Next]_vars => RestInv' /\ ServingIsTracked'
  <1> SUFFICES ASSUME TypeOK, RestInv, ServingIsTracked, [Next]_vars PROVE RestInv' /\ ServingIsTracked'
    BY DEF IInv
  <1> USE KeysAssumption DEF TypeOK, RestInv, ServingIsTracked, SrvStates
  <1>1. CASE \E k \in Keys : StartOp(k)
    BY <1>1 DEF StartOp, Fail, restVars, ctlVars
  <1>2. CASE StopOp
    BY <1>2 DEF StopOp, restVars, ctlVars
  <1>3. CASE \E k \in ReloadKeys : ReloadOp(k)
    BY <1>3 DEF ReloadOp, restVars, ctlVars
  <1>4. CASE GeneralReset
    BY <1>4 DEF GeneralReset, restVars, ctlVars
  <1>5. CASE GeneralBind
    BY <1>5 DEF GeneralBind, Fail, restVars, ctlVars
  <1>6. CASE GeneralMark
    BY <1>6 DEF GeneralMark, Fail, restVars, ctlVars
  <1>7. CASE RestAPI
    BY <1>7 DEF RestAPI, Fail, restVars, ctlVars
  <1>8. CASE NetstackProxy
    BY <1>8 DEF NetstackProxy, Fail, restVars, ctlVars
  <1>9. CASE NetstackDevice
    BY <1>9 DEF NetstackDevice, Fail, restVars, ctlVars
  <1>10. CASE NetstackStack
    BY <1>10 DEF NetstackStack, Fail, restVars, ctlVars
  <1>11. CASE AbortRead
    BY <1>11 DEF AbortRead, StopReadServer, restVars, ctlVars
  <1>12. CASE AbortClose
    BY <1>12 DEF AbortClose, StopCloseServer, restVars, ctlVars
  <1>13. CASE StopRead
    BY <1>13 DEF StopRead, StopReadServer, restVars, ctlVars
  <1>14. CASE StopClose
    BY <1>14 DEF StopClose, StopCloseServer, restVars, ctlVars
  <1>15. CASE StopDevice
    BY <1>15 DEF StopDevice, restVars, ctlVars
  <1>16. CASE StopStack
    BY <1>16 DEF StopStack, restVars, ctlVars
  <1>17. CASE ReloadPrepare
    BY <1>17 DEF ReloadPrepare, restVars, ctlVars
  <1>18. CASE ReloadReset
    BY <1>18 DEF ReloadReset, restVars, ctlVars
  <1>19. CASE ReloadBind
    BY <1>19 DEF ReloadBind, restVars, ctlVars
  <1>20. CASE ReloadCommit
    BY <1>20 DEF ReloadCommit, restVars, ctlVars
  <1>21. CASE \E s \in Servers : SrvListen(s)
    BY <1>21 DEF SrvListen, restVars, ctlVars
  <1>22. CASE \E s \in Servers : SrvPublish(s)
    BY <1>22 DEF SrvPublish, restVars, ctlVars
  <1>23. CASE \E s \in Servers : SrvServe(s)
    BY <1>23 DEF SrvServe, restVars, ctlVars
  <1>24. CASE \E s \in Servers : SrvExit(s)
    BY <1>24 DEF SrvExit, restVars, ctlVars
  <1>25. CASE \E s \in Servers : SrvClear(s)
    BY <1>25 DEF SrvClear, ClearPtr, restVars, ctlVars
  <1>26. CASE \E s \in Servers : SrvAcceptError(s)
    BY <1>26 DEF SrvAcceptError, restVars, ctlVars
  <1>27. CASE \E x \in Sessions : SessAccept(x)
    BY <1>27 DEF SessAccept, restVars, ctlVars
  <1>28. CASE \E x \in Sessions : SessDial(x)
    BY <1>28 DEF SessDial, restVars, ctlVars
  <1>29. CASE \E x \in Sessions : SessConnect(x)
    BY <1>29 DEF SessConnect, restVars, ctlVars
  <1>30. CASE \E x \in Sessions : SessClose(x)
    BY <1>30 DEF SessClose, restVars, ctlVars
  <1>31. CASE UNCHANGED vars
    BY <1>31 DEF vars, restVars, ctlVars
  <1> QED
    BY <1>1, <1>2, <1>3, <1>4, <1>5, <1>6, <1>7, <1>8, <1>9, <1>10, <1>11, <1>12, <1>13, <1>14, <1>15, <1>16, <1>17, <1>18, <1>19, <1>20, <1>21, <1>22, <1>23, <1>24, <1>25, <1>26, <1>27, <1>28, <1>29, <1>30, <1>31
       DEF Next, CtlStep, SrvStep

\* Steps of REST goroutines and of sessions leave the control state alone.
LEMMA OthersLeaveControl ==
  ASSUME \/ \E s \in Servers : SrvStep(s) \/ SrvAcceptError(s)
         \/ \E x \in Sessions : SessAccept(x) \/ SessDial(x) \/ SessConnect(x)
                                \/ SessClose(x)
  PROVE  UNCHANGED <<pc, ctlVars>>
  BY DEF SrvStep, SrvListen, SrvPublish, SrvServe, SrvExit, SrvClear,
         SrvAcceptError, SessAccept, SessDial, SessConnect, SessClose

\* Every step keeps the correspondence between pc and what exists.
LEMMA PhaseStep ==
  TypeOK /\ PhaseInv /\ [Next]_vars => PhaseInv'
  <1> SUFFICES ASSUME TypeOK, PhaseInv, [Next]_vars PROVE PhaseInv'
    OBVIOUS
  <1> USE KeysAssumption DEF TypeOK, PhaseInv, Running, StartPCs, AbortPCs, StopPCs, ReloadPCs, PCs
  <1>1. CASE \E k \in Keys : StartOp(k)
    BY <1>1 DEF StartOp, Fail, ctlVars
  <1>2. CASE StopOp
    BY <1>2 DEF StopOp, ctlVars
  <1>3. CASE \E k \in ReloadKeys : ReloadOp(k)
    BY <1>3 DEF ReloadOp, ctlVars
  <1>4. CASE GeneralReset
    BY <1>4 DEF GeneralReset, ctlVars
  <1>5. CASE GeneralBind
    BY <1>5 DEF GeneralBind, Fail, ctlVars
  <1>6. CASE GeneralMark
    BY <1>6 DEF GeneralMark, Fail, ctlVars
  <1>7. CASE RestAPI
    BY <1>7 DEF RestAPI, Fail, ctlVars
  <1>8. CASE NetstackProxy
    BY <1>8 DEF NetstackProxy, Fail, ctlVars
  <1>9. CASE NetstackDevice
    BY <1>9 DEF NetstackDevice, Fail, ctlVars
  <1>10. CASE NetstackStack
    <2>1. CASE pc' = "idle" /\ stack' = TRUE /\ UNCHANGED device
      <3>1. device' /\ stack'
        BY <1>10, <2>1 DEF NetstackStack
      <3> QED
        BY <1>10, <2>1, <3>1 DEF NetstackStack
    <2>2. CASE Fail /\ device' = FALSE /\ UNCHANGED stack
      BY <1>10, <2>2 DEF NetstackStack, Fail
    <2> QED
      BY <1>10, <2>1, <2>2 DEF NetstackStack
  <1>11. CASE AbortRead
    BY <1>11 DEF AbortRead, StopReadServer, ctlVars
  <1>12. CASE AbortClose
    BY <1>12 DEF AbortClose, StopCloseServer, ctlVars
  <1>13. CASE StopRead
    BY <1>13 DEF StopRead, StopReadServer, ctlVars
  <1>14. CASE StopClose
    BY <1>14 DEF StopClose, StopCloseServer, ctlVars
  <1>15. CASE StopDevice
    BY <1>15 DEF StopDevice, ctlVars
  <1>16. CASE StopStack
    BY <1>16 DEF StopStack, ctlVars
  <1>17. CASE ReloadPrepare
    BY <1>17 DEF ReloadPrepare, ctlVars
  <1>18. CASE ReloadReset
    BY <1>18 DEF ReloadReset, ctlVars
  <1>19. CASE ReloadBind
    BY <1>19 DEF ReloadBind, ctlVars
  <1>20. CASE ReloadCommit
    BY <1>20 DEF ReloadCommit, ctlVars
  <1>21. CASE \/ \E s \in Servers : SrvStep(s) \/ SrvAcceptError(s)
              \/ \E x \in Sessions : SessAccept(x) \/ SessDial(x)
                                     \/ SessConnect(x) \/ SessClose(x)
    BY <1>21, OthersLeaveControl DEF ctlVars
  <1>22. CASE UNCHANGED vars
    BY <1>22 DEF vars
  <1> QED
    BY <1>1, <1>2, <1>3, <1>4, <1>5, <1>6, <1>7, <1>8, <1>9, <1>10, <1>11, <1>12, <1>13, <1>14, <1>15, <1>16, <1>17, <1>18, <1>19, <1>20, <1>21, <1>22
       DEF Next, CtlStep

\* Every step keeps the correspondence between pc and what is installed.
LEMMA InstalledStep ==
  TypeOK /\ PhaseInv /\ InstalledInv /\ [Next]_vars => InstalledInv'
  <1> SUFFICES ASSUME TypeOK, PhaseInv, InstalledInv, [Next]_vars PROVE InstalledInv'
    OBVIOUS
  <1> USE KeysAssumption DEF TypeOK, PhaseInv, InstalledInv, Running, StartPCs, AbortPCs, StopPCs, ReloadPCs, PCs
  <1>1. CASE \E k \in Keys : StartOp(k)
    BY <1>1 DEF StartOp, Fail, ctlVars
  <1>2. CASE StopOp
    BY <1>2 DEF StopOp, ctlVars
  <1>3. CASE \E k \in ReloadKeys : ReloadOp(k)
    BY <1>3 DEF ReloadOp, ctlVars
  <1>4. CASE GeneralReset
    BY <1>4 DEF GeneralReset, ctlVars
  <1>5. CASE GeneralBind
    BY <1>5 DEF GeneralBind, Opts, BindOpt, MarkOpt, Fail, ctlVars
  <1>6. CASE GeneralMark
    BY <1>6 DEF GeneralMark, Opts, Fail, ctlVars
  <1>7. CASE RestAPI
    BY <1>7 DEF RestAPI, Fail, ctlVars
  <1>8. CASE NetstackProxy
    BY <1>8 DEF NetstackProxy, Fail, ctlVars
  <1>9. CASE NetstackDevice
    BY <1>9 DEF NetstackDevice, Fail, ctlVars
  <1>10. CASE NetstackStack
    BY <1>10 DEF NetstackStack, Fail, ctlVars
  <1>11. CASE AbortRead
    BY <1>11 DEF AbortRead, StopReadServer, ctlVars
  <1>12. CASE AbortClose
    BY <1>12 DEF AbortClose, StopCloseServer, ctlVars
  <1>13. CASE StopRead
    BY <1>13 DEF StopRead, StopReadServer, ctlVars
  <1>14. CASE StopClose
    BY <1>14 DEF StopClose, StopCloseServer, ctlVars
  <1>15. CASE StopDevice
    BY <1>15 DEF StopDevice, ctlVars
  <1>16. CASE StopStack
    BY <1>16 DEF StopStack, ctlVars
  <1>17. CASE ReloadPrepare
    BY <1>17 DEF ReloadPrepare, ctlVars
  <1>18. CASE ReloadReset
    BY <1>18 DEF ReloadReset, ctlVars
  <1>19. CASE ReloadBind
    BY <1>19 DEF ReloadBind, Opts, BindOpt, MarkOpt, ctlVars
  <1>20. CASE ReloadCommit
    BY <1>20 DEF ReloadCommit, ctlVars
  <1>21. CASE \/ \E s \in Servers : SrvStep(s) \/ SrvAcceptError(s)
              \/ \E x \in Sessions : SessAccept(x) \/ SessDial(x)
                                     \/ SessConnect(x) \/ SessClose(x)
    BY <1>21, OthersLeaveControl DEF ctlVars
  <1>22. CASE UNCHANGED vars
    BY <1>22 DEF vars
  <1> QED
    BY <1>1, <1>2, <1>3, <1>4, <1>5, <1>6, <1>7, <1>8, <1>9, <1>10, <1>11, <1>12, <1>13, <1>14, <1>15, <1>16, <1>17, <1>18, <1>19, <1>20, <1>21, <1>22
       DEF Next, CtlStep

\* Every step keeps the sessions' side.  A session appears only while the stack
\* is live, and then InstalledInv gives the tunnel a key's policy.
LEMMA SessStep ==
  TypeOK /\ PhaseInv /\ InstalledInv /\ SessInv /\ [Next]_vars => SessInv'
  <1> SUFFICES ASSUME TypeOK, PhaseInv, InstalledInv, SessInv, [Next]_vars
               PROVE  SessInv'
    OBVIOUS
  <1> USE KeysAssumption DEF SessInv, SessionHasPolicy
  <1>1. \A k \in Keys : k.policy \notin {NoPolicy, Reject}
    BY DEF KeyShape
  <1>2. tproxy' = tproxy \/ tproxy' \notin {NoPolicy, Reject}
    <2>1. CASE NetstackProxy
      BY <1>1, <2>1 DEF NetstackProxy, TypeOK
    <2>2. CASE ReloadCommit
      BY <1>1, <2>2 DEF ReloadCommit, TypeOK
    <2>3. CASE UNCHANGED vars
      BY <2>3 DEF vars
    <2>4. CASE ~NetstackProxy /\ ~ReloadCommit /\ Next
      BY <2>4, OthersLeaveControl
         DEF Next, CtlStep, ctlVars, StartOp, StopOp, ReloadOp, GeneralReset,
             GeneralBind, GeneralMark, RestAPI, NetstackDevice, NetstackStack,
             AbortRead, AbortClose, StopRead, StopClose, StopReadServer,
             StopCloseServer, StopDevice, StopStack, ReloadPrepare,
             ReloadReset, ReloadBind
    <2> QED
      BY <2>1, <2>2, <2>3, <2>4
  <1>3. CASE UNCHANGED sess
    BY <1>2, <1>3
  <1>4. ASSUME NEW x \in Sessions, SessAccept(x) PROVE SessInv'
    <2>1. tproxy \notin {NoPolicy, Reject}
      BY <1>1, <1>4 DEF SessAccept, InstalledInv, PhaseInv
    <2> QED
      BY <1>4, <2>1 DEF SessAccept, ctlVars, TypeOK, SessType
  <1>5. ASSUME NEW x \in Sessions, SessDial(x) PROVE SessInv'
    BY <1>5 DEF SessDial, ctlVars, TypeOK, SessType
  <1>6. ASSUME NEW x \in Sessions, SessConnect(x) PROVE SessInv'
    BY <1>6 DEF SessConnect, ctlVars, TypeOK, SessType, NoSess
  <1>7. ASSUME NEW x \in Sessions, SessClose(x) PROVE SessInv'
    BY <1>7 DEF SessClose, ctlVars, TypeOK, SessType, NoSess
  <1>8. CASE UNCHANGED vars
    BY <1>3, <1>8 DEF vars
  <1>9. ASSUME Next,
               ~\E x \in Sessions : SessAccept(x) \/ SessDial(x)
                                    \/ SessConnect(x) \/ SessClose(x)
        PROVE  UNCHANGED sess
    BY <1>9 DEF Next, CtlStep, StartOp, StopOp, ReloadOp, GeneralReset,
             GeneralBind, GeneralMark, RestAPI, NetstackProxy, NetstackDevice,
             NetstackStack, AbortRead, AbortClose, StopRead, StopClose,
             StopReadServer, StopCloseServer, StopDevice, StopStack,
             ReloadPrepare, ReloadReset, ReloadBind, ReloadCommit, SrvStep,
             SrvListen, SrvPublish, SrvServe, SrvExit, SrvClear, SrvAcceptError
  <1> QED
    BY <1>3, <1>4, <1>5, <1>6, <1>7, <1>8, <1>9

-----------------------------------------------------------------------------
\* The inductive invariant holds in every reachable state of the engine, of any
\* number of REST goroutines and of any number of sessions.
THEOREM EngineInvariant == Spec => []IInv
  <1>1. IInv /\ [Next]_vars => IInv'
    BY TypeStep, RestStep, PhaseStep, InstalledStep, SessStep DEF IInv
  <1> QED
    BY InitIInv, <1>1, PTL DEF Spec

\* The state of the engine keeps its types.
THEOREM TypeCorrect == Spec => []TypeOK
  <1>1. IInv => TypeOK
    BY DEF IInv
  <1> QED
    BY EngineInvariant, <1>1, PTL

\* A live REST server is always the one _server points to, for any number of
\* successive starts and stops.
THEOREM RestServerTracked == Spec => []ServingIsTracked
  <1>1. IInv => ServingIsTracked
    BY DEF IInv
  <1> QED
    BY EngineInvariant, <1>1, PTL

\* A running engine routes, counts and binds as its key says, after any sequence
\* of starts, stops and reloads, failed ones included.
THEOREM PolicyCorrect == Spec => []PolicyMatchesKey
  <1>1. IInv => PolicyMatchesKey
    BY DEF IInv, PhaseInv, InstalledInv, PolicyMatchesKey, Running
  <1> QED
    BY EngineInvariant, <1>1, PTL

\* Between operations the device is open exactly when the stack is.
THEOREM WholeOrNothing == Spec => []NeverHalfBuilt
  <1>1. IInv => NeverHalfBuilt
    BY DEF IInv, PhaseInv, NeverHalfBuilt
  <1> QED
    BY EngineInvariant, <1>1, PTL

\* No session is dialled through the rejecting default of the tunnel.
THEOREM SessionsConfigured == Spec => []SessionHasPolicy
  <1>1. IInv => SessionHasPolicy
    BY DEF IInv, SessInv
  <1> QED
    BY EngineInvariant, <1>1, PTL
=============================================================================
