------------------------- MODULE ConfigStoreProofs --------------------------
(***************************************************************************)
(* Theorems about ConfigStore, for any configurations, any versions of the *)
(* rule files and any number of writes and crashes.                        *)
(***************************************************************************)
EXTENDS ConfigStore, TLAPS

\* What a file of either kind can hold.
Settings == Inputs \cup Normal \cup {Absent, Torn}
FileType == [val : Contents \cup {Absent, Torn}, synced : BOOLEAN]
Held(f)  == f \in FileType /\ (kind = "config" => f.val \in Settings)

PCs == {"idle", "create", "write", "sync", "rename", "unlink", "backup",
        "place", "restore", "drop", "verify", "apply"}

Types ==
  /\ kind \in {"config", "rules"}
  /\ up \in BOOLEAN /\ err \in BOOLEAN /\ split \in BOOLEAN
  /\ pc \in PCs /\ acked \in Contents \cup {Absent}
  /\ mem \in Normal \cup Downloads /\ old \in Normal \cup Downloads
  /\ kind = "config" => mem \in Normal /\ old \in Normal
  /\ Held(cur) /\ Held(bak) /\ Held(tmp)

\* Where the content being written is, at each call.
WriteInv ==
  /\ ~up => pc = "idle"
  /\ pc \in {"sync", "rename", "unlink", "backup", "place"} => tmp.val = mem
  /\ pc \in {"rename", "unlink", "backup", "place"} =>
       (kind = "config" => tmp.synced) /\ (kind = "rules" => ~tmp.synced)
  /\ pc = "sync" => kind = "config"
  /\ kind = "config" => cur.synced /\ bak.synced
  /\ pc = "backup" => bak = None
  /\ pc \in {"place", "restore"} => cur.val = Absent
  /\ cur.val = Absent => cur.synced

\* What the file says until it is replaced: what the application goes back to
\* when the write fails.
Says(v, c) == Valid(v) /\ Normalize(v) = c
MemInv ==
  kind = "config" /\ up /\ ~err /\ ~split =>
    /\ pc \in {"idle", "apply"} => Says(cur.val, mem)
    /\ pc \in {"create", "write", "sync", "rename", "unlink", "backup"} => Says(cur.val, old)
    /\ pc \in {"place", "restore"} => Says(bak.val, old)

IInv == Types /\ WriteInv /\ MemInv

-----------------------------------------------------------------------------
\* Normalisation gives a normal form of every configuration it accepts.
LEMMA NormalForm ==
  ASSUME NEW c \in Inputs \cup Normal, Valid(c)
  PROVE  Normalize(c) \in Normal
  <1>1. c.proxy \in {"empty", "bare", "upper", "s5", "known", "hostless", "other"}
    BY StoreAssumption DEF Normal
  <1>2. NormalProxy(c.proxy) \in {"empty", "known", "hostless", "other"}
    BY <1>1 DEF NormalProxy
  <1> QED
    BY <1>2 DEF Normalize, Valid, Normal

\* A normal form is accepted and normalisation leaves it alone.
LEMMA NormalStays ==
  ASSUME NEW c \in Normal
  PROVE  Says(c, c)
  <1>1. NormalMode(c.mode) = c.mode /\ c.mode \in Modes
    BY DEF Normal, NormalMode, Modes
  <1>2. NormalProxy(c.proxy) = c.proxy
    BY DEF Normal, NormalProxy
  <1>3. Normalize(c) = [mode |-> c.mode, route |-> c.route, proxy |-> c.proxy]
    BY <1>1, <1>2 DEF Normalize, Normal
  <1> QED
    BY <1>1, <1>3 DEF Says, Valid, Normal

LEMMA DefaultNormal == Default \in Normal
  BY DEF Default, Normal, Modes

\* File(v, b) is a file if v can be its content.
LEMMA FileHeld ==
  ASSUME NEW v \in Contents \cup {Absent, Torn}, NEW b \in BOOLEAN,
         kind = "config" => v \in Settings
  PROVE  Held(File(v, b)) /\ File(v, b).val = v /\ File(v, b).synced = b
  BY DEF File, Held, FileType

\* The same of no file, and of what a power failure leaves.
LEMMA NoneHeld == Held(None) /\ None.val = Absent /\ None.synced
  BY DEF None, File, Held, FileType, Settings

LEMMA TornHeld ==
  ASSUME NEW f, Held(f)
  PROVE  Held(AfterPowerLoss(f)) /\ (f.synced => AfterPowerLoss(f) = f)
  BY DEF AfterPowerLoss, File, Held, FileType, Settings

-----------------------------------------------------------------------------
LEMMA InitIInv == Init => IInv
  <1> SUFFICES ASSUME Init PROVE IInv
    OBVIOUS
  <1>1. kind \in {"config", "rules"}
    BY StoreAssumption DEF Init
  <1>2. PICK v \in (IF kind = "config" THEN Inputs ELSE Downloads) \cup {Absent} :
          cur = File(v, TRUE)
    BY DEF Init
  <1>3. Held(cur) /\ cur.synced
    BY <1>2, FileHeld DEF Contents, Settings
  <1>4. Types
    BY <1>1, <1>3, NoneHeld, DefaultNormal DEF Init, Types, PCs
  <1>5. WriteInv /\ MemInv
    BY <1>3, NoneHeld DEF Init, WriteInv, MemInv
  <1> QED
    BY <1>4, <1>5 DEF IInv

\* Every step keeps the types; what is renamed into place is a file.
LEMMA TypeStep == Types /\ [Next]_vars => Types'
  <1> SUFFICES ASSUME Types, [Next]_vars PROVE Types'
    OBVIOUS
  <1> USE DEF Types, PCs, still
  <1>0. Held(None) /\ Held(File(Torn, FALSE))
    BY NoneHeld, FileHeld DEF Settings
  <1>1. CASE Start
    <2>1. kind = "config" /\ Readable(cur.val) => Normalize(cur.val) \in Normal
      BY NormalForm DEF Readable, Held, Settings
    <2>2. mem' \in Normal
      BY <1>1, <2>1, DefaultNormal DEF Start
    <2>3. pc' \in {"create", "idle"} /\ err' \in BOOLEAN
      BY <1>1 DEF Start
    <2>4. old' = mem' /\ up' = TRUE /\ split' = FALSE
          /\ UNCHANGED <<kind, cur, bak, tmp, acked>>
      BY <1>1 DEF Start
    <2> QED
      BY <2>2, <2>3, <2>4 DEF Held
  <1>2. CASE Save
    <2>1. mem' \in Normal
      BY <1>2, NormalForm DEF Save
    <2> QED
      BY <1>2, <2>1 DEF Save, Held
  <1>3. CASE Update
    BY <1>3 DEF Update, Held
  <1>4. CASE Create
    BY <1>4, <1>0 DEF Create, Fail, Held
  <1>5. CASE WriteTmp
    <2>1. Held(File(mem, FALSE))
      BY FileHeld DEF Contents, Settings
    <2> QED
      BY <1>5, <1>0, <2>1 DEF WriteTmp, AfterWrite, Fail, Held
  <1>6. CASE Sync
    <2>1. Held([tmp EXCEPT !.synced = TRUE])
      BY DEF Held, FileType
    <2> QED
      BY <1>6, <1>0, <2>1 DEF Sync, Fail, Held
  <1>7. CASE Rename
    BY <1>7, <1>0 DEF Rename, Held
  <1>8. CASE RemoveBackup
    BY <1>8, <1>0 DEF RemoveBackup, Held
  <1>9. CASE Backup
    BY <1>9, <1>0 DEF Backup, Fail, Held
  <1>10. CASE Place
    BY <1>10, <1>0 DEF Place, Held
  <1>11. CASE Restore
    BY <1>11, <1>0 DEF Restore, Fail, Held
  <1>12. CASE DropBackup
    BY <1>12, <1>0 DEF DropBackup, Held
  <1>13. CASE Verify
    BY <1>13, <1>0 DEF Verify, Fail, Held, Contents
  <1>14. CASE Crash
    BY <1>14, <1>0, TornHeld DEF Crash, Held
  <1>15. CASE UNCHANGED vars
    BY <1>15 DEF vars, Held
  <1>16. CASE Apply
    BY <1>16 DEF Apply, Held
  <1> QED
    BY <1>1, <1>2, <1>3, <1>4, <1>5, <1>6, <1>7, <1>8, <1>9, <1>10, <1>11, <1>12, <1>13,
       <1>14, <1>15, <1>16 DEF Next, Write

\* Every step keeps the content being written where the next call looks for it.
LEMMA WriteStep == Types /\ WriteInv /\ [Next]_vars => WriteInv'
  <1> SUFFICES ASSUME Types, WriteInv, [Next]_vars PROVE WriteInv'
    OBVIOUS
  <1> USE DEF WriteInv, still
  <1>0. mem # Absent /\ kind \in {"config", "rules"} /\ Torn # Absent
    BY StoreAssumption DEF Types, Contents
  <1>1. CASE Start
    BY <1>1 DEF Start
  <1>2. CASE Save
    BY <1>2 DEF Save
  <1>3. CASE Update
    BY <1>3 DEF Update
  <1>4. CASE Create
    BY <1>4 DEF Create, Fail
  <1>5. CASE WriteTmp
    BY <1>0, <1>5 DEF WriteTmp, AfterWrite, Fail, File
  <1>6. CASE Sync
    BY <1>0, <1>6 DEF Sync, Fail, Types, Held, FileType
  <1>7. CASE Rename
    BY <1>0, <1>7 DEF Rename
  <1>8. CASE RemoveBackup
    BY <1>8, NoneHeld DEF RemoveBackup
  <1>9. CASE Backup
    BY <1>9, NoneHeld DEF Backup, Fail
  <1>10. CASE Place
    BY <1>0, <1>10 DEF Place
  <1>11. CASE Restore
    BY <1>11, NoneHeld DEF Restore, Fail
  <1>12. CASE DropBackup
    BY <1>12, NoneHeld DEF DropBackup
  <1>13. CASE Verify
    BY <1>13 DEF Verify, Fail
  <1>14. CASE Crash
    BY <1>0, <1>14, TornHeld DEF Crash, Types, AfterPowerLoss, File
  <1>15. CASE UNCHANGED vars
    BY <1>15 DEF vars
  <1>16. CASE Apply
    BY <1>16 DEF Apply
  <1> QED
    BY <1>1, <1>2, <1>3, <1>4, <1>5, <1>6, <1>7, <1>8, <1>9, <1>10, <1>11, <1>12, <1>13,
       <1>14, <1>15, <1>16 DEF Next, Write

\* Every step keeps what the application goes back to in the file.
LEMMA MemStep == Types /\ WriteInv /\ MemInv /\ [Next]_vars => MemInv'
  <1> SUFFICES ASSUME Types, WriteInv, MemInv, [Next]_vars PROVE MemInv'
    OBVIOUS
  <1> USE DEF MemInv, WriteInv, still, Types, PCs
  <1>1. CASE Start
    BY <1>1 DEF Start, Readable, Says
  <1>2. CASE Save
    BY <1>2 DEF Save
  <1>3. CASE Update
    BY <1>3 DEF Update
  <1>4. CASE Create
    BY <1>4 DEF Create, Fail
  <1>5. CASE WriteTmp
    BY <1>5 DEF WriteTmp, AfterWrite, Fail
  <1>6. CASE Sync
    BY <1>6 DEF Sync, Fail
  <1>7. CASE Rename
    BY <1>7 DEF Rename
  <1>8. CASE RemoveBackup
    BY <1>8 DEF RemoveBackup
  <1>9. CASE Backup
    <2>1. Absent \in Settings /\ Absent \notin Normal
      BY StoreAssumption DEF Settings, Contents
    <2>2. CASE pc' = "place"
      BY <1>9, <2>1, <2>2, NoneHeld DEF Backup, Fail
    <2>3. CASE Fail /\ UNCHANGED <<cur, bak, split>>
      BY <1>9, <2>3 DEF Backup, Fail
    <2> QED
      BY <1>9, <2>2, <2>3 DEF Backup
  <1>10. CASE Place
    BY <1>10 DEF Place
  <1>11. CASE Restore
    BY <1>11 DEF Restore, Fail
  <1>12. CASE DropBackup
    BY <1>12 DEF DropBackup
  <1>13. CASE Verify
    BY <1>13, NormalStays DEF Verify, Fail
  <1>14. CASE Crash
    BY <1>14 DEF Crash
  <1>15. CASE UNCHANGED vars
    BY <1>15 DEF vars
  <1>16. CASE Apply
    BY <1>16 DEF Apply
  <1> QED
    BY <1>1, <1>2, <1>3, <1>4, <1>5, <1>6, <1>7, <1>8, <1>9, <1>10, <1>11, <1>12, <1>13,
       <1>14, <1>15, <1>16 DEF Next, Write

THEOREM StoreInvariant == Spec => []IInv
  <1>1. IInv /\ [Next]_vars => IInv'
    BY TypeStep, WriteStep, MemStep DEF IInv
  <1> QED
    BY InitIInv, <1>1, PTL DEF Spec

-----------------------------------------------------------------------------
\* What the application holds is always a normal form.
THEOREM TypeCorrect == Spec => []TypeOK
  <1>1. IInv => TypeOK
    BY DEF IInv, Types, TypeOK, Held, FileType, PCs
  <1> QED
    BY StoreInvariant, <1>1, PTL

\* Between saves config.json says what the application holds, whatever call of a
\* save failed, except where the verification failed, the .bak could not be put
\* back, or the engine did not take over what was saved.
THEOREM FileFollowsMemory == Spec => []MemoryAgrees
  <1>1. IInv => MemoryAgrees
    BY DEF IInv, MemInv, MemoryAgrees, Says
  <1> QED
    BY StoreInvariant, <1>1, PTL

\* A step of a write is a step of the abstract file, or none.
LEMMA FileStep == IInv /\ IInv' /\ [Next]_vars => [File_!Next]_(File_!vars)
  <1> SUFFICES ASSUME IInv, IInv', [Next]_vars PROVE [File_!Next]_(File_!vars)
    OBVIOUS
  <1> USE DEF Aside, Pending, still
  <1>0. /\ mem \in Contents /\ mem # Absent /\ mem' \in Contents /\ mem' # Absent
        /\ pc \in PCs
    BY StoreAssumption DEF IInv, Types, Contents
  <1>. tmp.synced = (kind = "config") \/ pc \notin {"rename", "place"}
    BY DEF IInv, Types, WriteInv, Held, FileType
  <1>1. ASSUME Fail, ~Aside, UNCHANGED cur PROVE File_!Abort
    BY <1>1 DEF Fail, File_!Abort, File_!Stopped
  <1>2. ASSUME pc \notin {"idle", "apply"}, pc' \notin {"idle", "apply"},
               ~Aside, ~Aside', UNCHANGED <<kind, mem, acked, cur>>
        PROVE  UNCHANGED File_!vars
    BY <1>2 DEF File_!vars
  <1>3. CASE Start
    <2>1. /\ pc = "idle" /\ pc' \in {"idle", "create"}
          /\ UNCHANGED <<kind, cur, bak, acked>>
      BY <1>3 DEF Start, IInv, WriteInv
    <2>2. CASE pc' = "idle"
      BY <2>1, <2>2 DEF File_!vars
    <2>3. CASE pc' = "create"
      BY <1>0, <2>1, <2>3 DEF File_!Next, File_!Begin
    <2> QED
      BY <2>1, <2>2, <2>3
  <1>4. CASE Save
    BY <1>0, <1>4 DEF Save, File_!Next, File_!Begin
  <1>5. CASE Update
    BY <1>0, <1>5 DEF Update, File_!Next, File_!Begin
  <1>6. CASE Create
    BY <1>1, <1>2, <1>6 DEF Create, Fail, File_!Next
  <1>7. CASE WriteTmp
    BY <1>1, <1>2, <1>7 DEF WriteTmp, AfterWrite, Fail, File_!Next
  <1>8. CASE Sync
    BY <1>1, <1>2, <1>8 DEF Sync, Fail, File_!Next
  <1>9. CASE Rename
    <2>1. CASE cur' = tmp /\ pc' = "verify"
      BY <1>0, <1>9, <2>1 DEF Rename, IInv, WriteInv, File_!Next, File_!Store
    <2>2. CASE pc' = "unlink" /\ UNCHANGED cur
      BY <1>2, <1>9, <2>2 DEF Rename
    <2> QED
      BY <1>9, <2>1, <2>2 DEF Rename
  <1>10. CASE RemoveBackup
    BY <1>2, <1>10 DEF RemoveBackup
  <1>11. CASE Backup
    <2>1. CASE pc' = "place"
      <3>1. bak' = cur \/ (bak'.val = cur.val /\ bak'.synced = cur.synced)
        <4>1. CASE bak' = cur
          BY <4>1
        <4>2. CASE cur.val = Absent /\ bak' = bak
          <5>1. bak = None /\ cur.synced
            BY <1>11, <4>2 DEF Backup, IInv, WriteInv
          <5>2. cur.synced \in BOOLEAN /\ None.synced \in BOOLEAN
            BY NoneHeld DEF IInv, Types, Held, FileType
          <5> QED
            BY <4>2, <5>1, <5>2, NoneHeld
        <4> QED
          BY <1>11, <2>1, <4>1, <4>2 DEF Backup, Fail
      <3>2. bak'.val = cur.val /\ bak'.synced = cur.synced
        BY <3>1
      <3>3. /\ pc = "backup" /\ UNCHANGED <<kind, mem, acked>>
        BY <1>11, <2>1 DEF Backup, Fail
      <3> QED
        BY <1>0, <2>1, <3>2, <3>3 DEF File_!Next, File_!SetAside
    <2>2. CASE Fail /\ UNCHANGED cur
      BY <1>1, <1>11, <2>2 DEF Backup, File_!Next
    <2> QED
      BY <1>11, <2>1, <2>2 DEF Backup
  <1>12. CASE Place
    <2>1. CASE cur' = tmp /\ pc' = "drop"
      BY <1>0, <1>12, <2>1 DEF Place, IInv, WriteInv, File_!Next, File_!Store
    <2>2. CASE pc' = "restore" /\ UNCHANGED cur
      BY <1>12, <2>2 DEF Place, File_!vars
    <2> QED
      BY <1>12, <2>1, <2>2 DEF Place
  <1>13. CASE Restore
    <2>1. CASE cur' = bak
      BY <1>13, <2>1 DEF Restore, Fail, File_!Next, File_!Abort, File_!Stopped
    <2>2. CASE UNCHANGED cur
      BY <1>13, <2>2 DEF Restore, Fail, IInv, WriteInv, File_!Next, File_!Lose, File_!Stopped
    <2> QED
      BY <1>13, <2>1, <2>2 DEF Restore
  <1>14. CASE DropBackup
    BY <1>2, <1>14 DEF DropBackup
  <1>15. CASE Verify
    <2>1. CASE cur.val = mem /\ pc' \in {"idle", "apply"} /\ acked' = mem
               /\ UNCHANGED <<kind, mem, cur>>
      BY <1>0, <1>15, <2>1 DEF Verify, File_!Next, File_!Ack
    <2>2. CASE Fail /\ UNCHANGED cur
      BY <1>1, <1>15, <2>2 DEF Verify, File_!Next
    <2> QED
      BY <1>15, <2>1, <2>2 DEF Verify
  <1>16. CASE Apply
    BY <1>16 DEF Apply, File_!vars
  <1>17. CASE Crash
    <2>0. pc' = "idle" /\ UNCHANGED <<kind, acked>>
      BY <1>17 DEF Crash
    <2>1. CASE Aside
      BY <2>0, <2>1, <1>17, TornHeld
         DEF Crash, AfterPowerLoss, File, IInv, Types, WriteInv, File_!Next, File_!Lose, File_!Stopped
    <2>2. CASE ~Aside /\ cur' = cur
      BY <2>0, <2>2 DEF File_!Next, File_!Abort, File_!Stopped
    <2>3. CASE ~Aside /\ cur' # cur
      BY <2>0, <2>3, <1>17
         DEF Crash, AfterPowerLoss, File, File_!Next, File_!Tear, File_!Stopped
    <2> QED
      BY <2>1, <2>2, <2>3
  <1>18. CASE UNCHANGED vars
    BY <1>18 DEF vars, File_!vars
  <1> QED
    BY <1>3, <1>4, <1>5, <1>6, <1>7, <1>8, <1>9, <1>10, <1>11, <1>12, <1>13, <1>14, <1>15,
       <1>16, <1>17, <1>18 DEF Next, Write

\* The writes of config.json and of the rule files implement a file that is
\* replaced as a whole or left alone, for any contents, any number of writes and
\* any calls that fail, crashes and power failures, except that a write given up
\* between its two renames leaves the name without a file, and that a power
\* failure tears a rule file, which is never synced.
THEOREM ReplacedAsAWhole == Spec => ImplementsAtomicFile
  <1>1. Init => File_!Init
    BY DEF Init, File_!Init, Aside, Pending, File, None, Contents
  <1>2. IInv /\ IInv' /\ [Next]_vars => [File_!Next]_(File_!vars)
    BY FileStep
  <1> QED
    BY StoreInvariant, <1>1, <1>2, PTL DEF Spec, ImplementsAtomicFile, File_!Spec
=============================================================================
