---------------------------- MODULE ConfigStore ----------------------------
(***************************************************************************)
(* How the desktop application stores config.json and the rule files        *)
(* (desktop/app.go): normalisation, writeConfigLocked and updateRuleFile    *)
(* up to replaceFileAtomic, one file system call per step, and the start    *)
(* of the application that reads the file back.  Every call may fail, the   *)
(* renames because another program holds the file, and between any two the  *)
(* process may die or the power fail.  Writes come one at a time; edits of  *)
(* the file from outside, and the watcher that applies them, are Desktop's. *)
(*                                                                         *)
(* A rename is durable when it returns; the content of a file is durable    *)
(* once it was synced, and a power failure tears one that was not.  A .bak  *)
(* that cannot be removed cannot be overwritten either, so that the error   *)
(* os.Remove drops comes back from the rename after it.                     *)
(***************************************************************************)
EXTENDS Naturals

CONSTANTS
  Kinds,          \* subset of {"config", "rules"}
  Inputs,         \* configurations as the user, or a file, has them
  Downloads,      \* versions of a rule file
  Absent, Torn    \* no file; an incomplete one

VARIABLES
  kind,
  up,       \* the application runs
  mem,      \* App.cfg, or the rule file downloaded
  err,      \* App.configLoaded is false: the file was not loaded
  cur,      \* config.json, or the rule file
  bak,      \* the same name with .bak
  tmp,      \* the temporary file of the write in progress
  pc,       \* the next file system call, or "apply"
  old,      \* what SaveConfig restores on an error
  split,    \* App.cfg or the file was put back alone, and none saved since
  acked     \* the content last reported as stored

vars == <<kind, up, mem, err, cur, bak, tmp, pc, old, split, acked>>

-----------------------------------------------------------------------------
(***************************************************************************)
(* Normalisation.  Of a proxy only the form of its scheme matters: "bare"   *)
(* has none, "upper" is a known one in capitals, "hostless" is what comes   *)
(* out of s5://.                                                           *)
(***************************************************************************)
\* Mutant: a scheme in capitals is not recognised.
NormalProxyKept(p) == IF p = "bare" THEN "known" ELSE IF p = "s5" THEN "hostless" ELSE p
NormalProxy(p) ==
  IF p \in {"bare", "upper"} THEN "known" ELSE IF p = "s5" THEN "hostless" ELSE p

NormalMode(m) == IF m = "" THEN "global" ELSE IF m = "bypass" THEN "rules" ELSE m

Modes    == {"global", "rules", "direct"}
Valid(c) == NormalMode(c.mode) \in Modes
Normalize(c) ==
  [mode  |-> NormalMode(c.mode),
   route |-> IF c.route \in {"direct", "proxy"} THEN c.route ELSE "proxy",
   proxy |-> NormalProxy(c.proxy)]

Default  == [mode |-> "global", route |-> "proxy", proxy |-> "empty"]
Normal   == [mode : Modes, route : {"direct", "proxy"},
             proxy : {"empty", "known", "hostless", "other"}]
Contents == Normal \cup Inputs \cup Downloads

ASSUME StoreAssumption ==
  /\ Kinds \subseteq {"config", "rules"}
  /\ Inputs \subseteq [mode : STRING, route : STRING,
                       proxy : {"empty", "bare", "upper", "s5", "known", "hostless", "other"}]
  /\ Absent \notin Contents /\ Torn \notin Contents /\ Absent # Torn

-----------------------------------------------------------------------------
File(val, synced) == [val |-> val, synced |-> synced]
None == File(Absent, TRUE)

Init ==
  /\ kind \in Kinds
  /\ up = FALSE
  /\ \E v \in (IF kind = "config" THEN Inputs ELSE Downloads) \cup {Absent} :
       cur = File(v, TRUE)
  /\ bak = None /\ tmp = None
  /\ mem = Default /\ old = Default /\ err = FALSE
  /\ pc = "idle" /\ split = FALSE /\ acked = Absent

\* loadConfigLocked returns no error.
Readable(c) == c \notin {Absent, Torn} /\ Valid(c)

\* startup: the file is loaded, or the first configuration is written, which
\* clears the error when it succeeds.
Start ==
  /\ ~up /\ up' = TRUE /\ split' = FALSE
  /\ LET c == cur.val IN
       IF kind = "config" /\ Readable(c)
       THEN mem' = Normalize(c) /\ err' = FALSE
       ELSE mem' = Default /\ err' = TRUE
  /\ pc' = IF kind = "config" /\ cur.val = Absent THEN "create" ELSE "idle"
  /\ old' = mem'
  /\ UNCHANGED <<kind, cur, bak, tmp, acked>>

\* SaveConfig.
Save ==
  /\ kind = "config" /\ up /\ pc = "idle"
  /\ \E c \in Inputs : Valid(c) /\ mem' = Normalize(c)
  /\ old' = mem /\ pc' = "create"
  /\ UNCHANGED <<kind, up, err, cur, bak, tmp, split, acked>>

\* UpdateGeoIP, UpdateGeoSite.
Update ==
  /\ kind = "rules" /\ up /\ pc = "idle"
  /\ mem' \in Downloads
  /\ pc' = "create"
  /\ UNCHANGED <<kind, up, err, cur, bak, tmp, old, split, acked>>

\* Mutant: SaveConfig keeps the new configuration after an error.
FailKeeps ==
  /\ pc' = "idle" /\ tmp' = None
  /\ UNCHANGED <<kind, up, mem, old, err, acked>>
\* An error return: the deferred os.Remove of the temporary file, and the
\* caller's a.cfg = old.
Fail ==
  /\ pc' = "idle" /\ tmp' = None
  /\ mem' = old
  /\ UNCHANGED <<kind, up, old, err, acked>>

still == <<kind, up, mem, old, err, split, acked>>

Create ==
  /\ pc = "create"
  /\ \/ tmp' = File(Torn, FALSE) /\ pc' = "write" /\ UNCHANGED still
     \/ Fail /\ UNCHANGED split
  /\ UNCHANGED <<cur, bak>>

\* Mutant: the configuration is not synced before it is renamed.
AfterWriteUnsynced == "rename"
\* downloadRuleFile does not sync.
AfterWrite == IF kind = "config" THEN "sync" ELSE "rename"

WriteTmp ==
  /\ pc = "write"
  /\ \/ tmp' = File(mem, FALSE) /\ pc' = AfterWrite /\ UNCHANGED still
     \/ Fail /\ UNCHANGED split
  /\ UNCHANGED <<cur, bak>>

Sync ==
  /\ pc = "sync"
  /\ \/ tmp' = [tmp EXCEPT !.synced = TRUE] /\ pc' = "rename" /\ UNCHANGED still
     \/ Fail /\ UNCHANGED split
  /\ UNCHANGED <<cur, bak>>

-----------------------------------------------------------------------------
(***************************************************************************)
(* replaceFileAtomic.                                                      *)
(***************************************************************************)
Rename ==
  /\ pc = "rename"
  /\ \/ cur' = tmp /\ tmp' = None /\ pc' = "verify"
     \/ pc' = "unlink" /\ UNCHANGED <<cur, tmp>>
  /\ UNCHANGED <<still, bak>>

RemoveBackup ==
  /\ pc = "unlink"
  /\ bak' = None /\ pc' = "backup"
  /\ UNCHANGED <<still, cur, tmp>>

Backup ==
  /\ pc = "backup"
  /\ \/ /\ cur.val # Absent
        /\ bak' = cur /\ cur' = None /\ pc' = "place" /\ UNCHANGED <<still, tmp>>
     \/ /\ cur.val = Absent
        /\ pc' = "place" /\ UNCHANGED <<still, tmp, cur, bak>>
     \/ cur.val # Absent /\ Fail /\ UNCHANGED split /\ UNCHANGED <<cur, bak>>

Place ==
  /\ pc = "place"
  /\ \/ cur' = tmp /\ tmp' = None /\ pc' = "drop"
     \/ pc' = "restore" /\ UNCHANGED <<cur, tmp>>
  /\ UNCHANGED <<still, bak>>

\* The error of renaming the backup back is dropped: the name may be left
\* without a file, and the application goes back to the old configuration.
Restore ==
  /\ pc = "restore"
  /\ \/ bak.val # Absent /\ cur' = bak /\ bak' = None /\ UNCHANGED split
     \/ UNCHANGED <<cur, bak>> /\ split' = TRUE
  /\ Fail

DropBackup ==
  /\ pc = "drop"
  /\ bak' = None /\ pc' = "verify"
  /\ UNCHANGED <<still, cur, tmp>>

\* writeConfigLocked reads the file back; a rule file is not looked at again.
\* SaveConfig then applies what it changed to a running engine.
Verify ==
  /\ pc = "verify"
  /\ \/ /\ cur.val = mem
        /\ \/ pc' = "idle"
           \/ kind = "config" /\ mem # old /\ pc' = "apply"
        /\ split' = FALSE /\ acked' = mem
        /\ err' = (kind = "rules" /\ err)
        /\ UNCHANGED <<kind, up, mem, old, tmp>>
     \/ kind = "config" /\ Fail /\ split' = TRUE
  /\ UNCHANGED <<cur, bak>>

\* applyRunningConfigLocked goes back to the old configuration when the engine
\* neither takes the new one over nor starts with it.  The file keeps the new.
Apply ==
  /\ pc = "apply" /\ pc' = "idle"
  /\ \/ UNCHANGED <<mem, split>>
     \/ mem' = old /\ split' = TRUE
  /\ UNCHANGED <<kind, up, old, err, acked, cur, bak, tmp>>

-----------------------------------------------------------------------------
\* What a power failure leaves of a file.
AfterPowerLoss(f) == IF f.synced THEN f ELSE File(Torn, TRUE)

\* The process dies, or the power fails.
Crash ==
  /\ up /\ up' = FALSE
  /\ pc' = "idle" /\ tmp' = None
  /\ \/ UNCHANGED <<cur, bak>>
     \/ cur' = AfterPowerLoss(cur) /\ bak' = AfterPowerLoss(bak)
  /\ UNCHANGED <<kind, mem, old, err, split, acked>>

Write == \/ Create \/ WriteTmp \/ Sync \/ Rename \/ RemoveBackup \/ Backup
         \/ Place \/ Restore \/ DropBackup \/ Verify
Next == Start \/ Save \/ Update \/ Write \/ Apply \/ Crash

Spec == Init /\ [][Next]_vars

-----------------------------------------------------------------------------
\* Type invariant; what the application holds is in normal form, so that
\* reading back what it wrote gives the same configuration.
TypeOK ==
  /\ mem \in Normal \cup Downloads /\ old \in Normal \cup Downloads
  /\ \A f \in {cur, bak, tmp} :
       f.val \in Contents \cup {Absent, Torn} /\ f.synced \in BOOLEAN
  /\ up \in BOOLEAN /\ err \in BOOLEAN /\ split \in BOOLEAN
  /\ pc \in {"idle", "create", "write", "sync", "rename", "unlink", "backup",
             "place", "restore", "drop", "verify", "apply"}
  /\ acked \in Contents \cup {Absent}

\* A rule file or config.json is replaced as a whole by the write in progress,
\* or left alone, and a write that reports success has replaced it, whatever
\* call of replaceFileAtomic or of its callers fails and whenever the process
\* dies or the power fails.  Two things can go wrong, and no others.  A write
\* given up between the two renames of the fallback, by a crash or because
\* neither of them can be done again, leaves the old content in the .bak only,
\* which nothing reads (app.go:517-522).  And a power failure tears a rule file
\* that downloadRuleFile wrote (app.go:574-582), but never config.json.
Aside   == pc \in {"place", "restore"}
Pending == IF pc \in {"idle", "apply"} THEN Absent ELSE mem
File_ == INSTANCE AtomicFile WITH
  value   <- IF Aside THEN bak.val ELSE cur.val,
  durable <- IF Aside THEN bak.synced ELSE cur.synced,
  pending <- Pending, aside <- Aside, acked <- acked, syncs <- (kind = "config")
ImplementsAtomicFile == File_!Spec

\* Between saves config.json holds what App.cfg holds, whatever call of a save
\* failed, with three exceptions that last until the next save that succeeds, or
\* the next start: the file read back was not what had been written, the .bak
\* could not be put back (app.go:521), and the running engine did not take over
\* what was saved (app.go:293, 300).
MemoryAgrees ==
  kind = "config" /\ up /\ ~err /\ pc = "idle" /\ ~split =>
    /\ Valid(cur.val)
    /\ Normalize(cur.val) = mem
=============================================================================
