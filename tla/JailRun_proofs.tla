---------------------------- MODULE JailRun_proofs ----------------------------
(***************************************************************************)
(* Proofs about JailRun, for any number of runs, clients and collectors.   *)
(***************************************************************************)
EXTENDS JailRun, TLAPS

-----------------------------------------------------------------------------
(* Types.                                                                  *)

\* reconcile() returns names and datasets it was given.
LEMMA OrphansType ==
    ASSUME NEW js \in (SUBSET Names) \cup {Unknown}, NEW rs \in Ledger \cup {Unknown},
           NEW ds, ds \in SUBSET Runs \/ ds = Unknown
    PROVE  Orphans(js, rs, ds) \in Fixes
BY DEF Orphans, Fixes, NoFixes, StaleRows, OrphanJails, OrphanDatasets

\* record_exit() keeps every row a row.
LEMMA RecordExitType ==
    ASSUME rows \in Ledger, NEW n \in Names, NEW s \in {"exited", "killed"},
           RecordExit(n, s)
    PROVE  rows' \in Ledger
<1>1. CASE rows' = [rows EXCEPT ![n].status = IF @ = "none" THEN @ ELSE s]
  <2>1. rows'[n] \in Row \cup {NoRow}
    BY <1>1 DEF Ledger, Row, NoRow
  <2>. QED BY <1>1, <2>1 DEF Ledger
<1>. QED BY <1>1 DEF RecordExit

LEMMA RecordStartType ==
    ASSUME rows \in Ledger, NEW n \in Names, NEW r \in Runs, RecordStart(n, r)
    PROVE  rows' \in Ledger
BY DEF RecordStart, Ledger, Row

LEMMA RemoveJailType ==
    ASSUME jails \in [Names -> Runs \cup {NoRun}], NEW n \in Names, RemoveJail(n)
    PROVE  jails' \in [Names -> Runs \cup {NoRun}]
BY DEF RemoveJail

LEMMA RemoveJailAndMountsType ==
    ASSUME TypeOK, NEW r \in Runs, RemoveJailAndMounts(r)
    PROVE  /\ jails' \in [Names -> Runs \cup {NoRun}]
           /\ mounts' \in [Runs -> SUBSET Mount]
<1>1. name[r] \in Names
  BY DEF TypeOK
<1>2. mounts' = [mounts EXCEPT ![r] = @ \ {"dev"}] \/ mounts' = mounts
  BY DEF RemoveJailAndMounts, TypeOK
<1>. QED BY <1>1, <1>2, RemoveJailType DEF RemoveJailAndMounts, TypeOK

\* Mounting binds, all or some of them, and unmounting them keeps the mounts typed.
LEMMA BindsType ==
    ASSUME TypeOK, NEW r \in Runs, NEW binds \in SUBSET Bind,
           Bound(r, binds) \/ PartlyBound(r, binds) \/ Unbound(r)
    PROVE  mounts' \in [Runs -> SUBSET Mount]
<1>1. PICK m \in SUBSET Bind :
          \/ mounts' = [mounts EXCEPT ![r] = @ \cup m]
          \/ mounts' = [mounts EXCEPT ![r] = (@ \ Bind) \cup m]
  BY DEF Bound, PartlyBound, Unbound
<1>2. mounts[r] \cup m \in SUBSET Mount /\ (mounts[r] \ Bind) \cup m \in SUBSET Mount
  BY DEF TypeOK, Mount
<1>. QED BY <1>1, <1>2 DEF TypeOK

LEMMA DestroyRootfsType ==
    ASSUME datasets \in SUBSET Runs, lost \in SUBSET (Runs \X {"rootfs", "volume"}),
           NEW d \in Runs, DestroyRootfs(d) \/ DestroyDataset(d)
    PROVE  /\ datasets' \in SUBSET Runs
           /\ lost' \in SUBSET (Runs \X {"rootfs", "volume"})
<1>1. CASE ZfsDestroy(d) \/ ZfsDestroyRecursive(d)
  BY <1>1 DEF ZfsDestroy, ZfsDestroyRecursive
<1>2. CASE RemoveTree(d)
  <2>1. datasets' \in SUBSET Runs
    BY <1>2 DEF RemoveTree
  <2>2. PICK hit \in SUBSET (mounts[d] \cap {"volume"}) :
            lost' = lost \cup ({d} \X ({"rootfs"} \cup hit))
    BY <1>2 DEF RemoveTree
  <2>3. hit \subseteq {"volume"}
    OBVIOUS
  <2>4. {d} \X ({"rootfs"} \cup hit) \subseteq Runs \X {"rootfs", "volume"}
    BY <2>3
  <2>. QED BY <2>1, <2>2, <2>4
<1>. QED BY <1>1, <1>2 DEF DestroyRootfs, DestroyDataset

\* Destroying a rootfs makes no snapshot and no image.
LEMMA DestroyUncommits ==
    ASSUME NEW d, DestroyDataset(d)
    PROVE  committed' \in {committed, committed \ {<<d, "snapshot">>}}
BY DEF DestroyDataset, ZfsDestroyRecursive

\* A step of a run keeps every variable in its type.
LEMMA RunStepType ==
    ASSUME TypeOK, NEW r \in Runs, Begin(r) \/ RunStep(r) \/ Crash(r)
    PROVE  TypeOK'
<1>. USE DEF TypeOK, Goto, Reach, PC, Stage
<1>1. CASE Begin(r)
  <2>1. PICK n \in Names : name' = [name EXCEPT ![r] = n]
    BY <1>1 DEF Begin, BeginForeground, BeginDetached, BeginNamed, Names, OwnName, FreshName
  <2>. QED BY <1>1, <2>1 DEF Begin, BeginForeground, BeginDetached, BeginNamed
<1>2. CASE CheckLedger(r)
  BY <1>2 DEF CheckLedger
<1>3. CASE Clone(r) \/ ThinRootfs(r) \/ CloneFails(r)
  <2>1. {"base"} \in SUBSET Bind /\ {} \in SUBSET Bind
    BY DEF Bind
  <2>. QED BY <1>3, <2>1, BindsType DEF Clone, ThinRootfs, CloneFails
<1>4. CASE Prepare(r) \/ PrepareFails(r)
  <2>1. opt[r].binds \in SUBSET Bind
    BY OptionsAssumption DEF RunOptions
  <2>. QED BY <1>4, <2>1, BindsType DEF Prepare, PrepareFails
<1>5. CASE CreateJail(r) \/ CreateJailFails(r)
  BY <1>5 DEF CreateJail, CreateJailFails, Mount
<1>6. CASE RecordRun(r) \/ JailSetupFails(r)
  BY <1>6, RecordStartType DEF RecordRun, JailSetupFails
<1>7. CASE ExecReturns(r) \/ ExecTimesOut(r) \/ ExecRaises(r) \/ Teardown(r)
  BY <1>7, RemoveJailAndMountsType DEF ExecReturns, ExecTimesOut, ExecRaises, Teardown
<1>8. CASE RecordRunExit(r)
  BY <1>8, RecordExitType DEF RecordRunExit
<1>9. CASE Release(r)
  <2>1. mounts' \in [Runs -> SUBSET Mount]
    BY <1>9, BindsType DEF Release
  <2>. QED BY <1>9, <2>1, RemoveJailType DEF Release
<1>10. CASE Reclaim(r)
  BY <1>10, DestroyRootfsType DEF Reclaim
<1>11. CASE Crash(r)
  BY <1>11 DEF Crash
<1>. QED BY <1>1, <1>2, <1>3, <1>4, <1>5, <1>6, <1>7, <1>8, <1>9, <1>10, <1>11 DEF RunStep

\* A step of a client keeps every variable in its type.
LEMMA ClientStepType ==
    ASSUME TypeOK, NEW k \in Clients, ClientStep(k)
    PROVE  TypeOK'
<1>. USE DEF TypeOK, runVars
<1>1. NoCmd \in Cmd /\ cmd[k] \in Cmd
  BY DEF Cmd
<1>2. cmd[k].pc # "idle" => cmd[k].name \in Names
  BY <1>1 DEF Cmd, NoCmd
<1>3. CASE StopBegin(k) \/ RmBegin(k) \/ ExecBegin(k)
  <2>1. CASE StopBegin(k)
    <3>1. PICK n \in Names, stop \in Commands :
              cmd' = [cmd EXCEPT ![k] = [NoCmd EXCEPT !.pc = "stop", !.name = n,
                                                      !.rm = (stop = "stop --rm")]]
      BY <2>1 DEF StopBegin
    <3>2. [NoCmd EXCEPT !.pc = "stop", !.name = n, !.rm = (stop = "stop --rm")] \in Cmd
      BY DEF NoCmd, Cmd
    <3>. QED BY <2>1, <3>1, <3>2 DEF StopBegin
  <2>2. CASE RmBegin(k)
    <3>1. PICK n \in Names :
              cmd' = [cmd EXCEPT ![k] = [NoCmd EXCEPT !.pc = "lookup", !.name = n]]
      BY <2>2 DEF RmBegin
    <3>2. [NoCmd EXCEPT !.pc = "lookup", !.name = n] \in Cmd
      BY DEF NoCmd, Cmd
    <3>. QED BY <2>2, <3>1, <3>2 DEF RmBegin
  <2>3. CASE ExecBegin(k)
    <3>1. PICK n \in Names :
              cmd' = [cmd EXCEPT ![k] = [NoCmd EXCEPT !.pc = "exec", !.name = n]]
      BY <2>3 DEF ExecBegin
    <3>2. [NoCmd EXCEPT !.pc = "exec", !.name = n] \in Cmd
      BY DEF NoCmd, Cmd
    <3>. QED BY <2>3, <3>1, <3>2 DEF ExecBegin
  <2>. QED BY <1>3, <2>1, <2>2, <2>3
<1>4. CASE StopRemove(k)
  <2>1. [cmd[k] EXCEPT !.pc = "record"] \in Cmd
    BY <1>1, <1>4 DEF StopRemove, Cmd, NoCmd
  <2>. QED BY <1>1, <1>2, <1>4, <2>1, RemoveJailType DEF StopRemove
<1>5. CASE StopRecord(k)
  <2>1. rows' \in Ledger
    BY <1>2, <1>5, RecordExitType DEF StopRecord
  <2>2. [cmd[k] EXCEPT !.pc = "lookup"] \in Cmd
    BY <1>1, <1>5 DEF StopRecord, Cmd, NoCmd
  <2>. QED BY <1>1, <1>5, <2>1, <2>2 DEF StopRecord
<1>6. CASE Lookup(k)
  <2>1. PICK c \in Cmd : cmd' = [cmd EXCEPT ![k] = c]
    <3>1. CASE cmd' = [cmd EXCEPT ![k] = NoCmd]
      BY <1>1, <3>1
    <3>2. CASE rows[cmd[k].name] # NoRow
               /\ cmd' = [cmd EXCEPT ![k].pc = "destroy",
                                     ![k].target = rows[cmd[k].name].dataset]
      <4>1. rows[cmd[k].name].dataset \in Runs
        BY <1>2, <1>6, <3>2 DEF Lookup, Ledger, Row
      <4>2. PICK q \in [pc: {"lookup"}, name: Names, rm: BOOLEAN, target: {NoRun}] : cmd[k] = q
        BY <1>1, <1>6 DEF Lookup, Cmd, NoCmd
      <4>3. [q EXCEPT !.pc = "destroy", !.target = rows[q.name].dataset] \in Cmd
        BY <4>1, <4>2 DEF Cmd
      <4>4. cmd' = [cmd EXCEPT ![k] = [q EXCEPT !.pc = "destroy",
                                                !.target = rows[q.name].dataset]]
        BY <3>2, <4>2
      <4>. QED BY <4>3, <4>4
    <3>. QED BY <1>6, <3>1, <3>2 DEF Lookup
  <2>. QED BY <1>6, <2>1 DEF Lookup
<1>7. CASE DestroyTarget(k)
  <2>1. cmd[k].target \in Runs
    BY <1>1, <1>7 DEF DestroyTarget, Cmd, NoCmd
  <2>2. committed' \in SUBSET (Runs \X {"snapshot", "image"})
    BY <1>7, DestroyUncommits DEF DestroyTarget
  <2>. QED BY <1>1, <1>7, <2>1, <2>2, DestroyRootfsType DEF DestroyTarget
<1>8. CASE ExecExpires(k)
  BY <1>1, <1>2, <1>8, RemoveJailType DEF ExecExpires
<1>9. CASE CommitBegin(k)
  <2>1. PICK n \in Names :
            /\ rows[n] # NoRow
            /\ cmd' = [cmd EXCEPT ![k] = [NoCmd EXCEPT !.pc = "commit", !.name = n,
                                                       !.target = rows[n].dataset]]
    BY <1>9 DEF CommitBegin
  <2>2. rows[n].dataset \in Runs
    BY <2>1 DEF Ledger, Row
  <2>3. [NoCmd EXCEPT !.pc = "commit", !.name = n, !.target = rows[n].dataset] \in Cmd
    BY <2>2 DEF NoCmd, Cmd
  <2>. QED BY <1>9, <2>1, <2>3 DEF CommitBegin
<1>10. CASE CommitSnapshot(k) \/ CommitClone(k)
  <2>1. cmd[k].target \in Runs
    BY <1>1, <1>10 DEF CommitSnapshot, CommitClone, Cmd, NoCmd
  <2>2. committed' \in SUBSET (Runs \X {"snapshot", "image"})
    BY <1>10, <2>1 DEF CommitSnapshot, CommitClone
  <2>3. ASSUME cmd' = [cmd EXCEPT ![k].pc = "clone"], CommitSnapshot(k) PROVE cmd' \in [Clients -> Cmd]
    <3>1. PICK q \in [pc: {"commit"}, name: Names, rm: BOOLEAN, target: Runs] : cmd[k] = q
      BY <1>1, <2>3 DEF CommitSnapshot, Cmd, NoCmd
    <3>2. [q EXCEPT !.pc = "clone"] \in Cmd /\ cmd' = [cmd EXCEPT ![k] = [q EXCEPT !.pc = "clone"]]
      BY <2>3, <3>1 DEF Cmd
    <3>. QED BY <3>2
  <2>4. cmd' \in [Clients -> Cmd]
    BY <1>1, <1>10, <2>3 DEF CommitSnapshot, CommitClone
  <2>. QED BY <1>10, <2>2, <2>4 DEF CommitSnapshot, CommitClone
<1>11. CASE ClientEnds(k)
  BY <1>1, <1>11 DEF ClientEnds
<1>. QED BY <1>3, <1>4, <1>5, <1>6, <1>7, <1>8, <1>9, <1>10, <1>11 DEF ClientStep

\* A step of a collector keeps every variable in its type.
LEMMA GcStepType ==
    ASSUME TypeOK, NEW c \in Collectors, GcStep(c) \/ GcDies(c)
    PROVE  TypeOK'
<1>. USE DEF TypeOK, runVars
<1>1. gc[c] \in Gc /\ NoGc \in Gc
  BY DEF NoGc, Gc, NoFixes, Fixes
<1>2. CASE GcListJails(c)
  <2>1. PICK js \in (SUBSET Names) \cup {Unknown} :
            gc' = [gc EXCEPT ![c].pc = "rows", ![c].jails = js]
    BY <1>2 DEF GcListJails, LiveJails
  <2>2. gc' \in [Collectors -> Gc]
    BY <1>1, <2>1 DEF Gc
  <2>. QED BY <1>2, <2>2 DEF GcListJails
<1>3. CASE GcListRows(c)
  <2>1. PICK rs \in Ledger \cup {Unknown} :
            gc' = [gc EXCEPT ![c].pc = "datasets", ![c].rows = rs]
    BY <1>3 DEF GcListRows
  <2>2. gc' \in [Collectors -> Gc]
    BY <1>1, <2>1 DEF Gc
  <2>. QED BY <1>3, <2>2 DEF GcListRows
<1>4. CASE GcReconcile(c)
  <2>1. PICK ds : /\ ds \in SUBSET Runs \/ ds = Unknown
                  /\ gc' = [gc EXCEPT ![c] = [NoGc EXCEPT !.pc = "fix",
                                !.fixes = Orphans(gc[c].jails, gc[c].rows, ds)]]
    BY <1>4 DEF GcReconcile, GcListed
  <2>2. gc[c].jails \in (SUBSET Names) \cup {Unknown} /\ gc[c].rows \in Ledger \cup {Unknown}
    BY <1>1 DEF Gc
  <2>3. Orphans(gc[c].jails, gc[c].rows, ds) \in Fixes
    BY <2>1, <2>2, OrphansType
  <2>4. gc' \in [Collectors -> Gc]
    BY <1>1, <2>1, <2>3 DEF Gc, NoGc
  <2>. QED BY <1>4, <2>4 DEF GcReconcile
<1>5. gc[c].fixes \in Fixes
  BY <1>1 DEF Gc
<1>6. CASE GcFixRow(c)
  <2>1. PICK n \in gc[c].fixes.rows :
            RecordExit(n, "killed") /\ gc' = [gc EXCEPT ![c].fixes.rows = @ \ {n}]
    BY <1>6 DEF GcFixRow
  <2>2. rows' \in Ledger
    BY <1>5, <2>1, RecordExitType DEF Fixes
  <2>3. gc' \in [Collectors -> Gc]
    BY <1>1, <1>5, <2>1 DEF Gc, Fixes
  <2>. QED BY <1>6, <2>2, <2>3 DEF GcFixRow
<1>7. CASE GcFixJail(c)
  <2>1. PICK n \in gc[c].fixes.jails :
            RemoveJail(n) /\ gc' = [gc EXCEPT ![c].fixes.jails = @ \ {n}]
    BY <1>7 DEF GcFixJail
  <2>2. jails' \in [Names -> Runs \cup {NoRun}]
    BY <1>5, <2>1, RemoveJailType DEF Fixes
  <2>3. gc' \in [Collectors -> Gc]
    BY <1>1, <1>5, <2>1 DEF Gc, Fixes
  <2>. QED BY <1>7, <2>2, <2>3 DEF GcFixJail
<1>8. CASE GcFixDataset(c)
  <2>1. PICK d \in gc[c].fixes.datasets :
            DestroyDataset(d) /\ gc' = [gc EXCEPT ![c].fixes.datasets = @ \ {d}]
    BY <1>8 DEF GcFixDataset
  <2>2. /\ datasets' \in SUBSET Runs
        /\ lost' \in SUBSET (Runs \X {"rootfs", "volume"})
    BY <1>5, <2>1, DestroyRootfsType DEF Fixes
  <2>3. gc' \in [Collectors -> Gc]
    BY <1>1, <1>5, <2>1 DEF Gc, Fixes
  <2>4. committed' \in SUBSET (Runs \X {"snapshot", "image"})
    BY <2>1, DestroyUncommits
  <2>. QED BY <1>8, <2>2, <2>3, <2>4 DEF GcFixDataset
<1>9. CASE GcFinish(c) \/ GcDies(c)
  BY <1>1, <1>9 DEF GcFinish, GcDies
<1>. QED BY <1>2, <1>3, <1>4, <1>6, <1>7, <1>8, <1>9 DEF GcStep

\* Every variable keeps its type, in every behaviour of the commands together.
THEOREM TypeCorrect == Spec => []TypeOK
<1>1. Init => TypeOK
  BY NoRunAssumption, OptionsAssumption
     DEF Init, TypeOK, PC, Stage, OwnName, Names, Ledger, Mount, Cmd, Gc, NoGc, NoFixes, Fixes
<1>2. TypeOK /\ [Next]_vars => TypeOK'
  <2>1. ASSUME TypeOK, Next PROVE TypeOK'
    BY <2>1, RunStepType, ClientStepType, GcStepType DEF Next
  <2>2. ASSUME TypeOK, UNCHANGED vars PROVE TypeOK'
    BY <2>2 DEF TypeOK, vars
  <2>. QED BY <2>1, <2>2
<1>. QED BY <1>1, <1>2, PTL DEF Spec

-----------------------------------------------------------------------------
(* Jails.                                                                  *)

\* What anyone but a run does to the jail table and the run: jails only go.
LEMMA OthersOnlyRemove ==
    ASSUME TypeOK,
           \/ \E k \in Clients : ClientStep(k)
           \/ \E c \in Collectors : GcStep(c) \/ GcDies(c)
    PROVE  /\ UNCHANGED <<pc, name, stage, opt>>
           /\ \A n \in Names : jails'[n] \in {jails[n], NoRun}
<1>1. ASSUME NEW m, RemoveJail(m) PROVE \A n \in Names : jails'[n] \in {jails[n], NoRun}
  BY <1>1 DEF RemoveJail, TypeOK
<1>2. ASSUME NEW k \in Clients, ClientStep(k)
      PROVE  /\ UNCHANGED <<pc, name, stage, opt>>
             /\ UNCHANGED jails \/ \E m : RemoveJail(m)
  BY <1>2 DEF ClientStep, StopBegin, StopRemove, StopRecord, RmBegin, Lookup, DestroyTarget,
              ExecBegin, ExecExpires, CommitBegin, CommitSnapshot, CommitClone,
            ClientEnds, runVars
<1>3. ASSUME NEW c \in Collectors, GcStep(c) \/ GcDies(c)
      PROVE  /\ UNCHANGED <<pc, name, stage, opt>>
             /\ UNCHANGED jails \/ \E m : RemoveJail(m)
  BY <1>3 DEF GcStep, GcDies, GcListJails, GcListRows, GcReconcile, GcFixRow, GcFixJail,
              GcFixDataset, GcFinish, runVars
<1>. QED BY <1>1, <1>2, <1>3

\* A step of a run keeps a live jail under its run's name and within its reach.
LEMMA RunKeepsJailInv ==
    ASSUME "jail-r" \notin Faults, TypeOK, JailInv,
           NEW r \in Runs, Begin(r) \/ RunStep(r) \/ Crash(r)
    PROVE  JailInv'
<1>. USE NoRunAssumption DEF TypeOK, JailInv, Goto, Reach
<1>1. CASE Begin(r)
  <2>1. /\ pc[r] = "idle" /\ pc' = [pc EXCEPT ![r] = pc'[r]]
        /\ pc'[r] \in {"clone", "dbcheck"}
        /\ name' = [name EXCEPT ![r] = name'[r]]
        /\ UNCHANGED <<stage, jails, rows>>
    BY <1>1 DEF Begin, BeginForeground, BeginDetached, BeginNamed
  <2>. QED BY <2>1
<1>2. CASE CheckLedger(r) \/ Clone(r) \/ ThinRootfs(r) \/ CloneFails(r)
  BY <1>2 DEF CheckLedger, Clone, ThinRootfs, CloneFails
<1>3. CASE Prepare(r) \/ PrepareFails(r)
  BY <1>3 DEF Prepare, PrepareFails
<1>4. CASE CreateJail(r)
  BY <1>4 DEF CreateJail
<1>5. CASE CreateJailFails(r)
  BY <1>5 DEF CreateJailFails
<1>6. CASE RecordRun(r) \/ JailSetupFails(r)
  BY <1>6 DEF RecordRun, JailSetupFails
<1>7. CASE ExecReturns(r) \/ ExecRaises(r)
  BY <1>7 DEF ExecReturns, ExecRaises
<1>8. CASE ExecTimesOut(r) \/ Teardown(r)
  BY <1>8 DEF ExecTimesOut, Teardown, RemoveJailAndMounts, RemoveJail
<1>9. CASE RecordRunExit(r)
  BY <1>9 DEF RecordRunExit
<1>10. CASE Release(r)
  BY <1>10 DEF Release, RemoveJail
<1>11. CASE Reclaim(r) \/ Crash(r)
  BY <1>11 DEF Reclaim, Crash
<1>. QED BY <1>1, <1>2, <1>3, <1>4, <1>5, <1>6, <1>7, <1>8, <1>9, <1>10, <1>11 DEF RunStep

\* The invariant behind NoJailLeftBehind, where jail -r always works.
LEMMA JailInvariant ==
    ASSUME "jail-r" \notin Faults
    PROVE  Spec => []JailInv
<1>1. Init => JailInv
  BY NoRunAssumption DEF Init, JailInv
<1>2. TypeOK /\ JailInv /\ [Next]_vars => JailInv'
  <2>1. ASSUME TypeOK, JailInv, Next PROVE JailInv'
    <3>1. CASE \E r \in Runs : Begin(r) \/ RunStep(r) \/ Crash(r)
      BY <2>1, <3>1, RunKeepsJailInv
    <3>2. CASE \/ \E k \in Clients : ClientStep(k)
               \/ \E c \in Collectors : GcStep(c) \/ GcDies(c)
      BY <2>1, <3>2, OthersOnlyRemove, NoRunAssumption DEF JailInv
    <3>. QED BY <2>1, <3>1, <3>2 DEF Next
  <2>2. ASSUME JailInv, UNCHANGED vars PROVE JailInv'
    BY <2>2 DEF JailInv, vars
  <2>. QED BY <2>1, <2>2
<1>. QED BY <1>1, <1>2, TypeCorrect, PTL DEF Spec

\* When a run has returned, its jail is gone, whatever other runs, commands and
\* collectors did, and whatever else failed, as long as jail -r did not.
THEOREM JailGone ==
    ASSUME "jail-r" \notin Faults
    PROVE  Spec => []NoJailLeftBehind
<1>1. JailInv => NoJailLeftBehind
  BY DEF JailInv, NoJailLeftBehind
<1>. QED BY <1>1, JailInvariant, PTL

-----------------------------------------------------------------------------
(* Rows.                                                                   *)

\* Rows that are only closed: each keeps its run, and none starts running.
RowsOnlyClose ==
    \A n \in Names : /\ rows'[n].dataset = rows[n].dataset
                     /\ rows'[n].status = "running" => rows[n].status = "running"

\* record_exit() only closes rows; where the db takes writes, it closes its own.
LEMMA RecordExitCloses ==
    ASSUME TypeOK, NEW n \in Names, NEW s \in {"exited", "killed"}, RecordExit(n, s)
    PROVE  /\ RowsOnlyClose
           /\ "db" \notin Faults => rows'[n].status # "running"
<1>1. ASSUME rows' = [rows EXCEPT ![n].status = IF @ = "none" THEN @ ELSE s]
      PROVE  RowsOnlyClose /\ rows'[n].status # "running"
  <2>1. \A m \in Names : rows[m] \in Row \cup {NoRow}
    BY DEF TypeOK, Ledger
  <2>2. /\ rows'[n].dataset = rows[n].dataset
        /\ rows'[n].status # "running"
    BY <1>1, <2>1 DEF TypeOK, Ledger, Row, NoRow
  <2>3. \A m \in Names \ {n} : rows'[m] = rows[m]
    BY <1>1 DEF TypeOK, Ledger
  <2>. QED BY <2>2, <2>3 DEF RowsOnlyClose
<1>2. ASSUME "db" \in Faults, UNCHANGED rows PROVE RowsOnlyClose
  BY <1>2 DEF RowsOnlyClose
<1>. QED BY <1>1, <1>2 DEF RecordExit

\* What anyone but a run does to the ledger.
LEMMA OthersOnlyClose ==
    ASSUME TypeOK,
           \/ \E k \in Clients : ClientStep(k)
           \/ \E c \in Collectors : GcStep(c) \/ GcDies(c)
    PROVE  RowsOnlyClose
<1>1. ASSUME UNCHANGED rows PROVE RowsOnlyClose
  BY <1>1 DEF RowsOnlyClose
<1>2. ASSUME NEW k \in Clients, ClientStep(k) PROVE RowsOnlyClose
  <2>1. CASE StopRecord(k)
    <3>1. cmd[k].name \in Names
      BY <2>1 DEF TypeOK, Cmd, NoCmd, StopRecord
    <3>. QED BY <2>1, <3>1, RecordExitCloses DEF StopRecord
  <2>2. CASE ~StopRecord(k)
    BY <1>1, <1>2, <2>2 DEF ClientStep, StopBegin, StopRemove, RmBegin, Lookup, DestroyTarget,
                            ExecBegin, ExecExpires, CommitBegin, CommitSnapshot, CommitClone,
            ClientEnds
  <2>. QED BY <2>1, <2>2
<1>3. ASSUME NEW c \in Collectors, GcStep(c) \/ GcDies(c) PROVE RowsOnlyClose
  <2>1. CASE GcFixRow(c)
    <3>1. gc[c].fixes.rows \subseteq Names
      BY DEF TypeOK, Gc, Fixes
    <3>. QED BY <2>1, <3>1, RecordExitCloses DEF GcFixRow
  <2>2. CASE ~GcFixRow(c)
    BY <1>1, <1>3, <2>2 DEF GcStep, GcDies, GcListJails, GcListRows, GcReconcile, GcFixJail,
                            GcFixDataset, GcFinish
  <2>. QED BY <2>1, <2>2
<1>. QED BY <1>2, <1>3

\* A step of a run keeps a row under its run's name and within its reach.
LEMMA RunKeepsRowInv ==
    ASSUME "db" \notin Faults, TypeOK, RowInv, StageInv,
           NEW r \in Runs, Begin(r) \/ RunStep(r) \/ Crash(r)
    PROVE  RowInv' /\ StageInv'
<1>. USE DEF TypeOK, RowInv, StageInv, Goto, Reach
<1>1. CASE Begin(r)
  <2>1. /\ pc[r] = "idle" /\ pc' = [pc EXCEPT ![r] = pc'[r]]
        /\ pc'[r] \in {"clone", "dbcheck"}
        /\ name' = [name EXCEPT ![r] = name'[r]]
        /\ UNCHANGED <<stage, jails, rows>>
    BY <1>1 DEF Begin, BeginForeground, BeginDetached, BeginNamed
  <2>. QED BY <2>1
<1>2. CASE CheckLedger(r) \/ Clone(r) \/ ThinRootfs(r) \/ CloneFails(r)
  BY <1>2 DEF CheckLedger, Clone, ThinRootfs, CloneFails
<1>3. CASE Prepare(r) \/ PrepareFails(r)
  BY <1>3 DEF Prepare, PrepareFails
<1>4. CASE CreateJail(r) \/ CreateJailFails(r)
  BY <1>4 DEF CreateJail, CreateJailFails
<1>5. CASE RecordRun(r)
  <2>1. stage[r] = "created"
    BY <1>5 DEF RecordRun
  <2>2. \A n \in Names : \/ rows'[n] = rows[n]
                         \/ n = name[r] /\ rows'[n].dataset = r
    BY <1>5 DEF RecordRun, RecordStart, Ledger
  <2>. QED BY <1>5, <2>1, <2>2 DEF RecordRun
<1>6. CASE JailSetupFails(r) \/ ExecReturns(r) \/ ExecTimesOut(r) \/ ExecRaises(r)
  BY <1>6 DEF JailSetupFails, ExecReturns, ExecTimesOut, ExecRaises
<1>7. CASE Teardown(r)
  BY <1>7 DEF Teardown
<1>8. CASE RecordRunExit(r)
  <2>1. RowsOnlyClose
    BY <1>8, RecordExitCloses DEF RecordRunExit, RowsOnlyClose
  <2>2. stage[r] \in {"created", "completed"} => rows'[name[r]].status # "running"
    BY <1>8, RecordExitCloses DEF RecordRunExit
  <2>. QED BY <1>8, <2>1, <2>2 DEF RecordRunExit, RowsOnlyClose
<1>9. CASE Release(r) \/ Reclaim(r) \/ Crash(r)
  BY <1>9 DEF Release, Reclaim, Crash
<1>. QED BY <1>1, <1>2, <1>3, <1>4, <1>5, <1>6, <1>7, <1>8, <1>9 DEF RunStep

\* The invariant behind RowTellsTruth, where the db takes every write.
LEMMA RowInvariant ==
    ASSUME "db" \notin Faults
    PROVE  Spec => [](RowInv /\ StageInv)
<1>1. Init => RowInv /\ StageInv
  BY NoRunAssumption DEF Init, RowInv, StageInv, NoRow
<1>2. TypeOK /\ RowInv /\ StageInv /\ [Next]_vars => RowInv' /\ StageInv'
  <2>1. ASSUME TypeOK, RowInv, StageInv, Next PROVE RowInv' /\ StageInv'
    <3>1. CASE \E r \in Runs : Begin(r) \/ RunStep(r) \/ Crash(r)
      BY <2>1, <3>1, RunKeepsRowInv
    <3>2. CASE \/ \E k \in Clients : ClientStep(k)
               \/ \E c \in Collectors : GcStep(c) \/ GcDies(c)
      <4>1. RowsOnlyClose /\ UNCHANGED <<pc, name, stage>>
        BY <2>1, <3>2, OthersOnlyClose, OthersOnlyRemove
      <4>. QED BY <2>1, <4>1 DEF RowInv, StageInv, RowsOnlyClose
    <3>. QED BY <2>1, <3>1, <3>2 DEF Next
  <2>2. ASSUME RowInv, StageInv, UNCHANGED vars PROVE RowInv' /\ StageInv'
    BY <2>2 DEF RowInv, StageInv, vars
  <2>. QED BY <2>1, <2>2
<1>. QED BY <1>1, <1>2, TypeCorrect, PTL DEF Spec

\* No run that has returned still has a "running" row of its own, as long as the
\* db took the writes.
THEOREM RowsTellTruth ==
    ASSUME "db" \notin Faults
    PROVE  Spec => []RowTellsTruth
<1>1. RowInv => RowTellsTruth
  BY DEF RowInv, RowTellsTruth
<1>. QED BY <1>1, RowInvariant, PTL

\* The two together, for a host where both work.
THEOREM BookkeepingHolds ==
    ASSUME "jail-r" \notin Faults, "db" \notin Faults
    PROVE  Spec => []Bookkeeping
BY JailInvariant, RowInvariant, PTL DEF Bookkeeping

-----------------------------------------------------------------------------
(* JailRun implements RunContract: the initial states map to the abstract  *)
(* initial state, and every step maps to an abstract step or a stutter.    *)

\* A step of a run's process moves its phase alone.
LEMMA PhaseMoves ==
    ASSUME TypeOK, NEW r \in Runs, NEW l, Goto(r, l)
    PROVE  phaseBar' = [phaseBar EXCEPT ![r] = PhaseOf(l)]
BY DEF TypeOK, Goto, phaseBar

LEMMA UpSame == UNCHANGED jails => upBar' = upBar
BY DEF upBar

\* Removing a jail takes runs down and brings none up.
LEMMA UpFalls ==
    ASSUME \A n \in Names : jails'[n] \in {jails[n], NoRun}
    PROVE  Contract!DownOnly
BY NoRunAssumption DEF Contract!DownOnly, upBar

LEMMA RemoveJailFalls ==
    ASSUME TypeOK, NEW n \in Names, RemoveJail(n)
    PROVE  /\ \A m \in Names : jails'[m] \in {jails[m], NoRun}
           /\ Contract!DownOnly
<1>1. \A m \in Names : jails'[m] \in {jails[m], NoRun}
  BY DEF TypeOK, RemoveJail
<1>. QED BY <1>1, UpFalls

LEMMA RecordSame == UNCHANGED <<rows, name>> => recordBar' = recordBar
BY DEF recordBar

LEMMA RecordType == recordBar \in [Runs -> Contract!Record]
BY DEF recordBar, RecordOf, Contract!Record

LEMMA RecordTypeNext == recordBar' \in [Runs -> Contract!Record]
BY DEF recordBar, RecordOf, Contract!Record

\* Closing rows closes records.
LEMMA RecordCloses ==
    ASSUME TypeOK, RowsOnlyClose, UNCHANGED name
    PROVE  Contract!CloseOnly(Runs)
<1>1. ASSUME NEW s \in Runs
      PROVE  \/ recordBar'[s] = recordBar[s]
             \/ recordBar[s] # "none" /\ recordBar'[s] \in {"ended", "none"}
  <2>1. name[s] \in Names
    BY DEF TypeOK
  <2>2. /\ rows'[name[s]].dataset = rows[name[s]].dataset
        /\ rows'[name[s]].status = "running" => rows[name[s]].status = "running"
    BY <2>1 DEF RowsOnlyClose
  <2>3. recordBar[s] = RecordOf(rows[name[s]], s) /\ recordBar'[s] = RecordOf(rows'[name[s]], s)
    BY DEF recordBar
  <2>. QED BY <2>2, <2>3 DEF RecordOf
<1>. QED BY <1>1, RecordTypeNext DEF Contract!CloseOnly

\* Steps of commands and collectors are interference.
LEMMA OthersInterfere ==
    ASSUME TypeOK,
           \/ \E k \in Clients : ClientStep(k)
           \/ \E c \in Collectors : GcStep(c) \/ GcDies(c)
    PROVE  Contract!Next
<1>1. /\ UNCHANGED <<pc, name>>
      /\ \A n \in Names : jails'[n] \in {jails[n], NoRun}
      /\ RowsOnlyClose
  BY OthersOnlyRemove, OthersOnlyClose
<1>2. phaseBar' = phaseBar
  BY <1>1 DEF phaseBar
<1>3. Contract!DownOnly /\ Contract!CloseOnly(Runs)
  BY <1>1, UpFalls, RecordCloses
<1>. QED BY <1>2, <1>3 DEF Contract!Next, Contract!Interfere

\* Rows that stay as they are are closed rows.
LEMMA SameCloses ==
    ASSUME TypeOK, UNCHANGED <<rows, name>>
    PROVE  Contract!CloseOnly(Runs)
BY RecordCloses DEF RowsOnlyClose

\* A step of a run's process within one phase, if it only removes jails, is
\* interference.
LEMMA WithinPhase ==
    ASSUME TypeOK, NEW r \in Runs, NEW l, Goto(r, l), PhaseOf(l) = PhaseOf(pc[r]),
           UNCHANGED name, RowsOnlyClose, Contract!DownOnly
    PROVE  Contract!Next
<1>1. phaseBar' = phaseBar
  BY PhaseMoves DEF phaseBar
<1>2. Contract!CloseOnly(Runs)
  BY RecordCloses
<1>. QED BY <1>1, <1>2 DEF Contract!Next, Contract!Interfere

\* A run that ends with neither a jail nor a running row finishes.
LEMMA Finishes ==
    ASSUME TypeOK, NEW r \in Runs, Goto(r, "over"), phaseBar[r] \in {"setup", "closing"},
           UNCHANGED name, RowsOnlyClose, Contract!DownOnly, r \notin upBar',
           recordBar'[r] # "running"
    PROVE  Contract!Next
<1>1. phaseBar' = [phaseBar EXCEPT ![r] = "over"]
  BY PhaseMoves DEF PhaseOf
<1>2. Contract!CloseOnly(Runs)
  BY RecordCloses
<1>. QED BY <1>1, <1>2 DEF Contract!Next, Contract!Finish, Contract!Become

\* A step of a run's process is one step of the contract of that run, or
\* interference.
LEMMA RunImplements ==
    ASSUME "jail-r" \notin Faults, "db" \notin Faults, TypeOK, JailInv, RowInv,
           RowInv', JailInv',
           NEW r \in Runs, Begin(r) \/ RunStep(r) \/ Crash(r)
    PROVE  Contract!Next
<1>. USE DEF PhaseOf
<1>1. \A s \in Runs : name[s] \in Names /\ phaseBar[s] = PhaseOf(pc[s])
  BY DEF TypeOK, phaseBar
<1>2. UNCHANGED jails => Contract!DownOnly /\ upBar' = upBar
  BY UpSame DEF Contract!DownOnly
<1>3. UNCHANGED rows => RowsOnlyClose
  BY DEF RowsOnlyClose
<1>4. CASE Begin(r)
  <2>1. PICK l \in {"clone", "dbcheck"} : Goto(r, l)
    BY <1>4 DEF Begin, BeginForeground, BeginDetached, BeginNamed
  <2>2. /\ pc[r] = "idle"
        /\ UNCHANGED <<jails, rows>>
        /\ \A s \in Runs \ {r} : name'[s] = name[s]
        /\ name'[r] \in Names
    <3>1. PICK n \in Names : name' = [name EXCEPT ![r] = n]
      BY <1>4 DEF Begin, BeginForeground, BeginDetached, BeginNamed, Names, OwnName, FreshName
    <3>. QED BY <1>4, <3>1 DEF Begin, BeginForeground, BeginDetached, BeginNamed, TypeOK
  <2>3. recordBar' = recordBar
    <3>1. \A n \in Names : rows[n].dataset # r
      BY <2>2 DEF RowInv
    <3>2. RecordOf(rows'[name'[r]], r) = RecordOf(rows[name[r]], r)
      BY <1>1, <2>2, <3>1 DEF RecordOf
    <3>. QED BY <2>2, <3>2 DEF recordBar
  <2>4. phaseBar' = phaseBar
    <3>1. phaseBar' = [phaseBar EXCEPT ![r] = "setup"] /\ phaseBar[r] = "setup"
      BY <1>1, <2>1, <2>2, PhaseMoves
    <3>2. phaseBar = [s \in Runs |-> phaseBar[s]]
      BY DEF phaseBar
    <3>. QED BY <3>1, <3>2
  <2>5. Contract!CloseOnly(Runs)
    BY <2>3, RecordType DEF Contract!CloseOnly
  <2>. QED BY <1>2, <2>2, <2>4, <2>5 DEF Contract!Next, Contract!Interfere
<1>5. CASE CheckLedger(r)
  <2>1. CASE Goto(r, "clone")
    BY <1>2, <1>3, <1>5, <2>1, WithinPhase DEF CheckLedger
  <2>2. CASE Goto(r, "over")
    <3>1. r \notin upBar'
      BY <1>5, NoRunAssumption DEF CheckLedger, JailInv, upBar
    <3>2. recordBar'[r] # "running"
      BY <1>1, <1>5 DEF CheckLedger, RowInv, recordBar, RecordOf
    <3>. QED BY <1>1, <1>2, <1>3, <1>5, <2>2, <3>1, <3>2, Finishes DEF CheckLedger
  <2>. QED BY <1>5, <2>1, <2>2 DEF CheckLedger
<1>6. CASE Clone(r) \/ ThinRootfs(r) \/ Prepare(r)
  BY <1>2, <1>3, <1>6, WithinPhase DEF Clone, ThinRootfs, Prepare
<1>7. CASE CloneFails(r)
  <2>1. r \notin upBar'
    BY <1>7 DEF CloneFails, JailInv, upBar
  <2>2. recordBar'[r] # "running"
    BY <1>1, <1>7 DEF CloneFails, RowInv, recordBar, RecordOf
  <2>. QED BY <1>1, <1>2, <1>3, <1>7, <2>1, <2>2, Finishes DEF CloneFails
<1>8. CASE PrepareFails(r)
  <2>1. CASE Goto(r, "over")
    <3>1. r \notin upBar'
      BY <1>8 DEF PrepareFails, JailInv, upBar
    <3>2. recordBar'[r] # "running"
      BY <1>1, <1>8 DEF PrepareFails, RowInv, recordBar, RecordOf
    <3>. QED BY <1>1, <1>2, <1>3, <1>8, <2>1, <3>1, <3>2, Finishes DEF PrepareFails
  <2>2. CASE Goto(r, "destroy")
    <3>1. phaseBar' = [phaseBar EXCEPT ![r] = "closing"]
      BY <2>2, PhaseMoves
    <3>2. recordBar' = recordBar
      BY <1>8, RecordSame DEF PrepareFails
    <3>. QED BY <1>1, <1>2, <1>8, <3>1, <3>2
             DEF PrepareFails, Contract!Next, Contract!Fail, Contract!Become
  <2>. QED BY <1>8, <2>1, <2>2 DEF PrepareFails
<1>9. CASE CreateJail(r)
  <2>1. upBar' = upBar \cup {r}
    BY <1>1, <1>9, NoRunAssumption DEF CreateJail, upBar, TypeOK
  <2>2. phaseBar' = [phaseBar EXCEPT ![r] = "made"]
    BY <1>9, PhaseMoves DEF CreateJail
  <2>3. recordBar' = recordBar
    BY <1>9, RecordSame DEF CreateJail
  <2>. QED BY <1>1, <1>9, <2>1, <2>2, <2>3
           DEF CreateJail, Contract!Next, Contract!Create, Contract!Become
<1>10. CASE CreateJailFails(r)
  <2>1. upBar' = upBar \/ upBar' = upBar \cup {r}
    BY <1>1, <1>2, <1>10, NoRunAssumption DEF CreateJailFails, upBar, TypeOK
  <2>2. phaseBar' = [phaseBar EXCEPT ![r] = "closing"]
    BY <1>10, PhaseMoves DEF CreateJailFails
  <2>3. recordBar' = recordBar
    BY <1>10, RecordSame DEF CreateJailFails
  <2>. QED BY <1>1, <1>10, <2>1, <2>2, <2>3
           DEF CreateJailFails, Contract!Next, Contract!Fail, Contract!Become
<1>11. CASE RecordRun(r)
  <2>1. phaseBar' = [phaseBar EXCEPT ![r] = "executing"]
    BY <1>11, PhaseMoves DEF RecordRun
  <2>2. recordBar'[r] \in {"running", "none"}
    <3>1. rows[name[r]].dataset # r
      BY <1>1, <1>11 DEF RecordRun, RowInv
    <3>2. \/ rows' = rows
          \/ rows'[name[r]] = [status |-> "running", dataset |-> r]
      BY <1>1, <1>11 DEF RecordRun, RecordStart, TypeOK, Ledger
    <3>3. recordBar'[r] = RecordOf(rows'[name[r]], r)
      BY <1>11 DEF RecordRun, recordBar
    <3>. QED BY <3>1, <3>2, <3>3 DEF RecordOf
  <2>3. Contract!CloseOnly(Runs \ {r})
    <3>1. ASSUME NEW s \in Runs \ {r}
          PROVE  \/ recordBar'[s] = recordBar[s]
                 \/ recordBar[s] # "none" /\ recordBar'[s] \in {"ended", "none"}
      <4>1. \/ rows'[name[s]] = rows[name[s]]
            \/ rows'[name[s]].dataset = r
        BY <1>1, <1>11 DEF RecordRun, RecordStart, TypeOK, Ledger
      <4>2. /\ recordBar[s] = RecordOf(rows[name[s]], s)
            /\ recordBar'[s] = RecordOf(rows'[name[s]], s)
        BY <1>11 DEF RecordRun, recordBar
      <4>. QED BY <4>1, <4>2 DEF RecordOf
    <3>. QED BY <3>1, RecordTypeNext DEF Contract!CloseOnly
  <2>. QED BY <1>1, <1>2, <1>11, <2>1, <2>2, <2>3
           DEF RecordRun, Contract!Next, Contract!Open, Contract!Become
<1>12. CASE JailSetupFails(r)
  <2>1. phaseBar' = [phaseBar EXCEPT ![r] = "closing"]
    BY <1>12, PhaseMoves DEF JailSetupFails
  <2>2. recordBar' = recordBar
    BY <1>12, RecordSame DEF JailSetupFails
  <2>. QED BY <1>1, <1>2, <1>12, <2>1, <2>2
           DEF JailSetupFails, Contract!Next, Contract!Fail, Contract!Become
<1>13. CASE ExecReturns(r) \/ ExecTimesOut(r) \/ ExecRaises(r)
  <2>1. phaseBar' = [phaseBar EXCEPT ![r] = "closing"]
    BY <1>13, PhaseMoves DEF ExecReturns, ExecTimesOut, ExecRaises
  <2>2. recordBar' = recordBar
    BY <1>13, RecordSame DEF ExecReturns, ExecTimesOut, ExecRaises
  <2>3. Contract!DownOnly
    BY <1>1, <1>2, <1>13, RemoveJailFalls
       DEF ExecReturns, ExecTimesOut, ExecRaises, RemoveJailAndMounts
  <2>. QED BY <1>1, <1>13, <2>1, <2>2, <2>3
           DEF ExecReturns, ExecTimesOut, ExecRaises, Contract!Next, Contract!Close, Contract!Become
<1>14. CASE Teardown(r)
  <2>1. Contract!DownOnly
    BY <1>1, <1>14, RemoveJailFalls DEF Teardown, RemoveJailAndMounts
  <2>. QED BY <1>3, <1>14, <2>1, WithinPhase DEF Teardown
<1>15. CASE RecordRunExit(r)
  <2>1. RowsOnlyClose
    BY <1>1, <1>3, <1>15, RecordExitCloses DEF RecordRunExit
  <2>2. CASE Goto(r, "destroy")
    BY <1>2, <1>15, <2>1, <2>2, WithinPhase DEF RecordRunExit
  <2>3. CASE Goto(r, "over")
    <3>1. r \notin upBar'
      BY <1>15 DEF RecordRunExit, JailInv, upBar
    <3>2. recordBar'[r] # "running"
      <4>1. pc'[r] = "over"
        BY <2>3 DEF Goto, TypeOK
      <4>2. rows'[name'[r]].dataset = r => rows'[name'[r]].status # "running"
        BY <1>1, <1>15, <4>1 DEF RowInv, RecordRunExit
      <4>. QED BY <4>2 DEF recordBar, RecordOf
    <3>. QED BY <1>1, <1>2, <1>15, <2>1, <2>3, <3>1, <3>2, Finishes DEF RecordRunExit
  <2>. QED BY <1>15, <2>2, <2>3 DEF RecordRunExit
<1>16. CASE Release(r)
  <2>1. Contract!DownOnly
    BY <1>1, <1>2, <1>16, RemoveJailFalls DEF Release
  <2>. QED BY <1>3, <1>16, <2>1, WithinPhase DEF Release
<1>17. CASE Reclaim(r)
  <2>1. r \notin upBar'
    BY <1>17 DEF Reclaim, JailInv, upBar
  <2>2. recordBar'[r] # "running"
    BY <1>1, <1>17 DEF Reclaim, RowInv, recordBar, RecordOf
  <2>. QED BY <1>1, <1>2, <1>3, <1>17, <2>1, <2>2, Finishes DEF Reclaim
<1>18. CASE Crash(r)
  <2>1. phaseBar' = [phaseBar EXCEPT ![r] = "dead"]
    BY <1>18, PhaseMoves DEF Crash
  <2>2. phaseBar[r] \notin {"over", "dead"}
    BY <1>1, <1>18 DEF Crash, TypeOK, PC
  <2>3. recordBar' = recordBar
    BY <1>18, RecordSame DEF Crash
  <2>. QED BY <1>2, <1>18, <2>1, <2>2, <2>3
           DEF Crash, Contract!Next, Contract!Die, Contract!Become
<1>. QED BY <1>4, <1>5, <1>6, <1>7, <1>8, <1>9, <1>10, <1>11, <1>12, <1>13, <1>14, <1>15,
            <1>16, <1>17, <1>18 DEF RunStep

\* JailRun implements RunContract, where jail -r works and the db takes writes:
\* each run's jail comes up at most once and is gone, and its row closed, when
\* the run is over, for any number of runs, commands and collectors.
THEOREM ImplementsContract ==
    ASSUME "jail-r" \notin Faults, "db" \notin Faults
    PROVE  Spec => KeepsContract
<1>1. Init => Contract!Init
  <2>1. ASSUME Init PROVE phaseBar = [r \in Runs |-> "setup"]
    BY <2>1 DEF Init, phaseBar, PhaseOf
  <2>2. ASSUME Init PROVE upBar = {}
    BY <2>2, NoRunAssumption DEF Init, upBar
  <2>3. ASSUME Init PROVE recordBar = [r \in Runs |-> "none"]
    BY <2>3, NoRunAssumption DEF Init, recordBar, RecordOf, NoRow, OwnName, Names
  <2>. QED BY <2>1, <2>2, <2>3 DEF Contract!Init
<1>2. /\ TypeOK /\ JailInv /\ RowInv /\ StageInv
      /\ JailInv' /\ RowInv'
      /\ [Next]_vars
      => [Contract!Next]_Contract!contractVars
  <2>1. ASSUME TypeOK, JailInv, RowInv, JailInv', RowInv', Next PROVE Contract!Next
    BY <2>1, RunImplements, OthersInterfere DEF Next
  <2>2. ASSUME UNCHANGED vars PROVE UNCHANGED Contract!contractVars
    BY <2>2 DEF vars, Contract!contractVars, phaseBar, upBar, recordBar
  <2>. QED BY <2>1, <2>2
<1>. QED BY <1>1, <1>2, TypeCorrect, JailInvariant, RowInvariant, PTL
         DEF Spec, KeepsContract, Contract!Spec

=============================================================================
