-------------------------- MODULE JailRunSafety_proofs --------------------------
(***************************************************************************)
(* More theorems about JailRun, for any number of runs, clients and        *)
(* collectors: what becomes of rootfs and volumes, and what stop and gc    *)
(* make of names that belong to one run.                                   *)
(***************************************************************************)
EXTENDS JailRun_proofs

-----------------------------------------------------------------------------
(* Who does what to the state the properties are about.                    *)

\* Before its jail -c a run has no jail, and never had one.
Before == {"idle", "dbcheck", "clone", "prepare", "jailc"}

\* Destroying a rootfs takes away nothing of another run.
LEMMA DestroysOwn ==
    ASSUME NEW d \in Runs, DestroyRootfs(d) \/ DestroyDataset(d)
    PROVE  /\ datasets' \in {datasets, datasets \ {d}}
           /\ lost' \subseteq lost \cup ({d} \X {"rootfs", "volume"})
<1>1. CASE ZfsDestroy(d) \/ ZfsDestroyRecursive(d)
  BY <1>1 DEF ZfsDestroy, ZfsDestroyRecursive
<1>2. CASE RemoveTree(d)
  <2>1. datasets' \in {datasets, datasets \ {d}}
    BY <1>2 DEF RemoveTree
  <2>2. PICK hit \in SUBSET (mounts[d] \cap {"volume"}) :
            lost' = lost \cup ({d} \X ({"rootfs"} \cup hit))
    BY <1>2 DEF RemoveTree
  <2>3. {d} \X ({"rootfs"} \cup hit) \subseteq {d} \X {"rootfs", "volume"}
    OBVIOUS
  <2>. QED BY <2>1, <2>2, <2>3
<1>. QED BY <1>1, <1>2 DEF DestroyRootfs, DestroyDataset

\* A step of a run moves itself alone; until it has made its jail it changes no jail,
\* and it makes one under its own name only.
LEMMA RunStepEffect ==
    ASSUME TypeOK, NEW r \in Runs, RunStep(r) \/ Crash(r)
    PROVE  /\ UNCHANGED <<name, opt, cmd, gc>>
           /\ \A s \in Runs \ {r} : pc'[s] = pc[s] /\ stage'[s] = stage[s] /\ mounts'[s] = mounts[s]
           /\ pc'[r] \in Before => pc[r] \in Before
           /\ \/ \A n \in Names : jails'[n] \in {jails[n], NoRun}
              \/ /\ pc[r] = "jailc" /\ pc'[r] \notin Before
                 /\ jails[name[r]] = NoRun
                 /\ jails' = [jails EXCEPT ![name[r]] = r]
<1>. USE DEF TypeOK, Goto, Reach, Before, Bound, PartlyBound, Unbound
<1>1. CASE CheckLedger(r) \/ Clone(r) \/ ThinRootfs(r) \/ CloneFails(r)
  BY <1>1 DEF CheckLedger, Clone, ThinRootfs, CloneFails
<1>2. CASE Prepare(r) \/ PrepareFails(r)
  BY <1>2 DEF Prepare, PrepareFails
<1>3. CASE CreateJail(r) \/ CreateJailFails(r)
  BY <1>3 DEF CreateJail, CreateJailFails
<1>4. CASE RecordRun(r) \/ JailSetupFails(r) \/ ExecReturns(r) \/ ExecRaises(r)
  BY <1>4 DEF RecordRun, JailSetupFails, ExecReturns, ExecRaises
<1>5. CASE ExecTimesOut(r) \/ Teardown(r)
  BY <1>5 DEF ExecTimesOut, Teardown, RemoveJailAndMounts, RemoveJail
<1>6. CASE RecordRunExit(r)
  BY <1>6 DEF RecordRunExit
<1>7. CASE Release(r)
  BY <1>7 DEF Release, RemoveJail
<1>8. CASE Reclaim(r) \/ Crash(r)
  BY <1>8 DEF Reclaim, Crash
<1>. QED BY <1>1, <1>2, <1>3, <1>4, <1>5, <1>6, <1>7, <1>8 DEF RunStep

\* A step of a run that does not destroy a rootfs loses nothing.
LEMMA OnlyReclaimLoses ==
    ASSUME NEW r \in Runs, Begin(r) \/ RunStep(r) \/ Crash(r)
    PROVE  UNCHANGED lost \/ Reclaim(r)
BY DEF Begin, BeginForeground, BeginDetached, BeginNamed, RunStep, CheckLedger, Clone, ThinRootfs,
       CloneFails, Prepare, PrepareFails, CreateJail, CreateJailFails, RecordRun, JailSetupFails,
       ExecReturns, ExecTimesOut, ExecRaises, Teardown, RecordRunExit, Release, Crash

\* What commands and collectors do to rootfs and mounts: some may go, none is mounted.
LEMMA OthersDestroy ==
    ASSUME TypeOK,
           \/ \E k \in Clients : ClientStep(k)
           \/ \E c \in Collectors : GcStep(c) \/ GcDies(c)
    PROVE  /\ UNCHANGED mounts
           /\ datasets' \subseteq datasets
           /\ committed \subseteq committed' \/ \E d \in Runs : DestroyDataset(d)
           /\ UNCHANGED lost \/ \E d \in Runs : DestroyDataset(d)
<1>1. ASSUME NEW k \in Clients, DestroyTarget(k)
      PROVE  \E d \in Runs : DestroyDataset(d)
  BY <1>1 DEF DestroyTarget, TypeOK, Cmd, NoCmd
<1>2. ASSUME NEW c \in Collectors, GcFixDataset(c)
      PROVE  \E d \in Runs : DestroyDataset(d)
  BY <1>2 DEF GcFixDataset, TypeOK, Gc, Fixes
<1>3. ASSUME NEW k \in Clients, ClientStep(k)
      PROVE  /\ UNCHANGED mounts
             /\ (UNCHANGED <<lost, datasets>> /\ committed \subseteq committed') \/ DestroyTarget(k)
  BY <1>3 DEF ClientStep, StopBegin, StopRemove, StopRecord, RmBegin, Lookup, DestroyTarget,
              ExecBegin, ExecExpires, CommitBegin, CommitSnapshot, CommitClone,
              ClientEnds
<1>4. ASSUME NEW c \in Collectors, GcStep(c) \/ GcDies(c)
      PROVE  /\ UNCHANGED mounts
             /\ UNCHANGED <<lost, datasets, committed>> \/ GcFixDataset(c)
  BY <1>4 DEF GcStep, GcDies, GcListJails, GcListRows, GcReconcile, GcFixRow, GcFixJail,
              GcFixDataset, GcFinish
<1>. QED BY <1>1, <1>2, <1>3, <1>4, DestroysOwn

-----------------------------------------------------------------------------
(* The volumes.                                                            *)

\* A rootfs is removed by its run with no volume mounted in it any more.
VolumeInv ==
    /\ HostVolumeSurvives
    /\ \A r \in Runs : pc[r] = "reclaim" => "volume" \notin mounts[r]

\* zfs destroy does not descend into what is mounted in a dataset.
LEMMA ZfsSparesVolumes ==
    ASSUME HostVolumeSurvives, NEW d \in Runs,
           ZfsDestroy(d) \/ ZfsDestroyRecursive(d) \/ UNCHANGED lost
    PROVE  \A s \in Runs : <<s, "volume">> \notin lost'
<1>1. \/ lost' = lost
      \/ lost' = lost \cup {<<d, "rootfs">>}
  BY DEF ZfsDestroy, ZfsDestroyRecursive
<1>2. \A s \in Runs : <<s, "volume">> # <<d, "rootfs">>
  OBVIOUS
<1>. QED BY <1>1, <1>2 DEF HostVolumeSurvives

LEMMA RunKeepsVolumeInv ==
    ASSUME Backend = "zfs", "umount" \notin Faults, TypeOK, VolumeInv,
           NEW r \in Runs, Begin(r) \/ RunStep(r) \/ Crash(r)
    PROVE  VolumeInv'
<1>1. CASE Reclaim(r)
  <2>1. \A s \in Runs : <<s, "volume">> \notin lost'
    <3>1. CASE opt[r].thin
      <4>1. PICK hit \in SUBSET (mounts[r] \cap {"volume"}) :
                lost' = lost \cup ({r} \X ({"rootfs"} \cup hit))
        BY <1>1, <3>1 DEF Reclaim, DestroyRootfs, RemoveTree
      <4>2. hit = {}
        BY <1>1 DEF Reclaim, VolumeInv
      <4>. QED BY <4>1, <4>2 DEF VolumeInv, HostVolumeSurvives
    <3>2. CASE ~opt[r].thin
      <4>1. ZfsDestroy(r)
        BY <1>1, <3>2 DEF Reclaim, DestroyRootfs
      <4>. QED BY <4>1, ZfsSparesVolumes DEF VolumeInv
    <3>. QED BY <3>1, <3>2
  <2>2. \A s \in Runs : pc'[s] = "reclaim" => pc[s] = "reclaim"
    BY <1>1 DEF Reclaim, Goto, TypeOK
  <2>3. UNCHANGED mounts
    BY <1>1 DEF Reclaim
  <2>. QED BY <2>1, <2>2, <2>3 DEF VolumeInv, HostVolumeSurvives
<1>2. CASE Release(r)
  <2>1. /\ pc' = [pc EXCEPT ![r] = "reclaim"]
        /\ mounts' = [mounts EXCEPT ![r] = @ \ Bind]
        /\ UNCHANGED lost
    BY <1>2 DEF Release, Goto, Unbound
  <2>. QED BY <2>1 DEF VolumeInv, HostVolumeSurvives, TypeOK, Bind
<1>3. CASE ~Reclaim(r) /\ ~Release(r)
  <2>1. UNCHANGED lost
    BY <1>3, OnlyReclaimLoses
  <2>2. pc'[r] # "reclaim"
    BY <1>3 DEF Begin, BeginForeground, BeginDetached, BeginNamed, RunStep, CheckLedger, Clone,
                ThinRootfs, CloneFails, Prepare, PrepareFails, CreateJail, CreateJailFails,
                RecordRun, JailSetupFails, ExecReturns, ExecTimesOut, ExecRaises, Teardown,
                RecordRunExit, Crash, Goto, TypeOK
  <2>3. \A s \in Runs \ {r} : pc'[s] = pc[s] /\ mounts'[s] = mounts[s]
    <3>1. CASE Begin(r)
      BY <3>1 DEF Begin, BeginForeground, BeginDetached, BeginNamed, Goto, TypeOK
    <3>. QED BY <3>1, RunStepEffect
  <2>. QED BY <2>1, <2>2, <2>3 DEF VolumeInv, HostVolumeSurvives
<1>. QED BY <1>1, <1>2, <1>3

\* Under zfs, with a forced umount that works, no host directory is deleted through
\* a -v bind, by --rm, stop --rm, rm or gc, however they interleave.
THEOREM VolumesSurvive ==
    ASSUME Backend = "zfs", "umount" \notin Faults
    PROVE  Spec => []HostVolumeSurvives
<1>1. Init => VolumeInv
  BY DEF Init, VolumeInv, HostVolumeSurvives
<1>2. TypeOK /\ VolumeInv /\ [Next]_vars => VolumeInv'
  <2>1. ASSUME TypeOK, VolumeInv, Next PROVE VolumeInv'
    <3>1. CASE \E r \in Runs : Begin(r) \/ RunStep(r) \/ Crash(r)
      BY <2>1, <3>1, RunKeepsVolumeInv
    <3>2. CASE \/ \E k \in Clients : ClientStep(k)
               \/ \E c \in Collectors : GcStep(c) \/ GcDies(c)
      <4>1. UNCHANGED mounts /\ (UNCHANGED lost \/ \E d \in Runs : ZfsDestroyRecursive(d))
        BY <2>1, <3>2, OthersDestroy DEF DestroyDataset
      <4>2. \A s \in Runs : <<s, "volume">> \notin lost'
        BY <2>1, <4>1, ZfsSparesVolumes DEF VolumeInv, HostVolumeSurvives
      <4>3. UNCHANGED pc
        BY <2>1, <3>2, OthersOnlyRemove
      <4>. QED BY <2>1, <4>1, <4>2, <4>3 DEF VolumeInv, HostVolumeSurvives
    <3>. QED BY <2>1, <3>1, <3>2 DEF Next
  <2>2. ASSUME VolumeInv, UNCHANGED vars PROVE VolumeInv'
    BY <2>2 DEF VolumeInv, HostVolumeSurvives, vars
  <2>. QED BY <2>1, <2>2
<1>3. VolumeInv => HostVolumeSurvives
  BY DEF VolumeInv
<1>. QED BY <1>1, <1>2, <1>3, TypeCorrect, PTL DEF Spec

-----------------------------------------------------------------------------
(* --rm.                                                                   *)

\* A run with --rm that went the whole way through its finally block.
Reclaimed(r) == pc[r] = "over" /\ opt[r].rm /\ stage[r] # "unnamed"

\* A run has nothing to reclaim before its name is set, only the devfs is mounted in
\* what it reclaims, and what it leaves behind without one is a dataset.
ReclaimInv ==
    /\ RmReclaims
    /\ \A r \in Runs :
        /\ pc[r] \in {"idle", "dbcheck", "clone", "prepare"} => stage[r] = "unnamed"
        /\ pc[r] = "reclaim" \/ Reclaimed(r) => mounts[r] \subseteq {"dev"}
        /\ Reclaimed(r) /\ "dev" \notin mounts[r] /\ r \in datasets => ~opt[r].thin

\* A rootfs in which nothing is mounted and no jail lives goes, unless it is a dataset
\* with a snapshot.
LEMMA DestroySucceeds ==
    ASSUME "destroy" \notin Faults, NEW r \in Runs, DestroyRootfs(r), ~Busy(r)
    PROVE  r \in datasets' => <<r, "snapshot">> \in committed /\ ~opt[r].thin
<1>1. CASE RemoveTree(r)
  BY <1>1 DEF RemoveTree
<1>2. CASE ZfsDestroy(r) /\ ~opt[r].thin
  BY <1>2 DEF ZfsDestroy
<1>. QED BY <1>1, <1>2 DEF DestroyRootfs

\* zfs destroy -r takes the snapshots of a dataset not in use together with it, or
\* leaves them.
LEMMA SnapshotGoesAlong ==
    ASSUME "destroy" \notin Faults, NEW d \in Runs, DestroyDataset(d),
           NEW r \in Runs, r \in datasets \cap datasets', ~Busy(r), ~opt[r].thin,
           <<r, "snapshot">> \in committed
    PROVE  <<r, "snapshot">> \in committed'
<1>1. CASE d # r
  <2>1. <<r, "snapshot">> # <<d, "snapshot">>
    BY <1>1
  <2>. QED BY <2>1, DestroyUncommits
<1>2. CASE d = r /\ ZfsDestroyRecursive(r)
  <2>1. r \in datasets'
    OBVIOUS
  <2>. QED BY <1>2, <2>1 DEF ZfsDestroyRecursive
<1>. QED BY <1>1, <1>2 DEF DestroyDataset

\* The steps of one run leave the rootfs of another where it is.
LEMMA OwnRootfsOnly ==
    ASSUME NEW r \in Runs, Begin(r) \/ RunStep(r) \/ Crash(r)
    PROVE  /\ \A s \in Runs \ {r} : s \in datasets' => s \in datasets
           /\ UNCHANGED committed
<1>1. CASE Reclaim(r)
  BY <1>1, DestroysOwn DEF Reclaim
<1>2. CASE ~Reclaim(r)
  BY <1>2 DEF Begin, BeginForeground, BeginDetached, BeginNamed, RunStep, CheckLedger, Clone,
              ThinRootfs, CloneFails, Prepare, PrepareFails, CreateJail, CreateJailFails,
              RecordRun, JailSetupFails, ExecReturns, ExecTimesOut, ExecRaises, Teardown,
              RecordRunExit, Release, Crash
<1>. QED BY <1>1, <1>2

\* ReclaimInv of one run, for the run that takes a step.
LEMMA RunReclaims ==
    ASSUME {"umount", "destroy"} \cap Faults = {}, TypeOK, JailInv, ReclaimInv,
           NEW r \in Runs, Begin(r) \/ RunStep(r) \/ Crash(r)
    PROVE  /\ pc'[r] \in {"idle", "dbcheck", "clone", "prepare"} => stage'[r] = "unnamed"
           /\ pc'[r] = "reclaim" => mounts'[r] \subseteq {"dev"}
           /\ pc'[r] = "over" /\ opt[r].rm /\ stage'[r] # "unnamed" =>
                /\ mounts'[r] \subseteq {"dev"}
                /\ "dev" \notin mounts'[r] /\ r \in datasets' =>
                     <<r, "snapshot">> \in committed /\ ~opt[r].thin
<1>. USE DEF TypeOK, Goto, Reach
<1>1. CASE Reclaim(r)
  <2>1. pc[r] = "reclaim" /\ pc' = [pc EXCEPT ![r] = "over"] /\ UNCHANGED mounts
    BY <1>1 DEF Reclaim
  <2>2. "dev" \notin mounts[r] => ~Busy(r)
    <3>1. \A n \in Names : jails[n] # r
      BY <2>1 DEF JailInv
    <3>2. mounts[r] \subseteq {"dev"}
      BY <2>1 DEF ReclaimInv
    <3>. QED BY <3>1, <3>2 DEF Busy
  <2>3. "dev" \notin mounts[r] /\ r \in datasets' =>
            <<r, "snapshot">> \in committed /\ ~opt[r].thin
    BY <1>1, <2>2, DestroySucceeds DEF Reclaim
  <2>4. mounts[r] \subseteq {"dev"}
    BY <2>1 DEF ReclaimInv
  <2>. QED BY <2>1, <2>3, <2>4
<1>2. CASE Release(r)
  <2>1. /\ pc' = [pc EXCEPT ![r] = "reclaim"]
        /\ mounts' = [mounts EXCEPT ![r] = @ \ Bind]
    BY <1>2 DEF Release, Unbound
  <2>. QED BY <2>1 DEF Mount
<1>3. CASE Begin(r) \/ CheckLedger(r) \/ Clone(r) \/ ThinRootfs(r) \/ CloneFails(r)
  <2>1. /\ pc[r] \in {"idle", "dbcheck", "clone"}
        /\ \E l \in {"dbcheck", "clone", "prepare", "over"} : pc' = [pc EXCEPT ![r] = l]
        /\ UNCHANGED stage
    BY <1>3 DEF Begin, BeginForeground, BeginDetached, BeginNamed, CheckLedger, Clone,
                ThinRootfs, CloneFails
  <2>. QED BY <2>1 DEF ReclaimInv
<1>4. CASE PrepareFails(r)
  BY <1>4 DEF PrepareFails, ReclaimInv
<1>5. CASE RecordRunExit(r)
  <2>1. pc' = [pc EXCEPT ![r] = IF opt[r].rm THEN "destroy" ELSE "over"]
    BY <1>5 DEF RecordRunExit
  <2>. QED BY <2>1
<1>6. CASE Prepare(r) \/ CreateJail(r) \/ CreateJailFails(r)
  BY <1>6 DEF Prepare, CreateJail, CreateJailFails
<1>7. CASE RecordRun(r) \/ JailSetupFails(r) \/ ExecReturns(r)
  BY <1>7 DEF RecordRun, JailSetupFails, ExecReturns
<1>8. CASE ExecTimesOut(r) \/ ExecRaises(r) \/ Teardown(r) \/ Crash(r)
  BY <1>8 DEF ExecTimesOut, ExecRaises, Teardown, Crash
<1>. QED BY <1>1, <1>2, <1>3, <1>4, <1>5, <1>6, <1>7, <1>8 DEF RunStep

LEMMA RunKeepsReclaimInv ==
    ASSUME {"umount", "destroy"} \cap Faults = {}, TypeOK, JailInv, ReclaimInv,
           NEW r \in Runs, Begin(r) \/ RunStep(r) \/ Crash(r)
    PROVE  ReclaimInv'
<1>1. /\ UNCHANGED opt
      /\ \A s \in Runs \ {r} : pc'[s] = pc[s] /\ stage'[s] = stage[s] /\ mounts'[s] = mounts[s]
  <2>1. CASE Begin(r)
    BY <2>1 DEF Begin, BeginForeground, BeginDetached, BeginNamed, Goto, TypeOK
  <2>. QED BY <2>1, RunStepEffect
<1>2. \A s \in Runs \ {r} : s \in datasets' => s \in datasets
  BY OwnRootfsOnly
<1>3. UNCHANGED committed
  BY OwnRootfsOnly
<1>4. \A s \in Runs \ {r} : Reclaimed(s)' <=> Reclaimed(s)
  BY <1>1 DEF Reclaimed
<1>5. RmReclaims'
  <2>1. ASSUME NEW s \in Runs \ {r}, pc'[s] = "over", opt'[s].rm, stage'[s] # "unnamed",
               "dev" \notin mounts'[s], <<s, "snapshot">> \notin committed'
        PROVE  s \notin datasets'
    BY <1>1, <1>2, <1>3, <2>1 DEF ReclaimInv, RmReclaims
  <2>2. pc'[r] = "over" /\ opt'[r].rm /\ stage'[r] # "unnamed"
        /\ "dev" \notin mounts'[r] /\ <<r, "snapshot">> \notin committed'
        => r \notin datasets'
    BY <1>1, <1>3, RunReclaims
  <2>. QED BY <2>1, <2>2 DEF RmReclaims
<1>6. ASSUME NEW s \in Runs
      PROVE  /\ pc'[s] \in {"idle", "dbcheck", "clone", "prepare"} => stage'[s] = "unnamed"
             /\ pc'[s] = "reclaim" \/ Reclaimed(s)' => mounts'[s] \subseteq {"dev"}
             /\ Reclaimed(s)' /\ "dev" \notin mounts'[s] /\ s \in datasets' => ~opt'[s].thin
  <2>1. CASE s = r
    BY <1>1, <2>1, RunReclaims DEF Reclaimed
  <2>2. CASE s # r
    BY <1>1, <1>2, <1>4, <2>2 DEF ReclaimInv
  <2>. QED BY <2>1, <2>2
<1>. QED BY <1>5, <1>6 DEF ReclaimInv

\* Commands and collectors take a snapshot only together with its dataset, once its
\* run has gone the whole way.
LEMMA OthersKeepReclaimInv ==
    ASSUME "destroy" \notin Faults, TypeOK, JailInv, ReclaimInv,
           \/ \E k \in Clients : ClientStep(k)
           \/ \E c \in Collectors : GcStep(c) \/ GcDies(c)
    PROVE  ReclaimInv'
<1>1. /\ UNCHANGED mounts
      /\ datasets' \subseteq datasets
      /\ committed \subseteq committed' \/ \E d \in Runs : DestroyDataset(d)
  BY OthersDestroy
<1>2. UNCHANGED <<pc, stage, opt>>
  BY OthersOnlyRemove
<1>3. ASSUME NEW r \in Runs, Reclaimed(r), "dev" \notin mounts[r], r \in datasets'
      PROVE  <<r, "snapshot">> \in committed'
  <2>1. ~opt[r].thin /\ mounts[r] = {} /\ <<r, "snapshot">> \in committed /\ r \in datasets
    BY <1>1, <1>3 DEF ReclaimInv, RmReclaims, Reclaimed
  <2>2. ~Busy(r)
    BY <1>3, <2>1, NoRunAssumption DEF Busy, JailInv, Reclaimed
  <2>. QED BY <1>1, <1>3, <2>1, <2>2, SnapshotGoesAlong
<1>4. \A r \in Runs : Reclaimed(r)' <=> Reclaimed(r)
  BY <1>2 DEF Reclaimed
<1>5. RmReclaims'
  BY <1>1, <1>2, <1>3 DEF RmReclaims, Reclaimed
<1>. QED BY <1>1, <1>2, <1>4, <1>5 DEF ReclaimInv

\* A run with --rm that got as far as its name, returns with nothing mounted and has no
\* snapshot left by commit has removed its rootfs, whatever the others did, as long as jail -r,
\* umount -f and the destruction of what is not busy work.
THEOREM RmRunsReclaim ==
    ASSUME {"jail-r", "umount", "destroy"} \cap Faults = {}
    PROVE  Spec => []RmReclaims
<1>1. Init => ReclaimInv
  BY DEF Init, ReclaimInv, RmReclaims, Reclaimed
<1>2. TypeOK /\ JailInv /\ ReclaimInv /\ [Next]_vars => ReclaimInv'
  <2>1. ASSUME TypeOK, JailInv, ReclaimInv, Next PROVE ReclaimInv'
    <3>1. CASE \E r \in Runs : Begin(r) \/ RunStep(r) \/ Crash(r)
      BY <2>1, <3>1, RunKeepsReclaimInv
    <3>2. CASE \/ \E k \in Clients : ClientStep(k)
               \/ \E c \in Collectors : GcStep(c) \/ GcDies(c)
      BY <2>1, <3>2, OthersKeepReclaimInv
    <3>. QED BY <2>1, <3>1, <3>2 DEF Next
  <2>2. ASSUME ReclaimInv, UNCHANGED vars PROVE ReclaimInv'
    BY <2>2 DEF ReclaimInv, RmReclaims, Reclaimed, vars
  <2>. QED BY <2>1, <2>2
<1>3. ReclaimInv => RmReclaims
  BY DEF ReclaimInv
<1>4. "jail-r" \notin Faults
  OBVIOUS
<1>. QED BY <1>1, <1>2, <1>3, <1>4, TypeCorrect, JailInvariant, PTL DEF Spec

-----------------------------------------------------------------------------
(* Names that no two runs share: all but those of --name.                  *)

NamesOf(r) == {OwnName(r), FreshName(r)}

\* A jail and a row have the name of the run that made them, which is its own.
NameInv ==
    /\ \A r \in Runs : name[r] \in NamesOf(r)
    /\ \A r \in Runs, n \in Names : jails[n] = r => n = name[r] /\ pc[r] \notin Before
    /\ \A r \in Runs, n \in Names : rows[n].dataset = r => n = name[r] /\ pc[r] \notin Before

\* What a step of a run does to the ledger: a row of its own, under its name.
LEMMA RunStepRows ==
    ASSUME TypeOK, NEW r \in Runs, RunStep(r) \/ Crash(r), NEW n \in Names
    PROVE  \/ rows'[n].dataset = rows[n].dataset
           \/ pc[r] = "record" /\ n = name[r] /\ rows'[n].dataset = r
<1>1. CASE RecordRun(r)
  BY <1>1 DEF RecordRun, RecordStart, TypeOK, Ledger
<1>2. CASE RecordRunExit(r)
  <2>1. name[r] \in Names
    BY DEF TypeOK
  <2>2. RowsOnlyClose
    BY <1>2, <2>1, RecordExitCloses DEF RecordRunExit, RowsOnlyClose
  <2>. QED BY <2>2 DEF RowsOnlyClose
<1>3. CASE ~RecordRun(r) /\ ~RecordRunExit(r)
  BY <1>3 DEF RunStep, CheckLedger, Clone, ThinRootfs, CloneFails, Prepare, PrepareFails,
              CreateJail, CreateJailFails, JailSetupFails, ExecReturns, ExecTimesOut, ExecRaises,
              Teardown, Release, Reclaim, Crash
<1>. QED BY <1>1, <1>2, <1>3

LEMMA RunKeepsNameInv ==
    ASSUME "user" \notin NameModes, TypeOK, NameInv,
           NEW r \in Runs, Begin(r) \/ RunStep(r) \/ Crash(r)
    PROVE  NameInv'
<1>. USE DEF TypeOK
<1>1. CASE Begin(r)
  <2>1. /\ pc[r] = "idle" /\ pc' = [pc EXCEPT ![r] = "clone"]
        /\ \E n \in NamesOf(r) : name' = [name EXCEPT ![r] = n]
        /\ UNCHANGED <<jails, rows>>
    BY <1>1 DEF Begin, BeginForeground, BeginDetached, BeginNamed, Goto, NamesOf
  <2>2. /\ pc[r] \in Before /\ name'[r] \in NamesOf(r)
        /\ \A s \in Runs \ {r} : name'[s] = name[s] /\ pc'[s] = pc[s]
    BY <2>1 DEF Before
  <2>. QED BY <2>1, <2>2 DEF NameInv
<1>2. CASE RunStep(r) \/ Crash(r)
  <2>1. /\ UNCHANGED name
        /\ \A s \in Runs : pc'[s] \in Before => pc[s] \in Before
    BY <1>2, RunStepEffect
  <2>2. \A s \in Runs, n \in Names : jails'[n] = s =>
            \/ jails[n] = s
            \/ s = r /\ n = name[r] /\ pc'[r] \notin Before
    <3>1. CASE \A n \in Names : jails'[n] \in {jails[n], NoRun}
      BY <3>1, NoRunAssumption
    <3>2. CASE pc'[r] \notin Before /\ jails' = [jails EXCEPT ![name[r]] = r]
      BY <3>2
    <3>. QED BY <1>2, <3>1, <3>2, RunStepEffect
  <2>3. pc[r] = "record" => pc'[r] \notin Before
    <3>1. "record" \notin Before
      BY DEF Before
    <3>. QED BY <2>1, <3>1
  <2>4. \A s \in Runs, n \in Names : rows'[n].dataset = s =>
            \/ rows[n].dataset = s
            \/ s = r /\ n = name[r] /\ pc'[r] \notin Before
    BY <1>2, <2>3, RunStepRows
  <2>. QED BY <2>1, <2>2, <2>4 DEF NameInv
<1>. QED BY <1>1, <1>2

LEMMA NameInvariant ==
    ASSUME "user" \notin NameModes
    PROVE  Spec => []NameInv
<1>1. Init => NameInv
  BY NoRunAssumption DEF Init, NameInv, NamesOf, NoRow
<1>2. TypeOK /\ NameInv /\ [Next]_vars => NameInv'
  <2>1. ASSUME TypeOK, NameInv, Next PROVE NameInv'
    <3>1. CASE \E r \in Runs : Begin(r) \/ RunStep(r) \/ Crash(r)
      BY <2>1, <3>1, RunKeepsNameInv
    <3>2. CASE \/ \E k \in Clients : ClientStep(k)
               \/ \E c \in Collectors : GcStep(c) \/ GcDies(c)
      <4>1. /\ RowsOnlyClose /\ UNCHANGED <<pc, name>>
            /\ \A n \in Names : jails'[n] \in {jails[n], NoRun}
        BY <2>1, <3>2, OthersOnlyClose, OthersOnlyRemove
      <4>. QED BY <2>1, <4>1, NoRunAssumption DEF NameInv, RowsOnlyClose
    <3>. QED BY <2>1, <3>1, <3>2 DEF Next
  <2>2. ASSUME NameInv, UNCHANGED vars PROVE NameInv'
    BY <2>2 DEF NameInv, vars
  <2>. QED BY <2>1, <2>2
<1>. QED BY <1>1, <1>2, TypeCorrect, PTL DEF Spec

\* A jail that a run could not remove is on the list of the next pass of gc, if names
\* are jailrun's own and the db took the writes: its row is no longer "running", and
\* no other run writes one under its name.
THEOREM LeftoversAreFlagged ==
    ASSUME "user" \notin NameModes, "db" \notin Faults
    PROVE  Spec => []LeftoverJailIsFlagged
<1>1. TypeOK /\ NameInv /\ RowInv => LeftoverJailIsFlagged
  <2>1. SUFFICES ASSUME TypeOK, NameInv, RowInv, NEW r \in Runs, NEW n \in Names,
                        pc[r] = "over", jails[n] = r, Prefixed(n)
                 PROVE  n \in OrphanJails(LiveJails, rows)
    BY DEF LeftoverJailIsFlagged
  <2>2. n \in LiveJails
    BY <2>1, NoRunAssumption DEF LiveJails
  <2>3. ASSUME rows[n].status = "running" PROVE FALSE
    <3>1. rows[n].dataset \in Runs
      BY <2>1, <2>3 DEF TypeOK, Ledger, Row, NoRow
    <3>2. PICK q \in Runs : rows[n].dataset = q
      BY <3>1
    <3>3. n \in NamesOf(q) /\ n \in NamesOf(r) /\ pc[q] # "over"
      BY <2>1, <2>3, <3>2 DEF NameInv, RowInv
    <3>4. q = r
      BY <3>3 DEF NamesOf, OwnName, FreshName
    <3>. QED BY <2>1, <3>3, <3>4
  <2>. QED BY <2>1, <2>2, <2>3 DEF OrphanJails
<1>. QED BY <1>1, TypeCorrect, NameInvariant, RowInvariant, PTL

-----------------------------------------------------------------------------
(* What stop relies on between its check, its jail -r and what follows.    *)

\* No jail will come up under this name, or with this rootfs, any more.
Settled(n) == \A q \in Runs : n \in NamesOf(q) => pc[q] \notin Before
Gone(d) == pc[d] \notin Before /\ \A n \in Names : jails[n] # d

\* Neither is ever undone: a run makes one jail, under a name of its own.
LEMMA SettledStays ==
    ASSUME TypeOK, NameInv, [Next]_vars
    PROVE  /\ \A n \in Names : Settled(n) => Settled(n)'
           /\ \A n \in Names : Settled(n) /\ jails[n] = NoRun => jails'[n] = NoRun
           /\ \A d \in Runs : Gone(d) => Gone(d)'
<1>1. CASE \E r \in Runs : RunStep(r) \/ Crash(r)
  <2>1. PICK r \in Runs : RunStep(r) \/ Crash(r)
    BY <1>1
  <2>2. /\ pc'[r] \in Before => pc[r] \in Before
        /\ \A s \in Runs \ {r} : pc'[s] = pc[s]
    BY <2>1, RunStepEffect
  <2>3. CASE \A n \in Names : jails'[n] \in {jails[n], NoRun}
    BY <2>2, <2>3, NoRunAssumption DEF Settled, Gone
  <2>4. CASE pc[r] = "jailc" /\ jails' = [jails EXCEPT ![name[r]] = r]
    <3>1. pc[r] \in Before /\ name[r] \in NamesOf(r)
      BY <2>4 DEF Before, NameInv
    <3>2. /\ \A n \in Names : Settled(n) => n # name[r]
          /\ \A d \in Runs : Gone(d) => d # r
      BY <3>1 DEF Settled, Gone
    <3>3. \A n \in Names : n # name[r] => jails'[n] = jails[n]
      BY <2>4 DEF TypeOK
    <3>4. jails'[name[r]] = r
      BY <2>4 DEF TypeOK
    <3>. QED BY <2>2, <3>2, <3>3, <3>4 DEF Settled, Gone
  <2>. QED BY <2>1, <2>3, <2>4, RunStepEffect
<1>2. CASE \E r \in Runs : Begin(r)
  <2>1. PICK r \in Runs : pc[r] = "idle" /\ UNCHANGED jails
                          /\ \A s \in Runs \ {r} : pc'[s] = pc[s]
    BY <1>2 DEF Begin, BeginForeground, BeginDetached, BeginNamed, Goto, TypeOK
  <2>2. pc[r] \in Before
    BY <2>1 DEF Before
  <2>. QED BY <2>1, <2>2 DEF Settled, Gone
<1>3. CASE \/ \E k \in Clients : ClientStep(k)
           \/ \E c \in Collectors : GcStep(c) \/ GcDies(c)
  BY <1>3, OthersOnlyRemove, NoRunAssumption DEF Settled, Gone
<1>4. CASE UNCHANGED vars
  BY <1>4 DEF Settled, Gone, vars
<1>. QED BY <1>1, <1>2, <1>3, <1>4 DEF Next

\* Whoever a run, a client or a collector is, it leaves the locals of other clients alone.
LEMMA OthersKeepCmd ==
    ASSUME Next, NEW k \in Clients
    PROVE  ClientStep(k) \/ cmd'[k] = cmd[k] \/ cmd \notin [Clients -> Cmd]
<1>1. ASSUME NEW r \in Runs, Begin(r) \/ RunStep(r) \/ Crash(r) PROVE UNCHANGED cmd
  BY <1>1 DEF Begin, BeginForeground, BeginDetached, BeginNamed, RunStep, CheckLedger, Clone,
              ThinRootfs, CloneFails, Prepare, PrepareFails, CreateJail, CreateJailFails,
              RecordRun, JailSetupFails, ExecReturns, ExecTimesOut, ExecRaises, Teardown,
              RecordRunExit, Release, Reclaim, Crash
<1>2. ASSUME NEW c \in Collectors, GcStep(c) \/ GcDies(c) PROVE UNCHANGED cmd
  BY <1>2 DEF GcStep, GcDies, GcListJails, GcListRows, GcReconcile, GcFixRow, GcFixJail,
              GcFixDataset, GcFinish
<1>3. ASSUME NEW j \in Clients \ {k}, ClientStep(j), cmd \in [Clients -> Cmd]
      PROVE  cmd'[k] = cmd[k]
  BY <1>3 DEF ClientStep, StopBegin, StopRemove, StopRecord, RmBegin, Lookup, DestroyTarget,
              ExecBegin, ExecExpires, CommitBegin, CommitSnapshot, CommitClone,
              ClientEnds
<1>. QED BY <1>1, <1>2, <1>3 DEF Next

\* A name that stop works on is one under which no jail comes up; once its jail -r is
\* done, none is live.
StopOf(c) ==
    /\ c.pc \in {"stop", "record"} => Settled(c.name)
    /\ c.pc = "record" => jails[c.name] = NoRun
StopInv == \A k \in Clients : StopOf(cmd[k])

LEMMA StopKeepsStopInv ==
    ASSUME "jail-r" \notin Faults, TypeOK, NameInv, StopInv, NEW k \in Clients, ClientStep(k)
    PROVE  /\ cmd'[k].pc \in {"stop", "record"} => Settled(cmd'[k].name)
           /\ cmd'[k].pc = "record" => jails'[cmd'[k].name] = NoRun
<1>. USE DEF TypeOK
<1>1. CASE StopBegin(k)
  <2>1. PICK n \in Names, stop \in Commands :
            /\ TRUE \in LiveAnswers(n)
            /\ cmd' = [cmd EXCEPT ![k] = [NoCmd EXCEPT !.pc = "stop", !.name = n,
                                                       !.rm = (stop = "stop --rm")]]
    BY <1>1 DEF StopBegin
  <2>2. n \in LiveJails
    BY <2>1 DEF LiveAnswers
  <2>3. PICK q \in Runs : jails[n] = q
    BY <2>2 DEF LiveJails
  <2>4. n \in NamesOf(q) /\ pc[q] \notin Before
    BY <2>3 DEF NameInv
  <2>5. Settled(n)
    BY <2>4 DEF Settled, NamesOf, OwnName, FreshName
  <2>6. cmd'[k].pc = "stop" /\ cmd'[k].name = n
    BY <2>1 DEF NoCmd
  <2>. QED BY <2>5, <2>6
<1>2. CASE StopRemove(k)
  <2>1. /\ cmd[k].pc = "stop" /\ RemoveJail(cmd[k].name)
        /\ cmd' = [cmd EXCEPT ![k].pc = "record"]
    BY <1>2 DEF StopRemove
  <2>2. cmd[k].name \in Names
    BY <2>1 DEF Cmd, NoCmd
  <2>3. cmd'[k].name = cmd[k].name /\ jails'[cmd[k].name] = NoRun
    BY <2>1, <2>2 DEF RemoveJail, Cmd, NoCmd
  <2>. QED BY <2>1, <2>3 DEF StopInv, StopOf
<1>3. CASE RmBegin(k) \/ ExecBegin(k) \/ CommitBegin(k)
  <2>1. cmd'[k].pc \in {"lookup", "exec", "commit"}
    <3>1. CASE RmBegin(k)
      BY <3>1 DEF RmBegin, NoCmd
    <3>2. CASE ExecBegin(k)
      BY <3>2 DEF ExecBegin, NoCmd
    <3>3. CASE CommitBegin(k)
      BY <3>3 DEF CommitBegin, NoCmd
    <3>. QED BY <1>3, <3>1, <3>2, <3>3
  <2>. QED BY <2>1
<1>4. CASE \/ StopRemove(k) \/ StopRecord(k) \/ DestroyTarget(k) \/ ExecExpires(k)
           \/ CommitSnapshot(k) \/ CommitClone(k) \/ ClientEnds(k) \/ Lookup(k)
  <2>1. cmd[k] \in Cmd
    OBVIOUS
  <2>2. CASE cmd' = [cmd EXCEPT ![k] = NoCmd]
    BY <2>2 DEF NoCmd
  <2>3. CASE StopRecord(k) /\ cmd' = [cmd EXCEPT ![k] = [@ EXCEPT !.pc = "lookup"]]
    <3>1. cmd'[k].pc = "lookup"
      BY <2>1, <2>3 DEF Cmd, NoCmd
    <3>. QED BY <3>1
  <2>4. CASE Lookup(k) /\ cmd' # [cmd EXCEPT ![k] = NoCmd]
    <3>1. cmd'[k].pc = "destroy"
      BY <2>1, <2>4 DEF Lookup, Cmd, NoCmd
    <3>. QED BY <3>1
  <2>5. CASE CommitSnapshot(k) /\ cmd' = [cmd EXCEPT ![k].pc = "clone"]
    <3>1. cmd'[k].pc = "clone"
      BY <2>1, <2>5 DEF Cmd, NoCmd
    <3>. QED BY <3>1
  <2>. QED BY <1>2, <1>4, <2>2, <2>3, <2>4, <2>5
         DEF StopRecord, DestroyTarget, ExecExpires, CommitSnapshot, CommitClone,
              ClientEnds
<1>. QED BY <1>1, <1>2, <1>3, <1>4 DEF ClientStep

LEMMA StopInvariant ==
    ASSUME "user" \notin NameModes, "jail-r" \notin Faults
    PROVE  Spec => []StopInv
<1>1. Init => StopInv
  BY DEF Init, StopInv, StopOf, NoCmd
<1>2. TypeOK /\ NameInv /\ StopInv /\ [Next]_vars => StopInv'
  <2>1. SUFFICES ASSUME TypeOK, NameInv, StopInv, [Next]_vars, NEW k \in Clients
                 PROVE  StopOf(cmd[k])'
    BY DEF StopInv
  <2>2. cmd[k].pc \in {"stop", "record"} => cmd[k].name \in Names
    <3>1. cmd[k] \in Cmd
      BY <2>1 DEF TypeOK
    <3>. QED BY <3>1 DEF Cmd, NoCmd
  <2>3. CASE cmd'[k] = cmd[k]
    BY <2>1, <2>2, <2>3, SettledStays DEF StopInv, StopOf
  <2>4. CASE ClientStep(k)
    <3>1. Next
      BY <2>4 DEF Next
    <3>2. TypeOK' /\ UNCHANGED pc
      BY <2>1, <2>4, ClientStepType, OthersOnlyRemove
    <3>3. \A n : Settled(n)' <=> Settled(n)
      BY <3>2 DEF Settled
    <3>. QED BY <2>1, <2>4, <3>3, StopKeepsStopInv DEF StopOf
  <2>5. CASE UNCHANGED vars
    BY <2>3, <2>5 DEF vars
  <2>. QED BY <2>1, <2>3, <2>4, <2>5, OthersKeepCmd DEF TypeOK
<1>. QED BY <1>1, <1>2, TypeCorrect, NameInvariant, PTL DEF Spec

-----------------------------------------------------------------------------
(* Rootfs of live jails.                                                   *)

\* What was destroyed, or is about to be by stop --rm, has no jail any more.
LookupOf(c) ==
    /\ c.pc = "lookup" => Settled(c.name) /\ jails[c.name] = NoRun
    /\ c.pc = "destroy" => Gone(c.target)
KeepInv ==
    /\ \A r \in Runs : <<r, "rootfs">> \in lost => Gone(r)
    /\ \A k \in Clients : LookupOf(cmd[k])

\* What gc is about to destroy has no jail either, if there are collectors at all.
FixesGone == \A c \in Collectors : \A d \in gc[c].fixes.datasets : Gone(d)

\* A client destroys what it looked up, and looks up after its jail -r only.
LEMMA ClientKeepsLookup ==
    ASSUME "rm" \notin Commands, TypeOK, NameInv, StopInv, KeepInv,
           NEW k \in Clients, ClientStep(k)
    PROVE  /\ cmd'[k].pc = "lookup" => Settled(cmd'[k].name) /\ jails[cmd'[k].name] = NoRun
           /\ cmd'[k].pc = "destroy" => Gone(cmd'[k].target)
<1>. USE DEF TypeOK
<1>1. cmd[k] \in Cmd
  OBVIOUS
<1>2. CASE cmd' = [cmd EXCEPT ![k] = NoCmd]
  BY <1>2 DEF NoCmd
<1>3. CASE StopRecord(k) /\ cmd' = [cmd EXCEPT ![k] = [@ EXCEPT !.pc = "lookup"]]
  <2>1. cmd[k].pc = "record" /\ cmd'[k].pc = "lookup" /\ cmd'[k].name = cmd[k].name
    BY <1>1, <1>3 DEF StopRecord, Cmd, NoCmd
  <2>. QED BY <2>1 DEF StopInv, StopOf
<1>4. CASE Lookup(k) /\ cmd' # [cmd EXCEPT ![k] = NoCmd]
  <2>1. /\ cmd[k].pc = "lookup" /\ rows[cmd[k].name] # NoRow
        /\ cmd'[k].pc = "destroy" /\ cmd'[k].target = rows[cmd[k].name].dataset
    BY <1>1, <1>4 DEF Lookup, Cmd, NoCmd
  <2>2. cmd[k].name \in Names
    BY <1>1, <2>1 DEF Cmd, NoCmd
  <2>3. PICK d \in Runs : rows[cmd[k].name].dataset = d
    BY <2>1, <2>2 DEF Ledger, Row
  <2>4. cmd[k].name = name[d] /\ pc[d] \notin Before
    BY <2>2, <2>3 DEF NameInv
  <2>5. jails[name[d]] = NoRun
    BY <2>1, <2>4 DEF KeepInv, LookupOf
  <2>6. Gone(d)
    BY <2>4, <2>5, NoRunAssumption DEF NameInv, Gone
  <2>. QED BY <2>1, <2>3, <2>6
<1>5. CASE StopBegin(k) \/ ExecBegin(k) \/ CommitBegin(k) \/ StopRemove(k)
  <2>1. CASE StopBegin(k)
    <3>1. PICK n \in Names, b \in BOOLEAN :
              cmd' = [cmd EXCEPT ![k] = [NoCmd EXCEPT !.pc = "stop", !.name = n, !.rm = b]]
      BY <2>1 DEF StopBegin
    <3>2. cmd'[k].pc = "stop"
      BY <3>1 DEF NoCmd
    <3>. QED BY <3>2
  <2>2. CASE ExecBegin(k)
    BY <2>2 DEF ExecBegin, NoCmd
  <2>3. CASE CommitBegin(k)
    BY <2>3 DEF CommitBegin, NoCmd
  <2>4. CASE StopRemove(k) /\ cmd' # [cmd EXCEPT ![k] = NoCmd]
    <3>1. cmd'[k].pc = "record"
      BY <1>1, <2>4 DEF StopRemove, Cmd, NoCmd
    <3>. QED BY <3>1
  <2>. QED BY <1>2, <1>5, <2>1, <2>2, <2>3, <2>4
<1>6. CASE CommitSnapshot(k) /\ cmd' = [cmd EXCEPT ![k].pc = "clone"]
  <2>1. cmd'[k].pc = "clone"
    BY <1>1, <1>6 DEF Cmd, NoCmd
  <2>. QED BY <2>1
<1>. QED BY <1>2, <1>3, <1>4, <1>5, <1>6
     DEF ClientStep, StopRecord, RmBegin, Lookup, DestroyTarget, ExecExpires, CommitSnapshot, CommitClone,
              ClientEnds

\* Only the rootfs of runs without a jail are destroyed.
LEMMA GoneAreLost ==
    ASSUME TypeOK, JailInv, FixesGone, KeepInv, [Next]_vars,
           NEW d \in Runs, <<d, "rootfs">> \in lost'
    PROVE  Gone(d)
<1>1. ASSUME <<d, "rootfs">> \notin lost PROVE Gone(d)
  <2>1. CASE \E r \in Runs : Begin(r) \/ RunStep(r) \/ Crash(r)
    <3>1. PICK r \in Runs : Reclaim(r)
      BY <1>1, <2>1, OnlyReclaimLoses
    <3>2. d = r
      BY <1>1, <3>1, DestroysOwn DEF Reclaim
    <3>3. pc[d] = "reclaim"
      BY <3>1, <3>2 DEF Reclaim
    <3>. QED BY <3>3 DEF JailInv, Gone, Before
  <2>2. CASE \E k \in Clients : ClientStep(k)
    <3>1. PICK k \in Clients : DestroyTarget(k)
      BY <1>1, <2>2 DEF ClientStep, StopBegin, StopRemove, StopRecord, RmBegin, Lookup, ExecBegin,
                        ExecExpires, CommitBegin, CommitSnapshot, CommitClone,
              ClientEnds
    <3>2. cmd[k].pc = "destroy" /\ DestroyDataset(cmd[k].target)
      BY <3>1 DEF DestroyTarget
    <3>3. cmd[k] \in Cmd
      BY DEF TypeOK
    <3>4. cmd[k].target \in Runs
      BY <3>2, <3>3 DEF Cmd, NoCmd
    <3>5. d = cmd[k].target
      BY <1>1, <3>2, <3>4, DestroysOwn
    <3>. QED BY <3>2, <3>5 DEF KeepInv, LookupOf
  <2>3. CASE \E c \in Collectors : GcStep(c) \/ GcDies(c)
    <3>1. PICK c \in Collectors : GcFixDataset(c)
      BY <1>1, <2>3 DEF GcStep, GcDies, GcListJails, GcListRows, GcReconcile, GcFixRow,
                        GcFixJail, GcFinish
    <3>2. PICK e \in gc[c].fixes.datasets : DestroyDataset(e)
      BY <3>1 DEF GcFixDataset
    <3>3. e \in Runs
      BY <3>2 DEF TypeOK, Gc, Fixes
    <3>4. d = e
      BY <1>1, <3>2, <3>3, DestroysOwn
    <3>. QED BY <3>2, <3>4 DEF FixesGone
  <2>4. CASE UNCHANGED vars
    BY <1>1, <2>4 DEF vars
  <2>. QED BY <2>1, <2>2, <2>3, <2>4 DEF Next
<1>. QED BY <1>1 DEF KeepInv

LEMMA KeepStays ==
    ASSUME "rm" \notin Commands, TypeOK, NameInv, JailInv, StopInv, FixesGone, KeepInv, [Next]_vars
    PROVE  KeepInv'
<1>1. \A r \in Runs : <<r, "rootfs">> \in lost' => Gone(r)'
  BY GoneAreLost, SettledStays
<1>2. ASSUME NEW k \in Clients PROVE LookupOf(cmd[k])'
  <2>1. CASE cmd'[k] = cmd[k]
    <3>1. cmd[k] \in Cmd
      BY DEF TypeOK
    <3>2. /\ cmd[k].pc = "lookup" => cmd[k].name \in Names
          /\ cmd[k].pc = "destroy" => cmd[k].target \in Runs
      BY <3>1 DEF Cmd, NoCmd
    <3>. QED BY <2>1, <3>2, SettledStays DEF KeepInv, LookupOf
  <2>2. CASE ClientStep(k)
    <3>1. cmd'[k] \in Cmd
      BY <2>2, ClientStepType DEF TypeOK
    <3>2. /\ cmd'[k].pc = "lookup" => cmd'[k].name \in Names
          /\ cmd'[k].pc = "destroy" => cmd'[k].target \in Runs
      BY <3>1 DEF Cmd, NoCmd
    <3>. QED BY <2>2, <3>2, ClientKeepsLookup, SettledStays DEF LookupOf
  <2>3. CASE UNCHANGED vars
    BY <2>1, <2>3 DEF vars
  <2>. QED BY <2>1, <2>2, <2>3, OthersKeepCmd DEF TypeOK
<1>. QED BY <1>1, <1>2 DEF KeepInv

\* No rootfs goes while its jail lives, with --rm, stop and stop --rm at work, names
\* that are jailrun's own, and a jail -r that works.  rm and gc are left out: their
\* check may be stale when they destroy.
THEOREM LiveJailsKeepRootfs ==
    ASSUME "user" \notin NameModes, "jail-r" \notin Faults, "rm" \notin Commands, Collectors = {}
    PROVE  Spec => []LiveJailKeepsRootfs
<1>1. Init => KeepInv
  BY DEF Init, KeepInv, LookupOf, NoCmd
<1>2. TypeOK /\ NameInv /\ JailInv /\ StopInv /\ KeepInv /\ [Next]_vars => KeepInv'
  <2>1. FixesGone
    BY DEF FixesGone
  <2>. QED BY <2>1, KeepStays
<1>3. KeepInv => LiveJailKeepsRootfs
  BY DEF KeepInv, Gone, LiveJailKeepsRootfs
<1>. QED BY <1>1, <1>2, <1>3, TypeCorrect, NameInvariant, JailInvariant, StopInvariant, PTL DEF Spec

=============================================================================
