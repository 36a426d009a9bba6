--------------------------- MODULE GcHistory_proofs ---------------------------
(***************************************************************************)
(* Proofs about passes of `jailrun gc --fix`, for any number of foreground *)
(* runs, clients and collectors.                                           *)
(***************************************************************************)
EXTENDS GcHistory, JailRunSafety_proofs

-----------------------------------------------------------------------------
(* The history variables add nothing to what the system does.              *)

LEMMA HistoryStep == [HistoryNext]_<<vars, history>> => [Next]_vars
<1>1. HistoryNext => Next
  BY DEF HistoryNext, Pass, Others, Next
<1>. QED BY <1>1 DEF history

LEMMA HistoryRuns == HistorySpec => Spec
BY HistoryStep, PTL DEF HistorySpec, HistoryInit, Spec

LEMMA DisciplinedRuns == DisciplinedSpec => HistorySpec
<1>1. [HistoryNext /\ Disciplined]_<<vars, history>> => [HistoryNext]_<<vars, history>>
  OBVIOUS
<1>. QED BY <1>1, PTL DEF DisciplinedSpec, HistorySpec

-----------------------------------------------------------------------------
(* A pass, from its first read to its last fix.                            *)

\* Every run has its own name.
OwnNamed == \A r \in Runs : name[r] = OwnName(r)

\* A collector has fixes to apply only after it reconciled.
FixInv == \A c \in Collectors : gc[c].pc # "fix" => gc[c].fixes = NoFixes

\* What a collector has read so far speaks for run r, and no fix names it.
Spares(c, r) ==
    /\ gc[c].pc \in {"rows", "datasets"} =>
            gc[c].jails = Unknown \/ OwnName(r) \in gc[c].jails
    /\ gc[c].pc = "datasets" =>
            gc[c].rows = Unknown \/ gc[c].rows[OwnName(r)].status = "running"
    /\ r \notin gc[c].fixes.datasets
    /\ OwnName(r) \notin gc[c].fixes.jails \cup gc[c].fixes.rows

\* Only a collector itself changes its locals.
LEMMA OthersKeepGc ==
    ASSUME TypeOK, [Next]_vars, NEW c \in Collectors
    PROVE  GcStep(c) \/ GcDies(c) \/ gc'[c] = gc[c]
<1>1. ASSUME NEW r \in Runs, Begin(r) \/ RunStep(r) \/ Crash(r) PROVE UNCHANGED gc
  BY <1>1 DEF Begin, BeginForeground, BeginDetached, BeginNamed, RunStep, CheckLedger, Clone,
              ThinRootfs, CloneFails, Prepare, PrepareFails, CreateJail, CreateJailFails,
              RecordRun, JailSetupFails, ExecReturns, ExecTimesOut, ExecRaises, Teardown,
              RecordRunExit, Release, Reclaim, Crash
<1>2. ASSUME NEW k \in Clients, ClientStep(k) PROVE UNCHANGED gc
  BY <1>2 DEF ClientStep, StopBegin, StopRemove, StopRecord, RmBegin, Lookup, DestroyTarget,
              ExecBegin, ExecExpires, CommitBegin, CommitSnapshot,
              CommitClone, ClientEnds
<1>3. ASSUME NEW d \in Collectors \ {c}, GcStep(d) \/ GcDies(d) PROVE gc'[c] = gc[c]
  BY <1>3 DEF GcStep, GcDies, GcListJails, GcListRows, GcReconcile, GcFixRow, GcFixJail,
              GcFixDataset, GcFinish, TypeOK
<1>4. UNCHANGED vars => UNCHANGED gc
  BY DEF vars
<1>. QED BY <1>1, <1>2, <1>3, <1>4 DEF Next

\* The steps of a collector, by what they do to its locals.
LEMMA GcSteps ==
    ASSUME TypeOK, NEW c \in Collectors, GcStep(c) \/ GcDies(c)
    PROVE  \/ /\ gc[c].pc = "idle" /\ gc'[c].pc = "rows"
              /\ gc'[c].jails \in {LiveJails, Unknown} /\ gc'[c].fixes = gc[c].fixes
           \/ /\ gc[c].pc = "rows" /\ gc'[c].pc = "datasets"
              /\ gc'[c].rows \in {rows, Unknown}
              /\ gc'[c].jails = gc[c].jails /\ gc'[c].fixes = gc[c].fixes
           \/ /\ gc[c].pc = "datasets" /\ gc'[c].pc = "fix"
              /\ \E ds \in {GcListed, Unknown, {}} :
                    gc'[c].fixes = Orphans(gc[c].jails, gc[c].rows, ds)
           \/ /\ gc[c].pc = "fix" /\ gc'[c].pc = "fix"
              /\ gc'[c].fixes.rows \subseteq gc[c].fixes.rows
              /\ gc'[c].fixes.jails \subseteq gc[c].fixes.jails
              /\ gc'[c].fixes.datasets \subseteq gc[c].fixes.datasets
           \/ gc'[c] = NoGc
<1>. USE DEF TypeOK
<1>1. gc[c] \in Gc
  OBVIOUS
<1>2. CASE GcListJails(c)
  BY <1>1, <1>2 DEF GcListJails, Gc
<1>3. CASE GcListRows(c)
  BY <1>1, <1>3 DEF GcListRows, Gc
<1>4. CASE GcReconcile(c)
  <2>1. gc[c].pc = "datasets"
    BY <1>4 DEF GcReconcile
  <2>2. PICK ds \in {GcListed, Unknown, {}} :
            gc' = [gc EXCEPT ![c] = [NoGc EXCEPT !.pc = "fix",
                                        !.fixes = Orphans(gc[c].jails, gc[c].rows, ds)]]
    BY <1>4 DEF GcReconcile
  <2>3. /\ gc'[c].pc = "fix"
        /\ gc'[c].fixes = Orphans(gc[c].jails, gc[c].rows, ds)
    BY <2>2 DEF NoGc
  <2>. QED BY <2>1, <2>3
<1>5. CASE GcFixRow(c)
  BY <1>1, <1>5 DEF GcFixRow, Gc, Fixes
<1>6. CASE GcFixJail(c)
  BY <1>1, <1>6 DEF GcFixJail, Gc, Fixes
<1>7. CASE GcFixDataset(c)
  BY <1>1, <1>7 DEF GcFixDataset, Gc, Fixes
<1>8. CASE GcFinish(c) \/ GcDies(c)
  BY <1>8 DEF GcFinish, GcDies
<1>. QED BY <1>2, <1>3, <1>4, <1>5, <1>6, <1>7, <1>8 DEF GcStep

\* reconcile() names no run whose jail and "running" row are in what it was given.
LEMMA ReconcileSpares ==
    ASSUME NEW r \in Runs, NEW js, NEW rs, NEW ds,
           js = Unknown \/ OwnName(r) \in js,
           rs = Unknown \/ rs[OwnName(r)].status = "running"
    PROVE  /\ r \notin Orphans(js, rs, ds).datasets
           /\ OwnName(r) \notin Orphans(js, rs, ds).jails \cup Orphans(js, rs, ds).rows
BY DEF Orphans, NoFixes, StaleRows, OrphanJails, OrphanDatasets

LEMMA FixInvariant == Spec => []FixInv
<1>1. Init => FixInv
  BY DEF Init, FixInv, NoGc
<1>2. TypeOK /\ FixInv /\ [Next]_vars => FixInv'
  <2>1. SUFFICES ASSUME TypeOK, FixInv, [Next]_vars, NEW c \in Collectors
                 PROVE  gc'[c].pc # "fix" => gc'[c].fixes = NoFixes
    BY DEF FixInv
  <2>2. CASE gc'[c] = gc[c]
    BY <2>1, <2>2 DEF FixInv
  <2>3. CASE GcStep(c) \/ GcDies(c)
    BY <2>1, <2>3, GcSteps DEF FixInv, NoGc
  <2>. QED BY <2>1, <2>2, <2>3, OthersKeepGc
<1>. QED BY <1>1, <1>2, TypeCorrect, PTL DEF Spec

\* A collector that has read nothing yet spares everyone ...
LEMMA IdleSpares ==
    ASSUME FixInv, NEW c \in Collectors, NEW r \in Runs, gc[c].pc = "idle"
    PROVE  Spares(c, r)
BY DEF FixInv, Spares, NoFixes

\* ... and goes on sparing a run as long as it finds a jail and a "running" row
\* under its name.
LEMMA SparesStays ==
    ASSUME TypeOK, FixInv, [Next]_vars, NEW c \in Collectors, NEW r \in Runs, Spares(c, r),
           jails[OwnName(r)] # NoRun, rows[OwnName(r)].status = "running"
    PROVE  Spares(c, r)'
<1>1. OwnName(r) \in LiveJails
  BY DEF LiveJails, OwnName, Names
<1>2. CASE gc'[c] = gc[c]
  BY <1>2 DEF Spares
<1>3. CASE GcStep(c) \/ GcDies(c)
  <2>1. ASSUME gc[c].pc = "datasets",
               NEW ds, gc'[c].fixes = Orphans(gc[c].jails, gc[c].rows, ds)
        PROVE  /\ r \notin gc'[c].fixes.datasets
               /\ OwnName(r) \notin gc'[c].fixes.jails \cup gc'[c].fixes.rows
    BY <2>1, ReconcileSpares DEF Spares
  <2>. QED BY <1>1, <1>3, <2>1, GcSteps DEF Spares, NoGc, NoFixes
<1>. QED BY <1>2, <1>3, OthersKeepGc

LEMMA OwnNameInvariant ==
    ASSUME NameModes \subseteq {"own"}
    PROVE  Spec => []OwnNamed
<1>1. Init => OwnNamed
  BY DEF Init, OwnNamed
<1>2. TypeOK /\ OwnNamed /\ [Next]_vars => OwnNamed'
  <2>1. SUFFICES ASSUME TypeOK, OwnNamed, [Next]_vars PROVE OwnNamed'
    OBVIOUS
  <2>2. ASSUME NEW r \in Runs, Begin(r) PROVE OwnNamed'
    BY <2>1, <2>2 DEF Begin, BeginForeground, BeginDetached, BeginNamed, OwnNamed, TypeOK
  <2>3. ASSUME UNCHANGED name PROVE OwnNamed'
    BY <2>1, <2>3 DEF OwnNamed
  <2>4. UNCHANGED vars => UNCHANGED name
    BY DEF vars
  <2>. QED BY <2>1, <2>2, <2>3, <2>4, RunStepEffect, OthersOnlyRemove DEF Next
<1>. QED BY <1>1, <1>2, TypeCorrect, PTL DEF Spec
-----------------------------------------------------------------------------
(* Runs the sources agree on.                                              *)

\* Who is agreed on since a pass began is still agreed on, and that pass spares it.
AgreedInv ==
    \A c \in Collectors :
        /\ agreed[c] \subseteq Runs
        /\ \A r \in agreed[c] : Agreed(r) /\ Spares(c, r)

LEMMA AgreedOwn ==
    ASSUME OwnNamed, NameInv, NEW r \in Runs, Agreed(r)
    PROVE  jails[OwnName(r)] = r /\ rows[OwnName(r)].status = "running"
BY DEF Agreed, OwnNamed, NameInv

LEMMA AgreedStays ==
    ASSUME TypeOK, OwnNamed, NameInv, FixInv, AgreedInv, HistoryNext
    PROVE  AgreedInv'
<1>1. [Next]_vars
  BY HistoryStep
<1>2. SUFFICES ASSUME NEW c \in Collectors, NEW r \in agreed'[c]
               PROVE  r \in Runs /\ Agreed(r)' /\ Spares(c, r)'
  BY DEF AgreedInv
<1>3. /\ r \in IF gc[c].pc = "idle" THEN {q \in Runs : Agreed(q) /\ q \in datasets}
                                    ELSE agreed[c]
      /\ Agreed(r)'
  BY <1>2 DEF HistoryNext, StillAgreed
<1>4. r \in Runs /\ Agreed(r) /\ Spares(c, r)
  <2>1. CASE gc[c].pc = "idle"
    BY <1>3, <2>1, IdleSpares
  <2>2. CASE gc[c].pc # "idle"
    BY <1>3, <2>2 DEF AgreedInv
  <2>. QED BY <2>1, <2>2
<1>5. Spares(c, r)'
  BY <1>1, <1>4, AgreedOwn, SparesStays, NoRunAssumption
<1>. QED BY <1>3, <1>4, <1>5

\* gc spares a foreground run that jls, the db and the store agree is alive from the
\* start of a pass on, whichever reads fail, whoever dies and whatever else goes on.
THEOREM AgreedAreSpared ==
    ASSUME NameModes \subseteq {"own"}
    PROVE  HistorySpec => []GcSparesAgreed
<1>1. HistoryInit => AgreedInv
  BY DEF HistoryInit, AgreedInv
<1>2. /\ TypeOK /\ OwnNamed /\ NameInv /\ FixInv /\ AgreedInv
      /\ [HistoryNext]_<<vars, history>>
      => AgreedInv'
  <2>1. ASSUME AgreedInv, UNCHANGED <<vars, history>> PROVE AgreedInv'
    BY <2>1 DEF AgreedInv, Agreed, Spares, vars, history
  <2>. QED BY <2>1, AgreedStays
<1>3. TypeOK /\ OwnNamed /\ NameInv /\ AgreedInv => GcSparesAgreed
  <2>1. SUFFICES ASSUME TypeOK, OwnNamed, NameInv, AgreedInv,
                        NEW c \in Collectors, NEW r \in agreed[c]
                 PROVE  /\ r \notin gc[c].fixes.datasets
                        /\ \A n \in gc[c].fixes.jails \cup gc[c].fixes.rows : jails[n] # r
    BY DEF GcSparesAgreed
  <2>2. r \in Runs /\ Spares(c, r)
    BY <2>1 DEF AgreedInv
  <2>3. gc[c].fixes.jails \cup gc[c].fixes.rows \subseteq Names
    BY <2>1 DEF TypeOK, Gc, Fixes
  <2>4. \A n \in Names : jails[n] = r => n = OwnName(r)
    BY <2>1, <2>2 DEF OwnNamed, NameInv
  <2>. QED BY <2>2, <2>3, <2>4 DEF Spares
<1>4. "user" \notin NameModes
  OBVIOUS
<1>. QED BY <1>1, <1>2, <1>3, <1>4, HistoryRuns, TypeCorrect, OwnNameInvariant, NameInvariant,
            FixInvariant, PTL DEF HistorySpec

-----------------------------------------------------------------------------
(* Runs that are executing, where no run starts while gc works.            *)

DisciplineInv == \A c \in Collectors : gc[c].pc # "idle" => \A r \in Runs : ~Starting(r)

\* A run that executes in its jail has its row, and every pass spares it.
ExecInv ==
    \A r \in Runs : pc[r] = "exec" /\ jails[OwnName(r)] = r =>
        /\ rows[OwnName(r)].status = "running"
        /\ \A c \in Collectors : Spares(c, r)

\* The jail of an executing run was there before: none comes up under its name.
LEMMA JailWasThere ==
    ASSUME TypeOK, OwnNamed, NameInv, [Next]_vars,
           NEW r \in Runs, pc[r] = "exec", jails'[OwnName(r)] = r
    PROVE  jails[OwnName(r)] = r
<1>1. OwnName(r) \in Names
  BY DEF OwnName, Names
<1>2. Settled(OwnName(r))
  BY DEF Settled, NamesOf, OwnName, FreshName, Before
<1>3. jails[OwnName(r)] # NoRun
  BY <1>1, <1>2, SettledStays, NoRunAssumption
<1>4. PICK q \in Runs : jails[OwnName(r)] = q
  BY <1>1, <1>3 DEF TypeOK
<1>5. OwnName(q) = OwnName(r)
  BY <1>1, <1>4 DEF NameInv, OwnNamed
<1>. QED BY <1>4, <1>5 DEF OwnName

\* Nobody closes the row of a run that executes in its jail.
LEMMA RowStaysOpen ==
    ASSUME TypeOK, OwnNamed, NameInv, StopInv, ExecInv, [Next]_vars,
           NEW r \in Runs, pc[r] = "exec", jails[OwnName(r)] = r
    PROVE  rows'[OwnName(r)] = rows[OwnName(r)]
<1>. DEFINE n == OwnName(r)
<1>1. n \in Names
  BY DEF OwnName, Names
<1>2. ASSUME NEW m \in Names \ {n}, NEW s, RecordExit(m, s) PROVE rows'[n] = rows[n]
  BY <1>1, <1>2 DEF RecordExit, TypeOK, Ledger
<1>3. ASSUME NEW s \in Runs, RunStep(s) \/ Crash(s) PROVE rows'[n] = rows[n]
  <2>1. CASE s = r
    BY <1>3, <2>1 DEF RunStep, CheckLedger, Clone, ThinRootfs, CloneFails, Prepare, PrepareFails,
                      CreateJail, CreateJailFails, RecordRun, JailSetupFails, ExecReturns,
                      ExecTimesOut, ExecRaises, Teardown, RecordRunExit, Release, Reclaim, Crash
  <2>2. CASE s # r
    <3>1. name[s] \in Names \ {n}
      BY <2>2 DEF OwnNamed, OwnName, Names
    <3>2. CASE RecordRun(s)
      BY <1>1, <3>1, <3>2 DEF RecordRun, RecordStart, TypeOK, Ledger
    <3>3. CASE RecordRunExit(s)
      BY <1>2, <3>1, <3>3 DEF RecordRunExit
    <3>4. CASE ~RecordRun(s) /\ ~RecordRunExit(s)
      BY <1>3, <3>4 DEF RunStep, CheckLedger, Clone, ThinRootfs, CloneFails, Prepare,
                        PrepareFails, CreateJail, CreateJailFails, JailSetupFails, ExecReturns,
                        ExecTimesOut, ExecRaises, Teardown, Release, Reclaim, Crash
    <3>. QED BY <3>2, <3>3, <3>4
  <2>. QED BY <2>1, <2>2
<1>4. ASSUME NEW s \in Runs, Begin(s) PROVE rows'[n] = rows[n]
  BY <1>4 DEF Begin, BeginForeground, BeginDetached, BeginNamed
<1>5. ASSUME NEW k \in Clients, ClientStep(k) PROVE rows'[n] = rows[n]
  <2>1. CASE StopRecord(k)
    <3>1. cmd[k] \in Cmd /\ cmd[k].pc = "record"
      BY <2>1 DEF TypeOK, StopRecord
    <3>2. cmd[k].name \in Names
      BY <3>1 DEF Cmd, NoCmd
    <3>3. jails[cmd[k].name] = NoRun
      BY <3>1 DEF StopInv, StopOf
    <3>4. cmd[k].name \in Names \ {n}
      BY <3>2, <3>3, NoRunAssumption
    <3>. QED BY <1>2, <2>1, <3>4 DEF StopRecord
  <2>2. CASE ~StopRecord(k)
    BY <1>5, <2>2 DEF ClientStep, StopBegin, StopRemove, RmBegin, Lookup, DestroyTarget,
                      ExecBegin, ExecExpires, CommitBegin, CommitSnapshot,
                      CommitClone, ClientEnds
  <2>. QED BY <2>1, <2>2
<1>6. ASSUME NEW c \in Collectors, GcStep(c) \/ GcDies(c) PROVE rows'[n] = rows[n]
  <2>1. CASE GcFixRow(c)
    <3>1. PICK m \in gc[c].fixes.rows : RecordExit(m, "killed")
      BY <2>1 DEF GcFixRow
    <3>2. m \in Names /\ m # n
      BY <3>1 DEF TypeOK, Gc, Fixes, ExecInv, Spares
    <3>. QED BY <1>2, <3>1, <3>2
  <2>2. CASE ~GcFixRow(c)
    BY <1>6, <2>2 DEF GcStep, GcDies, GcListJails, GcListRows, GcReconcile, GcFixJail,
                      GcFixDataset, GcFinish
  <2>. QED BY <2>1, <2>2
<1>7. UNCHANGED vars => rows'[n] = rows[n]
  BY DEF vars
<1>. QED BY <1>3, <1>4, <1>5, <1>6, <1>7 DEF Next

\* Who executes next executes already, or is about to record itself.
LEMMA ExecBegins ==
    ASSUME TypeOK, [Next]_vars, NEW r \in Runs, pc'[r] = "exec", pc[r] # "exec"
    PROVE  RecordRun(r)
<1>1. ASSUME NEW s \in Runs, RunStep(s) \/ Crash(s) PROVE RecordRun(r)
  <2>1. s = r
    BY <1>1, RunStepEffect
  <2>. QED BY <1>1, <2>1 DEF RunStep, CheckLedger, Clone, ThinRootfs, CloneFails, Prepare,
              PrepareFails, CreateJail, CreateJailFails, JailSetupFails, ExecReturns,
              ExecTimesOut, ExecRaises, Teardown, RecordRunExit, Release, Reclaim, Crash, Goto, TypeOK
<1>2. ASSUME NEW s \in Runs, Begin(s) PROVE FALSE
  BY <1>2 DEF Begin, BeginForeground, BeginDetached, BeginNamed, Goto, TypeOK
<1>3. UNCHANGED vars => UNCHANGED pc
  BY DEF vars
<1>. QED BY <1>1, <1>2, <1>3, OthersOnlyRemove DEF Next

LEMMA ExecStays ==
    ASSUME "db" \notin Faults, \A o \in Options : ~o.thin,
           TypeOK, OwnNamed, NameInv, StopInv, FixInv, DisciplineInv, ExecInv, [Next]_vars
    PROVE  ExecInv'
<1>1. SUFFICES ASSUME NEW r \in Runs, pc'[r] = "exec", jails'[OwnName(r)] = r
               PROVE  /\ rows'[OwnName(r)].status = "running"
                      /\ \A c \in Collectors : Spares(c, r)'
  BY DEF ExecInv, OwnName
<1>2. CASE pc[r] = "exec"
  <2>1. jails[OwnName(r)] = r
    BY <1>1, <1>2, JailWasThere
  <2>2. /\ rows[OwnName(r)].status = "running"
        /\ \A c \in Collectors : Spares(c, r)
    BY <1>2, <2>1 DEF ExecInv
  <2>. QED BY <1>2, <2>1, <2>2, RowStaysOpen, SparesStays, NoRunAssumption
<1>3. CASE pc[r] # "exec"
  <2>1. RecordRun(r)
    BY <1>1, <1>3, ExecBegins
  <2>2. \A c \in Collectors : gc[c].pc = "idle"
    BY <2>1 DEF RecordRun, Starting, DisciplineInv
  <2>3. \A c \in Collectors : Spares(c, r)
    BY <2>2, IdleSpares
  <2>4. UNCHANGED gc
    BY <2>1 DEF RecordRun
  <2>5. RecordStart(OwnName(r), r)
    BY <2>1 DEF RecordRun, TypeOK, OwnNamed
  <2>6. rows'[OwnName(r)].status = "running"
    BY <2>5 DEF RecordStart, TypeOK, Ledger, OwnName, Names
  <2>. QED BY <2>3, <2>4, <2>6 DEF Spares
<1>. QED BY <1>2, <1>3

\* Where no run starts while gc works, gc touches neither the jail nor the row nor the
\* rootfs of a foreground run that executes in its jail, if jail -r works, the db takes
\* writes and every run is recorded.
THEOREM ExecutingRunsAreSafe ==
    ASSUME NameModes \subseteq {"own"}, {"jail-r", "db"} \cap Faults = {},
           \A o \in Options : ~o.thin
    PROVE  DisciplinedSpec => GcHarmsNoExecutingRun
<1>1. HistoryInit => DisciplineInv /\ ExecInv
  BY DEF HistoryInit, Init, DisciplineInv, ExecInv, NoGc
<1>2. DisciplineInv /\ [HistoryNext /\ Disciplined]_<<vars, history>> => DisciplineInv'
  BY DEF DisciplineInv, Disciplined, Starting, vars
<1>3. /\ TypeOK /\ OwnNamed /\ NameInv /\ StopInv /\ FixInv /\ DisciplineInv /\ ExecInv
      /\ [HistoryNext /\ Disciplined]_<<vars, history>>
      => ExecInv'
  BY ExecStays, HistoryStep
<1>4. TypeOK /\ OwnNamed /\ NameInv /\ ExecInv =>
        [(\E c \in Collectors : GcStep(c)) =>
            \A r \in Runs, n \in Names :
                pc[r] = "exec" /\ jails[n] = r =>
                    /\ jails'[n] = r
                    /\ rows'[n] = rows[n]
                    /\ <<r, "rootfs">> \in lost' => <<r, "rootfs">> \in lost]_vars
  <2>1. SUFFICES ASSUME TypeOK, OwnNamed, NameInv, ExecInv,
                        NEW c \in Collectors, GcStep(c),
                        NEW r \in Runs, NEW n \in Names, pc[r] = "exec", jails[n] = r
                 PROVE  /\ jails'[n] = r
                        /\ rows'[n] = rows[n]
                        /\ <<r, "rootfs">> \in lost' => <<r, "rootfs">> \in lost
    OBVIOUS
  <2>2. n = OwnName(r)
    BY <2>1 DEF OwnNamed, NameInv
  <2>3. Spares(c, r)
    BY <2>1, <2>2 DEF ExecInv
  <2>4. CASE GcFixRow(c)
    <3>1. PICK m \in gc[c].fixes.rows : RecordExit(m, "killed")
      BY <2>4 DEF GcFixRow
    <3>2. m # n
      BY <2>2, <2>3, <3>1 DEF Spares
    <3>3. UNCHANGED <<jails, lost>>
      BY <2>4 DEF GcFixRow
    <3>. QED BY <2>1, <3>1, <3>2, <3>3 DEF RecordExit, TypeOK, Ledger
  <2>5. CASE GcFixJail(c)
    <3>1. PICK m \in gc[c].fixes.jails : RemoveJail(m)
      BY <2>5 DEF GcFixJail
    <3>2. m # n
      BY <2>2, <2>3, <3>1 DEF Spares
    <3>3. UNCHANGED <<rows, lost>>
      BY <2>5 DEF GcFixJail
    <3>. QED BY <2>1, <3>1, <3>2, <3>3 DEF RemoveJail, TypeOK
  <2>6. CASE GcFixDataset(c)
    <3>1. PICK d \in gc[c].fixes.datasets : DestroyDataset(d)
      BY <2>6 DEF GcFixDataset
    <3>2. d # r /\ d \in Runs
      BY <2>1, <2>3, <3>1 DEF Spares, TypeOK, Gc, Fixes
    <3>3. lost' \subseteq lost \cup ({d} \X {"rootfs", "volume"})
      BY <3>1, <3>2, DestroysOwn
    <3>4. UNCHANGED <<rows, jails>>
      BY <2>6 DEF GcFixDataset
    <3>. QED BY <2>1, <3>2, <3>3, <3>4
  <2>7. CASE GcListJails(c) \/ GcListRows(c) \/ GcReconcile(c) \/ GcFinish(c)
    BY <2>1, <2>7 DEF GcListJails, GcListRows, GcReconcile, GcFinish
  <2>. QED BY <2>1, <2>4, <2>5, <2>6, <2>7 DEF GcStep
<1>5. "user" \notin NameModes /\ "jail-r" \notin Faults
  OBVIOUS
<1>. QED BY <1>1, <1>2, <1>3, <1>4, <1>5, DisciplinedRuns, HistoryRuns, TypeCorrect,
            OwnNameInvariant, NameInvariant, StopInvariant, FixInvariant,
            PTL DEF DisciplinedSpec, GcHarmsNoExecutingRun

-----------------------------------------------------------------------------
(* Rootfs of live jails, where no run starts while gc works.               *)

\* A run that has no rootfs yet.
Unborn(d) == pc[d] \in {"idle", "dbcheck", "clone"} /\ d \notin datasets
BirthInv == \A d \in Runs : pc[d] \in {"idle", "dbcheck", "clone"} => d \notin datasets

\* Where a collector found no jail under the name of a rootfs, there will be none
\* before the pass has ended.
FlagInv ==
    \A c \in Collectors :
        gc[c].pc \in {"rows", "datasets"} /\ gc[c].jails # Unknown =>
            \A d \in Runs : OwnName(d) \notin gc[c].jails => Unborn(d) \/ Gone(d)

LEMMA BirthStays ==
    ASSUME TypeOK, BirthInv, [Next]_vars
    PROVE  BirthInv'
<1>1. ASSUME NEW r \in Runs, Begin(r) \/ RunStep(r) \/ Crash(r) PROVE BirthInv'
  <2>1. \A s \in Runs \ {r} : pc'[s] = pc[s] /\ (s \in datasets' => s \in datasets)
    <3>1. CASE Begin(r)
      BY <3>1 DEF Begin, BeginForeground, BeginDetached, BeginNamed, Goto, TypeOK
    <3>. QED BY <1>1, <3>1, RunStepEffect, OwnRootfsOnly
  <2>2. CASE Begin(r) \/ CheckLedger(r)
    BY <2>1, <2>2 DEF Begin, BeginForeground, BeginDetached, BeginNamed, CheckLedger, Goto,
                      TypeOK, BirthInv
  <2>3. CASE ~Begin(r) /\ ~CheckLedger(r)
    <3>1. pc'[r] \notin {"idle", "dbcheck", "clone"}
      BY <1>1, <2>3 DEF RunStep, Clone, ThinRootfs, CloneFails, Prepare, PrepareFails, CreateJail,
                CreateJailFails, RecordRun, JailSetupFails, ExecReturns, ExecTimesOut, ExecRaises,
                Teardown, RecordRunExit, Release, Reclaim, Crash, Goto, TypeOK
    <3>. QED BY <2>1, <3>1 DEF BirthInv
  <2>. QED BY <2>2, <2>3
<1>2. CASE \/ \E k \in Clients : ClientStep(k)
           \/ \E c \in Collectors : GcStep(c) \/ GcDies(c)
  BY <1>2, OthersDestroy, OthersOnlyRemove DEF BirthInv
<1>3. CASE UNCHANGED vars
  BY <1>3 DEF BirthInv, vars
<1>. QED BY <1>1, <1>2, <1>3 DEF Next

\* An unborn run stays so, or has ended without a jail, unless it is about to start.
LEMMA UnbornStays ==
    ASSUME TypeOK, NameInv, BirthInv, [Next]_vars, NEW d \in Runs, Unborn(d), ~Starting(d)'
    PROVE  Unborn(d)' \/ Gone(d)'
<1>1. BirthInv'
  BY BirthStays
<1>2. pc'[d] \in {"idle", "dbcheck", "clone", "over", "crashed"}
  <2>1. ASSUME NEW r \in Runs, RunStep(r) \/ Crash(r)
        PROVE  pc'[d] \in {"idle", "dbcheck", "clone", "over", "crashed"}
    <3>1. CASE r # d
      BY <2>1, <3>1, RunStepEffect DEF Unborn
    <3>2. CASE r = d
      BY <2>1, <3>2 DEF Unborn, Starting, RunStep, CheckLedger, Clone, ThinRootfs, CloneFails,
            Prepare, PrepareFails, CreateJail, CreateJailFails, RecordRun, JailSetupFails,
            ExecReturns, ExecTimesOut, ExecRaises, Teardown, RecordRunExit, Release, Reclaim,
            Crash, Goto, TypeOK
    <3>. QED BY <3>1, <3>2
  <2>2. ASSUME NEW r \in Runs, Begin(r)
        PROVE  pc'[d] \in {"idle", "dbcheck", "clone", "over", "crashed"}
    BY <2>2 DEF Unborn, Begin, BeginForeground, BeginDetached, BeginNamed, Goto, TypeOK
  <2>3. UNCHANGED pc => pc'[d] \in {"idle", "dbcheck", "clone", "over", "crashed"}
    BY DEF Unborn
  <2>4. UNCHANGED vars => UNCHANGED pc
    BY DEF vars
  <2>. QED BY <2>1, <2>2, <2>3, <2>4, OthersOnlyRemove DEF Next
<1>3. CASE pc'[d] \in {"idle", "dbcheck", "clone"}
  BY <1>1, <1>3 DEF BirthInv, Unborn
<1>4. CASE pc'[d] \in {"over", "crashed"}
  <2>1. \A n \in Names : jails[n] # d
    BY DEF NameInv, Unborn, Before
  <2>2. \A n \in Names : jails'[n] # d
    <3>1. ASSUME NEW r \in Runs, RunStep(r) \/ Crash(r) PROVE \A n \in Names : jails'[n] # d
      <4>1. CASE \A n \in Names : jails'[n] \in {jails[n], NoRun}
        BY <2>1, <4>1, NoRunAssumption
      <4>2. CASE pc[r] = "jailc" /\ jails' = [jails EXCEPT ![name[r]] = r]
        <5>1. r # d
          BY <4>2 DEF Unborn
        <5>. QED BY <2>1, <4>2, <5>1 DEF TypeOK
      <4>. QED BY <3>1, <4>1, <4>2, RunStepEffect
    <3>2. ASSUME NEW r \in Runs, Begin(r) PROVE UNCHANGED jails
      BY <3>2 DEF Begin, BeginForeground, BeginDetached, BeginNamed
    <3>3. UNCHANGED vars => UNCHANGED jails
      BY DEF vars
    <3>. QED BY <2>1, <3>1, <3>2, <3>3, OthersOnlyRemove, NoRunAssumption DEF Next
  <2>. QED BY <1>4, <2>2 DEF Gone, Before
<1>. QED BY <1>2, <1>3, <1>4

LEMMA FlagStays ==
    ASSUME TypeOK, OwnNamed, NameInv, BirthInv, FlagInv, [Next]_vars, DisciplineInv'
    PROVE  FlagInv'
<1>1. SUFFICES ASSUME NEW c \in Collectors, gc'[c].pc \in {"rows", "datasets"},
                      gc'[c].jails # Unknown, NEW d \in Runs, OwnName(d) \notin gc'[c].jails
               PROVE  Unborn(d)' \/ Gone(d)'
  BY DEF FlagInv
<1>2. ~Starting(d)'
  BY <1>1 DEF DisciplineInv
<1>3. CASE gc[c].pc \in {"rows", "datasets"} /\ gc'[c].jails = gc[c].jails
  BY <1>1, <1>2, <1>3, UnbornStays, SettledStays DEF FlagInv
<1>4. CASE gc[c].pc = "idle" /\ gc'[c].jails = LiveJails /\ (GcStep(c) \/ GcDies(c))
  <2>1. OwnName(d) \in Names
    BY DEF OwnName, Names
  <2>2. \A n \in Names : jails[n] # d
    BY <1>1, <1>4, <2>1, NoRunAssumption DEF LiveJails, OwnNamed, NameInv
  <2>3. UNCHANGED pc
    BY <1>4, OthersOnlyRemove
  <2>4. pc[d] \notin {"prepare", "jailc"}
    BY <1>2, <2>3 DEF Starting
  <2>5. Unborn(d) \/ Gone(d)
    BY <2>2, <2>4 DEF Unborn, Gone, Before, BirthInv
  <2>. QED BY <1>2, <2>5, UnbornStays, SettledStays
<1>. QED BY <1>1, <1>3, <1>4, OthersKeepGc, GcSteps DEF NoGc

LEMMA FixesStayGone ==
    ASSUME TypeOK, NameInv, FlagInv, FixesGone, [Next]_vars
    PROVE  FixesGone'
<1>1. SUFFICES ASSUME NEW c \in Collectors, NEW d \in gc'[c].fixes.datasets
               PROVE  Gone(d)'
  BY DEF FixesGone
<1>2. ASSUME NEW e \in Runs, Gone(e) PROVE Gone(e)'
  BY <1>2, SettledStays
<1>3. CASE d \in gc[c].fixes.datasets
  <2>1. d \in Runs
    BY <1>3 DEF TypeOK, Gc, Fixes
  <2>. QED BY <1>2, <1>3, <2>1 DEF FixesGone
<1>4. CASE gc[c].pc = "datasets"
           /\ \E ds \in {GcListed, Unknown, {}} :
                  gc'[c].fixes = Orphans(gc[c].jails, gc[c].rows, ds)
  <2>1. PICK ds \in {GcListed, Unknown, {}} :
            gc'[c].fixes = Orphans(gc[c].jails, gc[c].rows, ds)
    BY <1>4
  <2>2. /\ gc[c].jails # Unknown /\ OwnName(d) \notin gc[c].jails
        /\ ds # Unknown /\ d \in ds
    BY <1>1, <2>1 DEF Orphans, NoFixes, OrphanDatasets
  <2>3. d \in datasets
    BY <2>1, <2>2 DEF GcListed
  <2>4. d \in Runs
    BY <2>3 DEF TypeOK
  <2>5. Gone(d)
    BY <1>4, <2>2, <2>3, <2>4 DEF FlagInv, Unborn
  <2>. QED BY <1>2, <2>4, <2>5
<1>. QED BY <1>1, <1>3, <1>4, OthersKeepGc, GcSteps DEF NoGc, NoFixes

\* The same with any number of collectors, where no run starts while gc works: what gc
\* destroys had no jail when it listed the jails, and gets none.
THEOREM GcKeepsLiveRootfs ==
    ASSUME NameModes \subseteq {"own"}, "jail-r" \notin Faults, "rm" \notin Commands
    PROVE  DisciplinedSpec => []LiveJailKeepsRootfs
<1>. DEFINE Inv == DisciplineInv /\ BirthInv /\ FlagInv /\ FixesGone /\ KeepInv
<1>1. HistoryInit => Inv
  BY DEF HistoryInit, Init, DisciplineInv, BirthInv, FlagInv, FixesGone, KeepInv, LookupOf, NoGc,
         NoCmd, NoFixes
<1>2. DisciplineInv /\ [HistoryNext /\ Disciplined]_<<vars, history>> => DisciplineInv'
  BY DEF DisciplineInv, Disciplined, Starting, vars
<1>3. /\ TypeOK /\ OwnNamed /\ NameInv /\ JailInv /\ StopInv /\ Inv
      /\ [HistoryNext /\ Disciplined]_<<vars, history>>
      => Inv'
  BY <1>2, HistoryStep, BirthStays, FlagStays, FixesStayGone, KeepStays
<1>4. Inv => LiveJailKeepsRootfs
  BY DEF KeepInv, Gone, LiveJailKeepsRootfs
<1>5. "user" \notin NameModes
  OBVIOUS
<1>. QED BY <1>1, <1>3, <1>4, <1>5, DisciplinedRuns, HistoryRuns, TypeCorrect, OwnNameInvariant,
            NameInvariant, JailInvariant, StopInvariant, PTL DEF DisciplinedSpec

-----------------------------------------------------------------------------
(* Passes that nothing interrupts.                                         *)

Live(r) == jails[OwnName(r)] # NoRun
Running(r) == rows[OwnName(r)].status = "running"
Even == \A r \in Runs : Live(r) <=> Running(r)

\* The fixes still to come are right where they touch anything, ...
Sound(c) ==
    \A r \in Runs :
        /\ OwnName(r) \in gc[c].fixes.rows => ~Live(r)
        /\ OwnName(r) \in gc[c].fixes.jails => ~Running(r)

\* ... and nothing is missing among them: of the jails and the rows ...
Listed(c) ==
    \A r \in Runs :
        /\ Running(r) /\ ~Live(r) => OwnName(r) \in gc[c].fixes.rows
        /\ Live(r) /\ ~Running(r) => OwnName(r) \in gc[c].fixes.jails

\* ... and of the datasets.
Rest(r) == r \in datasets /\ ~Live(r) /\ mounts[r] = {}
RestListed(c) == \A r \in Runs : Rest(r) => r \in gc[c].fixes.datasets

\* What a pass that nothing interrupted so far has read is still so.
Undisturbed(c) ==
    /\ gc[c].pc \in {"rows", "datasets"} => gc[c].jails = LiveJails
    /\ gc[c].pc = "datasets" => gc[c].rows = rows
    /\ gc[c].pc = "fix" => Sound(c) /\ Listed(c) /\ (quiet > 0 => RestListed(c))

QuietInv ==
    /\ quiet \in 0..QuietBound
    /\ quiet > 0 => Even /\ \A c \in Collectors : alone[c]
    /\ quiet = QuietBound => \A r \in Runs : ~Rest(r)
    /\ alone \in [Collectors -> BOOLEAN]
    /\ \A c \in Collectors : alone[c] => Undisturbed(c)

\* Nobody commits where the command is not given.
NoneCommitted == committed = {} /\ \A k \in Clients : cmd[k].pc \notin {"commit", "clone"}

LEMMA NoneCommittedInvariant ==
    ASSUME "commit" \notin Commands
    PROVE  Spec => []NoneCommitted
<1>1. Init => NoneCommitted
  BY DEF Init, NoneCommitted, NoCmd
<1>2. TypeOK /\ NoneCommitted /\ [Next]_vars => NoneCommitted'
  <2>1. SUFFICES ASSUME TypeOK, NoneCommitted, [Next]_vars PROVE NoneCommitted'
    OBVIOUS
  <2>2. ASSUME UNCHANGED <<committed, cmd>> PROVE NoneCommitted'
    BY <2>1, <2>2 DEF NoneCommitted
  <2>3. ASSUME NEW r \in Runs, Begin(r) \/ RunStep(r) \/ Crash(r)
        PROVE  UNCHANGED <<committed, cmd>>
    BY <2>3 DEF Begin, BeginForeground, BeginDetached, BeginNamed, RunStep, CheckLedger, Clone,
                ThinRootfs, CloneFails, Prepare, PrepareFails, CreateJail, CreateJailFails,
                RecordRun, JailSetupFails, ExecReturns, ExecTimesOut, ExecRaises, Teardown,
                RecordRunExit, Release, Reclaim, Crash
  <2>4. ASSUME NEW c \in Collectors, GcStep(c) \/ GcDies(c) PROVE UNCHANGED <<committed, cmd>>
    <3>1. CASE GcFixDataset(c)
      <4>1. PICK d : DestroyDataset(d)
        BY <3>1 DEF GcFixDataset
      <4>2. committed' = {}
        BY <2>1, <4>1, DestroyUncommits DEF NoneCommitted
      <4>. QED BY <2>1, <3>1, <4>2 DEF GcFixDataset, NoneCommitted
    <3>2. CASE ~GcFixDataset(c)
      BY <2>4, <3>2 DEF GcStep, GcDies, GcListJails, GcListRows, GcReconcile, GcFixRow, GcFixJail,
                        GcFinish
    <3>. QED BY <3>1, <3>2
  <2>5. ASSUME NEW k \in Clients, ClientStep(k) PROVE NoneCommitted'
    <3>1. cmd \in [Clients -> Cmd] /\ cmd[k].pc \notin {"commit", "clone"} /\ committed = {}
      BY <2>1 DEF TypeOK, NoneCommitted
    <3>2. committed' = committed
      <4>1. CASE DestroyTarget(k)
        <5>1. committed' \in {committed, committed \ {<<cmd[k].target, "snapshot">>}}
          BY <4>1, DestroyUncommits DEF DestroyTarget
        <5>. QED BY <3>1, <5>1
      <4>2. CASE ~DestroyTarget(k)
        BY <2>5, <3>1, <4>2 DEF ClientStep, StopBegin, StopRemove, StopRecord, RmBegin, Lookup,
              ExecBegin, ExecExpires, CommitBegin, CommitSnapshot, CommitClone, ClientEnds
      <4>. QED BY <4>1, <4>2
    <3>3. \A j \in Clients \ {k} : cmd'[j] = cmd[j]
      BY <2>5, <3>1 DEF ClientStep, StopBegin, StopRemove, StopRecord, RmBegin, Lookup,
            DestroyTarget, ExecBegin, ExecExpires, CommitBegin, CommitSnapshot,
            CommitClone, ClientEnds
    <3>4. cmd'[k].pc \notin {"commit", "clone"}
      <4>1. CASE StopBegin(k)
        <5>1. PICK n \in Names, rm \in BOOLEAN :
                cmd' = [cmd EXCEPT ![k] = [NoCmd EXCEPT !.pc = "stop", !.name = n, !.rm = rm]]
          BY <4>1 DEF StopBegin
        <5>. QED BY <3>1, <5>1 DEF NoCmd
      <4>2. CASE RmBegin(k) \/ ExecBegin(k)
        BY <3>1, <4>2 DEF RmBegin, ExecBegin, NoCmd
      <4>3. CASE StopRemove(k) \/ StopRecord(k) \/ Lookup(k)
        BY <3>1, <4>3 DEF StopRemove, StopRecord, Lookup, NoCmd, Cmd
      <4>4. CASE DestroyTarget(k) \/ ExecExpires(k) \/ ClientEnds(k)
        BY <3>1, <4>4 DEF DestroyTarget, ExecExpires, ClientEnds, NoCmd
      <4>5. CASE CommitBegin(k) \/ CommitSnapshot(k) \/ CommitClone(k)
        BY <3>1, <4>5 DEF CommitBegin, CommitSnapshot, CommitClone
      <4>. QED BY <2>5, <4>1, <4>2, <4>3, <4>4, <4>5 DEF ClientStep
    <3>. QED BY <2>1, <3>2, <3>3, <3>4 DEF NoneCommitted
  <2>6. UNCHANGED vars => UNCHANGED <<committed, cmd>>
    BY DEF vars
  <2>. QED BY <2>1, <2>2, <2>3, <2>4, <2>5, <2>6 DEF Next
<1>. QED BY <1>1, <1>2, TypeCorrect, PTL DEF Spec

\* The calls of gc do what they are for.
NothingFails == Faults \cap {"jail-r", "db", "jls", "db-read", "list", "destroy"} = {}

\* gc lists every rootfs: no run is thin under zfs.
Destroyable == Backend = "plaindir" \/ (\A o \in Options : ~o.thin)

\* gc destroys a rootfs that nothing uses.
LEMMA GcDestroys ==
    ASSUME NothingFails, Destroyable, TypeOK, OwnNamed, NameInv, NoneCommitted,
           NEW d \in Runs, DestroyDataset(d)
    PROVE  /\ datasets' \subseteq datasets
           /\ \A r \in Runs \ {d} : r \in datasets' <=> r \in datasets
           /\ ~Live(d) /\ mounts[d] = {} => d \notin datasets'
<1>1. opt[d] \in Options
  BY DEF TypeOK
<1>2. ~Live(d) /\ mounts[d] = {} => ~Busy(d)
  BY NoRunAssumption DEF Busy, Live, NameInv, OwnNamed
<1>3. CASE RemoveTree(d)
  BY <1>2, <1>3 DEF RemoveTree
<1>4. CASE ~RemoveTree(d)
  <2>1. Backend # "plaindir" /\ ZfsDestroyRecursive(d) /\ ~opt[d].thin
    BY <1>1, <1>4 DEF DestroyDataset, Destroyable
  <2>. QED BY <1>2, <2>1 DEF ZfsDestroyRecursive, NothingFails, NoneCommitted
<1>. QED BY <1>3, <1>4

\* reconcile() of snapshots that are as the world is.
LEMMA ReconcileFinds ==
    ASSUME TypeOK, Destroyable, NEW r \in Runs, NEW fixes,
           fixes = Orphans(LiveJails, rows, GcListed)
    PROVE  /\ OwnName(r) \in fixes.rows <=> Running(r) /\ ~Live(r)
           /\ OwnName(r) \in fixes.jails <=> Live(r) /\ ~Running(r)
           /\ r \in datasets /\ ~Live(r) /\ ~Running(r) => r \in fixes.datasets
<1>1. OwnName(r) \in Names /\ Prefixed(OwnName(r))
  BY DEF OwnName, Names, Prefixed
<1>2. LiveJails # Unknown /\ rows # Unknown /\ GcListed # Unknown
  BY UnknownAssumption DEF LiveJails, GcListed, TypeOK
<1>3. fixes = [rows     |-> StaleRows(LiveJails, rows),
               jails    |-> OrphanJails(LiveJails, rows),
               datasets |-> OrphanDatasets(LiveJails, rows, GcListed)]
  BY <1>2 DEF Orphans
<1>4. OwnName(r) \in LiveJails <=> Live(r)
  BY <1>1 DEF LiveJails, Live
<1>5. OwnName(r) \in StaleRows(LiveJails, rows) <=> Running(r) /\ ~Live(r)
  BY <1>1, <1>4 DEF StaleRows, Running
<1>6. OwnName(r) \in OrphanJails(LiveJails, rows) <=> Live(r) /\ ~Running(r)
  BY <1>1, <1>4 DEF OrphanJails, Running
<1>7. r \in datasets => r \in GcListed
  BY DEF GcListed, Destroyable, TypeOK
<1>8. r \in datasets /\ ~Live(r) /\ ~Running(r)
         => r \in OrphanDatasets(LiveJails, rows, GcListed)
  BY <1>4, <1>7 DEF OrphanDatasets, Running
<1>. QED BY <1>3, <1>5, <1>6, <1>8

\* A pass that nothing interrupts keeps what it has read true, and what it fixes fixed.
LEMMA PassKeepsQuiet ==
    ASSUME NothingFails, Destroyable, TypeOK, OwnNamed, NameInv, NoneCommitted, QuietInv,
           NEW c \in Collectors, Collectors = {c}, Pass(c), alone'[c]
    PROVE  /\ Undisturbed(c)'
           /\ quiet' \in 0..QuietBound
           /\ quiet' > 0 => Even'
           /\ quiet' = QuietBound => \A r \in Runs : ~Rest(r)'
<1>. USE DEF QuietBound
<1>0. /\ gc \in [Collectors -> Gc] /\ rows \in Ledger
      /\ jails \in [Names -> Runs \cup {NoRun}]
      /\ GcStep(c) /\ alone \in [Collectors -> BOOLEAN]
      /\ alone' = [alone EXCEPT ![c] = @ \/ gc[c].pc = "idle"]
      /\ quiet \in 0..2
  BY DEF TypeOK, Pass, QuietInv
<1>1. alone[c] \/ gc[c].pc = "idle"
  BY <1>0
<1>2. alone[c] => Undisturbed(c)
  BY DEF QuietInv
<1>3. quiet > 0 => Even /\ alone[c]
  BY DEF QuietInv
<1>4. quiet = 2 => \A r \in Runs : ~Rest(r)
  BY DEF QuietInv
<1>5. ~(gc[c].pc = "fix" /\ gc'[c].pc = "idle") => quiet' = quiet
  BY DEF Pass
<1>6. \A r \in Runs : OwnName(r) \in Names
  BY DEF OwnName, Names
<1>7. /\ ~("jls" \in Faults) /\ ~("db-read" \in Faults) /\ ~("list" \in Faults)
      /\ ~("db" \in Faults) /\ ~("jail-r" \in Faults)
  BY DEF NothingFails
<1>10. CASE GcListJails(c)
  <2>1. /\ gc'[c].pc = "rows" /\ gc'[c].jails = LiveJails
        /\ UNCHANGED <<jails, rows, datasets, mounts>> /\ gc[c].pc = "idle"
    BY <1>0, <1>7, <1>10 DEF GcListJails, Gc
  <2>. QED BY <1>0, <1>3, <1>4, <1>5, <2>1 DEF Undisturbed, Even, Rest, Live, Running, LiveJails
<1>11. CASE GcListRows(c)
  <2>1. /\ gc'[c].pc = "datasets" /\ gc'[c].jails = gc[c].jails /\ gc'[c].rows = rows
        /\ UNCHANGED <<jails, rows, datasets, mounts>> /\ gc[c].pc = "rows"
    BY <1>0, <1>7, <1>11 DEF GcListRows, Gc
  <2>. QED BY <1>0, <1>1, <1>2, <1>3, <1>4, <1>5, <2>1
          DEF Undisturbed, Even, Rest, Live, Running, LiveJails
<1>12. CASE GcReconcile(c)
  <2>1. /\ gc[c].pc = "datasets" /\ UNCHANGED <<jails, rows, datasets, mounts>>
        /\ gc' = [gc EXCEPT ![c] = [NoGc EXCEPT !.pc = "fix",
                                       !.fixes = Orphans(gc[c].jails, gc[c].rows, GcListed)]]
    BY <1>7, <1>12 DEF GcReconcile
  <2>2. gc[c].jails = LiveJails /\ gc[c].rows = rows
    BY <1>1, <1>2, <2>1 DEF Undisturbed
  <2>3. gc'[c].pc = "fix" /\ gc'[c].fixes = Orphans(LiveJails, rows, GcListed)
    BY <1>0, <2>1, <2>2 DEF NoGc
  <2>4. \A r \in Runs :
           /\ OwnName(r) \in gc'[c].fixes.rows <=> Running(r) /\ ~Live(r)
           /\ OwnName(r) \in gc'[c].fixes.jails <=> Live(r) /\ ~Running(r)
           /\ r \in datasets /\ ~Live(r) /\ ~Running(r) => r \in gc'[c].fixes.datasets
    BY <2>3, ReconcileFinds
  <2>5. \A r \in Runs : Live(r)' = Live(r) /\ Running(r)' = Running(r) /\ Rest(r)' = Rest(r)
    BY <2>1 DEF Live, Running, Rest
  <2>6. Sound(c)' /\ Listed(c)'
    BY <2>4, <2>5 DEF Sound, Listed
  <2>7. quiet' = quiet /\ (quiet > 0 => Even')
    BY <1>3, <1>5, <2>1, <2>5 DEF Even
  <2>8. quiet > 0 => RestListed(c)'
    BY <1>3, <2>4, <2>5 DEF Even, RestListed, Rest
  <2>. QED BY <1>0, <1>4, <2>3, <2>5, <2>6, <2>7, <2>8 DEF Undisturbed
<1>13. ASSUME gc[c].pc = "fix" PROVE Sound(c) /\ Listed(c) /\ (quiet > 0 => RestListed(c))
  BY <1>1, <1>2, <1>13 DEF Undisturbed
<1>14. CASE GcFixRow(c)
  <2>1. PICK n \in gc[c].fixes.rows :
           /\ rows' = [rows EXCEPT ![n].status = IF @ = "none" THEN @ ELSE "killed"]
           /\ gc' = [gc EXCEPT ![c].fixes.rows = @ \ {n}]
    BY <1>7, <1>14 DEF GcFixRow, RecordExit
  <2>2. /\ gc[c].pc = "fix" /\ gc'[c].pc = "fix"
        /\ gc'[c].fixes.rows = gc[c].fixes.rows \ {n}
        /\ gc'[c].fixes.jails = gc[c].fixes.jails
        /\ gc'[c].fixes.datasets = gc[c].fixes.datasets
        /\ UNCHANGED <<jails, datasets, mounts>>
    BY <1>0, <1>14, <2>1 DEF GcFixRow, Gc, Fixes
  <2>3. \A r \in Runs : /\ Live(r)' = Live(r) /\ Rest(r)' = Rest(r)
                        /\ Running(r)' <=> Running(r) /\ OwnName(r) # n
    <3>1. n \in Names /\ rows[n] \in Row \cup {NoRow}
      BY <1>0, <2>1 DEF Gc, Fixes, Ledger
    <3>2. rows'[n].status # "running" /\ \A m \in Names \ {n} : rows'[m] = rows[m]
      BY <1>0, <2>1, <3>1 DEF Ledger, Row, NoRow
    <3>. QED BY <1>6, <2>2, <3>2 DEF Live, Rest, Running
  <2>4. Sound(c)' /\ Listed(c)'
    BY <1>13, <2>1, <2>2, <2>3 DEF Sound, Listed
  <2>5. quiet' = quiet /\ (quiet > 0 => Even' /\ RestListed(c)')
    BY <1>3, <1>5, <1>13, <2>1, <2>2, <2>3 DEF Even, Sound, RestListed
  <2>. QED BY <1>0, <1>4, <2>2, <2>3, <2>4, <2>5 DEF Undisturbed
<1>15. CASE GcFixJail(c)
  <2>1. PICK n \in gc[c].fixes.jails :
           /\ jails' = [jails EXCEPT ![n] = NoRun]
           /\ gc' = [gc EXCEPT ![c].fixes.jails = @ \ {n}]
    BY <1>7, <1>15 DEF GcFixJail, RemoveJail
  <2>2. /\ gc[c].pc = "fix" /\ gc'[c].pc = "fix"
        /\ gc'[c].fixes.rows = gc[c].fixes.rows
        /\ gc'[c].fixes.jails = gc[c].fixes.jails \ {n}
        /\ gc'[c].fixes.datasets = gc[c].fixes.datasets
        /\ UNCHANGED <<rows, datasets, mounts>>
    BY <1>0, <1>15, <2>1 DEF GcFixJail, Gc, Fixes
  <2>3. \A r \in Runs : /\ Running(r)' = Running(r)
                        /\ Live(r)' <=> Live(r) /\ OwnName(r) # n
    BY <1>0, <1>6, <2>1, <2>2 DEF Live, Running
  <2>4. Sound(c)' /\ Listed(c)'
    BY <1>13, <2>1, <2>2, <2>3 DEF Sound, Listed
  <2>5. quiet > 0 => \A r \in Runs : Live(r)' <=> Live(r)
    BY <1>3, <1>13, <2>1, <2>2, <2>3 DEF Even, Sound
  <2>6. quiet > 0 => \A r \in Runs : Rest(r)' <=> Rest(r)
    BY <2>2, <2>5 DEF Rest
  <2>7. quiet' = quiet /\ (quiet > 0 => Even' /\ RestListed(c)')
    BY <1>3, <1>5, <1>13, <2>2, <2>3, <2>5, <2>6 DEF Even, RestListed
  <2>. QED BY <1>0, <1>4, <2>2, <2>4, <2>6, <2>7 DEF Undisturbed
<1>16. CASE GcFixDataset(c)
  <2>1. PICK d \in gc[c].fixes.datasets :
           DestroyDataset(d) /\ gc' = [gc EXCEPT ![c].fixes.datasets = @ \ {d}]
    BY <1>16 DEF GcFixDataset
  <2>2. /\ gc[c].pc = "fix" /\ gc'[c].pc = "fix" /\ d \in Runs
        /\ gc'[c].fixes.rows = gc[c].fixes.rows
        /\ gc'[c].fixes.jails = gc[c].fixes.jails
        /\ gc'[c].fixes.datasets = gc[c].fixes.datasets \ {d}
        /\ UNCHANGED <<jails, rows, mounts>>
    BY <1>0, <1>16, <2>1 DEF GcFixDataset, Gc, Fixes
  <2>3. \A r \in Runs : /\ Live(r)' = Live(r) /\ Running(r)' = Running(r)
                        /\ Rest(r)' => Rest(r) /\ r # d
    BY <2>1, <2>2, GcDestroys DEF Live, Running, Rest
  <2>4. Sound(c)' /\ Listed(c)'
    BY <1>13, <2>2, <2>3 DEF Sound, Listed
  <2>5. quiet' = quiet /\ (quiet > 0 => Even' /\ RestListed(c)')
    BY <1>3, <1>5, <1>13, <2>2, <2>3 DEF Even, RestListed
  <2>. QED BY <1>0, <1>4, <2>2, <2>3, <2>4, <2>5 DEF Undisturbed
<1>17. CASE GcFinish(c)
  <2>1. /\ gc[c].pc = "fix" /\ gc'[c].pc = "idle" /\ gc[c].fixes = NoFixes
        /\ UNCHANGED <<jails, rows, datasets, mounts>>
    BY <1>0, <1>17 DEF GcFinish, NoGc
  <2>2. \A r \in Runs : Live(r)' = Live(r) /\ Running(r)' = Running(r) /\ Rest(r)' = Rest(r)
    BY <2>1 DEF Live, Running, Rest
  <2>3. Even
    BY <1>13, <2>1 DEF Even, Listed, NoFixes
  <2>4. quiet > 0 => \A r \in Runs : ~Rest(r)
    BY <1>13, <2>1 DEF RestListed, NoFixes
  <2>5. quiet' = (IF quiet < 2 THEN quiet + 1 ELSE quiet)
    BY <1>1, <2>1 DEF Pass
  <2>. QED BY <1>0, <2>1, <2>2, <2>3, <2>4, <2>5 DEF Undisturbed, Even
<1>. QED BY <1>0, <1>10, <1>11, <1>12, <1>14, <1>15, <1>16, <1>17 DEF GcStep

LEMMA QuietStays ==
    ASSUME NothingFails, Destroyable, \A c, d \in Collectors : c = d,
           TypeOK, OwnNamed, NameInv, NoneCommitted, QuietInv, HistoryNext
    PROVE  QuietInv'
<1>1. CASE Disturb
  BY <1>1 DEF Disturb, QuietInv, QuietBound
<1>2. ASSUME NEW c \in Collectors, Pass(c) PROVE QuietInv'
  <2>0. Collectors = {c}
    OBVIOUS
  <2>1. /\ alone \in [Collectors -> BOOLEAN] /\ quiet \in 0..2
        /\ alone' = [alone EXCEPT ![c] = @ \/ gc[c].pc = "idle"]
    BY <1>2 DEF Pass, QuietInv, QuietBound
  <2>2. alone' \in [Collectors -> BOOLEAN]
    BY <2>1
  <2>3. CASE alone'[c]
    BY <1>2, <2>0, <2>2, <2>3, PassKeepsQuiet DEF QuietInv
  <2>4. CASE ~alone'[c]
    <3>1. ~alone[c] /\ quiet = 0 /\ quiet' = 0
      BY <1>2, <2>1, <2>4 DEF Pass, QuietInv
    <3>. QED BY <2>0, <2>2, <2>4, <3>1 DEF QuietInv, QuietBound
  <2>. QED BY <2>3, <2>4
<1>. QED BY <1>1, <1>2 DEF HistoryNext

\* Two passes of the only collector that nothing interrupts leave nothing that gc's
\* categories name, if none of their calls fails: for any number of runs and clients, however
\* they ended or died before, whether or not runs wait for gc.
THEOREM QuietPassesClean ==
    ASSUME NameModes \subseteq {"own"}, "commit" \notin Commands,
           \A c, d \in Collectors : c = d, NothingFails, Destroyable
    PROVE  HistorySpec => []QuietMeansClean
<1>1. HistoryInit => QuietInv
  BY DEF HistoryInit, QuietInv, QuietBound
<1>2. /\ TypeOK /\ OwnNamed /\ NameInv /\ NoneCommitted /\ QuietInv
      /\ [HistoryNext]_<<vars, history>>
      => QuietInv'
  <2>1. ASSUME QuietInv, UNCHANGED <<vars, history>> PROVE QuietInv'
    BY <2>1 DEF QuietInv, Undisturbed, Sound, Listed, RestListed, Rest, Even, Live, Running,
                LiveJails, vars, history
  <2>. QED BY <2>1, QuietStays
<1>3. QuietInv => QuietMeansClean
  <2>1. SUFFICES ASSUME Even, \A r \in Runs : ~Rest(r) PROVE Clean
    BY DEF QuietInv, QuietMeansClean, QuietBound
  <2>. QED BY <2>1 DEF Clean, Even, Rest, Live, Running
<1>4. "user" \notin NameModes
  OBVIOUS
<1>. QED BY <1>1, <1>2, <1>3, <1>4, HistoryRuns, TypeCorrect, OwnNameInvariant, NameInvariant,
            NoneCommittedInvariant, PTL DEF HistorySpec
=============================================================================
