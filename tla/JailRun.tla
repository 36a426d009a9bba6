------------------------------- MODULE JailRun -------------------------------
(***************************************************************************)
(* The life of a jail: `jailrun run` (runtime/engine.py, _run_async),      *)
(* foreground and detached, the commands that act on a jail by name (stop, *)
(* rm, exec, commit), and `jailrun gc --fix`.  They are separate OS processes that *)
(* share, without a common lock, the kernel's jail table, the run-state db *)
(* and the store's runs tree; any of them can die between two steps.       *)
(*                                                                         *)
(* One action is what a process does up to the next effect another process *)
(* can see: one jail(8), zfs(8) or db call.                                *)
(***************************************************************************)
EXTENDS Reconcile

CONSTANTS
    Clients,     \* processes running `jailrun stop`, `rm`, `exec` or `commit`
    Collectors,  \* processes running `jailrun gc --fix`
    Options,     \* the option records runs may be started with
    NameModes,   \* how runs may be named: a subset of {"own", "fresh", "user"}
    Commands,    \* commands clients may issue: see Command
    Faults,      \* what may fail: see Fault
    Backend      \* JAILRUN_STORE_BACKEND: "zfs" or "plaindir"

\* nullfs binds of a rootfs: "base" is read-only (the bakery base, the dirs of
\* a thin base), "volume" a writable -v.  A run waits without a timeout at a "terminal"
\* (-it) and in the host commands of its "network" (--network allow=, vnet).
Bind == {"base", "volume"}
RunOptions == [thin: BOOLEAN, rm: BOOLEAN, binds: SUBSET Bind,
               waits: SUBSET {"terminal", "network"}]

\* All that is mounted under a rootfs: jail(8) adds "dev", the devfs, procfs, tmpfs
\* of jail.conf.
Mount == Bind \cup {"dev"}

Command == {"stop", "stop --rm", "rm", "exec", "commit"}

\* crash, gc-crash: SIGKILL or SIGTERM of a run or a client, of a collector;
\* jail-r: jail(8) -r fails or times out; umount: umount -f fails; db: a write of
\* the db fails and is swallowed; jls, db-read and list: jls(8), the db or the
\* runs tree cannot be read; destroy: the rootfs cannot be destroyed.
Fault == {"crash", "gc-crash", "jail-r", "umount", "db", "jls", "db-read", "list",
          "destroy"}

ASSUME OptionsAssumption ==
    /\ Options \subseteq RunOptions
    /\ \A o \in Options : o.thin => "base" \in o.binds
ASSUME ModesAssumption ==
    /\ NameModes \subseteq {"own", "fresh", "user"}
    /\ Commands \subseteq Command
    /\ Faults \subseteq Fault
    /\ Backend \in {"zfs", "plaindir"}

VARIABLES
    pc,        \* where the process of a run is, see PC
    opt,       \* the options of a run
    name,      \* the jail name a run uses
    stage,     \* how far a run got, as its finally block sees it, see Stage
    jails,     \* the kernel's jail table: the run whose rootfs the jail has
    rows,      \* the runs table of the run-state db
    datasets,  \* the entries of the store's runs tree
    mounts,    \* what is mounted under the rootfs of a run
    lost,      \* <<r, "rootfs">>, <<r, "volume">>: destroyed data of run r
    committed, \* <<r, "snapshot">>: commit's snapshot of r's dataset; <<r, "image">>: its clone
    cmd,       \* the command each client is executing
    gc         \* the state of each collector

runVars == <<pc, opt, name, stage>>
vars == <<pc, opt, name, stage, jails, rows, datasets, mounts, lost, committed, cmd, gc>>

PC == {"idle", "dbcheck", "clone", "prepare", "jailc", "record", "exec",
       "teardown", "recordexit", "destroy", "reclaim", "over", "crashed"}

\* unnamed: jail_name is None; named: it is set; created: jail_created;
\* completed: run_completed.
Stage == {"unnamed", "named", "created", "completed"}

NoCmd == [pc |-> "idle", name |-> NoRun, rm |-> FALSE, target |-> NoRun]
Cmd ==
    {NoCmd}
    \cup [pc: {"stop", "record", "lookup", "exec"}, name: Names, rm: BOOLEAN, target: {NoRun}]
    \cup [pc: {"destroy", "commit", "clone"}, name: Names, rm: BOOLEAN, target: Runs]

Gc == [pc: {"idle", "rows", "datasets", "fix"}, jails: (SUBSET Names) \cup {Unknown},
       rows: Ledger \cup {Unknown}, fixes: Fixes]
NoGc == [pc |-> "idle", jails |-> Unknown, rows |-> Unknown, fixes |-> NoFixes]

TypeOK ==
    /\ pc \in [Runs -> PC]
    /\ opt \in [Runs -> Options]
    /\ name \in [Runs -> Names]
    /\ stage \in [Runs -> Stage]
    /\ jails \in [Names -> Runs \cup {NoRun}]
    /\ rows \in Ledger
    /\ datasets \in SUBSET Runs
    /\ mounts \in [Runs -> SUBSET Mount]
    /\ lost \in SUBSET (Runs \X {"rootfs", "volume"})
    /\ committed \in SUBSET (Runs \X {"snapshot", "image"})
    /\ cmd \in [Clients -> Cmd]
    /\ gc \in [Collectors -> Gc]

Init ==
    /\ pc = [r \in Runs |-> "idle"]
    /\ opt \in [Runs -> Options]
    /\ name = [r \in Runs |-> OwnName(r)]
    /\ stage = [r \in Runs |-> "unnamed"]
    /\ jails = [n \in Names |-> NoRun]
    /\ rows = [n \in Names |-> NoRow]
    /\ datasets = {}
    /\ mounts = [r \in Runs |-> {}]
    /\ lost = {}
    /\ committed = {}
    /\ cmd = [k \in Clients |-> NoCmd]
    /\ gc = [c \in Collectors |-> NoGc]

-----------------------------------------------------------------------------
(* The shared resources.                                                   *)

LiveJails == {n \in Names : jails[n] # NoRun}

\* What _check_jail_live() may answer: jls decides, whatever the db says, and jls
\* failing is "not live".
LiveAnswers(n) == {n \in LiveJails} \cup (IF "jls" \in Faults THEN {FALSE} ELSE {})

\* `jail -r n`: removes whatever jail has that name now.
RemoveJail(n) ==
    \/ jails' = [jails EXCEPT ![n] = NoRun]
    \/ "jail-r" \in Faults /\ UNCHANGED jails

\* RunDB.record_start(): INSERT OR REPLACE, errors swallowed.
RecordStart(n, r) ==
    \/ rows' = [rows EXCEPT ![n] = [status |-> "running", dataset |-> r]]
    \/ "db" \in Faults /\ UNCHANGED rows

\* Mutant: an upsert.
RecordExitUpsert(n, status) == rows' = [rows EXCEPT ![n].status = status]

\* RunDB.record_exit(): an UPDATE, so a name without a row keeps having none.
RecordExit(n, status) ==
    \/ rows' = [rows EXCEPT ![n].status = IF @ = "none" THEN @ ELSE status]
    \/ "db" \in Faults /\ UNCHANGED rows

Busy(d) == mounts[d] # {} \/ \E n \in Names : jails[n] = d

\* `jail -f conf -r n`, with the conf of run r: also unmounts what the conf mounts,
\* if there was a jail to remove.  A bare jail -r leaves that mounted.
RemoveJailAndMounts(r) ==
    /\ RemoveJail(name[r])
    /\ mounts' = [mounts EXCEPT ![r] = IF jails' # jails THEN @ \ {"dev"} ELSE @]

\* shutil.rmtree() of a rootfs: it descends into whatever is mounted there and
\* gives up at the first entry it cannot remove, so a read-only bind or a devfs
\* may or may not stop it before the volume; a mount keeps the directory in place.
RemoveTree(d) ==
    /\ \E hit \in SUBSET (mounts[d] \cap {"volume"}) :
        /\ mounts[d] \subseteq {"volume"} => hit = mounts[d]
        /\ lost' = lost \cup ({d} \X ({"rootfs"} \cup hit))
    /\ datasets' = IF Busy(d) THEN datasets ELSE datasets \ {d}

\* Store.destroy()'s zfs destroy, repeated with -f: a dataset in use is unmounted by
\* force or the command fails, as it does for a dataset with a snapshot.
ZfsDestroy(d) ==
    \/ /\ d \in datasets /\ ~opt[d].thin /\ <<d, "snapshot">> \notin committed
       /\ datasets' = datasets \ {d}
       /\ lost' = lost \cup {<<d, "rootfs">>}
    \/ /\ \/ d \notin datasets \/ opt[d].thin \/ <<d, "snapshot">> \in committed
          \/ Busy(d) \/ "destroy" \in Faults
       /\ UNCHANGED <<datasets, lost>>

\* gc's zfs destroy, repeated with -r, then with -f: -r takes the snapshots along
\* unless an image was cloned from one, and may have taken them when it finds the
\* dataset in use.  The plain directory of a thin run is no dataset.
ZfsDestroyRecursive(d) ==
    LET unsnapped == IF <<d, "image">> \in committed THEN committed
                     ELSE committed \ {<<d, "snapshot">>}
    IN  \/ /\ d \in datasets /\ ~opt[d].thin /\ <<d, "image">> \notin committed
           /\ datasets' = datasets \ {d}
           /\ lost' = lost \cup {<<d, "rootfs">>}
           /\ committed' = unsnapped
        \/ /\ \/ d \notin datasets \/ opt[d].thin \/ <<d, "image">> \in committed
              \/ Busy(d) \/ "destroy" \in Faults
           /\ committed' \in {committed, unsnapped}
           /\ UNCHANGED <<datasets, lost>>

\* Store.destroy()'s last step, which knows the run's handle, and gc's
\* _destroy_dataset(), which knows a path or a dataset name.
DestroyRootfs(d) == IF Backend = "plaindir" \/ opt[d].thin THEN RemoveTree(d) ELSE ZfsDestroy(d)

\* Mutant: gc destroys as Store.destroy() does.
DestroyDatasetAlike(d) ==
    /\ IF Backend = "plaindir" THEN RemoveTree(d) ELSE ZfsDestroy(d)
    /\ UNCHANGED committed
DestroyDataset(d) ==
    IF Backend = "plaindir" THEN RemoveTree(d) /\ UNCHANGED committed ELSE ZfsDestroyRecursive(d)

-----------------------------------------------------------------------------
(* `jailrun run`: naming, then _run_async.                                 *)

\* Store.mount(): the binds are mounted one after the other; the first that fails
\* raises and leaves the earlier ones mounted.
Bound(r, binds) == mounts' = [mounts EXCEPT ![r] = @ \cup binds]
PartlyBound(r, binds) == \E b \in SUBSET binds : Bound(r, b)

\* Store.unmount(): deepest first, umount, then umount -f, whose failure is ignored.
Unbound(r) ==
    \E b \in {{}} \cup (IF "umount" \in Faults THEN SUBSET (mounts[r] \cap Bind) ELSE {}) :
        mounts' = [mounts EXCEPT ![r] = (@ \ Bind) \cup b]

Goto(r, l) == pc' = [pc EXCEPT ![r] = l]
Reach(r, s) == stage' = [stage EXCEPT ![r] = s]

\* A foreground run: the name is made from the handle.
BeginForeground(r) ==
    /\ pc[r] = "idle" /\ "own" \in NameModes
    /\ name' = [name EXCEPT ![r] = OwnName(r)]
    /\ Goto(r, "clone")
    /\ UNCHANGED <<opt, stage, jails, rows, datasets, mounts, lost, committed, cmd, gc>>

\* `run -d` without --name: a uuid of its own, unrelated to the handle.
BeginDetached(r) ==
    /\ pc[r] = "idle" /\ "fresh" \in NameModes
    /\ name' = [name EXCEPT ![r] = FreshName(r)]
    /\ Goto(r, "clone")
    /\ UNCHANGED <<opt, stage, jails, rows, datasets, mounts, lost, committed, cmd, gc>>

\* `run -d --name`: refused while the name is live.
BeginNamed(r) ==
    /\ pc[r] = "idle" /\ "user" \in NameModes
    /\ \E n \in {"user"} \X UserNames :
        /\ FALSE \in LiveAnswers(n)
        /\ name' = [name EXCEPT ![r] = n]
    /\ Goto(r, "dbcheck")
    /\ UNCHANGED <<opt, stage, jails, rows, datasets, mounts, lost, committed, cmd, gc>>

\* The second check of the name; a db that cannot be read is passed over.
CheckLedger(r) ==
    /\ pc[r] = "dbcheck"
    /\ \/ rows[name[r]].status = "running" /\ Goto(r, "over")
       \/ /\ rows[name[r]].status # "running" \/ "db-read" \in Faults
          /\ Goto(r, "clone")
    /\ UNCHANGED <<opt, name, stage, jails, rows, datasets, mounts, lost, committed, cmd, gc>>

\* resolve and unpack, or a native base, then clone.
Clone(r) ==
    /\ pc[r] = "clone" /\ ~opt[r].thin
    /\ datasets' = datasets \cup {r}
    /\ Goto(r, "prepare")
    /\ UNCHANGED <<opt, name, stage, jails, rows, mounts, lost, committed, cmd, gc>>

\* empty_rootfs(): a directory, whatever the backend, then the dirs of the base.
ThinRootfs(r) ==
    /\ pc[r] = "clone" /\ opt[r].thin
    /\ datasets' = datasets \cup {r}
    /\ Bound(r, {"base"})
    /\ Goto(r, "prepare")
    /\ UNCHANGED <<opt, name, stage, jails, rows, lost, committed, cmd, gc>>

\* An error before the try block: nothing is cleaned up, a partial copy or a
\* half-bound thin rootfs stays.
CloneFails(r) ==
    /\ pc[r] = "clone"
    /\ \/ UNCHANGED <<datasets, mounts>>
       \/ /\ datasets' = datasets \cup {r}
          /\ PartlyBound(r, IF opt[r].thin THEN {"base"} ELSE {})
    /\ Goto(r, "over")
    /\ UNCHANGED <<opt, name, stage, jails, rows, lost, committed, cmd, gc>>

\* Manifest, bakery base, shadow, volumes; then jail_name is set.
Prepare(r) ==
    /\ pc[r] = "prepare"
    /\ Bound(r, opt[r].binds)
    /\ Reach(r, "named")
    /\ Goto(r, "jailc")
    /\ UNCHANGED <<opt, name, jails, rows, datasets, lost, committed, cmd, gc>>

\* An error in those steps: jail_name is still None, the finally block only
\* honours --rm.
PrepareFails(r) ==
    /\ pc[r] = "prepare"
    /\ PartlyBound(r, opt[r].binds)
    /\ Goto(r, IF opt[r].rm THEN "destroy" ELSE "over")
    /\ UNCHANGED <<opt, name, stage, jails, rows, datasets, lost, committed, cmd, gc>>

\* jail -c: fails if the name is taken.
CreateJail(r) ==
    /\ pc[r] = "jailc"
    /\ jails[name[r]] = NoRun
    /\ jails' = [jails EXCEPT ![name[r]] = r]
    /\ mounts' = [mounts EXCEPT ![r] = @ \cup {"dev"}]
    /\ Reach(r, "created")
    /\ Goto(r, "record")
    /\ UNCHANGED <<opt, name, rows, datasets, lost, committed, cmd, gc>>

\* Network setup or jail -c raises: the finally block runs with jail_name set
\* and jail_created false.  A jail -c that times out may have made the jail.
CreateJailFails(r) ==
    /\ pc[r] = "jailc"
    /\ \/ UNCHANGED <<jails, mounts>>
       \/ /\ jails[name[r]] = NoRun
          /\ jails' = [jails EXCEPT ![name[r]] = r]
          /\ mounts' = [mounts EXCEPT ![r] = @ \cup {"dev"}]
    /\ Goto(r, "teardown")
    /\ UNCHANGED <<opt, name, stage, rows, datasets, lost, committed, cmd, gc>>

\* record_start, its error swallowed.  On the thin path snapshot_id is unbound:
\* building the arguments raises and no row is written.
RecordRun(r) ==
    /\ pc[r] = "record"
    /\ IF opt[r].thin THEN UNCHANGED rows ELSE RecordStart(name[r], r)
    /\ Goto(r, "exec")
    /\ UNCHANGED <<opt, name, stage, jails, datasets, mounts, lost, committed, cmd, gc>>

\* setup_vnet_jail raises after jail -c.
JailSetupFails(r) ==
    /\ pc[r] = "record"
    /\ Goto(r, "teardown")
    /\ UNCHANGED <<opt, name, stage, jails, rows, datasets, mounts, lost, committed, cmd, gc>>

\* jexec returns: the command ended, or its jail was removed under it, or a run at a
\* terminal noticed its timeout, which kills jexec and leaves the jail.
ExecReturns(r) ==
    /\ pc[r] = "exec"
    /\ Reach(r, "completed")
    /\ Goto(r, "teardown")
    /\ UNCHANGED <<opt, name, jails, rows, datasets, mounts, lost, committed, cmd, gc>>

\* _stream_jexec times out: jail -r, then RuntimeError.
ExecTimesOut(r) ==
    /\ pc[r] = "exec" /\ "terminal" \notin opt[r].waits
    /\ RemoveJailAndMounts(r)
    /\ Goto(r, "teardown")
    /\ UNCHANGED <<opt, name, stage, rows, datasets, lost, committed, cmd, gc>>

\* Mutant: the exception skips the finally block.
ExecRaisesOut(r) ==
    /\ pc[r] = "exec"
    /\ Goto(r, "over")
    /\ UNCHANGED <<opt, name, stage, jails, rows, datasets, mounts, lost, committed, cmd, gc>>

\* jexec cannot be spawned, or the run is interrupted (SIGINT).
ExecRaises(r) ==
    /\ pc[r] = "exec"
    /\ Goto(r, "teardown")
    /\ UNCHANGED <<opt, name, stage, jails, rows, datasets, mounts, lost, committed, cmd, gc>>

\* Mutants of Teardown: gated on jail_created, and waiting for a jail to remove.
TeardownIfCreated(r) ==
    /\ pc[r] = "teardown"
    /\ IF stage[r] = "named" THEN UNCHANGED <<jails, mounts>> ELSE RemoveJailAndMounts(r)
    /\ Goto(r, "recordexit")
    /\ UNCHANGED <<opt, name, stage, rows, datasets, lost, committed, cmd, gc>>
TeardownIfLive(r) ==
    /\ pc[r] = "teardown" /\ jails[name[r]] = r
    /\ RemoveJailAndMounts(r)
    /\ Goto(r, "recordexit")
    /\ UNCHANGED <<opt, name, stage, rows, datasets, lost, committed, cmd, gc>>

\* finally: SIGKILL and jail -r by name, whoever made the jail.
Teardown(r) ==
    /\ pc[r] = "teardown"
    /\ RemoveJailAndMounts(r)
    /\ Goto(r, "recordexit")
    /\ UNCHANGED <<opt, name, stage, rows, datasets, lost, committed, cmd, gc>>

\* Mutants of RecordRunExit: only after success, and only once the jail is gone.
RecordRunExitIfCompleted(r) ==
    /\ pc[r] = "recordexit"
    /\ IF stage[r] = "completed" THEN RecordExit(name[r], "exited") ELSE UNCHANGED rows
    /\ Goto(r, IF opt[r].rm THEN "destroy" ELSE "over")
    /\ UNCHANGED <<opt, name, stage, jails, datasets, mounts, lost, committed, cmd, gc>>
RecordRunExitIfGone(r) ==
    /\ pc[r] = "recordexit"
    /\ IF jails[name[r]] = NoRun THEN RecordExit(name[r], "exited") ELSE UNCHANGED rows
    /\ Goto(r, IF opt[r].rm THEN "destroy" ELSE "over")
    /\ UNCHANGED <<opt, name, stage, jails, datasets, mounts, lost, committed, cmd, gc>>

\* finally: record_exit, if jail -c had succeeded.
RecordRunExit(r) ==
    /\ pc[r] = "recordexit"
    /\ CASE stage[r] = "completed" -> RecordExit(name[r], "exited")
         [] stage[r] = "created"   -> RecordExit(name[r], "killed")
         [] OTHER                  -> UNCHANGED rows
    /\ Goto(r, IF opt[r].rm THEN "destroy" ELSE "over")
    /\ UNCHANGED <<opt, name, stage, jails, datasets, mounts, lost, committed, cmd, gc>>

\* Mutant: the binds stay mounted.
ReleaseJailOnly(r) ==
    /\ pc[r] = "destroy"
    /\ IF stage[r] = "unnamed" THEN UNCHANGED jails ELSE RemoveJail(name[r])
    /\ Goto(r, "reclaim")
    /\ UNCHANGED <<opt, name, stage, rows, datasets, mounts, lost, committed, cmd, gc>>

\* --rm, store.destroy(): jail -r once more, then every bind is unmounted, the
\* failures of both ignored ...
Release(r) ==
    /\ pc[r] = "destroy"
    /\ IF stage[r] = "unnamed" THEN UNCHANGED jails ELSE RemoveJail(name[r])
    /\ Unbound(r)
    /\ Goto(r, "reclaim")
    /\ UNCHANGED <<opt, name, stage, rows, datasets, lost, committed, cmd, gc>>

\* ... and the rootfs destroyed; a failure is logged.
Reclaim(r) ==
    /\ pc[r] = "reclaim"
    /\ DestroyRootfs(r)
    /\ Goto(r, "over")
    /\ UNCHANGED <<opt, name, stage, jails, rows, mounts, committed, cmd, gc>>

\* The process dies without running its finally block.
Crash(r) ==
    /\ "crash" \in Faults
    /\ pc[r] \notin {"idle", "over", "crashed"}
    /\ Goto(r, "crashed")
    /\ UNCHANGED <<opt, name, stage, jails, rows, datasets, mounts, lost, committed, cmd, gc>>

Begin(r) == BeginForeground(r) \/ BeginDetached(r) \/ BeginNamed(r)

RunStep(r) ==
    \/ CheckLedger(r) \/ Clone(r) \/ ThinRootfs(r) \/ CloneFails(r) \/ Prepare(r)
    \/ PrepareFails(r) \/ CreateJail(r) \/ CreateJailFails(r) \/ RecordRun(r)
    \/ JailSetupFails(r) \/ ExecReturns(r) \/ ExecTimesOut(r) \/ ExecRaises(r)
    \/ Teardown(r) \/ RecordRunExit(r) \/ Release(r) \/ Reclaim(r)

-----------------------------------------------------------------------------
(* `jailrun stop`, `rm`, `exec` and `commit`.                              *)

StopBegin(k) ==
    /\ cmd[k].pc = "idle"
    /\ \E n \in Names, stop \in Commands \cap {"stop", "stop --rm"} :
        /\ TRUE \in LiveAnswers(n)
        /\ cmd' = [cmd EXCEPT ![k] = [NoCmd EXCEPT !.pc = "stop", !.name = n,
                                                   !.rm = (stop = "stop --rm")]]
    /\ UNCHANGED <<runVars, jails, rows, datasets, mounts, lost, committed, gc>>

\* Mutant: the processes are killed, the jail is not removed.
StopKillOnly(k) ==
    /\ cmd[k].pc = "stop"
    /\ cmd' = [cmd EXCEPT ![k].pc = "record"]
    /\ UNCHANGED <<runVars, jails, rows, datasets, mounts, lost, committed, gc>>

\* SIGKILL and jail -r; a jail -r that times out ends the command.
StopRemove(k) ==
    /\ cmd[k].pc = "stop"
    /\ \/ /\ RemoveJail(cmd[k].name)
          /\ cmd' = [cmd EXCEPT ![k].pc = "record"]
       \/ /\ "jail-r" \in Faults
          /\ cmd' = [cmd EXCEPT ![k] = NoCmd]
          /\ UNCHANGED jails
    /\ UNCHANGED <<runVars, rows, datasets, mounts, lost, committed, gc>>

StopRecord(k) ==
    /\ cmd[k].pc = "record"
    /\ RecordExit(cmd[k].name, "killed")
    /\ cmd' = [cmd EXCEPT ![k] = IF @.rm THEN [@ EXCEPT !.pc = "lookup"] ELSE NoCmd]
    /\ UNCHANGED <<runVars, jails, datasets, mounts, lost, committed, gc>>

\* rm: refused while the jail is live.
RmBegin(k) ==
    /\ "rm" \in Commands /\ cmd[k].pc = "idle"
    /\ \E n \in Names :
        /\ FALSE \in LiveAnswers(n)
        /\ cmd' = [cmd EXCEPT ![k] = [NoCmd EXCEPT !.pc = "lookup", !.name = n]]
    /\ UNCHANGED <<runVars, jails, rows, datasets, mounts, lost, committed, gc>>

\* rm and stop --rm: the dataset to destroy is the one the row names.
Lookup(k) ==
    /\ cmd[k].pc = "lookup"
    /\ LET row == rows[cmd[k].name] IN
        \/ /\ row # NoRow
           /\ cmd' = [cmd EXCEPT ![k].pc = "destroy", ![k].target = row.dataset]
        \/ /\ row = NoRow \/ "db-read" \in Faults
           /\ cmd' = [cmd EXCEPT ![k] = NoCmd]
    /\ UNCHANGED <<runVars, jails, rows, datasets, mounts, lost, committed, gc>>

DestroyTarget(k) ==
    /\ cmd[k].pc = "destroy"
    /\ DestroyDataset(cmd[k].target)
    /\ cmd' = [cmd EXCEPT ![k] = NoCmd]
    /\ UNCHANGED <<runVars, jails, rows, mounts, gc>>

ExecBegin(k) ==
    /\ "exec" \in Commands /\ cmd[k].pc = "idle"
    /\ \E n \in Names :
        /\ TRUE \in LiveAnswers(n)
        /\ cmd' = [cmd EXCEPT ![k] = [NoCmd EXCEPT !.pc = "exec", !.name = n]]
    /\ UNCHANGED <<runVars, jails, rows, datasets, mounts, lost, committed, gc>>

\* exec reuses _stream_jexec, whose timeout removes the jail.
ExecExpires(k) ==
    /\ cmd[k].pc = "exec"
    /\ RemoveJail(cmd[k].name)
    /\ cmd' = [cmd EXCEPT ![k] = NoCmd]
    /\ UNCHANGED <<runVars, rows, datasets, mounts, lost, committed, gc>>

\* commit: the dataset is the one the row names, live or not.
CommitBegin(k) ==
    /\ "commit" \in Commands /\ cmd[k].pc = "idle"
    /\ \E n \in Names :
        /\ rows[n] # NoRow
        /\ cmd' = [cmd EXCEPT ![k] = [NoCmd EXCEPT !.pc = "commit", !.name = n,
                                                   !.target = rows[n].dataset]]
    /\ UNCHANGED <<runVars, jails, rows, datasets, mounts, lost, committed, gc>>

\* commit_image(): zfs snapshot of the run's dataset, which fails if there is none ...
CommitSnapshot(k) ==
    /\ cmd[k].pc = "commit"
    /\ LET d == cmd[k].target IN
        \/ /\ Backend = "zfs" /\ d \in datasets /\ ~opt[d].thin
           /\ committed' = committed \cup {<<d, "snapshot">>}
           /\ cmd' = [cmd EXCEPT ![k].pc = "clone"]
        \/ /\ UNCHANGED committed
           /\ cmd' = [cmd EXCEPT ![k] = NoCmd]
    /\ UNCHANGED <<runVars, jails, rows, datasets, mounts, lost, gc>>

\* ... and its clone, an image from then on.  Nothing takes the snapshot back when
\* the clone fails.
CommitClone(k) ==
    /\ cmd[k].pc = "clone"
    /\ LET d == cmd[k].target IN
        \/ <<d, "snapshot">> \in committed /\ committed' = committed \cup {<<d, "image">>}
        \/ UNCHANGED committed
    /\ cmd' = [cmd EXCEPT ![k] = NoCmd]
    /\ UNCHANGED <<runVars, jails, rows, datasets, mounts, lost, gc>>

\* The command of exec ends, or the client process dies.
ClientEnds(k) ==
    /\ \/ cmd[k].pc = "exec"
       \/ "crash" \in Faults /\ cmd[k].pc # "idle"
    /\ cmd' = [cmd EXCEPT ![k] = NoCmd]
    /\ UNCHANGED <<runVars, jails, rows, datasets, mounts, lost, committed, gc>>

ClientStep(k) ==
    \/ StopBegin(k) \/ StopRemove(k) \/ StopRecord(k) \/ RmBegin(k) \/ Lookup(k)
    \/ DestroyTarget(k) \/ ExecBegin(k) \/ ExecExpires(k) \/ CommitBegin(k)
    \/ CommitSnapshot(k) \/ CommitClone(k) \/ ClientEnds(k)

-----------------------------------------------------------------------------
(* `jailrun gc --fix`: three reads, one after the other, then the fixes.   *)

GcListJails(c) ==
    /\ gc[c].pc = "idle"
    /\ \E js \in {LiveJails} \cup (IF "jls" \in Faults THEN {Unknown} ELSE {}) :
        gc' = [gc EXCEPT ![c].pc = "rows", ![c].jails = js]
    /\ UNCHANGED <<runVars, jails, rows, datasets, mounts, lost, committed, cmd>>

GcListRows(c) ==
    /\ gc[c].pc = "rows"
    /\ \E rs \in {rows} \cup (IF "db-read" \in Faults THEN {Unknown} ELSE {}) :
        gc' = [gc EXCEPT ![c].pc = "datasets", ![c].rows = rs]
    /\ UNCHANGED <<runVars, jails, rows, datasets, mounts, lost, committed, cmd>>

\* Under zfs a thin rootfs is a plain directory, which `zfs list` does not show;
\* `zfs list` exiting non-zero is taken for an empty tree.
GcListed == {d \in datasets : Backend = "plaindir" \/ ~opt[d].thin}

GcReconcile(c) ==
    /\ gc[c].pc = "datasets"
    /\ \E ds \in {GcListed} \cup (IF "list" \in Faults THEN {Unknown, {}} ELSE {}) :
        gc' = [gc EXCEPT ![c] = [NoGc EXCEPT !.pc = "fix",
                                             !.fixes = Orphans(gc[c].jails, gc[c].rows, ds)]]
    /\ UNCHANGED <<runVars, jails, rows, datasets, mounts, lost, committed, cmd>>

\* apply_fixes(): rows first, then jails, then datasets, in the order
\* reconcile() listed them; whether an item succeeded changes nothing.
GcFixRow(c) ==
    /\ gc[c].pc = "fix"
    /\ \E n \in gc[c].fixes.rows :
        /\ RecordExit(n, "killed")
        /\ gc' = [gc EXCEPT ![c].fixes.rows = @ \ {n}]
    /\ UNCHANGED <<runVars, jails, datasets, mounts, lost, committed, cmd>>

GcFixJail(c) ==
    /\ gc[c].pc = "fix" /\ gc[c].fixes.rows = {}
    /\ \E n \in gc[c].fixes.jails :
        /\ RemoveJail(n)
        /\ gc' = [gc EXCEPT ![c].fixes.jails = @ \ {n}]
    /\ UNCHANGED <<runVars, rows, datasets, mounts, lost, committed, cmd>>

GcFixDataset(c) ==
    /\ gc[c].pc = "fix" /\ gc[c].fixes.rows = {} /\ gc[c].fixes.jails = {}
    /\ \E d \in gc[c].fixes.datasets :
        /\ DestroyDataset(d)
        /\ gc' = [gc EXCEPT ![c].fixes.datasets = @ \ {d}]
    /\ UNCHANGED <<runVars, jails, rows, mounts, cmd>>

GcFinish(c) ==
    /\ gc[c].pc = "fix" /\ gc[c].fixes = NoFixes
    /\ gc' = [gc EXCEPT ![c] = NoGc]
    /\ UNCHANGED <<runVars, jails, rows, datasets, mounts, lost, committed, cmd>>

\* A collector dies with something left to do.
GcDies(c) ==
    /\ "gc-crash" \in Faults
    /\ gc[c].pc \in {"rows", "datasets"} \/ gc[c].fixes # NoFixes
    /\ gc' = [gc EXCEPT ![c] = NoGc]
    /\ UNCHANGED <<runVars, jails, rows, datasets, mounts, lost, committed, cmd>>

GcStep(c) ==
    \/ GcListJails(c) \/ GcListRows(c) \/ GcReconcile(c)
    \/ GcFixRow(c) \/ GcFixJail(c) \/ GcFixDataset(c) \/ GcFinish(c)

-----------------------------------------------------------------------------
Next ==
    \/ \E r \in Runs : Begin(r) \/ RunStep(r) \/ Crash(r)
    \/ \E k \in Clients : ClientStep(k)
    \/ \E c \in Collectors : GcStep(c) \/ GcDies(c)

Spec == Init /\ [][Next]_vars

\* Where nothing bounds how long a run waits: _stream_jexec_pty() reads the terminal
\* and waits for jexec without a timeout, the pty being looked at in between; so does
\* netops._run() for ifconfig, pfctl and the others, which run before jail -c, after
\* it (setup_vnet_jail) and, in the finally block, between jail -r and record_exit.
Waits(r) ==
    \/ "terminal" \in opt[r].waits /\ pc[r] = "exec"
    \/ "network" \in opt[r].waits /\ pc[r] \in {"jailc", "record", "recordexit"}

\* Elsewhere a started run keeps going: each of its waits has a timeout, but for the
\* flocks, whose holders end (ImageStore).  That gc is run again and again, and not
\* killed every time, is the operator's part (a cron job).
FairSpec ==
    /\ Spec
    /\ \A r \in Runs : WF_vars(RunStep(r) /\ ~Waits(r))
    /\ \A c \in Collectors : WF_vars(GcStep(c)) /\ <>[][~GcDies(c)]_vars

-----------------------------------------------------------------------------
(* Properties.                                                             *)

\* When `jailrun run` returns, by whatever way through the finally block, no
\* jail it made is live: _run_async's rule that a jail never outlives its run.
NoJailLeftBehind ==
    \A r \in Runs, n \in Names : pc[r] = "over" => jails[n] # r

\* When jail -r could not remove the jail, the next gc sees it: the row of a run
\* that is over is not "running", so reconcile() flags the jail it left.
LeftoverJailIsFlagged ==
    \A r \in Runs, n \in Names :
        pc[r] = "over" /\ jails[n] = r /\ Prefixed(n) => n \in OrphanJails(LiveJails, rows)

\* No run that returned still has a "running" row of its own, whoever else wrote
\* rows meanwhile: record_exit() in the finally block, gated on jail_created.
RowTellsTruth ==
    \A r \in Runs, n \in Names :
        pc[r] = "over" /\ rows[n].dataset = r => rows[n].status # "running"

\* Nothing destroys the rootfs of a live jail: the order jail -r, then destroy,
\* of the finally block and of stop --rm; the refusal of rm (cli.py, _cmd_rm).
LiveJailKeepsRootfs ==
    \A r \in Runs, n \in Names : jails[n] = r => <<r, "rootfs">> \notin lost

\* No -v directory of the host is deleted through its bind: Store.destroy()
\* unmounts the binds before it removes the tree they are mounted in.
HostVolumeSurvives == \A r \in Runs : <<r, "volume">> \notin lost

\* A run with --rm that got as far as its jail leaves no rootfs behind when it
\* returns: "remove the rootfs clone when the container exits" (cli.py, --rm); unless
\* someone else had removed the jail, with a bare jail -r: the devfs that stays mounted
\* then keeps the rootfs busy; or unless commit left a snapshot, which Store.destroy() keeps.
RmReclaims ==
    \A r \in Runs :
        /\ pc[r] = "over" /\ opt[r].rm /\ stage[r] # "unnamed"
        /\ "dev" \notin mounts[r] /\ <<r, "snapshot">> \notin committed
        => r \notin datasets

\* Every run that starts returns, or its process died, or it hangs for good in one of
\* the waits without a timeout.
RunReturns ==
    \A r \in Runs : pc[r] = "clone" ~> (pc[r] \in {"over", "crashed"} \/ []Waits(r))

\* gc takes a run for alive while its jail is live under a "running" row of its
\* own; whatever is left of a run that has ended is rubbish otherwise.
Agreed(r) ==
    \E n \in Names : jails[n] = r /\ rows[n] = [status |-> "running", dataset |-> r]
Rubbish(r) ==
    /\ pc[r] \in {"over", "crashed"}
    /\ r \in datasets \/ \E n \in Names : jails[n] = r

\* A live jail whose run has ended is removed sooner or later (gc.py, header),
\* unless a crash left the three sources agreeing that the run is alive: then gc
\* spares it until an operator stops it.
GcRemovesJails ==
    \A r \in Runs : (Rubbish(r) /\ ~Agreed(r)) ~> (\A n \in Names : jails[n] # r)

\* So is the rootfs it left, once nothing is mounted under it any more, but for one
\* that an image was cloned from: a snapshot alone does not keep it.
GcReclaimsDatasets ==
    \A r \in Runs :
        (Rubbish(r) /\ mounts[r] = {}) ~> (r \notin datasets \/ <<r, "image">> \in committed)

-----------------------------------------------------------------------------
(* What the properties of single runs rest on, as long as jail -r works and   *)
(* the db takes writes: where a run is while something of it exists.          *)

JailInv ==
    \A r \in Runs, n \in Names :
        jails[n] = r => n = name[r] /\ pc[r] \in {"record", "exec", "teardown", "crashed"}

RowInv ==
    \A r \in Runs, n \in Names :
        rows[n].dataset = r =>
            /\ n = name[r]
            /\ stage[r] \in {"created", "completed"}
            /\ pc[r] \in {"exec", "teardown", "recordexit", "destroy", "reclaim", "over", "crashed"}
            /\ rows[n].status = "running" => pc[r] \in {"exec", "teardown", "recordexit", "crashed"}

StageInv == \A r \in Runs : pc[r] \in {"record", "exec"} => stage[r] = "created"

\* A live jail and a row have the name of the run they belong to, and exist in
\* the part of the run where the finally block still reaches them.
Bookkeeping == JailInv /\ RowInv /\ StageInv

-----------------------------------------------------------------------------
(* The abstract specification.                                             *)

PhaseOf(l) ==
    CASE l \in {"idle", "dbcheck", "clone", "prepare", "jailc"} -> "setup"
      [] l = "record"  -> "made"
      [] l = "exec"    -> "executing"
      [] l = "over"    -> "over"
      [] l = "crashed" -> "dead"
      [] OTHER         -> "closing"

\* The row of a run is the one under its name, while it still names its rootfs.
RecordOf(row, r) ==
    IF row.dataset # r THEN "none" ELSE IF row.status = "running" THEN "running" ELSE "ended"

phaseBar == [r \in Runs |-> PhaseOf(pc[r])]
upBar == {r \in Runs : \E n \in Names : jails[n] = r}
recordBar == [r \in Runs |-> RecordOf(rows[name[r]], r)]

Contract == INSTANCE RunContract
    WITH phase <- phaseBar, up <- upBar, record <- recordBar

\* Every behaviour of the commands together keeps the contract of each run.
KeepsContract == Contract!Spec

=============================================================================
