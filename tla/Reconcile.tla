------------------------------ MODULE Reconcile ------------------------------
(***************************************************************************)
(* The orphan decision of `jailrun gc` (runtime/gc.py, reconcile()): a     *)
(* pure function of three snapshots -- the live jails of `jls -n name`,    *)
(* the rows of the run-state db and the entries of the store's runs tree.  *)
(*                                                                         *)
(* A run is identified by its store handle (Handle.id, a fresh uuid); the  *)
(* dataset or directory runs/<id> of a run is identified with the run.  A  *)
(* jail name is a tagged pair, because what gc decides depends only on how *)
(* the name was made:                                                      *)
(*   <<"own", r>>    jailrun-<handle.id>: a foreground run                 *)
(*   <<"fresh", r>>  jailrun-<another uuid>: `run -d` without --name       *)
(*   <<"user", u>>   the --name given to `run -d`                          *)
(***************************************************************************)

CONSTANTS
    Runs,               \* invocations of `jailrun run`, by handle id
    UserNames,          \* values operators pass as --name
    PrefixedUserNames,  \* those that happen to start with "jailrun-"
    NoRun,              \* no run: the owner of a jail that is not live
    Unknown             \* None: a source that could not be read

ASSUME NoRunAssumption == NoRun \notin Runs
ASSUME PrefixedAssumption == PrefixedUserNames \subseteq UserNames

Names == ({"own", "fresh"} \X Runs) \cup ({"user"} \X UserNames)

OwnName(r) == <<"own", r>>
FreshName(r) == <<"fresh", r>>

\* name.startswith(JAILRUN_PREFIX)
Prefixed(n) == n[1] \in {"own", "fresh"} \/ n[2] \in PrefixedUserNames

\* One row of the runs table, and its absence.
Row == [status: {"running", "exited", "killed"}, dataset: Runs]
NoRow == [status |-> "none", dataset |-> NoRun]
Ledger == [Names -> Row \cup {NoRow}]

\* No source that can be read is taken for one that cannot.
ASSUME UnknownAssumption ==
    /\ \A js \in SUBSET Names : js # Unknown
    /\ \A rs \in Ledger : rs # Unknown
    /\ \A ds \in SUBSET Runs : ds # Unknown

-----------------------------------------------------------------------------
(* The three categories, over known snapshots.                             *)

StaleRows(js, rs) == {n \in Names : rs[n].status = "running" /\ n \notin js}

\* Mutants: a jail without a row is not an orphan; the row is not consulted.
OrphanJailsClosed(js, rs) == {n \in js : Prefixed(n) /\ rs[n].status \in {"exited", "killed"}}
OrphanJailsUnchecked(js, rs) == {n \in js : Prefixed(n)}

OrphanJails(js, rs) == {n \in js : Prefixed(n) /\ rs[n].status # "running"}

\* Mutant: a closed row spares a dataset.
OrphanDatasetsUnrecorded(js, rs, ds) ==
    {d \in ds : OwnName(d) \notin js /\ rs[OwnName(d)].status = "none"}

OrphanDatasets(js, rs, ds) ==
    {d \in ds : OwnName(d) \notin js /\ rs[OwnName(d)].status # "running"}

Fixes == [rows: SUBSET Names, jails: SUBSET Names, datasets: SUBSET Runs]
NoFixes == [rows |-> {}, jails |-> {}, datasets |-> {}]

\* Mutant: a source that cannot be read is taken for empty.
OrphansUnguarded(js, rs, ds) ==
    LET live == IF js = Unknown THEN {} ELSE js
        ledger == IF rs = Unknown THEN [n \in Names |-> NoRow] ELSE rs
    IN [rows     |-> StaleRows(live, ledger),
        jails    |-> OrphanJails(live, ledger),
        datasets |-> IF ds = Unknown THEN {} ELSE OrphanDatasets(live, ledger, ds)]

\* reconcile(): nothing is flagged when the jails or the rows are unknown,
\* and no dataset when the datasets are.
Orphans(js, rs, ds) ==
    IF js = Unknown \/ rs = Unknown
    THEN NoFixes
    ELSE [rows     |-> StaleRows(js, rs),
          jails    |-> OrphanJails(js, rs),
          datasets |-> IF ds = Unknown THEN {} ELSE OrphanDatasets(js, rs, ds)]

=============================================================================
