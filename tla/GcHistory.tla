------------------------------ MODULE GcHistory ------------------------------
(***************************************************************************)
(* JailRun with history variables about the passes of `jailrun gc --fix`:  *)
(* what a pass may destroy depends on what was true when it read its three *)
(* sources, one after the other.                                           *)
(***************************************************************************)
EXTENDS JailRun, Naturals

VARIABLES
    agreed,  \* runs the three sources agree on since a collector's pass began
    quiet,   \* passes that began and ended since anything else took a step
    alone    \* a collector's pass began since anything else took a step

history == <<agreed, quiet, alone>>

\* quiet stops counting here: two passes are what the property is about.
QuietBound == 2

HistoryInit ==
    /\ Init
    /\ agreed = [c \in Collectors |-> {}]
    /\ quiet = 0
    /\ alone = [c \in Collectors |-> FALSE]

\* The runs every source agrees on from the start of the pass to this state.
StillAgreed ==
    agreed' = [c \in Collectors |->
        LET began == IF gc[c].pc = "idle" THEN {r \in Runs : Agreed(r) /\ r \in datasets}
                                          ELSE agreed[c]
        IN {r \in began : Agreed(r)' /\ r \in datasets'}]

Pass(c) ==
    /\ GcStep(c)
    /\ alone' = [alone EXCEPT ![c] = @ \/ gc[c].pc = "idle"]
    /\ quiet' = IF gc[c].pc = "fix" /\ gc'[c].pc = "idle" /\ alone[c] /\ quiet < QuietBound
                THEN quiet + 1 ELSE quiet

Disturb ==
    /\ quiet' = 0
    /\ alone' = [c \in Collectors |-> FALSE]

Others ==
    \/ \E r \in Runs : Begin(r) \/ RunStep(r) \/ Crash(r)
    \/ \E k \in Clients : ClientStep(k)
    \/ \E c \in Collectors : GcDies(c)

HistoryNext ==
    /\ \/ \E c \in Collectors : Pass(c)
       \/ Others /\ Disturb
    /\ StillAgreed

HistorySpec == HistoryInit /\ [][HistoryNext]_<<vars, history>>

\* A discipline operators can keep: no run is on its way from the clone to its
\* row while gc is working.
Starting(r) == pc[r] \in {"prepare", "jailc", "record"}
Disciplined ==
    \A c \in Collectors : gc'[c].pc # "idle" => \A r \in Runs : ~Starting(r)'

DisciplinedSpec == HistoryInit /\ [][HistoryNext /\ Disciplined]_<<vars, history>>

-----------------------------------------------------------------------------
(* Properties.                                                             *)

\* A run that jls, the db and the store agree is alive from the start of a pass
\* on is not on the list of that pass, whichever of its reads fail: reconcile()
\* "only flags what it can be certain about".
GcSparesAgreed ==
    \A c \in Collectors : \A r \in agreed[c] :
        /\ r \notin gc[c].fixes.datasets
        /\ \A n \in gc[c].fixes.jails \cup gc[c].fixes.rows : jails[n] # r

\* No step of gc touches a run that is executing its command in a live jail: not
\* its jail, its row nor its rootfs.
GcHarmsNoExecutingRun ==
    [][(\E c \in Collectors : GcStep(c)) =>
          \A r \in Runs, n \in Names :
            pc[r] = "exec" /\ jails[n] = r =>
                /\ jails'[n] = r
                /\ rows'[n] = rows[n]
                /\ <<r, "rootfs">> \in lost' => <<r, "rootfs">> \in lost]_vars

\* Two passes that nothing interrupts leave nothing that gc's categories name:
\* a jail, a row or a dataset without its counterparts, but for a dataset in
\* which something is still mounted.  One pass is not enough: the datasets are
\* judged by the rows as they were before the fixes.
Clean ==
    \A r \in Runs :
        LET n == OwnName(r)
            live == jails[n] # NoRun
            running == rows[n].status = "running"
        IN (live <=> running) /\ (r \in datasets => live \/ mounts[r] # {})
QuietMeansClean == quiet = QuietBound => Clean

=============================================================================
