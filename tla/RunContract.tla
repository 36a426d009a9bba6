----------------------------- MODULE RunContract -----------------------------
(***************************************************************************)
(* What `jailrun run` promises about each run, whatever other runs,        *)
(* commands and collectors do meanwhile: its jail comes up at most once,   *)
(* while it is being set up; its row is opened at most once, while the     *)
(* jail may be up; it is over only when the jail is gone and the row, if   *)
(* it is still the run's, is closed.  A run whose process dies is excused. *)
(***************************************************************************)
CONSTANT Runs

VARIABLES
    phase,   \* how far each run is
    up,      \* the runs whose jail is live
    record   \* what the run-state db says of each run

contractVars == <<phase, up, record>>

Phase == {"setup", "made", "executing", "closing", "over", "dead"}
Record == {"none", "running", "ended"}

Init ==
    /\ phase = [r \in Runs |-> "setup"]
    /\ up = {}
    /\ record = [r \in Runs |-> "none"]

Become(r, p) == phase' = [phase EXCEPT ![r] = p]

\* Anyone may remove a jail, close a row or take its name over.
DownOnly == up' \subseteq up
CloseOnly(S) ==
    /\ record' \in [Runs -> Record]
    /\ \A s \in S : \/ record'[s] = record[s]
                    \/ record[s] # "none" /\ record'[s] \in {"ended", "none"}

Create(r) ==
    /\ phase[r] = "setup" /\ Become(r, "made")
    /\ up' = up \cup {r}
    /\ UNCHANGED record

\* Setting up failed; the jail may be up all the same.
Fail(r) ==
    /\ phase[r] \in {"setup", "made"} /\ Become(r, "closing")
    /\ up' = up \/ (phase[r] = "setup" /\ up' = up \cup {r})
    /\ UNCHANGED record

\* Rows are opened here only, and a thin run's is not.
Open(r) ==
    /\ phase[r] = "made" /\ Become(r, "executing")
    /\ UNCHANGED up
    /\ CloseOnly(Runs \ {r})
    /\ record'[r] \in {"running", "none"}

Close(r) ==
    /\ phase[r] = "executing" /\ Become(r, "closing")
    /\ DownOnly
    /\ UNCHANGED record

Finish(r) ==
    /\ phase[r] \in {"setup", "closing"} /\ Become(r, "over")
    /\ r \notin up'
    /\ DownOnly
    /\ CloseOnly(Runs)
    /\ record'[r] # "running"

Die(r) ==
    /\ phase[r] \notin {"over", "dead"} /\ Become(r, "dead")
    /\ UNCHANGED <<up, record>>

\* Steps of others, and of a run that is closing.
Interfere ==
    /\ DownOnly
    /\ CloseOnly(Runs)
    /\ UNCHANGED phase

Next ==
    \/ \E r \in Runs : Create(r) \/ Fail(r) \/ Open(r) \/ Close(r) \/ Finish(r) \/ Die(r)
    \/ Interfere

Spec == Init /\ [][Next]_contractVars

=============================================================================
