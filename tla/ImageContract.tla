---------------------------- MODULE ImageContract ----------------------------
(***************************************************************************)
(* What the image store promises, whoever fills it and whoever dies while  *)
(* filling it: an image appears whole, in one step, stays, and a process   *)
(* is given a rootfs only of an image that is there.                       *)
(***************************************************************************)
CONSTANTS
    Procs,   \* the processes that use the store
    Ids      \* the images

VARIABLES
    published,   \* the images that are there, whole
    given        \* the images each process was given a rootfs of

Init ==
    /\ published = {}
    /\ given = [p \in Procs |-> {}]

Publish(i) ==
    /\ published' = published \cup {i}
    /\ UNCHANGED given

Give(p, i) ==
    /\ i \in published
    /\ given' = [given EXCEPT ![p] = @ \cup {i}]
    /\ UNCHANGED published

Next == \E i \in Ids : Publish(i) \/ \E p \in Procs : Give(p, i)

Spec == Init /\ [][Next]_<<published, given>>

=============================================================================
