--------------------------- MODULE ExtractionJail ---------------------------
(***************************************************************************)
(* JAILRUN_EXTRACT_IN_JAIL=1 (store/store.py): a layer is extracted by a   *)
(* bsdtar in a throwaway jail.  All those jails share one template         *)
(* directory, built by whoever comes first, and in it the two mount points *)
(* for the blobs of the image and for the temporary directory the layer    *)
(* goes to.  The flock of an image keeps two processes off one image, and  *)
(* off nothing else: processes of different images meet here.              *)
(*                                                                         *)
(* Every process extracts one layer of an image of its own.                *)
(***************************************************************************)
EXTENDS Naturals, Sequences

CONSTANTS
    Procs,     \* `jailrun run` or `pull` processes
    Template,  \* the template directory, where it is not hidden by a mount
    Faults     \* what may fail: see Fault

\* crash: SIGKILL of a process; cp, mount, jail, tar, umount: one of these commands
\* fails; timeout: a command other than cp runs into its timeout, done or not done.
Fault == {"crash", "cp", "mount", "jail", "tar", "umount", "timeout"}

ASSUME ExtractionAssumption ==
    /\ Template \notin Procs
    /\ Faults \subseteq Fault

\* The files of the template in the order they are copied in; bsdtar runs without sh.
Parts == <<"rtld", "sh", "bsdtar", "libs">>
Needed == {"rtld", "bsdtar", "libs"}
Part == Needed \cup {"sh"}
Points == {"input", "output"}
Dirs == Procs \cup {Template}

VARIABLES
    pc,        \* where a process is
    next,      \* the part of the template it copies
    template,  \* what is in the template: "absent", "torn" or "whole"
    dirs,      \* the mount points that exist
    mnt,       \* what is mounted on each, the visible one last: whose blobs, whose output
    cleanup,   \* mount_cleanup: where a process has mounted something
    jails,     \* the processes whose jail exists
    target,    \* the directory a process's bsdtar writes to
    extracted, \* bsdtar returned 0
    got,       \* whose layers have entries in each output directory
    spoilt     \* history: the processes of which a mount(8) timed out, or a teardown
               \* command (jail -r, umount -f) failed or timed out

vars == <<pc, next, template, dirs, mnt, cleanup, jails, target, extracted, got, spoilt>>

PC == {"idle", "copy", "torn", "mkdir", "input", "output", "jail", "open", "extract",
       "remove", "finally", "done", "failed", "dead"}

TypeOK ==
    /\ pc \in [Procs -> PC]
    /\ next \in [Procs -> 1 .. Len(Parts)]
    /\ template \in [Part -> {"absent", "torn", "whole"}]
    /\ dirs \in SUBSET Points
    /\ mnt \in [Points -> Seq(Procs)]
    /\ cleanup \in [Procs -> SUBSET Points]
    /\ jails \in SUBSET Procs
    /\ target \in [Procs -> Dirs]
    /\ extracted \in [Procs -> BOOLEAN]
    /\ got \in [Dirs -> SUBSET Procs]
    /\ spoilt \in SUBSET Procs

Init ==
    /\ pc = [p \in Procs |-> "idle"]
    /\ next = [p \in Procs |-> 1]
    /\ template = [x \in Part |-> "absent"]
    /\ dirs = {}
    /\ mnt = [pt \in Points |-> <<>>]
    /\ cleanup = [p \in Procs |-> {}]
    /\ jails = {}
    /\ target = [p \in Procs |-> Template]
    /\ extracted = [p \in Procs |-> FALSE]
    /\ got = [d \in Dirs |-> {}]
    /\ spoilt = {}

Goto(p, l) == pc' = [pc EXCEPT ![p] = l]

\* Whose directory one sees at a mount point.
Visible(pt) == IF mnt[pt] = <<>> THEN Template ELSE mnt[pt][Len(mnt[pt])]

-----------------------------------------------------------------------------
(* _ensure_extraction_jail_template: no lock; bin/sh stands for all of it.   *)

Begin(p) ==
    /\ pc[p] = "idle"
    /\ Goto(p, IF template["sh"] = "absent" THEN "copy" ELSE "mkdir")
    /\ UNCHANGED <<next, template, dirs, mnt, cleanup, jails, target, extracted, got, spoilt>>

\* cp truncates, then writes.
CopyBegins(p) ==
    /\ pc[p] = "copy"
    /\ template' = [template EXCEPT ![Parts[next[p]]] = "torn"]
    /\ Goto(p, "torn")
    /\ UNCHANGED <<next, dirs, mnt, cleanup, jails, target, extracted, got, spoilt>>

\* Mutant: one part too many.
CopyEndsLate(p) ==
    /\ pc[p] = "torn"
    /\ template' = [template EXCEPT ![Parts[next[p]]] = "whole"]
    /\ next' = [next EXCEPT ![p] = @ + 1]
    /\ Goto(p, IF next[p] < Len(Parts) THEN "copy" ELSE "mkdir")
    /\ UNCHANGED <<dirs, mnt, cleanup, jails, target, extracted, got, spoilt>>

CopyEnds(p) ==
    /\ pc[p] = "torn"
    /\ template' = [template EXCEPT ![Parts[next[p]]] = "whole"]
    /\ IF next[p] < Len(Parts)
       THEN next' = [next EXCEPT ![p] = @ + 1] /\ Goto(p, "copy")
       ELSE Goto(p, "mkdir") /\ UNCHANGED next
    /\ UNCHANGED <<dirs, mnt, cleanup, jails, target, extracted, got, spoilt>>

\* What was copied so far stays.
CopyFails(p) ==
    /\ "cp" \in Faults
    /\ pc[p] \in {"copy", "torn"}
    /\ Goto(p, "failed")
    /\ UNCHANGED <<next, template, dirs, mnt, cleanup, jails, target, extracted, got, spoilt>>

-----------------------------------------------------------------------------
(* _extract_layer_in_jail                                                   *)

MakePoints(p) ==
    /\ pc[p] = "mkdir"
    /\ dirs' = Points
    /\ Goto(p, "input")
    /\ UNCHANGED <<next, template, mnt, cleanup, jails, target, extracted, got, spoilt>>

\* A mount on a mount point in use covers what is there.
Mount(p, pt) ==
    /\ pt \in dirs
    /\ mnt' = [mnt EXCEPT ![pt] = Append(@, p)]

\* Mutant: the mount is not put down for the finally block.
MountBlobsUnrecorded(p) ==
    /\ pc[p] = "input"
    /\ Mount(p, "input")
    /\ Goto(p, "output")
    /\ UNCHANGED <<next, template, dirs, cleanup, jails, target, extracted, got, spoilt>>

MountBlobs(p) ==
    /\ pc[p] = "input"
    /\ Mount(p, "input")
    /\ cleanup' = [cleanup EXCEPT ![p] = @ \cup {"input"}]
    /\ Goto(p, "output")
    /\ UNCHANGED <<next, template, dirs, jails, target, extracted, got, spoilt>>

MountOutput(p) ==
    /\ pc[p] = "output"
    /\ Mount(p, "output")
    /\ cleanup' = [cleanup EXCEPT ![p] = @ \cup {"output"}]
    /\ Goto(p, "jail")
    /\ UNCHANGED <<next, template, dirs, jails, target, extracted, got, spoilt>>

\* Somebody's rmdir came after our mkdir, or mount(8) failed.
MountFails(p) ==
    /\ pc[p] \in {"input", "output"}
    /\ pc[p] \notin dirs \/ "mount" \in Faults
    /\ Goto(p, "finally")
    /\ UNCHANGED <<next, template, dirs, mnt, cleanup, jails, target, extracted, got, spoilt>>

\* mount(8) timed out when it had mounted: nothing is put down for the finally block.
MountTimesOut(p) ==
    /\ "timeout" \in Faults
    /\ pc[p] \in {"input", "output"}
    /\ Mount(p, pc[p])
    /\ spoilt' = spoilt \cup {p}
    /\ Goto(p, "finally")
    /\ UNCHANGED <<next, template, dirs, cleanup, jails, target, extracted, got>>

CreateJail(p) ==
    /\ pc[p] = "jail"
    /\ jails' = jails \cup {p}
    /\ Goto(p, "open")
    /\ UNCHANGED <<next, template, dirs, mnt, cleanup, target, extracted, got, spoilt>>

\* jail -c that timed out may have made the jail.
CreateJailFails(p) ==
    /\ pc[p] = "jail"
    /\ \/ "jail" \in Faults /\ UNCHANGED jails
       \/ "timeout" \in Faults /\ jails' = jails \cup {p}
    /\ Goto(p, "finally")
    /\ UNCHANGED <<next, template, dirs, mnt, cleanup, target, extracted, got, spoilt>>

\* bsdtar opens the blob, by its name in the blobs it sees, and enters the output
\* directory it sees.
CanOpen(p) ==
    /\ \A x \in Needed : template[x] = "whole"
    /\ Visible("input") = p
    /\ "output" \in dirs

Open(p) ==
    /\ pc[p] = "open"
    /\ CanOpen(p)
    /\ target' = [target EXCEPT ![p] = Visible("output")]
    /\ Goto(p, "extract")
    /\ UNCHANGED <<next, template, dirs, mnt, cleanup, jails, extracted, got, spoilt>>

OpenFails(p) ==
    /\ pc[p] = "open"
    /\ ~CanOpen(p)
    /\ Goto(p, "remove")
    /\ UNCHANGED <<next, template, dirs, mnt, cleanup, jails, target, extracted, got, spoilt>>

\* Both directories are still mounted: nobody has forced them from under bsdtar.
StillThere(p) ==
    /\ \E i \in 1 .. Len(mnt["input"]) : mnt["input"][i] = p
    /\ target[p] = Template \/ \E i \in 1 .. Len(mnt["output"]) : mnt["output"][i] = target[p]

Fill(p) == got' = [got EXCEPT ![target[p]] = @ \cup {p}]

Extract(p) ==
    /\ pc[p] = "extract"
    /\ StillThere(p)
    /\ Fill(p)
    /\ extracted' = [extracted EXCEPT ![p] = TRUE]
    /\ Goto(p, "remove")
    /\ UNCHANGED <<next, template, dirs, mnt, cleanup, jails, target, spoilt>>

\* bsdtar fails before or after its first entry.
ExtractFails(p) ==
    /\ pc[p] = "extract"
    /\ "tar" \in Faults \/ ~StillThere(p)
    /\ Fill(p) \/ UNCHANGED got
    /\ Goto(p, "remove")
    /\ UNCHANGED <<next, template, dirs, mnt, cleanup, jails, target, extracted, spoilt>>

\* subprocess.run raises: the finally block does not remove the jail.
TimesOut(p) ==
    /\ "timeout" \in Faults
    /\ pc[p] \in {"extract", "remove"}
    /\ extracted' = [extracted EXCEPT ![p] = FALSE]
    /\ Goto(p, "finally")
    /\ UNCHANGED <<next, template, dirs, mnt, cleanup, jails, target, got, spoilt>>

RemoveJail(p) ==
    /\ pc[p] = "remove"
    /\ jails' = jails \ {p}
    /\ Goto(p, "finally")
    /\ UNCHANGED <<next, template, dirs, mnt, cleanup, target, extracted, got, spoilt>>

\* The return code of jail -r is not looked at.
RemoveJailFails(p) ==
    /\ "jail" \in Faults
    /\ pc[p] = "remove"
    /\ spoilt' = spoilt \cup {p}
    /\ Goto(p, "finally")
    /\ UNCHANGED <<next, template, dirs, mnt, cleanup, jails, target, extracted, got>>

\* The mount point whose turn it is, the mounts being undone in reverse order.
Turn(p) == IF "output" \in cleanup[p] THEN "output" ELSE "input"

\* umount -f takes away what is visible at the mount point, then rmdir the mount
\* point, if nothing else is mounted on it and nothing is in it.
Uncovered(pt) == [i \in 1 .. Len(mnt[pt]) - 1 |-> mnt[pt][i]]
Unmount(p) ==
    /\ pc[p] = "finally"
    /\ cleanup[p] # {}
    /\ LET pt == Turn(p) IN
        /\ mnt' = [mnt EXCEPT ![pt] = Uncovered(pt)]
        /\ dirs' = IF Uncovered(pt) = <<>> /\ (pt = "output" => got[Template] = {})
                   THEN dirs \ {pt} ELSE dirs
        /\ cleanup' = [cleanup EXCEPT ![p] = @ \ {pt}]
    /\ UNCHANGED <<pc, next, template, jails, target, extracted, got, spoilt>>

\* The return code of umount is not looked at; rmdir finds the mount point busy.
UnmountFails(p) ==
    /\ "umount" \in Faults
    /\ pc[p] = "finally"
    /\ cleanup[p] # {}
    /\ cleanup' = [cleanup EXCEPT ![p] = @ \ {Turn(p)}]
    /\ spoilt' = spoilt \cup {p}
    /\ UNCHANGED <<pc, next, template, dirs, mnt, jails, target, extracted, got>>

\* TimeoutExpired leaves the finally block: the other mount is not tried.
UnmountTimesOut(p) ==
    /\ "timeout" \in Faults
    /\ pc[p] = "finally"
    /\ cleanup[p] # {}
    /\ \/ mnt' = [mnt EXCEPT ![Turn(p)] = Uncovered(Turn(p))]
       \/ UNCHANGED mnt
    /\ cleanup' = [cleanup EXCEPT ![p] = {}]
    /\ spoilt' = spoilt \cup {p}
    /\ Goto(p, "failed")
    /\ UNCHANGED <<next, template, dirs, jails, target, extracted, got>>

\* Mutant: the return code of bsdtar is not looked at.
ReturnAnyway(p) ==
    /\ pc[p] = "finally"
    /\ cleanup[p] = {}
    /\ Goto(p, "done")
    /\ UNCHANGED <<next, template, dirs, mnt, cleanup, jails, target, extracted, got, spoilt>>

\* StoreError, or the next layer: the caller takes this one for extracted.
Return(p) ==
    /\ pc[p] = "finally"
    /\ cleanup[p] = {}
    /\ Goto(p, IF extracted[p] THEN "done" ELSE "failed")
    /\ UNCHANGED <<next, template, dirs, mnt, cleanup, jails, target, extracted, got, spoilt>>

Active(p) == pc[p] \notin {"idle", "done", "failed", "dead"}

\* Its jail and its mounts stay.
Crash(p) ==
    /\ "crash" \in Faults
    /\ Active(p)
    /\ Goto(p, "dead")
    /\ UNCHANGED <<next, template, dirs, mnt, cleanup, jails, target, extracted, got, spoilt>>

Ensure(p) == Begin(p) \/ CopyBegins(p) \/ CopyEnds(p) \/ CopyFails(p)
SetUp(p) ==
    MakePoints(p) \/ MountBlobs(p) \/ MountOutput(p) \/ MountFails(p) \/ MountTimesOut(p)
Jailed(p) ==
    \/ CreateJail(p) \/ CreateJailFails(p) \/ Open(p) \/ OpenFails(p) \/ Extract(p)
    \/ ExtractFails(p) \/ TimesOut(p) \/ RemoveJail(p) \/ RemoveJailFails(p)
CleanUp(p) == Unmount(p) \/ UnmountFails(p) \/ UnmountTimesOut(p) \/ Return(p)

Next == \E p \in Procs : Ensure(p) \/ SetUp(p) \/ Jailed(p) \/ CleanUp(p) \/ Crash(p)

Spec == Init /\ [][Next]_vars

\* What the code relies on: images are extracted one after the other.
OneAtATime == \A p, q \in Procs : Active(p)' /\ Active(q)' => p = q
SequentialSpec == Init /\ [][Next /\ OneAtATime]_vars

-----------------------------------------------------------------------------
(* Properties.                                                             *)

\* A layer that was taken for extracted is all that is in its output directory, and is
\* there (_extract_layer_in_jail: "contents are replaced with the extracted tar
\* entries"), whatever template, jails and mounts dead processes have left.
ExtractedIsOwnLayer == \A p \in Procs : pc[p] = "done" => got[p] = {p}

\* A call of which no mount timed out and every teardown command worked has left, when
\* it returns, no mount over the template, by whatever way it came to its finally block,
\* and no jail if it succeeded; what other calls and dead processes left has not kept it
\* from that.
NothingStays ==
    \A p \in Procs \ spoilt :
        /\ pc[p] \in {"done", "failed"} =>
              \A pt \in Points : \A i \in 1 .. Len(mnt[pt]) : mnt[pt][i] # p
        /\ pc[p] = "done" => p \notin jails

=============================================================================
