------------------------------- MODULE Layers -------------------------------
(***************************************************************************)
(* How unpack makes a root filesystem of the layers of an image            *)
(* (store.py, _unpack_bsdtar and what it calls): layer by layer, opaque    *)
(* whiteouts, file whiteouts, then the merge of what is left.  Any step    *)
(* can raise, and the process can die between two of them; the next run of *)
(* the image starts again at the first layer over what is there.           *)
(*                                                                         *)
(* File contents are the number of the layer they come from; modes, owners *)
(* and times are left out, and so is what the containment guard refuses:   *)
(* the symlinks here lead to places inside the root filesystem.  Copying a *)
(* file and removing a tree are one step.                                  *)
(***************************************************************************)
EXTENDS Naturals, Sequences, SequencesExt

CONSTANTS
    Paths,     \* paths of layer entries: sequences of names
    LinkTo,    \* the directory that symlinks lead to
    Images,    \* the images to unpack: sequences of layers, see Layer
    Attempts   \* how many runs unpack the image at most

\* What a layer has at each path ("no" when nothing), the paths it has a whiteout for
\* (.wh.<name>) and the directories it makes opaque (.wh..wh..opq).
Layer == [has : [Paths -> {"no", "dir", "file", "link"}],
          gone : SUBSET Paths, opaque : SUBSET Paths]

\* An image has a base layer.
ASSUME LayersAssumption ==
    /\ \A image \in Images : image \in Seq(Layer) /\ image # <<>>
    /\ \A image \in Images : \A i \in DOMAIN image :
         \* An extracted layer is a tree: what has an entry below it is a directory.
         LET dirs == {p \in Paths : image[i].has[p] = "dir"}
             inside == {p \in Paths : image[i].has[p] # "no"} \cup image[i].gone
         IN  /\ \A p \in inside : Len(p) > 1 => Front(p) \in dirs
             /\ image[i].opaque \subseteq dirs
             /\ image[i].has[LinkTo] # "link"
    /\ Attempts \in Nat \ {0}

\* copy2 of a file onto a directory puts it inside, under its own name.
Inside(p) == Append(p, Last(p))
Places == Paths \cup {Inside(p) : p \in Paths}

ASSUME PathsAssumption ==
    /\ Paths \subseteq Seq(STRING)
    /\ LinkTo \in Paths
    /\ \A p \in Paths : p # <<>> /\ Inside(p) \notin Paths

VARIABLES
    image,    \* the layers, in order
    rootfs,   \* what is at each place
    layer,    \* the layer that is being applied
    phase,    \* "opaque", "whiteout" or "merge"
    todo,     \* the paths this phase has not treated yet
    status,   \* of the attempt
    attempt

vars == <<image, rootfs, layer, phase, todo, status, attempt>>

Node == [kind : {"no", "dir", "file", "link"}, from : Nat]
Nothing == [kind |-> "no", from |-> 0]
Dir == [kind |-> "dir", from |-> 0]

\* Types; and what has been extracted is a tree at every step: whatever is removed or
\* replaced on the way, nothing is left below a path that is no directory any more.
TypeOK ==
    /\ image \in Seq(Layer)
    /\ rootfs \in [Places -> Node]
    /\ \A p \in Places : rootfs[p].kind # "no" /\ Len(p) > 1 => rootfs[Front(p)].kind = "dir"
    /\ layer \in DOMAIN image
    /\ phase \in {"opaque", "whiteout", "merge"}
    /\ todo \subseteq Paths
    /\ status \in {"extracting", "failed", "killed", "done"}
    /\ attempt \in 1..Attempts

Init ==
    /\ image \in Images
    /\ rootfs = [p \in Places |-> Nothing]
    /\ layer = 1
    /\ phase = "opaque"
    /\ todo = image[1].opaque
    /\ status = "extracting"
    /\ attempt = 1

Entries(l) == {p \in Paths : l.has[p] # "no"}

\* Without what is below p.
Emptied(fs, p) == [q \in DOMAIN fs |-> IF IsStrictPrefix(p, q) THEN Nothing ELSE fs[q]]

\* Mutant: a removal that is not recursive.
Unlinked(fs, p) == [fs EXCEPT ![p] = Nothing]

\* _rm_rf of what is at p.
Without(fs, p) == [q \in DOMAIN fs |-> IF IsPrefix(p, q) THEN Nothing ELSE fs[q]]

At(fs, p) == IF p \in DOMAIN fs THEN fs[p] ELSE Nothing

\* The place a path leads to when every symlink on it is followed.
Resolved(fs, p) ==
    LET at[n \in 0..Len(p)] ==
            IF n = 0 THEN <<>>
            ELSE LET q == Append(at[n - 1], p[n])
                 IN  IF At(fs, q).kind = "link" THEN LinkTo ELSE q
    IN  at[Len(p)]

----------------------------------------------------------------------------
(* Steps of an attempt *)

Extracting(ph, p) == status = "extracting" /\ phase = ph /\ p \in todo

Raise == status' = "failed" /\ UNCHANGED <<rootfs, todo>>

\* exists() and iterdir() follow a symlink; iterdir() raises on a file.
ClearOpaque(p) ==
    LET at == Resolved(rootfs, p) IN
    /\ Extracting("opaque", p)
    /\ IF At(rootfs, at).kind = "file" THEN Raise
       ELSE /\ rootfs' = Emptied(rootfs, at)
            /\ todo' = todo \ {p}
            /\ UNCHANGED status
    /\ UNCHANGED <<image, layer, phase, attempt>>

\* The parent may be a symlink and is followed, what is removed is not.
Whiteout(p) ==
    LET at == Append(Resolved(rootfs, Front(p)), Last(p)) IN
    /\ Extracting("whiteout", p)
    /\ rootfs' = Without(rootfs, at)
    /\ todo' = todo \ {p}
    /\ UNCHANGED <<image, layer, phase, status, attempt>>

\* The entry for p is put at a place and treated.
Put(p, at, node) ==
    rootfs' = [rootfs EXCEPT ![at] = node] /\ todo' = todo \ {p} /\ UNCHANGED status

\* Mutants: mkdir without exist_ok; a symlink made without an unlink before it.
MergeNewDirs(p, kind, old) ==
    IF kind = "dir" /\ old # "no" THEN Raise ELSE Put(p, p, [kind |-> kind, from |-> layer])
MergeNewLinks(p, kind, old) ==
    IF kind = "link" /\ old # "no" THEN Raise
    ELSE Put(p, p, IF kind = "dir" THEN Dir ELSE [kind |-> kind, from |-> layer])

\* unlink() raises on a directory, mkdir(exist_ok=True) on a file, copy2 onto a directory
\* does not.
MergeOne(p, kind, old) ==
    CASE kind = "link" -> IF old = "dir" THEN Raise ELSE Put(p, p, [kind |-> "link", from |-> layer])
      [] kind = "dir" -> IF old = "file" THEN Raise ELSE Put(p, p, Dir)
      [] kind = "file" -> Put(p, IF old = "dir" THEN Inside(p) ELSE p,
                              [kind |-> "file", from |-> layer])

\* rglob yields a directory before what is in it.
Merge(p) ==
    /\ Extracting("merge", p)
    /\ ~\E q \in todo : IsStrictPrefix(q, p)
    /\ MergeOne(p, image[layer].has[p], rootfs[p].kind)
    /\ UNCHANGED <<image, layer, phase, attempt>>

\* On to the next phase, the next layer, or the end.
NextPhase ==
    /\ status = "extracting" /\ todo = {}
    /\ CASE phase = "opaque" ->
              /\ phase' = "whiteout" /\ todo' = image[layer].gone
              /\ UNCHANGED <<layer, status>>
         [] phase = "whiteout" ->
              /\ phase' = "merge" /\ todo' = Entries(image[layer])
              /\ UNCHANGED <<layer, status>>
         [] phase = "merge" /\ layer < Len(image) ->
              /\ phase' = "opaque" /\ layer' = layer + 1 /\ todo' = image[layer + 1].opaque
              /\ UNCHANGED status
         [] phase = "merge" /\ layer = Len(image) ->
              /\ status' = "done"
              /\ UNCHANGED <<phase, layer, todo>>
    /\ UNCHANGED <<image, rootfs, attempt>>

----------------------------------------------------------------------------
(* Attempts *)

Kill ==
    /\ status = "extracting"
    /\ status' = "killed"
    /\ UNCHANGED <<image, rootfs, layer, phase, todo, attempt>>

\* No snapshot, no sentinel: the next run extracts into the same dataset or directory.
Retry ==
    /\ status \in {"failed", "killed"} /\ attempt < Attempts
    /\ attempt' = attempt + 1
    /\ layer' = 1 /\ phase' = "opaque" /\ todo' = image[1].opaque
    /\ status' = "extracting"
    /\ UNCHANGED <<image, rootfs>>

Next ==
    \/ \E p \in Paths : ClearOpaque(p) \/ Whiteout(p) \/ Merge(p)
    \/ NextPhase \/ Kill \/ Retry

Spec == Init /\ [][Next]_vars

----------------------------------------------------------------------------
(* What the layers mean: the layer section of the OCI image specification. *)

\* What a layer leaves of the ones below it: not what it has a whiteout for, not what
\* is in a directory it makes opaque, not what is below a path it makes a file or link.
Kept(lower, l, p) ==
    IF \/ \E q \in l.gone : IsPrefix(q, p)
       \/ \E q \in l.opaque : IsStrictPrefix(q, p)
       \/ \E q \in Paths : IsStrictPrefix(q, p) /\ l.has[q] \in {"file", "link"}
    THEN Nothing ELSE lower[p]

\* Its own entries then cover what is left.
Overlay(lower, l, i) ==
    [p \in Places |->
        IF p \notin Entries(l) THEN Kept(lower, l, p)
        ELSE IF l.has[p] = "dir" THEN Dir ELSE [kind |-> l.has[p], from |-> i]]

Stack(layers) ==
    LET upto[n \in 0..Len(layers)] ==
            IF n = 0 THEN [p \in Places |-> Nothing]
            ELSE Overlay(upto[n - 1], layers[n], n)
    IN  upto
UpTo(n) == Stack(image)[n]

\* An image that changes the type of a path removes it first, and its markers are for
\* directories of the layers below and what is in them.
Plain ==
    \A i \in DOMAIN image :
        LET lower == UpTo(i - 1)
            l == image[i]
            kept(p) == Kept(lower, l, p).kind
        IN  /\ \A p \in Paths : kept(p) = "dir" => l.has[p] \in {"no", "dir"}
            /\ \A p \in Paths : kept(p) = "file" => l.has[p] # "dir"
            /\ \A p \in l.opaque : lower[p].kind = "dir"
            /\ \A p \in l.gone : lower[p].kind # "no"

\* No path is a directory in one layer and something else in another.
KeepsDirectories ==
    \A p \in Paths, i, j \in DOMAIN image :
        image[i].has[p] = "dir" => image[j].has[p] \in {"no", "dir"}

----------------------------------------------------------------------------
(* Properties *)

\* An extraction that completes has made what the layers mean, also when it started over
\* what a killed or a failed one had left: nothing of the earlier attempt survives.
ExtractionIsOverlay == status = "done" /\ Plain => rootfs = UpTo(Len(image))

\* The first extraction of a plain image never raises.
FirstAttemptSucceeds == status = "failed" /\ attempt = 1 => ~Plain

\* Nor does one over leftovers, as long as no path turns from a directory into something
\* else or back; an image where one does may be stuck after a kill, since mkdir raises
\* over the leftover file, unlink over the leftover directory.
RetrySucceeds == status = "failed" => ~(Plain /\ KeepsDirectories)

=============================================================================
