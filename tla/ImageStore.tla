----------------------------- MODULE ImageStore -----------------------------
(***************************************************************************)
(* How concurrent `jailrun run` and `jailrun pull` processes fill and use  *)
(* what the store shares between runs: the OCI layouts skopeo writes       *)
(* (store.py, resolve), the unpacked images (unpack), the bakery's native  *)
(* bases (register_base) and the manifest cached per image (engine.py,     *)
(* _load_manifest).  resolve and unpack work under a flock, of the image   *)
(* reference and of the image id; register_base and _load_manifest under   *)
(* none.  A process can die, and any call of it can fail, at any step.     *)
(***************************************************************************)
CONSTANTS
    Procs,     \* processes; each executes one command
    Asks,      \* what they may ask for: see Ask
    Refs,      \* image references; the id of an image is one as well
    Ids,       \* image ids
    Registry,  \* the references the registry knows
    IdOf,      \* the id of the layers behind a reference
    Bases,     \* native bases, named by the hash of the plan that makes them
    BaseOf,    \* the base the bakery plans for an image, or NoBase
    NoBase,
    Nobody,    \* the holder of a free lock
    Backends,  \* the backends a host may have: "zfs", "plaindir"
    MayFail    \* whether processes die and their calls fail

\* `jailrun run ref`, or `jailrun pull ref`.
Ask == [ref : Refs, pull : BOOLEAN]

ASSUME ImagesAssumption ==
    /\ Asks \subseteq [Procs -> Ask]
    /\ Registry \subseteq Refs
    /\ IdOf \in [Refs -> Ids]
    /\ BaseOf \in [Ids -> Bases \cup {NoBase}]
    /\ NoBase \notin Bases
    /\ (Bases \cup {NoBase}) \cap {"absent", "torn"} = {}
    /\ Nobody \notin Procs
    /\ Backends \subseteq {"zfs", "plaindir"}
    /\ MayFail \in BOOLEAN

VARIABLES
    backend,      \* of this host
    pc,           \* where each process is, see PC
    ask,          \* the command of each process
    id,           \* image_id, once resolve returned it
    manifest,     \* the base its manifest names
    rootfs,       \* what its clone holds
    layout,       \* the OCI layout of each reference
    refLock,      \* the holder of the flock of each reference
    idLock,       \* the holder of the flock of each image id
    tree,         \* what the dataset or directory of each image holds
    snap,         \* what its @snap or its sentinel stands for
    readonly,     \* the datasets that are readonly=on
    writers,      \* the processes whose provision_cmd writes in a base
    provisioned,  \* the bases a provision_cmd has completed in
    registered,   \* the bases that have their @snap or sentinel
    cache         \* the file MANIFEST_CACHE_DIR/<image_id>.json

rigid == <<ask, backend>>
procVars == <<rigid, id, manifest, rootfs>>
imageVars == <<layout, refLock, idLock, tree, snap>>
baseVars == <<writers, provisioned, registered>>
vars == <<pc, procVars, imageVars, readonly, baseVars, cache>>

PC == {"new", "resolve", "copy", "index", "identify", "unpack", "locked", "extract",
       "publish", "freeze", "clone", "load", "bake", "provision", "register",
       "freeze-base", "open", "write", "running", "over"}

AfterClone == {"load", "bake", "provision", "register", "freeze-base", "open", "write",
               "running", "over"}

Layout == {"absent", "blobs", "torn", "complete"}  \* "torn": an index.json one cannot use
Tree == {"absent", "partial", "whole"}
Planned == Bases \cup {NoBase}
\* A cached manifest, for the base it names; "torn" is no JSON.
Cached == Planned \cup {"absent", "torn"}

TypeOK ==
    /\ backend \in Backends
    /\ pc \in [Procs -> PC]
    /\ ask \in [Procs -> Ask]
    /\ id \in [Procs -> Ids]
    /\ manifest \in [Procs -> Planned]
    /\ rootfs \in [Procs -> Tree]
    /\ layout \in [Refs -> Layout]
    /\ refLock \in [Refs -> Procs \cup {Nobody}]
    /\ idLock \in [Ids -> Procs \cup {Nobody}]
    /\ tree \in [Ids -> Tree]
    /\ snap \in [Ids -> Tree]
    /\ readonly \subseteq Ids \cup Bases
    /\ writers \in [Bases -> SUBSET Procs]
    /\ provisioned \subseteq Bases
    /\ registered \subseteq Bases
    /\ cache \in [Ids -> Cached]

Init ==
    /\ backend \in Backends
    /\ pc = [p \in Procs |-> "new"]
    /\ ask \in Asks
    /\ id = [p \in Procs |-> IdOf[ask[p].ref]]
    /\ manifest = [p \in Procs |-> NoBase]
    /\ rootfs = [p \in Procs |-> "absent"]
    /\ layout = [r \in Refs |-> "absent"]
    /\ refLock = [r \in Refs |-> Nobody]
    /\ idLock = [i \in Ids |-> Nobody]
    /\ tree = [i \in Ids |-> "absent"]
    /\ snap = [i \in Ids |-> "absent"]
    /\ readonly = {}
    /\ writers = [b \in Bases |-> {}]
    /\ provisioned = {}
    /\ registered = {}
    /\ cache = [i \in Ids |-> "absent"]

At(p, l) == pc[p] = l
Goto(p, l) == pc' = [pc EXCEPT ![p] = l]
Ref(p) == ask[p].ref

\* Mutants: a dataset is taken for an image, finished or not; a lock file that is not
\* checked; one that stays when its process dies; the reference taken for its id.
ExistsAtAll(i) == tree[i] # "absent"
AlwaysFree(lock, k) == TRUE
LockFileStays(lock, p) == lock
RefAsId(p) == Ref(p)

Published(i) == snap[i] # "absent"

\* _image_lock: who asks for a flock waits until nobody holds it.  `with` releases it,
\* and so does the kernel when the process dies.
Free(lock, k) == lock[k] = Nobody
Released(lock, p) == [k \in DOMAIN lock |-> IF lock[k] = p THEN Nobody ELSE lock[k]]
ReleasedByDeath(lock, p) == Released(lock, p)

\* _compute_image_id: the id of the layers.
IdBehind(p) == IdOf[Ref(p)]

----------------------------------------------------------------------------
(* resolve *)

\* An image id that is in the store needs no registry, nor a lock.
Start(p) ==
    /\ At(p, "new")
    /\ IF Ref(p) \in Ids /\ Published(Ref(p))
       THEN /\ id' = [id EXCEPT ![p] = Ref(p)]
            /\ Goto(p, "unpack")
       ELSE /\ Goto(p, "resolve")
            /\ UNCHANGED id
    /\ UNCHANGED <<rigid, manifest, rootfs, imageVars, readonly, baseVars, cache>>

\* Under the lock an index.json means a cache hit, whoever wrote it.
LockRef(p) ==
    LET r == Ref(p) IN
    /\ At(p, "resolve")
    /\ Free(refLock, r)
    /\ refLock' = [refLock EXCEPT ![r] = p]
    /\ IF layout[r] \in {"torn", "complete"}
       THEN Goto(p, "identify") /\ UNCHANGED layout
       ELSE Goto(p, "copy") /\ layout' = [layout EXCEPT ![r] = "blobs"]
    /\ UNCHANGED <<procVars, idLock, tree, snap, readonly, baseVars, cache>>

\* skopeo copy fails on a reference the registry does not know; it writes the blobs,
\* then the index.
CopyBlobs(p) ==
    /\ At(p, "copy")
    /\ IF Ref(p) \in Registry
       THEN /\ Goto(p, "index")
            /\ layout' = [layout EXCEPT ![Ref(p)] = "torn"]
            /\ UNCHANGED refLock
       ELSE /\ Goto(p, "over")
            /\ refLock' = Released(refLock, p)
            /\ UNCHANGED layout
    /\ UNCHANGED <<procVars, idLock, tree, snap, readonly, baseVars, cache>>

CopyIndex(p) ==
    /\ At(p, "index")
    /\ Goto(p, "identify")
    /\ layout' = [layout EXCEPT ![Ref(p)] = "complete"]
    /\ UNCHANGED <<procVars, refLock, idLock, tree, snap, readonly, baseVars, cache>>

\* _compute_image_id raises on a layout it cannot read.
Identify(p) ==
    /\ At(p, "identify")
    /\ refLock' = Released(refLock, p)
    /\ IF layout[Ref(p)] = "complete"
       THEN /\ id' = [id EXCEPT ![p] = IdBehind(p)]
            /\ Goto(p, "unpack")
       ELSE /\ Goto(p, "over")
            /\ UNCHANGED id
    /\ UNCHANGED <<rigid, manifest, rootfs, layout, idLock, tree, snap, readonly,
                   baseVars, cache>>

----------------------------------------------------------------------------
(* unpack *)

\* What a command does with the image once it is there.
Use(p) == Goto(p, IF ask[p].pull THEN "over" ELSE "clone")

\* Some layout of the cache has this id; what cannot be read is passed over.
OciFound(i) == \E r \in Refs : layout[r] = "complete" /\ IdOf[r] = i

\* The fast path takes no lock; the slow one looks for any layout of this id.
Unpack(p) ==
    /\ At(p, "unpack")
    /\ IF Published(id[p]) THEN Use(p)
       ELSE Goto(p, IF OciFound(id[p]) THEN "locked" ELSE "over")
    /\ UNCHANGED <<procVars, imageVars, readonly, baseVars, cache>>

\* Mutant: what was checked before the lock is relied on under it.
Unchecked(i) == FALSE

\* The check made again under the lock.
MadeMeanwhile(i) == Published(i)

\* The loser of the race finds, under the lock, what the winner made.  `zfs create -p`
\* and mkdir(exist_ok) take over what a dead process left.
LockImage(p) ==
    LET i == id[p] IN
    /\ At(p, "locked")
    /\ Free(idLock, i)
    /\ IF MadeMeanwhile(i)
       THEN Use(p) /\ UNCHANGED <<idLock, tree>>
       ELSE /\ Goto(p, "extract")
            /\ idLock' = [idLock EXCEPT ![i] = p]
            /\ tree' = [tree EXCEPT ![i] = "partial"]
    /\ UNCHANGED <<procVars, refLock, layout, snap, readonly, baseVars, cache>>

Extract(p) ==
    /\ At(p, "extract")
    /\ Goto(p, "publish")
    /\ tree' = [tree EXCEPT ![id[p]] = "whole"]
    /\ UNCHANGED <<procVars, refLock, idLock, layout, snap, readonly, baseVars, cache>>

\* `zfs snapshot`, or the sentinel: from now on nobody extracts this image again.
Publish(p) ==
    LET i == id[p] IN
    /\ At(p, "publish")
    /\ snap' = [snap EXCEPT ![i] = tree[i]]
    /\ IF backend = "zfs"
       THEN Goto(p, "freeze") /\ UNCHANGED idLock
       ELSE Use(p) /\ idLock' = Released(idLock, p)
    /\ UNCHANGED <<procVars, refLock, layout, tree, readonly, baseVars, cache>>

\* `zfs set readonly=on`
Freeze(p) ==
    /\ At(p, "freeze")
    /\ Use(p)
    /\ readonly' = readonly \cup {id[p]}
    /\ idLock' = Released(idLock, p)
    /\ UNCHANGED <<procVars, refLock, layout, tree, snap, baseVars, cache>>

----------------------------------------------------------------------------
(* clone, and the manifest *)

\* A clone is of the snapshot, a `cp -a` of the directory as it is now.
Clone(p) ==
    /\ At(p, "clone")
    /\ rootfs' = [rootfs EXCEPT ![p] = IF backend = "zfs" THEN snap[id[p]] ELSE tree[id[p]]]
    /\ Goto(p, "load")
    /\ UNCHANGED <<rigid, id, manifest, imageVars, readonly, baseVars, cache>>

\* json.load raises on a file that is being written, or whose writer died.
LoadManifest(p) ==
    LET m == cache[id[p]] IN
    /\ At(p, "load")
    /\ IF m \in Planned
       THEN manifest' = [manifest EXCEPT ![p] = m] /\ Goto(p, "running")
       ELSE Goto(p, IF m = "absent" THEN "bake" ELSE "over") /\ UNCHANGED manifest
    /\ UNCHANGED <<rigid, id, rootfs, imageVars, readonly, baseVars, cache>>

----------------------------------------------------------------------------
(* bake and register_base *)

\* The base of p's image, and p holding a manifest that names base m.
Base(p) == BaseOf[id[p]]
Holds(p, m) == manifest' = [manifest EXCEPT ![p] = m] /\ Goto(p, "open")

\* Mutant: the failure is logged and the planned base named all the same.
PlannedBase(p) == Base(p)

\* The base of a manifest when register_base raised.
BaseAfterFailure(p) == NoBase

\* The existence check, under no lock, then `zfs create -p` and the start of
\* provision_cmd.
Bake(p) ==
    LET b == Base(p) IN
    /\ At(p, "bake")
    /\ \/ /\ b = NoBase \/ b \in registered
          /\ Holds(p, b)
          /\ UNCHANGED writers
       \/ /\ b \in Bases \ registered
          /\ Goto(p, "provision")
          /\ writers' = [writers EXCEPT ![b] = @ \cup {p}]
          /\ UNCHANGED manifest
    /\ UNCHANGED <<rigid, id, rootfs, imageVars, readonly, provisioned, registered,
                   cache>>

Provision(p) ==
    LET b == Base(p) IN
    /\ At(p, "provision")
    /\ Goto(p, "register")
    /\ writers' = [writers EXCEPT ![b] = @ \ {p}]
    /\ provisioned' = provisioned \cup {b}
    /\ UNCHANGED <<procVars, imageVars, readonly, registered, cache>>

\* `zfs snapshot` fails when the snapshot is there; the sentinel is written again.
Register(p) ==
    LET b == Base(p) IN
    /\ At(p, "register")
    /\ IF backend = "zfs"
       THEN IF b \in registered THEN Holds(p, BaseAfterFailure(p))
            ELSE Goto(p, "freeze-base") /\ UNCHANGED manifest
       ELSE Holds(p, b)
    /\ registered' = registered \cup {b}
    /\ UNCHANGED <<rigid, id, rootfs, imageVars, readonly, writers, provisioned, cache>>

FreezeBase(p) ==
    /\ At(p, "freeze-base")
    /\ Holds(p, Base(p))
    /\ readonly' = readonly \cup {Base(p)}
    /\ UNCHANGED <<rigid, id, rootfs, imageVars, baseVars, cache>>

\* bake catches what register_base raises and goes on with a manifest without a base.
\* A timeout kills sh, not what sh started; in a dataset frozen by another process
\* provision_cmd cannot write.
BakeFails(p) ==
    /\ pc[p] \in {"provision", "register", "freeze-base"}
    /\ MayFail \/ (At(p, "provision") /\ Base(p) \in readonly)
    /\ Holds(p, BaseAfterFailure(p))
    /\ \/ UNCHANGED writers
       \/ writers' = [writers EXCEPT ![Base(p)] = @ \ {p}]
    /\ UNCHANGED <<rigid, id, rootfs, imageVars, readonly, provisioned, registered,
                   cache>>

\* What outlived its provision_cmd ends.
OrphanEnds(p) ==
    /\ ~At(p, "provision")
    /\ \E b \in Bases : /\ p \in writers[b]
                        /\ writers' = [writers EXCEPT ![b] = @ \ {p}]
    /\ UNCHANGED <<pc, procVars, imageVars, readonly, provisioned, registered, cache>>

----------------------------------------------------------------------------
(* The manifest cache *)

\* open("w") truncates.
OpenCache(p) ==
    /\ At(p, "open")
    /\ Goto(p, "write")
    /\ cache' = [cache EXCEPT ![id[p]] = "torn"]
    /\ UNCHANGED <<procVars, imageVars, readonly, baseVars>>

\* Written over what another writer left meanwhile, a shorter text keeps its tail.
WriteCache(p) ==
    LET i == id[p] IN
    /\ At(p, "write")
    /\ Goto(p, "running")
    /\ cache' \in {[cache EXCEPT ![i] = m] :
                     m \in IF cache[i] \in {"torn", manifest[p]} THEN {manifest[p]}
                           ELSE {manifest[p], "torn"}}
    /\ UNCHANGED <<procVars, imageVars, readonly, baseVars>>

----------------------------------------------------------------------------
(* Processes *)

\* The run goes on as in JailRun, with the base its manifest names bound into it.
End(p) ==
    /\ At(p, "running")
    /\ Goto(p, "over")
    /\ UNCHANGED <<procVars, imageVars, readonly, baseVars, cache>>

\* A call fails or times out, or the process dies: `with` or the kernel releases its
\* flocks, what it was making stays as it is, and so may what it had started.
Abandon(p) ==
    /\ MayFail
    /\ pc[p] \notin {"new", "running", "over"}
    /\ Goto(p, "over")
    /\ refLock' = ReleasedByDeath(refLock, p)
    /\ idLock' = ReleasedByDeath(idLock, p)
    /\ \/ UNCHANGED writers
       \/ writers' = [b \in Bases |-> writers[b] \ {p}]
    /\ UNCHANGED <<procVars, layout, tree, snap, readonly, provisioned, registered, cache>>

ResolveStep(p) == LockRef(p) \/ CopyBlobs(p) \/ CopyIndex(p) \/ Identify(p)
UnpackStep(p) == Unpack(p) \/ LockImage(p) \/ Extract(p) \/ Publish(p) \/ Freeze(p)
BakeStep(p) == Bake(p) \/ Provision(p) \/ Register(p) \/ FreezeBase(p) \/ BakeFails(p)
RunStep(p) == Clone(p) \/ LoadManifest(p) \/ OpenCache(p) \/ WriteCache(p) \/ End(p)

Step(p) == ResolveStep(p) \/ UnpackStep(p) \/ BakeStep(p) \/ RunStep(p)

Next == \E p \in Procs : Start(p) \/ Step(p) \/ Abandon(p) \/ OrphanEnds(p)

Spec == Init /\ [][Next]_vars

\* Every call of a command has a timeout, and who waits for a flock gets it when it stays
\* free: commands are finitely many.  Nobody has to issue one, and nobody has to die.
FairSpec == Spec /\ \A p \in Procs : WF_vars(Step(p))

----------------------------------------------------------------------------
(* Properties *)

\* No snapshot, and no clone of one, is of a half extracted image, whoever else was
\* extracting it and whatever a dead process left in its dataset (unpack, clone).
ImagesAreWhole ==
    /\ \A i \in Ids : snap[i] # "partial"
    /\ \A p \in Procs : rootfs[p] # "partial"

\* Once published, an image is not written again: two processes may both have found
\* it missing before one of them took the lock.
PublishedStays == [][\A i \in Ids : Published(i) => tree'[i] = tree[i] /\ snap'[i] = snap[i]]_vars

\* A base that a manifest names, in the cache or in the hands of a run, was registered
\* after a provision_cmd had run to its end in it (bake, register_base).
NamedBaseIsRegistered ==
    LET named == {cache[i] : i \in Ids} \cup {manifest[p] : p \in Procs}
    IN named \cap Bases \subseteq registered \cap provisioned

\* Why an image is whole: who makes one holds its flock from before the extraction to
\* after the snapshot, and found no snapshot under that flock.
ImageInv ==
    /\ \A p \in Procs :
         /\ pc[p] \in {"extract", "publish", "freeze"} => idLock[id[p]] = p
         /\ pc[p] \in {"extract", "publish"} => snap[id[p]] = "absent"
         /\ At(p, "publish") => tree[id[p]] = "whole"
         /\ pc[p] \in {"freeze", "clone"} => snap[id[p]] = "whole"
         /\ rootfs[p] # "absent" => pc[p] \in AfterClone
    /\ \A i \in Ids : Published(i) => snap[i] = "whole" /\ tree[i] = "whole"

\* Why a named base is registered: register_base returns its name last, and nothing
\* takes a base or a manifest away.
BaseInv ==
    /\ \A p \in Procs :
         /\ pc[p] \in {"provision", "register", "freeze-base"} => Base(p) \in Bases
         /\ pc[p] \in {"register", "freeze-base"} => Base(p) \in provisioned
         /\ At(p, "freeze-base") => Base(p) \in registered
    /\ registered \subseteq provisioned

\* The inductive invariant of the proofs.
StoreInv == ImagesAreWhole /\ ImageInv /\ NamedBaseIsRegistered /\ BaseInv

\* Whoever fails, dies or waits, every command comes to its end: no flock stays with a
\* process that does not release it.
CommandsEnd == \A p \in Procs : ~At(p, "new") ~> At(p, "over")

\* The store keeps its contract.
Contract == INSTANCE ImageContract WITH
    published <- {i \in Ids : snap[i] = "whole"},
    given <- [p \in Procs |-> IF rootfs[p] = "absent" THEN {} ELSE {id[p]}]
KeepsImageContract == Contract!Spec

=============================================================================
