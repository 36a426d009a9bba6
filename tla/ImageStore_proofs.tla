------------------------- MODULE ImageStore_proofs -------------------------
(***************************************************************************)
(* Theorems of ImageStore: published images are whole, stay as they are    *)
(* and are the only ones rootfs are made of (ImageContract), whoever dies; *)
(* and no manifest names a base that is not there.                         *)
(***************************************************************************)
EXTENDS ImageStore, TLAPS

USE DEF At, Goto, Ref

LEMMA TypeInit == Init => TypeOK
BY ImagesAssumption DEF Init, TypeOK, Ask, PC, Layout, Tree, Planned, Cached

\* Releasing keeps a lock table one.
LEMMA ReleasedType ==
    ASSUME NEW K, NEW lock \in [K -> Procs \cup {Nobody}], NEW p
    PROVE  Released(lock, p) \in [K -> Procs \cup {Nobody}]
BY DEF Released

LEMMA TypeStep == TypeOK /\ BaseInv /\ [Next]_vars => TypeOK'
<1> SUFFICES ASSUME TypeOK, BaseInv, [Next]_vars PROVE TypeOK'
    OBVIOUS
<1> USE DEF TypeOK, procVars, rigid, imageVars, baseVars
<1>1. CASE UNCHANGED vars
    BY <1>1 DEF vars
<1>2. CASE Next
    <2> PICK p \in Procs : Start(p) \/ Step(p) \/ Abandon(p) \/ OrphanEnds(p)
        BY <1>2 DEF Next
    <2>1. CASE Start(p)
        BY <2>1 DEF Start, PC
    <2>2. CASE LockRef(p)
        <3>1. layout' \in [Refs -> Layout] /\ pc' \in [Procs -> PC]
            BY <2>2 DEF LockRef, At, Goto, PC, Layout
        <3>2. refLock' \in [Refs -> Procs \cup {Nobody}]
            BY <2>2 DEF LockRef
        <3>. QED
            BY <2>2, <3>1, <3>2 DEF LockRef, PC
    <2>3. CASE CopyBlobs(p)
        BY <2>3, ReleasedType DEF CopyBlobs, PC, Layout
    <2>4. CASE CopyIndex(p)
        BY <2>4 DEF CopyIndex, PC, Layout
    <2>5. CASE Identify(p)
        <3>1. IdBehind(p) \in Ids
            BY ImagesAssumption DEF IdBehind, Ask
        <3>2. refLock' \in [Refs -> Procs \cup {Nobody}]
            BY <2>5, ReleasedType DEF Identify
        <3>. QED
            BY <2>5, <3>1, <3>2 DEF Identify, PC
    <2>6. CASE Unpack(p)
        BY <2>6 DEF Unpack, Use, PC
    <2>7. CASE LockImage(p)
        BY <2>7 DEF LockImage, Use, PC, Tree
    <2>8. CASE Extract(p)
        BY <2>8 DEF Extract, PC, Tree
    <2>9. CASE Publish(p)
        BY <2>9, ReleasedType DEF Publish, Use, PC
    <2>10. CASE Freeze(p)
        BY <2>10, ReleasedType DEF Freeze, Use, PC
    <2>11. CASE Clone(p)
        BY <2>11 DEF Clone, PC
    <2>12. CASE LoadManifest(p)
        BY <2>12 DEF LoadManifest, PC
    <2>13. CASE Bake(p)
        BY <2>13, ImagesAssumption DEF Bake, Holds, Base, PC, Planned
    <2>14. CASE Provision(p)
        BY <2>14 DEF Provision, BaseInv, PC
    <2>15. CASE Register(p)
        BY <2>15 DEF Register, Holds, BaseAfterFailure, BaseInv, PC, Planned
    <2>16. CASE FreezeBase(p)
        BY <2>16 DEF FreezeBase, Holds, BaseInv, PC, Planned
    <2>17. CASE BakeFails(p)
        BY <2>17 DEF BakeFails, Holds, Base, BaseAfterFailure, PC, Planned
    <2>18. CASE OpenCache(p)
        BY <2>18 DEF OpenCache, PC, Cached
    <2>19. CASE WriteCache(p)
        BY <2>19 DEF WriteCache, PC, Cached
    <2>20. CASE End(p)
        BY <2>20 DEF End, PC
    <2>21. CASE Abandon(p)
        BY <2>21, ReleasedType DEF Abandon, ReleasedByDeath, PC
    <2>22. CASE OrphanEnds(p)
        BY <2>22 DEF OrphanEnds
    <2>. QED
        BY <2>1, <2>2, <2>3, <2>4, <2>5, <2>6, <2>7, <2>8, <2>9, <2>10, <2>11, <2>12,
           <2>13, <2>14, <2>15, <2>16, <2>17, <2>18, <2>19, <2>20, <2>21, <2>22
           DEF Step, ResolveStep, UnpackStep, BakeStep, RunStep
<1>. QED
    BY <1>1, <1>2

----------------------------------------------------------------------------
(* Images. *)

\* A step by which p takes no part in making an image.
LEMMA ImageQuiet ==
    ASSUME TypeOK, ImageInv, ImagesAreWhole, NEW p \in Procs, NEW l, Goto(p, l),
           UNCHANGED <<snap, tree, idLock, rootfs>>,
           \A q \in Procs \ {p} : id'[q] = id[q],
           l \notin {"extract", "publish", "freeze", "clone"},
           l \in AfterClone \/ rootfs[p] = "absent"
    PROVE  ImageInv' /\ ImagesAreWhole'
BY DEF TypeOK, ImageInv, ImagesAreWhole, Published

LEMMA ImageStep == TypeOK /\ ImageInv /\ ImagesAreWhole /\ [Next]_vars
                     => ImageInv' /\ ImagesAreWhole'
<1> SUFFICES ASSUME TypeOK, ImageInv, ImagesAreWhole, [Next]_vars
             PROVE  ImageInv' /\ ImagesAreWhole'
    OBVIOUS
<1> USE DEF procVars, rigid, imageVars, baseVars
<1>1. CASE UNCHANGED vars
    BY <1>1 DEF vars, ImageInv, ImagesAreWhole, Published
<1>2. CASE Next
    <2> PICK p \in Procs : Start(p) \/ Step(p) \/ Abandon(p) \/ OrphanEnds(p)
        BY <1>2 DEF Next
    <2>1. CASE Start(p) \/ ResolveStep(p)
        <3>1. rootfs[p] = "absent"
            BY <2>1 DEF Start, ResolveStep, LockRef, CopyBlobs, CopyIndex, Identify,
                        ImageInv, AfterClone
        <3>2. /\ UNCHANGED <<snap, tree, idLock, rootfs>>
              /\ \A q \in Procs \ {p} : id'[q] = id[q]
            BY <2>1 DEF Start, ResolveStep, LockRef, CopyBlobs, CopyIndex, Identify, TypeOK
        <3>3. PICK l \in {"resolve", "identify", "copy", "index", "unpack", "over"} : Goto(p, l)
            BY <2>1 DEF Start, ResolveStep, LockRef, CopyBlobs, CopyIndex, Identify
        <3>. QED
            BY <3>1, <3>2, <3>3, ImageQuiet
    <2>2. CASE Unpack(p)
        BY <2>2 DEF Unpack, Use, TypeOK, ImageInv, ImagesAreWhole, Published, AfterClone
    <2>3. CASE LockImage(p)
        <3>1. CASE Published(id[p])
            BY <2>3, <3>1 DEF LockImage, Use, MadeMeanwhile, TypeOK, ImageInv,
                              ImagesAreWhole, Published, AfterClone
        <3>2. CASE ~Published(id[p])
            <4>1. \A q \in Procs : pc[q] \in {"extract", "publish", "freeze"} => id[q] # id[p]
                BY <2>3, ImagesAssumption DEF LockImage, Free, ImageInv
            <4>2. /\ pc' = [pc EXCEPT ![p] = "extract"]
                  /\ idLock' = [idLock EXCEPT ![id[p]] = p]
                  /\ tree' = [tree EXCEPT ![id[p]] = "partial"]
                  /\ UNCHANGED <<snap, id, rootfs>>
                  /\ At(p, "locked")
                BY <2>3, <3>2 DEF LockImage, MadeMeanwhile
            <4>. QED
                BY <3>2, <4>1, <4>2 DEF TypeOK, ImageInv, ImagesAreWhole, Published, AfterClone
        <3>. QED
            BY <3>1, <3>2
    <2>4. CASE Extract(p)
        BY <2>4 DEF Extract, TypeOK, ImageInv, ImagesAreWhole, Published, AfterClone
    <2>5. CASE Publish(p)
        BY <2>5 DEF Publish, Use, Released, TypeOK, ImageInv, ImagesAreWhole, Published,
                    AfterClone
    <2>6. CASE Freeze(p)
        BY <2>6 DEF Freeze, Use, Released, TypeOK, ImageInv, ImagesAreWhole, Published,
                    AfterClone
    <2>7. CASE Clone(p)
        BY <2>7 DEF Clone, TypeOK, ImageInv, ImagesAreWhole, Published, AfterClone
    <2>8. CASE BakeStep(p) \/ LoadManifest(p) \/ OpenCache(p) \/ WriteCache(p) \/ End(p)
        <3>1. UNCHANGED <<snap, tree, idLock, rootfs, id>>
            BY <2>8 DEF BakeStep, Bake, Provision, Register, FreezeBase, BakeFails,
                        LoadManifest, OpenCache, WriteCache, End
        <3>2. PICK l \in AfterClone : Goto(p, l)
            BY <2>8 DEF BakeStep, Bake, Provision, Register, FreezeBase, BakeFails, Holds,
                        LoadManifest, OpenCache, WriteCache, End, AfterClone
        <3>3. l \notin {"extract", "publish", "freeze", "clone"}
            BY <3>2 DEF AfterClone
        <3>. QED
            BY <3>1, <3>2, <3>3, ImageQuiet
    <2>9. CASE Abandon(p)
        BY <2>9 DEF Abandon, ReleasedByDeath, Released, TypeOK, ImageInv, ImagesAreWhole,
                    Published, AfterClone
    <2>10. CASE OrphanEnds(p)
        BY <2>10 DEF OrphanEnds, ImageInv, ImagesAreWhole, Published
    <2>. QED
        BY <2>1, <2>2, <2>3, <2>4, <2>5, <2>6, <2>7, <2>8, <2>9, <2>10
           DEF Step, UnpackStep, RunStep
<1>. QED
    BY <1>1, <1>2

----------------------------------------------------------------------------
(* Bases. *)

\* A step that takes no base and no manifest away, and after which p, if it makes a base,
\* is entitled to be where it is.
LEMMA BaseQuiet ==
    ASSUME TypeOK, BaseInv, NEW p \in Procs, NEW l, Goto(p, l),
           registered \subseteq registered', provisioned \subseteq provisioned',
           registered' \subseteq provisioned',
           \A q \in Procs \ {p} : id'[q] = id[q],
           l \in {"provision", "register", "freeze-base"} => Base(p)' \in Bases,
           l \in {"register", "freeze-base"} => Base(p)' \in provisioned',
           l = "freeze-base" => Base(p)' \in registered'
    PROVE  BaseInv'
BY DEF TypeOK, BaseInv, Base

LEMMA BaseStepInv == TypeOK /\ BaseInv /\ [Next]_vars => BaseInv'
<1> SUFFICES ASSUME TypeOK, BaseInv, [Next]_vars PROVE BaseInv'
    OBVIOUS
<1> USE DEF procVars, rigid, imageVars, baseVars
<1>1. CASE UNCHANGED vars
    BY <1>1 DEF vars, BaseInv, Base
<1>2. CASE Next
    <2> PICK p \in Procs : Start(p) \/ Step(p) \/ Abandon(p) \/ OrphanEnds(p)
        BY <1>2 DEF Next
    <2> DEFINE baking == {"provision", "register", "freeze-base"}
    <2>1. CASE Start(p) \/ ResolveStep(p) \/ UnpackStep(p) \/ RunStep(p) \/ Abandon(p)
        <3>1. UNCHANGED <<provisioned, registered>> /\ \A q \in Procs \ {p} : id'[q] = id[q]
            BY <2>1 DEF Start, ResolveStep, LockRef, CopyBlobs, CopyIndex, Identify,
                        UnpackStep, Unpack, LockImage, Extract, Publish, Freeze,
                        RunStep, Clone, LoadManifest, OpenCache, WriteCache, End, Abandon,
                        TypeOK
        <3>2. PICK l \in PC \ baking : Goto(p, l)
            BY <2>1 DEF Start, ResolveStep, LockRef, CopyBlobs, CopyIndex, Identify,
                        UnpackStep, Unpack, LockImage, Extract, Publish, Freeze, Use,
                        RunStep, Clone, LoadManifest, OpenCache, WriteCache, End, Abandon, PC
        <3>. QED
            BY <3>1, <3>2, BaseQuiet DEF BaseInv
    <2>2. CASE Bake(p)
        BY <2>2 DEF Bake, Holds, Base, TypeOK, BaseInv
    <2>3. CASE Provision(p)
        BY <2>3 DEF Provision, Base, TypeOK, BaseInv
    <2>4. CASE Register(p)
        BY <2>4 DEF Register, Holds, Base, TypeOK, BaseInv
    <2>5. CASE FreezeBase(p) \/ BakeFails(p)
        BY <2>5 DEF FreezeBase, BakeFails, Holds, Base, TypeOK, BaseInv
    <2>6. CASE OrphanEnds(p)
        BY <2>6 DEF OrphanEnds, BaseInv, Base
    <2>. QED
        BY <2>1, <2>2, <2>3, <2>4, <2>5, <2>6 DEF Step, BakeStep
<1>. QED
    BY <1>1, <1>2

\* What is named, manifest by manifest.
LEMMA Named ==
    NamedBaseIsRegistered <=>
      /\ \A i \in Ids : cache[i] \in Bases => cache[i] \in registered \cap provisioned
      /\ \A p \in Procs : manifest[p] \in Bases => manifest[p] \in registered \cap provisioned
BY DEF NamedBaseIsRegistered

LEMMA NamedNext ==
    NamedBaseIsRegistered' <=>
      /\ \A i \in Ids : cache'[i] \in Bases => cache'[i] \in registered' \cap provisioned'
      /\ \A p \in Procs : manifest'[p] \in Bases
                            => manifest'[p] \in registered' \cap provisioned'
BY DEF NamedBaseIsRegistered

LEMMA NamedStep == TypeOK /\ BaseInv /\ NamedBaseIsRegistered /\ [Next]_vars
                     => NamedBaseIsRegistered'
<1> SUFFICES ASSUME TypeOK, BaseInv, NamedBaseIsRegistered, [Next]_vars
             PROVE  NamedBaseIsRegistered'
    OBVIOUS
<1> USE DEF procVars, rigid, imageVars, baseVars
<1> DEFINE Sound(b) == b \in Bases => b \in registered \cap provisioned
<1>1. /\ \A i \in Ids : Sound(cache[i])
      /\ \A p \in Procs : Sound(manifest[p])
    BY Named
<1>2. registered \subseteq registered' /\ provisioned \subseteq provisioned'
    BY DEF vars, Next, Step, Start, ResolveStep, LockRef, CopyBlobs, CopyIndex, Identify,
           UnpackStep, Unpack, LockImage, Extract, Publish, Freeze, BakeStep, Bake, Provision,
           Register, FreezeBase, BakeFails, RunStep, Clone, LoadManifest, OpenCache,
           WriteCache, End, Abandon, OrphanEnds
<1>3. CASE UNCHANGED <<cache, manifest>>
    BY <1>1, <1>2, <1>3, NamedNext
<1>4. ASSUME NEW p \in Procs, NEW b, b \in Bases => b \in registered' \cap provisioned',
             manifest' = [manifest EXCEPT ![p] = b], UNCHANGED cache
      PROVE  NamedBaseIsRegistered'
    BY <1>1, <1>2, <1>4, NamedNext DEF TypeOK
<1>5. ASSUME NEW i \in Ids, NEW b, Sound(b),
             cache' = [cache EXCEPT ![i] = b], UNCHANGED manifest
      PROVE  NamedBaseIsRegistered'
    BY <1>1, <1>2, <1>5, NamedNext DEF TypeOK
<1>6. CASE Next
    <2> PICK p \in Procs : Start(p) \/ Step(p) \/ Abandon(p) \/ OrphanEnds(p)
        BY <1>6 DEF Next
    <2>1. id[p] \in Ids
        BY DEF TypeOK
    <2>2. CASE LoadManifest(p)
        BY <1>1, <1>2, <1>3, <1>4, <2>1, <2>2 DEF LoadManifest
    <2>3. CASE Bake(p)
        <3>1. CASE UNCHANGED manifest
            BY <1>3, <2>3, <3>1 DEF Bake
        <3>2. CASE Holds(p, Base(p)) /\ Base(p) \in registered \cup {NoBase}
            BY <1>2, <1>4, <2>3, <3>2, ImagesAssumption DEF Bake, Holds, BaseInv
        <3>. QED
            BY <2>3, <3>1, <3>2 DEF Bake
    <2>4. CASE Register(p)
        BY <1>2, <1>3, <1>4, <2>4, ImagesAssumption
           DEF Register, Holds, BaseAfterFailure, BaseInv
    <2>5. CASE FreezeBase(p)
        BY <1>2, <1>4, <2>5 DEF FreezeBase, Holds, BaseInv
    <2>6. CASE BakeFails(p)
        BY <1>4, <2>6, ImagesAssumption DEF BakeFails, Holds, BaseAfterFailure
    <2>7. CASE OpenCache(p)
        BY <1>5, <2>1, <2>7, ImagesAssumption DEF OpenCache
    <2>8. CASE WriteCache(p)
        <3>1. PICK m \in {manifest[p], "torn"} : cache' = [cache EXCEPT ![id[p]] = m]
            BY <2>8 DEF WriteCache
        <3>2. Sound(m)
            BY <1>1, <3>1, ImagesAssumption
        <3>. QED
            BY <1>5, <2>1, <2>8, <3>1, <3>2 DEF WriteCache
    <2>9. CASE Start(p) \/ ResolveStep(p) \/ UnpackStep(p) \/ Clone(p) \/ Provision(p)
               \/ End(p) \/ Abandon(p) \/ OrphanEnds(p)
        BY <1>3, <2>9
           DEF Start, ResolveStep, LockRef, CopyBlobs, CopyIndex, Identify,
               UnpackStep, Unpack, LockImage, Extract, Publish, Freeze, Clone, Provision,
               End, Abandon, OrphanEnds
    <2>. QED
        BY <2>2, <2>3, <2>4, <2>5, <2>6, <2>7, <2>8, <2>9 DEF Step, BakeStep, RunStep
<1>. QED
    BY <1>3, <1>6 DEF vars

----------------------------------------------------------------------------
(* Theorems. *)

LEMMA StoreInit == Init => StoreInv
BY ImagesAssumption
   DEF Init, StoreInv, ImagesAreWhole, ImageInv, NamedBaseIsRegistered, BaseInv, Published

LEMMA Inductive == Spec => [](TypeOK /\ StoreInv)
<1>1. Init => TypeOK /\ StoreInv
    BY TypeInit, StoreInit
<1>2. TypeOK /\ StoreInv /\ [Next]_vars => TypeOK' /\ StoreInv'
    BY TypeStep, ImageStep, BaseStepInv, NamedStep DEF StoreInv
<1>. QED
    BY <1>1, <1>2, PTL DEF Spec

\* Every variable keeps its type.
THEOREM StoreTypes == Spec => []TypeOK
BY Inductive, PTL

\* No snapshot and no rootfs is of a half extracted image (unpack, clone).
THEOREM WholeImages == Spec => []ImagesAreWhole
BY Inductive, PTL DEF StoreInv

\* A manifest names no base that was not provisioned and registered (bake).
THEOREM NamedBases == Spec => []NamedBaseIsRegistered
BY Inductive, PTL DEF StoreInv

\* The invariant behind them.
THEOREM StoreBookkeeping == Spec => []StoreInv
BY Inductive, PTL

\* What a step does to the images and the clones: nothing, or it publishes one image
\* whole, or it clones one that is.
LEMMA ImageEffects ==
    ASSUME TypeOK, StoreInv, [Next]_vars
    PROVE  /\ \A i \in Ids : Published(i) => tree'[i] = tree[i] /\ snap'[i] = snap[i]
           /\ \/ /\ UNCHANGED <<snap, rootfs>>
                 /\ \A p \in Procs : rootfs[p] # "absent" => id'[p] = id[p]
              \/ \E i \in Ids : snap' = [snap EXCEPT ![i] = "whole"] /\ UNCHANGED <<rootfs, id>>
              \/ \E p \in Procs : /\ snap[id[p]] = "whole"
                                  /\ rootfs[p] = "absent"
                                  /\ rootfs' = [rootfs EXCEPT ![p] = "whole"]
                                  /\ UNCHANGED <<snap, id>>
<1> USE DEF procVars, rigid, imageVars, baseVars
<1>1. CASE UNCHANGED vars
    BY <1>1 DEF vars, Published
<1>2. CASE Next
    <2> PICK p \in Procs : Start(p) \/ Step(p) \/ Abandon(p) \/ OrphanEnds(p)
        BY <1>2 DEF Next
    <2>1. CASE Start(p) \/ ResolveStep(p)
        <3>1. rootfs[p] = "absent"
            BY <2>1 DEF Start, ResolveStep, LockRef, CopyBlobs, CopyIndex, Identify,
                        StoreInv, ImageInv, AfterClone
        <3>. QED
            BY <2>1, <3>1 DEF Start, ResolveStep, LockRef, CopyBlobs, CopyIndex, Identify,
                              TypeOK, Published
    <2>2. CASE LockImage(p)
        BY <2>2 DEF LockImage, MadeMeanwhile, TypeOK, Published
    <2>3. CASE Extract(p)
        BY <2>3 DEF Extract, TypeOK, StoreInv, ImageInv, Published
    <2>4. CASE Publish(p)
        BY <2>4 DEF Publish, TypeOK, StoreInv, ImageInv, Published
    <2>5. CASE Clone(p)
        <3>1. snap[id[p]] = "whole" /\ tree[id[p]] = "whole" /\ rootfs[p] = "absent"
            BY <2>5 DEF Clone, TypeOK, StoreInv, ImageInv, Published, AfterClone
        <3>2. rootfs' = [rootfs EXCEPT ![p] = "whole"] /\ UNCHANGED <<snap, tree, id>>
            BY <2>5, <3>1 DEF Clone
        <3>. QED
            BY <3>1, <3>2 DEF Published
    <2>6. CASE Unpack(p) \/ Freeze(p) \/ BakeStep(p) \/ LoadManifest(p) \/ OpenCache(p)
               \/ WriteCache(p) \/ End(p) \/ Abandon(p) \/ OrphanEnds(p)
        BY <2>6 DEF Unpack, Freeze, BakeStep, Bake, Provision, Register, FreezeBase,
                    BakeFails, LoadManifest, OpenCache, WriteCache, End, Abandon, OrphanEnds,
                    Published
    <2>. QED
        BY <2>1, <2>2, <2>3, <2>4, <2>5, <2>6 DEF Step, UnpackStep, RunStep
<1>. QED
    BY <1>1, <1>2

\* Nobody writes in a published image again (unpack).
THEOREM PublishedImagesStay == Spec => PublishedStays
<1>1. TypeOK /\ StoreInv /\ [Next]_vars
        => [\A i \in Ids : Published(i) => tree'[i] = tree[i] /\ snap'[i] = snap[i]]_vars
    BY ImageEffects
<1>. QED
    BY <1>1, Inductive, PTL DEF Spec, PublishedStays

\* The store implements its contract: images appear whole, stay, and are all that rootfs
\* are made of.
THEOREM StoreImplementsContract == Spec => KeepsImageContract
<1> DEFINE pub == {i \in Ids : snap[i] = "whole"}
           giv == [p \in Procs |-> IF rootfs[p] = "absent" THEN {} ELSE {id[p]}]
<1>1. Init => Contract!Init
    BY DEF Init, Contract!Init
<1>2. ASSUME TypeOK, StoreInv, [Next]_vars
      PROVE  [Contract!Next]_<<pub, giv>>
    <2>1. CASE UNCHANGED <<snap, rootfs>> /\ \A p \in Procs : rootfs[p] # "absent" => id'[p] = id[p]
        <3>1. UNCHANGED pub
            BY <2>1
        <3>2. UNCHANGED giv
            BY <2>1
        <3>. QED
            BY <3>1, <3>2
    <2>2. CASE \E i \in Ids : snap' = [snap EXCEPT ![i] = "whole"] /\ UNCHANGED <<rootfs, id>>
        <3>1. PICK i \in Ids : snap' = [snap EXCEPT ![i] = "whole"] /\ UNCHANGED <<rootfs, id>>
            BY <2>2
        <3>2. pub' = pub \cup {i}
            BY <1>2, <3>1 DEF TypeOK
        <3>3. UNCHANGED giv
            BY <3>1
        <3>. QED
            BY <3>2, <3>3 DEF Contract!Next, Contract!Publish
    <2>3. CASE \E p \in Procs : /\ snap[id[p]] = "whole"
                               /\ rootfs[p] = "absent"
                               /\ rootfs' = [rootfs EXCEPT ![p] = "whole"]
                               /\ UNCHANGED <<snap, id>>
        <3>1. PICK p \in Procs : /\ snap[id[p]] = "whole"
                                /\ rootfs[p] = "absent"
                                /\ rootfs' = [rootfs EXCEPT ![p] = "whole"]
                                /\ UNCHANGED <<snap, id>>
            BY <2>3
        <3>2. id[p] \in pub
            BY <1>2, <3>1 DEF TypeOK
        <3>3. giv' = [giv EXCEPT ![p] = giv[p] \cup {id[p]}]
            <4>1. \A q \in Procs : rootfs'[q] = IF q = p THEN "whole" ELSE rootfs[q]
                BY <1>2, <3>1 DEF TypeOK
            <4>2. giv[p] = {}
                BY <3>1
            <4>3. \A q \in Procs : giv'[q] = IF q = p THEN {id[p]} ELSE giv[q]
                BY <3>1, <4>1
            <4>. QED
                BY <4>2, <4>3
        <3>4. UNCHANGED pub
            BY <3>1
        <3>5. id[p] \in Ids
            BY <3>2
        <3>. QED
            BY <3>2, <3>3, <3>4, <3>5 DEF Contract!Next, Contract!Give
    <2>. QED
        BY <1>2, <2>1, <2>2, <2>3, ImageEffects
<1>. QED
    BY <1>1, <1>2, Inductive, PTL DEF Spec, KeepsImageContract, Contract!Spec

=============================================================================
