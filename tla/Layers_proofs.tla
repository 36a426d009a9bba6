---------------------------- MODULE Layers_proofs ----------------------------
(***************************************************************************)
(* Theorems about Layers, for every image, set of paths and number of      *)
(* attempts.  What the layers mean is a recursive function; that it has    *)
(* the equation it is written with, and what follows from it for every     *)
(* layer, is shown from the least-number principle, which the library has  *)
(* in a form the provers can use (WFMin).                                  *)
(***************************************************************************)
EXTENDS Layers, SequenceTheorems, WellFoundedInduction, TLAPS

----------------------------------------------------------------------------
(* The invariant. *)

Lower == UpTo(layer - 1)
Current == image[layer]

\* The markers of the current layer that have been treated.
OpaqueDone == IF phase = "opaque" THEN Current.opaque \ todo ELSE Current.opaque
GoneDone == CASE phase = "opaque" -> {}
              [] phase = "whiteout" -> Current.gone \ todo
              [] OTHER -> Current.gone
MergeDone == IF phase = "merge" THEN Entries(Current) \ todo ELSE {}

Struck(p) == \/ \E q \in GoneDone : IsPrefix(q, p)
             \/ \E q \in OpaqueDone : IsStrictPrefix(q, p)

\* What layer i puts at p.
EntryOf(i, p) == IF image[i].has[p] = "dir" THEN Dir ELSE [kind |-> image[i].has[p], from |-> i]

\* What the layers mean so far.
Exact(p) == IF p \in MergeDone THEN EntryOf(layer, p)
            ELSE IF Struck(p) THEN Nothing ELSE Lower[p]

\* Layer k has still to put its entry at p.
Remaining(k, p) == k > layer \/ (k = layer /\ (phase = "merge" => p \in todo))

Puts(k, p, kind) == k \in DOMAIN image /\ image[k].has[p] = kind

\* fs is a tree, with files only inside the directories of their names.
Tree(fs) == \A p \in Places : /\ fs[p].kind = "no" => fs[p] = Nothing
                              /\ fs[p].kind = "dir" => fs[p] = Dir
                              /\ p \notin Paths => fs[p].kind \in {"no", "file"}
                              /\ fs[p].kind # "no" /\ Len(p) > 1
                                    => Front(p) \in Places /\ fs[Front(p)].kind = "dir"

\* What a phase treats of a layer.
Treats(ph, l) == CASE ph = "opaque" -> l.opaque [] ph = "whiteout" -> l.gone [] OTHER -> Entries(l)

\* The root filesystem is a tree, and in the merge the directories put there are there.
TreeInv ==
    /\ image \in Images
    /\ Tree(rootfs)
    /\ todo \subseteq Treats(phase, Current)
    /\ status = "done" => phase = "merge" /\ todo = {} /\ layer = Len(image)
    /\ \A p \in MergeDone : Current.has[p] = "dir" => rootfs[p].kind = "dir"

\* What is found somewhere, some layer put there; a file inside a directory of its name
\* got there when the directory of a later layer was left over.
LeftoverAt(p) ==
    /\ rootfs[p] # Nothing
          => \E k \in DOMAIN image : image[k].has[p] # "no" /\ rootfs[p] = EntryOf(k, p)
    /\ rootfs[Inside(p)] # Nothing
          => \E m, k \in DOMAIN image : m < k /\ Puts(m, p, "file") /\ Puts(k, p, "dir")

\* What is not as the layers mean it is a leftover of a layer that is still to come.
StaleAt(p) ==
    /\ Exact(p) # Nothing =>
          \/ rootfs[p] = Exact(p)
          \/ /\ Exact(p).kind = "file" /\ rootfs[p] = Dir
             /\ \E k \in DOMAIN image : Puts(k, p, "dir") /\ Remaining(k, p)
    /\ Exact(p) = Nothing =>
          \/ rootfs[p] = Nothing
          \/ \E k \in DOMAIN image : /\ image[k].has[p] # "no" /\ rootfs[p] = EntryOf(k, p)
                                     /\ Remaining(k, p)
    /\ rootfs[Inside(p)] # Nothing =>
          \E m, k \in DOMAIN image :
             /\ m < k /\ Puts(m, p, "file") /\ Puts(k, p, "dir") /\ Remaining(k, p)
             /\ Remaining(m, p) \/ Exact(p).kind = "file"

StaleInv ==
    /\ phase # "merge" => \A p \in Places : Struck(p) => rootfs[p] = Nothing
    /\ \A p \in Paths : StaleAt(p)

\* The first attempt has no leftovers.
FreshInv == \A p \in Places : rootfs[p] = Exact(p)

PlainInv ==
    /\ \A p \in Paths : LeftoverAt(p)
    /\ status \in {"extracting", "done"} => StaleInv
    /\ attempt = 1 => status # "failed"
    /\ attempt = 1 /\ status = "extracting" => FreshInv
    /\ KeepsDirectories => status # "failed"

TypeInv == TypeOK /\ TreeInv
LayersInv == TypeInv /\ (Plain => PlainInv)

----------------------------------------------------------------------------
(* Induction. *)

\* Every set of natural numbers has a least element.
LEMMA LeastNatural ==
    ASSUME NEW T, T \subseteq Nat, T # {}
    PROVE  \E m \in T : \A k \in T : m <= k
<1>1. \E m \in T : \A k \in T : <<k, m>> \notin OpToRel(<, Nat)
  BY NatLessThanWellFounded, WFMin
<1>2. \A k, m \in T : <<k, m>> \in OpToRel(<, Nat) <=> k < m
  BY DEF OpToRel
<1>3. PICK m \in T : \A k \in T : ~ (k < m)
  BY <1>1, <1>2
<1>4. \A k \in T : m <= k
  BY <1>3
<1> QED
  BY <1>4

\* What contains 0 and with each number the next one contains all up to a bound.
LEMMA UpToBound ==
    ASSUME NEW N \in Nat, NEW T, 0 \in T, \A n \in T : n \in Nat /\ n < N => n + 1 \in T
    PROVE  \A n \in 0..N : n \in T
<1> SUFFICES ASSUME NEW b \in 0..N, b \notin T PROVE FALSE
  OBVIOUS
<1> DEFINE Out == {n \in 0..N : n \notin T}
<1>1. PICK m \in Out : \A k \in Out : m <= k
  <2>1. Out \subseteq Nat /\ Out # {}
    OBVIOUS
  <2> QED
    BY <2>1, LeastNatural
<1>2. m \in 0..N /\ m \notin T /\ m # 0
  BY <1>1
<1> DEFINE k == m - 1
<1>3. k \in 0..N /\ k \in Nat /\ k < N /\ k + 1 = m /\ ~ (m <= k)
  BY <1>2
<1> HIDE DEF k
<1>4. k \in T
  BY <1>1, <1>3
<1>5. k + 1 \in T
  BY <1>3, <1>4, Zenon
<1> QED
  BY <1>2, <1>3, <1>5, Zenon

----------------------------------------------------------------------------
(* Paths. *)

Path == Seq(STRING)

\* Prefixes by their elements.
LEMMA PrefixElements ==
    ASSUME NEW s \in Path, NEW t \in Path
    PROVE  /\ IsPrefix(s, t) <=> Len(s) <= Len(t) /\ \A i \in 1..Len(s) : s[i] = t[i]
           /\ IsStrictPrefix(s, t) <=> IsPrefix(s, t) /\ Len(s) < Len(t)
<1>1. /\ Len(s) \in Nat /\ Len(t) \in Nat
      /\ \A i \in 1..Len(s) : s[i] \in STRING
      /\ \A i \in 1..Len(t) : t[i] \in STRING
  BY LenProperties, ElementOfSeq DEF Path
<1>2. ASSUME Len(s) <= Len(t)
      PROVE  SubSeq(s, 1, Len(s)) = SubSeq(t, 1, Len(s)) <=> \A i \in 1..Len(s) : s[i] = t[i]
  <2> DEFINE a == SubSeq(s, 1, Len(s))
             b == SubSeq(t, 1, Len(s))
  <2>1. /\ a \in Path /\ Len(a) = Len(s)
        /\ \A i \in 1..Len(s) : a[i] = s[i]
    BY <1>1, SubSeqProperties DEF Path
  <2>2. /\ b \in Path /\ Len(b) = Len(s)
        /\ \A i \in 1..Len(s) : b[i] = t[i]
    <3>1. \A i \in 1..Len(s) : t[i] \in STRING
      BY <1>1, <1>2
    <3> QED
      BY <1>1, <3>1, SubSeqProperties DEF Path
  <2> HIDE DEF a, b
  <2>3. a = b <=> \A i \in 1..Len(s) : a[i] = b[i]
    BY <2>1, <2>2, SeqEqual DEF Path
  <2> QED
    BY <2>1, <2>2, <2>3 DEF a, b
<1>3. IsPrefix(s, t) <=> Len(s) <= Len(t) /\ \A i \in 1..Len(s) : s[i] = t[i]
  BY <1>2 DEF IsPrefix
<1>4. Len(s) = Len(t) /\ IsPrefix(s, t) => s = t
  BY <1>3, SeqEqual DEF Path
<1>5. IsStrictPrefix(s, t) <=> IsPrefix(s, t) /\ Len(s) < Len(t)
  BY <1>1, <1>3, <1>4 DEF IsStrictPrefix
<1> QED
  BY <1>3, <1>5

LEMMA PrefixOrder ==
    ASSUME NEW s \in Path, NEW t \in Path, NEW u \in Path
    PROVE  /\ IsPrefix(s, s)
           /\ IsPrefix(s, t) /\ IsPrefix(t, s) => s = t
           /\ IsPrefix(s, t) /\ IsPrefix(t, u) => IsPrefix(s, u)
           /\ IsStrictPrefix(s, t) /\ IsPrefix(t, u) => IsStrictPrefix(s, u)
           /\ IsPrefix(s, t) /\ IsStrictPrefix(t, u) => IsStrictPrefix(s, u)
<1>1. Len(s) \in Nat /\ Len(t) \in Nat /\ Len(u) \in Nat
  BY LenProperties DEF Path
<1>2. /\ IsPrefix(s, t) <=> Len(s) <= Len(t) /\ \A i \in 1..Len(s) : s[i] = t[i]
      /\ IsPrefix(t, u) <=> Len(t) <= Len(u) /\ \A i \in 1..Len(t) : t[i] = u[i]
      /\ IsPrefix(s, u) <=> Len(s) <= Len(u) /\ \A i \in 1..Len(s) : s[i] = u[i]
      /\ IsPrefix(t, s) => Len(t) <= Len(s)
      /\ IsPrefix(s, s)
      /\ IsStrictPrefix(s, t) <=> IsPrefix(s, t) /\ Len(s) < Len(t)
      /\ IsStrictPrefix(t, u) <=> IsPrefix(t, u) /\ Len(t) < Len(u)
      /\ IsStrictPrefix(s, u) <=> IsPrefix(s, u) /\ Len(s) < Len(u)
  BY <1>1, PrefixElements
<1>3. IsPrefix(s, t) /\ IsPrefix(t, u) => IsPrefix(s, u)
  BY <1>1, <1>2
<1>4. IsPrefix(s, t) /\ IsPrefix(t, s) => s = t
  BY <1>1, <1>2 DEF IsStrictPrefix
<1> QED
  BY <1>1, <1>2, <1>3, <1>4

LEMMA FrontOf ==
    ASSUME NEW s \in Path, s # <<>>
    PROVE  /\ Front(s) \in Path /\ Len(Front(s)) = Len(s) - 1 /\ Last(s) \in STRING
           /\ \A i \in 1..Len(s) - 1 : Front(s)[i] = s[i]
           /\ Len(s) \in Nat /\ Len(s) >= 1
           /\ IsStrictPrefix(Front(s), s)
           /\ Append(Front(s), Last(s)) = s
<1>1. Len(s) \in Nat /\ Len(s) >= 1 /\ \A i \in 1..Len(s) : s[i] \in STRING
  BY LenProperties, EmptySeq, ElementOfSeq DEF Path
<1>2. /\ Front(s) \in Path /\ Len(Front(s)) = Len(s) - 1
      /\ \A i \in 1..Len(s) - 1 : Front(s)[i] = s[i]
  <2>1. Len(s) - 1 \in Int /\ 1 <= Len(s) /\ \A i \in 1..Len(s) - 1 : s[i] \in STRING
    BY <1>1
  <2> DEFINE n == Len(s) - 1
             f == SubSeq(s, 1, n)
  <2>2. /\ f \in Seq(STRING)
        /\ Len(f) = IF 1 <= n THEN n - 1 + 1 ELSE 0
        /\ \A i \in 1..n - 1 + 1 : f[i] = s[1 + i - 1]
    <3> HIDE DEF n
    <3> QED
      BY <2>1, SubSeqProperties, 1 \in Int DEF n
  <2> HIDE DEF f
  <2>3. \A i \in 1..n : i \in 1..n - 1 + 1 /\ 1 + i - 1 = i
    BY <1>1
  <2>4. Len(f) = n
    <3>1. n \in Nat
      BY <1>1
    <3> HIDE DEF n
    <3>2. 1 <= n => n - 1 + 1 = n
      BY <3>1
    <3>3. ~ (1 <= n) => n = 0
      BY <3>1
    <3> QED
      BY <2>2, <3>2, <3>3, Zenon
  <2>5. \A i \in 1..n : f[i] = s[i]
    BY <2>2, <2>3, Zenon
  <2> QED
    BY <2>2, <2>4, <2>5 DEF f, Front, Path
<1>3. IsStrictPrefix(Front(s), s)
  BY <1>1, <1>2, PrefixElements
<1>4. Last(s) \in STRING
  BY <1>1 DEF Last
<1>5. Append(Front(s), Last(s)) = s
  <2> DEFINE f == Front(s)
             e == Last(s)
  <2> HIDE DEF f, e
  <2>1. /\ Append(f, e) \in Path /\ Len(Append(f, e)) = Len(s)
        /\ \A i \in 1..Len(f) : Append(f, e)[i] = f[i]
        /\ Append(f, e)[Len(f) + 1] = e
    BY <1>1, <1>2, <1>4, AppendProperties DEF Path, f, e
  <2>2. \A i \in 1..Len(s) : Append(f, e)[i] = s[i]
    BY <1>1, <1>2, <2>1 DEF f, e, Last
  <2> QED
    BY <2>1, <2>2, SeqEqual DEF Path, f, e
<1> QED
  BY <1>1, <1>2, <1>3, <1>4, <1>5

LEMMA PrefixOfFront ==
    ASSUME NEW s \in Path, NEW t \in Path, t # <<>>
    PROVE  IsStrictPrefix(s, t) <=> IsPrefix(s, Front(t))
<1>1. Len(s) \in Nat
  BY LenProperties DEF Path
<1>2. /\ Front(t) \in Path /\ Len(Front(t)) = Len(t) - 1
      /\ \A i \in 1..Len(t) - 1 : Front(t)[i] = t[i]
      /\ Len(t) \in Nat
  BY FrontOf
<1>3. /\ IsPrefix(s, t) <=> Len(s) <= Len(t) /\ \A i \in 1..Len(s) : s[i] = t[i]
      /\ IsStrictPrefix(s, t) <=> IsPrefix(s, t) /\ Len(s) < Len(t)
      /\ IsPrefix(s, Front(t))
            <=> Len(s) <= Len(Front(t)) /\ \A i \in 1..Len(s) : s[i] = Front(t)[i]
  BY <1>2, PrefixElements
<1> QED
  BY <1>1, <1>2, <1>3

\* What is in a set of paths that is closed under the directory above has all of them.
LEMMA Ancestors ==
    ASSUME NEW S, NEW D, S \subseteq Path, D \subseteq S,
           \A p \in S : p # <<>> /\ (Len(p) > 1 => Front(p) \in D)
    PROVE  \A p \in S, q \in Path : q # <<>> /\ IsStrictPrefix(q, p) => q \in D
<1> DEFINE Lost(p) == \E q \in Path : q # <<>> /\ IsStrictPrefix(q, p) /\ q \notin D
           Sizes == {Len(p) : p \in {r \in S : Lost(r)}}
<1> SUFFICES ASSUME NEW b \in S, Lost(b) PROVE FALSE
  OBVIOUS
<1> HIDE DEF Lost
<1>1. Sizes \subseteq Nat /\ Sizes # {}
  <2>1. \A p \in S : Len(p) \in Nat
    BY LenProperties DEF Path
  <2> QED
    BY <2>1
<1>2. PICK m \in Sizes : \A k \in Sizes : m <= k
  BY <1>1, LeastNatural
<1> HIDE DEF Sizes
<1>3. PICK p \in S : Lost(p) /\ Len(p) = m
  BY <1>2 DEF Sizes
<1>4. PICK q \in Path : q # <<>> /\ IsStrictPrefix(q, p) /\ q \notin D
  BY <1>3 DEF Lost
<1>5. /\ Len(q) \in Nat /\ Len(q) >= 1 /\ p \in Path /\ p # <<>>
      /\ Front(p) \in Path /\ Len(Front(p)) = Len(p) - 1 /\ Len(p) \in Nat
  <2>1. p \in Path /\ p # <<>> /\ q # <<>>
    BY <1>4
  <2>2. Len(q) \in Nat /\ Len(q) >= 1
    BY <2>1, FrontOf
  <2>3. Front(p) \in Path /\ Len(Front(p)) = Len(p) - 1 /\ Len(p) \in Nat
    BY <2>1, FrontOf
  <2> QED
    BY <2>1, <2>2, <2>3
<1>6. Len(q) < Len(p) /\ IsPrefix(q, Front(p))
  BY <1>4, <1>5, PrefixElements, PrefixOfFront
<1>7. Front(p) \in D /\ Front(p) \in S
  BY <1>5, <1>6
<1>8. IsStrictPrefix(q, Front(p))
  BY <1>4, <1>6, <1>7 DEF IsStrictPrefix
<1>9. Len(Front(p)) \in Sizes
  BY <1>4, <1>7, <1>8 DEF Sizes, Lost
<1> QED
  BY <1>2, <1>3, <1>5, <1>9

----------------------------------------------------------------------------
(* Places. *)

LEMMA PathFacts ==
    /\ Paths \subseteq Path /\ LinkTo \in Paths /\ LinkTo \in Path
    /\ \A p \in Paths : p # <<>> /\ p \in Path
  BY PathsAssumption DEF Path

\* The place inside p is right below it and is none of the paths.
LEMMA InsideOf ==
    ASSUME NEW p \in Paths
    PROVE  /\ Inside(p) \in Path /\ Inside(p) # <<>> /\ Front(Inside(p)) = p
           /\ Len(Inside(p)) = Len(p) + 1 /\ Len(Inside(p)) > 1
           /\ Inside(p) \notin Paths /\ Inside(p) \in Places
<1>1. p \in Path /\ Last(p) \in STRING /\ Len(p) \in Nat /\ Len(p) >= 1
  BY PathFacts, FrontOf
<1> DEFINE a == Inside(p)
<1>2. /\ a \in Path /\ a # <<>> /\ Len(a) = Len(p) + 1
      /\ \A i \in 1..Len(p) : a[i] = p[i]
  BY <1>1, AppendProperties DEF Inside, Path
<1> HIDE DEF a
<1>3. /\ Front(a) \in Path /\ Len(Front(a)) = Len(a) - 1
      /\ \A i \in 1..Len(a) - 1 : Front(a)[i] = a[i]
  BY <1>2, FrontOf
<1>4. Len(Front(a)) = Len(p) /\ \A i \in 1..Len(p) : Front(a)[i] = p[i]
  BY <1>1, <1>2, <1>3
<1>5. Front(a) = p
  BY <1>1, <1>3, <1>4, SeqEqual DEF Path
<1>6. a \notin Paths /\ a \in Places
  BY PathsAssumption DEF a, Places
<1> QED
  BY <1>1, <1>2, <1>5, <1>6 DEF a

LEMMA PlaceFacts ==
    /\ Paths \subseteq Places /\ Places \subseteq Path
    /\ \A p \in Places : p # <<>>
    /\ \A p \in Places : p \in Paths \/ \E q \in Paths : p = Inside(q)
    /\ \A p, q \in Paths : Inside(p) = Inside(q) => p = q
<1>1. \A p \in Places : p \in Paths \/ \E q \in Paths : p = Inside(q)
  BY DEF Places
<1>2. Paths \subseteq Places
  BY DEF Places
<1>3. \A p, q \in Paths : Inside(p) = Inside(q) => p = q
  BY InsideOf
<1>4. \A p \in Places : p \in Path /\ p # <<>>
  BY <1>1, PathFacts, InsideOf
<1> QED
  BY <1>1, <1>2, <1>3, <1>4

\* What is above the place inside p is p and what is above p.
LEMMA AboveInside ==
    ASSUME NEW p \in Paths, NEW q \in Path
    PROVE  /\ IsStrictPrefix(q, Inside(p)) <=> IsPrefix(q, p)
           /\ IsPrefix(q, Inside(p)) <=> IsPrefix(q, p) \/ q = Inside(p)
<1>1. /\ Inside(p) \in Path /\ Inside(p) # <<>> /\ Front(Inside(p)) = p
  BY InsideOf
<1>2. IsStrictPrefix(q, Inside(p)) <=> IsPrefix(q, p)
  BY <1>1, PrefixOfFront
<1>3. IsPrefix(Inside(p), Inside(p))
  BY <1>1, PrefixOrder
<1> QED
  BY <1>2, <1>3 DEF IsStrictPrefix

----------------------------------------------------------------------------
(* The recursive functions have the equations they are written with. *)

\* at is the function that Resolved is written with, up to name m of p.
Follows(at, fs, p, m) ==
    at = [n \in 0..m |->
            IF n = 0 THEN <<>>
            ELSE LET q == Append(at[n - 1], p[n])
                 IN  IF At(fs, q).kind = "link" THEN LinkTo ELSE q]

LEMMA ResolvedDef ==
    ASSUME NEW fs, NEW p \in Path
    PROVE  \E at : Follows(at, fs, p, Len(p)) /\ Resolved(fs, p) = at[Len(p)]
<1> DEFINE Good == {m \in Nat : \E at : Follows(at, fs, p, m)}
           Next1(x, n) == LET q == Append(x, p[n])
                          IN  IF At(fs, q).kind = "link" THEN LinkTo ELSE q
<1>0. Len(p) \in Nat
  BY LenProperties DEF Path
<1>1. \A at, m : Follows(at, fs, p, m)
                    <=> at = [n \in 0..m |-> IF n = 0 THEN <<>> ELSE Next1(at[n - 1], n)]
  BY DEF Follows
<1> HIDE DEF Next1
<1>2. 0 \in Good
  <2> DEFINE g == [n \in 0..0 |-> <<>>]
  <2>1. g = [n \in 0..0 |-> IF n = 0 THEN <<>> ELSE Next1(g[n - 1], n)]
    OBVIOUS
  <2> QED
    BY <1>1, <2>1
<1>3. ASSUME NEW m \in Good PROVE m + 1 \in Good
  <2>1. PICK g : g = [n \in 0..m |-> IF n = 0 THEN <<>> ELSE Next1(g[n - 1], n)]
    BY <1>1
  <2> DEFINE h == [n \in 0..(m + 1) |-> IF n = m + 1 THEN Next1(g[m], m + 1) ELSE g[n]]
  <2>2. \A n \in 0..(m + 1) : h[n] = IF n = 0 THEN <<>> ELSE Next1(h[n - 1], n)
    BY <2>1
  <2>3. h = [n \in 0..(m + 1) |-> h[n]]
    OBVIOUS
  <2> HIDE DEF h
  <2>4. h = [n \in 0..(m + 1) |-> IF n = 0 THEN <<>> ELSE Next1(h[n - 1], n)]
    BY <2>2, <2>3
  <2>5. Follows(h, fs, p, m + 1)
    BY <1>1, <2>4
  <2> QED
    BY <2>5
<1>4. Len(p) \in Good
  <2>1. Good \subseteq Nat
    OBVIOUS
  <2> HIDE DEF Good
  <2>2. \A n \in Good : n \in Nat /\ n < Len(p) => n + 1 \in Good
    BY <1>3
  <2> QED
    BY <1>0, <1>2, <2>2, UpToBound
<1> DEFINE f == CHOOSE at : Follows(at, fs, p, Len(p))
<1>5. Follows(f, fs, p, Len(p))
  BY <1>4
<1>6. Resolved(fs, p) = f[Len(p)]
  BY DEF Resolved, Follows
<1> QED
  BY <1>5, <1>6

\* up is the function that Stack is written with, up to layer m.
Stacks(up, layers, m) ==
    up = [n \in 0..m |->
            IF n = 0 THEN [p \in Places |-> Nothing]
            ELSE Overlay(up[n - 1], layers[n], n)]

\* Each layer of the stack lies over the ones below it.
LEMMA StackDef ==
    ASSUME NEW layers, Len(layers) \in Nat
    PROVE  /\ Stack(layers)[0] = [p \in Places |-> Nothing]
           /\ \A n \in 1..Len(layers) :
                 Stack(layers)[n] = Overlay(Stack(layers)[n - 1], layers[n], n)
<1> DEFINE Good == {m \in Nat : \E up : Stacks(up, layers, m)}
           Base == [p \in Places |-> Nothing]
           Next1(x, n) == Overlay(x, layers[n], n)
<1>1. \A up, m : Stacks(up, layers, m)
                    <=> up = [n \in 0..m |-> IF n = 0 THEN Base ELSE Next1(up[n - 1], n)]
  BY DEF Stacks
<1> HIDE DEF Next1, Base
<1>2. 0 \in Good
  <2> DEFINE g == [n \in 0..0 |-> Base]
  <2>1. g = [n \in 0..0 |-> IF n = 0 THEN Base ELSE Next1(g[n - 1], n)]
    OBVIOUS
  <2> QED
    BY <1>1, <2>1
<1>3. ASSUME NEW m \in Good PROVE m + 1 \in Good
  <2>1. PICK g : g = [n \in 0..m |-> IF n = 0 THEN Base ELSE Next1(g[n - 1], n)]
    BY <1>1
  <2> DEFINE h == [n \in 0..(m + 1) |-> IF n = m + 1 THEN Next1(g[m], m + 1) ELSE g[n]]
  <2>2. \A n \in 0..(m + 1) : h[n] = IF n = 0 THEN Base ELSE Next1(h[n - 1], n)
    BY <2>1
  <2>3. h = [n \in 0..(m + 1) |-> h[n]]
    OBVIOUS
  <2> HIDE DEF h
  <2>4. h = [n \in 0..(m + 1) |-> IF n = 0 THEN Base ELSE Next1(h[n - 1], n)]
    BY <2>2, <2>3
  <2>5. Stacks(h, layers, m + 1)
    BY <1>1, <2>4
  <2> QED
    BY <2>5
<1>4. Len(layers) \in Good
  <2>1. Good \subseteq Nat
    OBVIOUS
  <2> HIDE DEF Good
  <2>2. \A n \in Good : n \in Nat /\ n < Len(layers) => n + 1 \in Good
    BY <1>3
  <2> QED
    BY <1>2, <2>2, UpToBound
<1> DEFINE f == CHOOSE up : Stacks(up, layers, Len(layers))
<1>5. Stacks(f, layers, Len(layers))
  BY <1>4
<1>6. Stack(layers) = f
  BY DEF Stack, Stacks
<1> HIDE DEF f
<1>7. Stack(layers) = [n \in 0..Len(layers) |->
                          IF n = 0 THEN Base ELSE Next1(Stack(layers)[n - 1], n)]
  BY <1>1, <1>5, <1>6
<1> HIDE DEF Good
<1>8. \A n \in 0..Len(layers) :
         Stack(layers)[n] = IF n = 0 THEN Base ELSE Next1(Stack(layers)[n - 1], n)
  BY <1>7
<1> QED
  BY <1>8 DEF Base, Next1

----------------------------------------------------------------------------
(* Following symlinks. *)

\* A path leads to a path.
LEMMA ResolvedType ==
    ASSUME NEW fs, NEW p \in Path
    PROVE  Resolved(fs, p) \in Path
<1>1. PICK at : Follows(at, fs, p, Len(p)) /\ Resolved(fs, p) = at[Len(p)]
  BY ResolvedDef
<1>2. Len(p) \in Nat /\ \A i \in 1..Len(p) : p[i] \in STRING
  BY LenProperties, ElementOfSeq DEF Path
<1> DEFINE T == {n \in 0..Len(p) : at[n] \in Path}
<1>3. 0 \in T
  BY <1>1, <1>2, EmptySeq DEF Follows, Path
<1>4. ASSUME NEW n \in T, n < Len(p) PROVE n + 1 \in T
  <2>1. n + 1 \in 1..Len(p) /\ n + 1 \in 0..Len(p) /\ n + 1 # 0 /\ (n + 1) - 1 = n
    BY <1>2, <1>4
  <2>2. Append(at[n], p[n + 1]) \in Path
    BY <1>2, <2>1, AppendProperties DEF Path
  <2>3. at[n + 1] \in {LinkTo, Append(at[n], p[n + 1])}
    BY <1>1, <2>1 DEF Follows
  <2> QED
    BY <2>1, <2>2, <2>3, PathFacts
<1> HIDE DEF T
<1>5. Len(p) \in T
  BY <1>2, <1>3, <1>4, UpToBound
<1> QED
  BY <1>1, <1>5 DEF T

\* A path without a symlink on it leads to itself.
LEMMA ResolvedLiteral ==
    ASSUME NEW fs, NEW p \in Path,
           \A q \in Path : q # <<>> /\ IsPrefix(q, p) => At(fs, q).kind # "link"
    PROVE  Resolved(fs, p) = p
<1>1. PICK at : Follows(at, fs, p, Len(p)) /\ Resolved(fs, p) = at[Len(p)]
  BY ResolvedDef
<1>2. Len(p) \in Nat /\ \A i \in 1..Len(p) : p[i] \in STRING
  BY LenProperties, ElementOfSeq DEF Path
<1> DEFINE Is(s, n) == s \in Path /\ Len(s) = n /\ \A i \in 1..n : s[i] = p[i]
           T == {n \in 0..Len(p) : Is(at[n], n)}
<1>3. 0 \in T
  BY <1>1, <1>2, EmptySeq DEF Follows, Path
<1>4. ASSUME NEW n \in T, n < Len(p) PROVE n + 1 \in T
  <2>1. n + 1 \in 1..Len(p) /\ n + 1 \in 0..Len(p) /\ n + 1 # 0 /\ (n + 1) - 1 = n /\ n \in Nat
    BY <1>2, <1>4
  <2> DEFINE q == Append(at[n], p[n + 1])
  <2>2. /\ q \in Path /\ q # <<>> /\ Len(q) = Len(at[n]) + 1
        /\ \A i \in 1..Len(at[n]) : q[i] = at[n][i]
        /\ q[Len(at[n]) + 1] = p[n + 1]
    BY <1>2, <2>1, AppendProperties DEF Path
  <2>3. at[n + 1] = IF At(fs, q).kind = "link" THEN LinkTo ELSE q
    BY <1>1, <2>1 DEF Follows
  <2> HIDE DEF q
  <2>4. Is(at[n], n)
    BY <1>4
  <2>5. \A i \in 1..n + 1 : q[i] = p[i]
    BY <2>1, <2>2, <2>4
  <2>6. Len(q) = n + 1
    BY <2>2, <2>4
  <2>7. IsPrefix(q, p)
    BY <2>1, <2>2, <2>5, <2>6, PrefixElements
  <2>8. at[n + 1] = q
    BY <2>2, <2>3, <2>7
  <2> QED
    BY <2>1, <2>2, <2>5, <2>6, <2>8
<1>5. Len(p) \in T
  <2> HIDE DEF T
  <2> QED
    BY <1>2, <1>3, <1>4, UpToBound
<1>6. Is(at[Len(p)], Len(p))
  BY <1>5
<1> QED
  BY <1>1, <1>6, SeqEqual DEF Path

----------------------------------------------------------------------------
(* Layers and trees. *)

LEMMA LayerFacts ==
    ASSUME NEW img \in Images, NEW i \in DOMAIN img
    PROVE  /\ img \in Seq(Layer) /\ Len(img) \in Nat /\ Len(img) >= 1 /\ DOMAIN img = 1..Len(img)
           /\ img[i].has \in [Paths -> {"no", "dir", "file", "link"}]
           /\ img[i].gone \subseteq Paths /\ img[i].opaque \subseteq Paths
           /\ \A p \in img[i].opaque : img[i].has[p] = "dir"
           /\ img[i].has[LinkTo] # "link"
           /\ \A p \in Paths, q \in Path :
                 (img[i].has[p] # "no" \/ p \in img[i].gone) /\ q # <<>> /\ IsStrictPrefix(q, p)
                    => q \in Paths /\ img[i].has[q] = "dir"
<1>1. /\ img \in Seq(Layer) /\ img # <<>>
  BY LayersAssumption
<1>2. Len(img) \in Nat /\ Len(img) >= 1 /\ DOMAIN img = 1..Len(img) /\ img[i] \in Layer
  BY <1>1, LenProperties, EmptySeq, ElementOfSeq
<1>3. /\ img[i].has \in [Paths -> {"no", "dir", "file", "link"}]
      /\ img[i].gone \subseteq Paths /\ img[i].opaque \subseteq Paths
  BY <1>2 DEF Layer
<1> DEFINE D == {p \in Paths : img[i].has[p] = "dir"}
           S == {p \in Paths : img[i].has[p] # "no"} \cup img[i].gone
<1>4. /\ \A p \in S : Len(p) > 1 => Front(p) \in D
      /\ img[i].opaque \subseteq D
      /\ img[i].has[LinkTo] # "link"
  BY LayersAssumption
<1>5. D \subseteq S /\ S \subseteq Path /\ \A p \in S : p # <<>>
  BY <1>3, PathFacts
<1>6. \A p \in S, q \in Path : q # <<>> /\ IsStrictPrefix(q, p) => q \in D
  <2> HIDE DEF S, D
  <2> QED
    BY <1>4, <1>5, Ancestors
<1> QED
  BY <1>1, <1>2, <1>3, <1>4, <1>6

LEMMA NodeFacts ==
    /\ Nothing \in Node /\ Nothing.kind = "no" /\ Dir \in Node /\ Dir.kind = "dir" /\ Dir # Nothing
    /\ \A k \in {"no", "dir", "file", "link"}, i \in Nat :
          [kind |-> k, from |-> i] \in Node /\ [kind |-> k, from |-> i].kind = k
BY DEF Nothing, Dir, Node

\* What is above something in a tree is a directory.
LEMMA TreeAncestors ==
    ASSUME NEW fs, Tree(fs), NEW p \in Places, NEW q \in Path,
           fs[p].kind # "no", q # <<>>, IsStrictPrefix(q, p)
    PROVE  q \in Places /\ fs[q].kind = "dir"
<1> DEFINE S == {r \in Places : fs[r].kind # "no"}
           D == {r \in Places : fs[r].kind = "dir"}
<1>1. S \subseteq Path /\ D \subseteq S
  BY PlaceFacts
<1>2. \A r \in S : r # <<>> /\ (Len(r) > 1 => Front(r) \in D)
  BY PlaceFacts DEF Tree
<1>3. p \in S
  OBVIOUS
<1>4. q \in D
  <2> HIDE DEF S, D
  <2> QED
    BY <1>1, <1>2, <1>3, Ancestors
<1> QED
  BY <1>4

LEMMA FrontPlace ==
    ASSUME NEW p \in Places
    PROVE  /\ p \in Path /\ Front(p) \in Path /\ IsStrictPrefix(Front(p), p)
           /\ Len(p) \in Nat /\ Len(Front(p)) = Len(p) - 1 /\ Front(p) # p
           /\ \A q \in Path : IsPrefix(q, Front(p)) => IsStrictPrefix(q, p)
           /\ \A q \in Path : IsPrefix(q, p) \/ ~ IsPrefix(q, Front(p))
           /\ \A q \in Path : IsStrictPrefix(q, Front(p)) => IsStrictPrefix(q, p)
<1>1. p \in Path /\ p # <<>>
  BY PlaceFacts
<1>2. /\ Front(p) \in Path /\ IsStrictPrefix(Front(p), p)
      /\ Len(p) \in Nat /\ Len(Front(p)) = Len(p) - 1
  BY <1>1, FrontOf
<1>3. \A q \in Path : IsPrefix(q, Front(p)) => IsStrictPrefix(q, p)
  BY <1>1, PrefixOfFront
<1> QED
  BY <1>1, <1>2, <1>3 DEF IsStrictPrefix

\* What is removed with all that is below it leaves a tree.
LEMMA EmptiedTree ==
    ASSUME NEW fs \in [Places -> Node], Tree(fs), NEW at \in Path
    PROVE  Emptied(fs, at) \in [Places -> Node] /\ Tree(Emptied(fs, at))
<1> DEFINE new == Emptied(fs, at)
<1>1. /\ new \in [Places -> Node]
      /\ \A p \in Places : new[p] = IF IsStrictPrefix(at, p) THEN Nothing ELSE fs[p]
  BY NodeFacts DEF Emptied
<1> HIDE DEF new
<1>2. ASSUME NEW p \in Places
      PROVE  /\ new[p].kind = "no" => new[p] = Nothing
             /\ new[p].kind = "dir" => new[p] = Dir
             /\ p \notin Paths => new[p].kind \in {"no", "file"}
  BY <1>1, NodeFacts DEF Tree
<1>3. ASSUME NEW p \in Places, new[p].kind # "no", Len(p) > 1
      PROVE  Front(p) \in Places /\ new[Front(p)].kind = "dir"
  <2>1. ~ IsStrictPrefix(at, p) /\ new[p] = fs[p]
    BY <1>1, <1>3, NodeFacts
  <2>2. Front(p) \in Places /\ fs[Front(p)].kind = "dir"
    BY <1>3, <2>1 DEF Tree
  <2>3. ~ IsStrictPrefix(at, Front(p))
    BY <2>1, FrontPlace
  <2> QED
    BY <1>1, <2>2, <2>3
<1> QED
  BY <1>1, <1>2, <1>3 DEF Tree, new

LEMMA WithoutTree ==
    ASSUME NEW fs \in [Places -> Node], Tree(fs), NEW at \in Path
    PROVE  Without(fs, at) \in [Places -> Node] /\ Tree(Without(fs, at))
<1> DEFINE new == Without(fs, at)
<1>1. /\ new \in [Places -> Node]
      /\ \A p \in Places : new[p] = IF IsPrefix(at, p) THEN Nothing ELSE fs[p]
  BY NodeFacts DEF Without
<1> HIDE DEF new
<1>2. ASSUME NEW p \in Places
      PROVE  /\ new[p].kind = "no" => new[p] = Nothing
             /\ new[p].kind = "dir" => new[p] = Dir
             /\ p \notin Paths => new[p].kind \in {"no", "file"}
  BY <1>1, NodeFacts DEF Tree
<1>3. ASSUME NEW p \in Places, new[p].kind # "no", Len(p) > 1
      PROVE  Front(p) \in Places /\ new[Front(p)].kind = "dir"
  <2>1. ~ IsPrefix(at, p) /\ new[p] = fs[p]
    BY <1>1, <1>3, NodeFacts
  <2>2. Front(p) \in Places /\ fs[Front(p)].kind = "dir"
    BY <1>3, <2>1 DEF Tree
  <2>3. ~ IsPrefix(at, Front(p))
    BY <2>1, FrontPlace
  <2> QED
    BY <1>1, <2>2, <2>3
<1> QED
  BY <1>1, <1>2, <1>3 DEF Tree, new

\* So does what is put into a directory, unless it takes the place of one.
LEMMA PutTree ==
    ASSUME NEW fs \in [Places -> Node], Tree(fs), NEW p \in Places, NEW node \in Node,
           node.kind # "no", node.kind = "dir" => node = Dir,
           fs[p].kind = "dir" => node.kind = "dir", p \notin Paths => node.kind = "file",
           Len(p) > 1 => Front(p) \in Places /\ fs[Front(p)].kind = "dir"
    PROVE  [fs EXCEPT ![p] = node] \in [Places -> Node] /\ Tree([fs EXCEPT ![p] = node])
<1> DEFINE new == [fs EXCEPT ![p] = node]
<1>1. /\ new \in [Places -> Node] /\ new[p] = node
      /\ \A q \in Places : q # p => new[q] = fs[q]
  OBVIOUS
<1> HIDE DEF new
<1>2. ASSUME NEW q \in Places
      PROVE  /\ new[q].kind = "no" => new[q] = Nothing
             /\ new[q].kind = "dir" => new[q] = Dir
             /\ q \notin Paths => new[q].kind \in {"no", "file"}
  BY <1>1 DEF Tree
<1>3. ASSUME NEW q \in Places, new[q].kind # "no", Len(q) > 1
      PROVE  Front(q) \in Places /\ new[Front(q)].kind = "dir"
  <2>1. Front(q) \in Places /\ fs[Front(q)].kind = "dir"
    BY <1>1, <1>3 DEF Tree
  <2> QED
    BY <1>1, <2>1
<1> QED
  BY <1>1, <1>2, <1>3 DEF Tree, new

----------------------------------------------------------------------------
(* Whatever an extraction does, the root filesystem stays a tree. *)

LEMMA TypeFacts ==
    ASSUME TypeInv
    PROVE  /\ image \in Images /\ layer \in DOMAIN image /\ DOMAIN image = 1..Len(image)
           /\ Len(image) \in Nat /\ layer \in Nat /\ layer >= 1 /\ 1 \in DOMAIN image
           /\ rootfs \in [Places -> Node] /\ DOMAIN rootfs = Places /\ Tree(rootfs)
           /\ phase \in {"opaque", "whiteout", "merge"} /\ todo \subseteq Paths
           /\ Current.has \in [Paths -> {"no", "dir", "file", "link"}]
           /\ Current.gone \subseteq Paths /\ Current.opaque \subseteq Paths
<1>1. /\ image \in Images /\ layer \in DOMAIN image /\ rootfs \in [Places -> Node] /\ Tree(rootfs)
      /\ phase \in {"opaque", "whiteout", "merge"} /\ todo \subseteq Paths
  BY DEF TypeInv, TypeOK, TreeInv
<1>2. /\ DOMAIN image = 1..Len(image) /\ Len(image) \in Nat /\ Len(image) >= 1
      /\ Current.has \in [Paths -> {"no", "dir", "file", "link"}]
      /\ Current.gone \subseteq Paths /\ Current.opaque \subseteq Paths
  BY <1>1, LayerFacts DEF Current
<1>3. layer \in Nat /\ layer >= 1 /\ 1 \in DOMAIN image
  BY <1>1, <1>2
<1> QED
  BY <1>1, <1>2, <1>3

\* A step that stays in its phase.
LEMMA SamePhase ==
    ASSUME TypeInv, UNCHANGED <<image, layer, phase, attempt>>,
           rootfs' \in [Places -> Node], Tree(rootfs'), todo' \subseteq todo,
           status' \in {"extracting", "failed", "killed"},
           phase = "merge" => \A p \in Entries(Current) \ todo' :
                                 Current.has[p] = "dir" => rootfs'[p].kind = "dir"
    PROVE  TypeInv'
<1>1. TypeOK'
  BY DEF TypeInv, TypeOK, Tree
<1>2. (image \in Images /\ Tree(rootfs) /\ todo \subseteq Treats(phase, Current))'
  BY DEF TypeInv, TreeInv, Current, Treats
<1>3. (status = "done" => phase = "merge" /\ todo = {} /\ layer = Len(image))'
  OBVIOUS
<1>4. (\A p \in MergeDone : Current.has[p] = "dir" => rootfs[p].kind = "dir")'
  BY DEF MergeDone, Current
<1> QED
  BY <1>1, <1>2, <1>3, <1>4 DEF TypeInv, TreeInv

LEMMA ClearOpaqueType ==
    ASSUME TypeInv, NEW p \in Paths, ClearOpaque(p)
    PROVE  TypeInv'
<1> DEFINE at == Resolved(rootfs, p)
<1>1. at \in Path
  BY PathFacts, ResolvedType
<1>2. Emptied(rootfs, at) \in [Places -> Node] /\ Tree(Emptied(rootfs, at))
  BY <1>1, TypeFacts, EmptiedTree
<1>3. /\ phase = "opaque" /\ status = "extracting" /\ UNCHANGED <<image, layer, phase, attempt>>
      /\ \/ rootfs' = rootfs /\ todo' = todo /\ status' = "failed"
         \/ rootfs' = Emptied(rootfs, at) /\ todo' = todo \ {p} /\ status' = status
  BY DEF ClearOpaque, Extracting, Raise
<1> HIDE DEF at
<1> QED
  BY <1>2, <1>3, TypeFacts, SamePhase

LEMMA WhiteoutType ==
    ASSUME TypeInv, NEW p \in Paths, Whiteout(p)
    PROVE  TypeInv'
<1> DEFINE at == Append(Resolved(rootfs, Front(p)), Last(p))
<1>1. at \in Path
  <2>1. Front(p) \in Path /\ Last(p) \in STRING
    BY PathFacts, FrontOf
  <2> QED
    BY <2>1, ResolvedType, AppendProperties DEF Path
<1>2. Without(rootfs, at) \in [Places -> Node] /\ Tree(Without(rootfs, at))
  BY <1>1, TypeFacts, WithoutTree
<1>3. /\ phase = "whiteout" /\ status = "extracting" /\ UNCHANGED <<image, layer, phase, attempt>>
      /\ rootfs' = Without(rootfs, at) /\ todo' = todo \ {p} /\ status' = status
  BY DEF Whiteout, Extracting
<1> HIDE DEF at
<1> QED
  BY <1>2, <1>3, SamePhase

\* What the merge does with an entry of the layer.
LEMMA MergeCases ==
    ASSUME TypeInv, NEW p \in Paths, Merge(p)
    PROVE  /\ phase = "merge" /\ status = "extracting" /\ p \in todo /\ p \in Entries(Current)
           /\ UNCHANGED <<image, layer, phase, attempt>>
           /\ \A q \in Path : q # <<>> /\ IsStrictPrefix(q, p)
                                 => q \in MergeDone /\ Current.has[q] = "dir"
           /\ \/ /\ <<Current.has[p], rootfs[p].kind>> \in {<<"link", "dir">>, <<"dir", "file">>}
                 /\ rootfs' = rootfs /\ todo' = todo /\ status' = "failed"
              \/ /\ Current.has[p] = "link" => rootfs[p].kind # "dir"
                 /\ Current.has[p] = "dir" => rootfs[p].kind # "file"
                 /\ Current.has[p] = "file" => rootfs[p].kind # "dir"
                 /\ rootfs' = [rootfs EXCEPT ![p] = EntryOf(layer, p)]
                 /\ todo' = todo \ {p} /\ status' = status
              \/ /\ Current.has[p] = "file" /\ rootfs[p].kind = "dir"
                 /\ rootfs' = [rootfs EXCEPT ![Inside(p)] = EntryOf(layer, p)]
                 /\ todo' = todo \ {p} /\ status' = status
<1>1. /\ phase = "merge" /\ status = "extracting" /\ p \in todo
      /\ UNCHANGED <<image, layer, phase, attempt>>
      /\ ~\E q \in todo : IsStrictPrefix(q, p)
      /\ MergeOne(p, Current.has[p], rootfs[p].kind)
  BY DEF Merge, Extracting, Current
<1>2. p \in Entries(Current) /\ Current.has[p] \in {"dir", "file", "link"}
  <2>1. p \in Entries(Current)
    BY <1>1 DEF TypeInv, TreeInv, Treats
  <2> QED
    BY <2>1, TypeFacts DEF Entries
<1>3. ASSUME NEW q \in Path, q # <<>>, IsStrictPrefix(q, p)
      PROVE  q \in MergeDone /\ Current.has[q] = "dir"
  <2>1. Current.has[p] # "no"
    BY <1>2
  <2>2. q \in Paths /\ Current.has[q] = "dir"
    BY <1>3, <2>1, TypeFacts, LayerFacts DEF Current
  <2> QED
    BY <1>1, <1>3, <2>2 DEF MergeDone, Entries
<1> DEFINE old == rootfs[p].kind
           put(r) == rootfs' = [rootfs EXCEPT ![r] = EntryOf(layer, p)] /\ todo' = todo \ {p}
                     /\ status' = status
           raise == rootfs' = rootfs /\ todo' = todo /\ status' = "failed"
           Did == \/ <<Current.has[p], old>> \in {<<"link", "dir">>, <<"dir", "file">>} /\ raise
                  \/ /\ Current.has[p] = "link" => old # "dir"
                     /\ Current.has[p] = "dir" => old # "file"
                     /\ Current.has[p] = "file" => old # "dir"
                     /\ put(p)
                  \/ Current.has[p] = "file" /\ old = "dir" /\ put(Inside(p))
<1>4. ASSUME Current.has[p] = "link" PROVE Did
  <2>1. IF old = "dir" THEN Raise ELSE Put(p, p, [kind |-> "link", from |-> layer])
    BY <1>1, <1>4 DEF MergeOne
  <2>2. EntryOf(layer, p) = [kind |-> "link", from |-> layer]
    BY <1>4 DEF EntryOf, Current
  <2> QED
    BY <1>4, <2>1, <2>2 DEF Put, Raise
<1>5. ASSUME Current.has[p] = "dir" PROVE Did
  <2>1. IF old = "file" THEN Raise ELSE Put(p, p, Dir)
    BY <1>1, <1>5 DEF MergeOne
  <2>2. EntryOf(layer, p) = Dir
    BY <1>5 DEF EntryOf, Current
  <2> QED
    BY <1>5, <2>1, <2>2 DEF Put, Raise
<1>6. ASSUME Current.has[p] = "file" PROVE Did
  <2>1. Put(p, IF old = "dir" THEN Inside(p) ELSE p, [kind |-> "file", from |-> layer])
    BY <1>1, <1>6 DEF MergeOne
  <2>2. EntryOf(layer, p) = [kind |-> "file", from |-> layer]
    BY <1>6 DEF EntryOf, Current
  <2> DEFINE at == IF old = "dir" THEN Inside(p) ELSE p
  <2>3. (old = "dir" => at = Inside(p)) /\ (old # "dir" => at = p)
    OBVIOUS
  <2> HIDE DEF at
  <2>4. put(at)
    <3> DEFINE node == EntryOf(layer, p)
    <3>1. Put(p, at, node)
      BY <2>1, <2>2 DEF at
    <3> HIDE DEF node
    <3> QED
      BY <3>1 DEF Put, node
  <2> QED
    BY <1>6, <2>3, <2>4
<1>7. Did
  BY <1>2, <1>4, <1>5, <1>6
<1> QED
  BY <1>1, <1>2, <1>3, <1>7

LEMMA EntryType ==
    ASSUME TypeInv, NEW k \in DOMAIN image, NEW p \in Entries(image[k])
    PROVE  /\ EntryOf(k, p) \in Node /\ EntryOf(k, p).kind = image[k].has[p]
           /\ EntryOf(k, p).kind # "no" /\ EntryOf(k, p) # Nothing
           /\ EntryOf(k, p).kind = "dir" <=> EntryOf(k, p) = Dir
<1>1. /\ image \in Images /\ k \in Nat
      /\ image[k].has[p] \in {"dir", "file", "link"}
  BY TypeFacts, LayerFacts DEF Entries
<1> QED
  BY <1>1, NodeFacts DEF EntryOf

LEMMA MergeType ==
    ASSUME TypeInv, NEW p \in Paths, Merge(p)
    PROVE  TypeInv'
<1> DEFINE node == EntryOf(layer, p)
           done == phase = "merge" => \A q \in Entries(Current) \ todo' :
                                         Current.has[q] = "dir" => rootfs'[q].kind = "dir"
<1>1. /\ phase = "merge" /\ status = "extracting" /\ p \in todo /\ p \in Entries(Current)
      /\ UNCHANGED <<image, layer, phase, attempt>>
      /\ \A q \in Path : q # <<>> /\ IsStrictPrefix(q, p) => q \in MergeDone /\ Current.has[q] = "dir"
  BY MergeCases
<1>2. /\ rootfs \in [Places -> Node] /\ Tree(rootfs) /\ p \in Places /\ layer \in DOMAIN image
      /\ MergeDone = Entries(Current) \ todo /\ MergeDone \subseteq Paths /\ Paths \subseteq Places
      /\ \A q \in MergeDone : Current.has[q] = "dir" => rootfs[q].kind = "dir"
  BY <1>1, TypeFacts, PlaceFacts DEF TypeInv, TreeInv, MergeDone, Entries
<1>3. /\ node \in Node /\ node.kind = Current.has[p] /\ node.kind # "no"
      /\ node.kind = "dir" => node = Dir
  BY <1>1, <1>2, EntryType DEF Current
<1> HIDE DEF node
<1>4. CASE rootfs' = rootfs /\ todo' = todo /\ status' = "failed"
  BY <1>1, <1>2, <1>4, SamePhase
<1>5. CASE /\ Current.has[p] = "link" => rootfs[p].kind # "dir"
           /\ Current.has[p] = "file" => rootfs[p].kind # "dir"
           /\ rootfs' = [rootfs EXCEPT ![p] = node]
           /\ todo' = todo \ {p} /\ status' = status
  <2>1. Len(p) > 1 => Front(p) \in Places /\ rootfs[Front(p)].kind = "dir"
    <3>1. Len(p) > 1 => Front(p) # <<>> /\ Front(p) \in Path /\ IsStrictPrefix(Front(p), p)
      BY <1>2, FrontPlace, EmptySeq
    <3> QED
      BY <1>1, <1>2, <3>1
  <2>2. rootfs[p].kind = "dir" => node.kind = "dir"
    BY <1>3, <1>5, TypeFacts
  <2>3. rootfs' \in [Places -> Node] /\ Tree(rootfs')
    BY <1>2, <1>3, <1>5, <2>1, <2>2, PutTree
  <2>4. done
    BY <1>2, <1>3, <1>5
  <2> QED
    BY <1>1, <1>5, <2>3, <2>4, SamePhase
<1>6. CASE /\ Current.has[p] = "file" /\ rootfs[p].kind = "dir"
           /\ rootfs' = [rootfs EXCEPT ![Inside(p)] = node]
           /\ todo' = todo \ {p} /\ status' = status
  <2>1. /\ Inside(p) \in Places /\ Inside(p) \notin Paths
        /\ Front(Inside(p)) = p
    BY InsideOf
  <2>2. rootfs[Inside(p)].kind \in {"no", "file"} /\ node.kind = "file"
    BY <1>2, <1>3, <1>6, <2>1 DEF Tree
  <2>3. rootfs' \in [Places -> Node] /\ Tree(rootfs')
    <3> DEFINE at == Inside(p)
    <3>1. /\ at \in Places /\ Front(at) \in Places /\ rootfs[Front(at)].kind = "dir"
          /\ rootfs[at].kind # "dir" /\ node.kind = "file"
      BY <1>2, <1>6, <2>1, <2>2
    <3>2. rootfs' = [rootfs EXCEPT ![at] = node]
      BY <1>6
    <3> HIDE DEF at
    <3> QED
      BY <1>2, <1>3, <3>1, <3>2, PutTree
  <2>4. done
    BY <1>2, <1>3, <1>6, <2>1
  <2> QED
    BY <1>1, <1>6, <2>3, <2>4, SamePhase
<1> QED
  BY <1>4, <1>5, <1>6, MergeCases DEF node
\* The phases of a layer follow each other, and the layers.
LEMMA PhaseCases ==
    ASSUME TypeInv, NextPhase
    PROVE  /\ status = "extracting" /\ todo = {} /\ UNCHANGED <<image, rootfs, attempt>>
           /\ \/ /\ phase = "opaque" /\ phase' = "whiteout" /\ todo' = Current.gone
                 /\ layer' = layer /\ status' = status
              \/ /\ phase = "whiteout" /\ phase' = "merge" /\ todo' = Entries(Current)
                 /\ layer' = layer /\ status' = status
              \/ /\ phase = "merge" /\ phase' = "opaque" /\ layer' = layer + 1
                 /\ layer + 1 \in DOMAIN image /\ todo' = image[layer + 1].opaque /\ status' = status
              \/ /\ phase = "merge" /\ layer = Len(image) /\ status' = "done"
                 /\ UNCHANGED <<phase, layer, todo>>
<1>1. /\ phase \in {"opaque", "whiteout", "merge"} /\ layer \in DOMAIN image
      /\ DOMAIN image = 1..Len(image) /\ Len(image) \in Nat
  BY TypeFacts
<1>2. status = "extracting" /\ todo = {} /\ UNCHANGED <<image, rootfs, attempt>>
  BY DEF NextPhase
<1>3. CASE phase = "opaque"
  BY <1>2, <1>3 DEF NextPhase, Current
<1>4. CASE phase = "whiteout"
  BY <1>2, <1>4 DEF NextPhase, Current
<1>5. CASE phase = "merge" /\ layer < Len(image)
  <2>1. layer + 1 \in DOMAIN image
    BY <1>1, <1>5
  <2>2. phase # "opaque" /\ phase # "whiteout" /\ ~ (phase = "merge" /\ layer = Len(image))
    BY <1>1, <1>5
  <2>3. phase' = "opaque" /\ layer' = layer + 1 /\ todo' = image[layer + 1].opaque /\ status' = status
    BY <1>5, <2>2, Zenon DEF NextPhase
  <2> QED
    BY <1>2, <1>5, <2>1, <2>3
<1>6. CASE phase = "merge" /\ layer = Len(image)
  <2>1. status' = "done" /\ UNCHANGED <<phase, layer, todo>>
    BY <1>1, <1>6 DEF NextPhase
  <2> QED
    BY <1>2, <1>6, <2>1
<1> QED
  BY <1>1, <1>3, <1>4, <1>5, <1>6

\* The start of a layer.
LEMMA StartType ==
    ASSUME image' \in Images, rootfs' \in [Places -> Node], Tree(rootfs'),
           layer' \in DOMAIN image', phase' = "opaque", todo' = image'[layer'].opaque,
           status' = "extracting", attempt' \in 1..Attempts
    PROVE  TypeInv'
<1>1. image' \in Seq(Layer) /\ todo' \subseteq Paths
  BY LayerFacts
<1>2. TypeOK'
  BY <1>1 DEF TypeOK, Tree
<1>3. TreeInv'
  BY DEF TreeInv, Treats, MergeDone, Current
<1> QED
  BY <1>2, <1>3 DEF TypeInv

LEMMA NextPhaseType ==
    ASSUME TypeInv, NextPhase
    PROVE  TypeInv'
<1>1. /\ image' = image /\ rootfs' = rootfs /\ attempt' = attempt
      /\ status = "extracting" /\ todo = {}
  BY PhaseCases
<1>2. /\ image \in Images /\ layer \in DOMAIN image /\ rootfs \in [Places -> Node] /\ Tree(rootfs)
      /\ Current.gone \subseteq Paths /\ Entries(Current) \subseteq Paths
  BY TypeFacts DEF Entries
<1>3. attempt' \in 1..Attempts /\ image' \in Images /\ image' \in Seq(Layer)
  BY <1>1, <1>2 DEF TypeInv, TypeOK
<1>4. CASE /\ phase' \in {"whiteout", "merge"} /\ todo' = Treats(phase', Current)
           /\ layer' = layer /\ status' = status
  <2>1. TypeOK'
    BY <1>1, <1>2, <1>3, <1>4 DEF TypeOK, Tree, Treats
  <2>2. (image \in Images /\ Tree(rootfs) /\ todo \subseteq Treats(phase, Current))'
    BY <1>1, <1>2, <1>3, <1>4 DEF Treats, Current
  <2>3. MergeDone' = {}
    BY <1>1, <1>4 DEF MergeDone, Treats, Current
  <2> QED
    BY <1>1, <1>4, <2>1, <2>2, <2>3 DEF TypeInv, TreeInv
<1>5. CASE /\ phase' = "opaque" /\ layer' = layer + 1 /\ layer + 1 \in DOMAIN image
           /\ todo' = image[layer + 1].opaque /\ status' = status
  BY <1>1, <1>2, <1>3, <1>5, StartType
<1>6. CASE /\ phase = "merge" /\ layer = Len(image) /\ status' = "done"
           /\ UNCHANGED <<phase, layer, todo>>
  <2>1. TypeOK'
    BY <1>1, <1>2, <1>3, <1>6 DEF TypeInv, TypeOK
  <2>2. TreeInv'
    BY <1>1, <1>2, <1>6 DEF TypeInv, TreeInv, MergeDone, Current, Treats
  <2> QED
    BY <2>1, <2>2 DEF TypeInv
<1> QED
  BY <1>4, <1>5, <1>6, PhaseCases DEF Treats

LEMMA TypeInit == Init => TypeInv
<1> SUFFICES ASSUME Init PROVE TypeInv
  OBVIOUS
<1>1. /\ image \in Images /\ layer = 1 /\ phase = "opaque" /\ todo = image[1].opaque
      /\ rootfs = [p \in Places |-> Nothing] /\ status = "extracting" /\ attempt = 1
  BY DEF Init
<1>2. /\ 1 \in DOMAIN image /\ image \in Seq(Layer) /\ todo \subseteq Paths
  <2>1. image \in Seq(Layer) /\ image # <<>>
    BY <1>1, LayersAssumption
  <2>2. 1 \in DOMAIN image
    BY <2>1, EmptySeq, LenProperties
  <2> QED
    BY <1>1, <2>1, <2>2, LayerFacts
<1>3. Tree(rootfs) /\ rootfs \in [Places -> Node]
  BY <1>1, NodeFacts DEF Tree
<1>4. TypeOK
  BY <1>1, <1>2, <1>3, LayersAssumption DEF TypeOK, Tree
<1>5. TreeInv
  BY <1>1, <1>3 DEF TreeInv, Treats, MergeDone, Current
<1> QED
  BY <1>4, <1>5 DEF TypeInv

LEMMA TypeStep == TypeInv /\ [Next]_vars => TypeInv'
<1> SUFFICES ASSUME TypeInv, [Next]_vars PROVE TypeInv'
  OBVIOUS
<1>1. ASSUME NEW p \in Paths, ClearOpaque(p) PROVE TypeInv'
  BY <1>1, ClearOpaqueType
<1>2. ASSUME NEW p \in Paths, Whiteout(p) PROVE TypeInv'
  BY <1>2, WhiteoutType
<1>3. ASSUME NEW p \in Paths, Merge(p) PROVE TypeInv'
  BY <1>3, MergeType
<1>4. CASE NextPhase
  BY <1>4, NextPhaseType
<1>5. CASE Kill
  <2>1. /\ UNCHANGED <<image, layer, phase, attempt>> /\ rootfs' = rootfs /\ todo' = todo
        /\ status' = "killed"
    BY <1>5 DEF Kill
  <2>2. phase = "merge" => \A p \in Entries(Current) \ todo :
                              Current.has[p] = "dir" => rootfs[p].kind = "dir"
    BY DEF TypeInv, TreeInv, MergeDone
  <2> QED
    BY <2>1, <2>2, TypeFacts, SamePhase
<1>6. CASE Retry
  <2>1. /\ image' = image /\ rootfs' = rootfs /\ layer' = 1 /\ phase' = "opaque"
        /\ todo' = image[1].opaque /\ status' = "extracting"
        /\ attempt < Attempts /\ attempt' = attempt + 1
    BY <1>6 DEF Retry
  <2>2. attempt' \in 1..Attempts
    BY <2>1, LayersAssumption DEF TypeInv, TypeOK
  <2> QED
    BY <2>1, <2>2, TypeFacts, StartType
<1>7. CASE UNCHANGED vars
  <2>1. TypeOK'
    BY <1>7 DEF vars, TypeInv, TypeOK
  <2>2. TreeInv'
    BY <1>7 DEF vars, TypeInv, TreeInv, MergeDone, Current, Treats
  <2> QED
    BY <2>1, <2>2 DEF TypeInv
<1> QED
  BY <1>1, <1>2, <1>3, <1>4, <1>5, <1>6, <1>7 DEF Next

\* Whatever is removed, replaced or left over, what has been extracted is a tree.
THEOREM TypeCorrect == Spec => []TypeOK
<1>1. TypeInv => TypeOK
  BY DEF TypeInv
<1> QED
  BY TypeInit, TypeStep, <1>1, PTL DEF Spec
----------------------------------------------------------------------------
(* What the layers mean. *)

\* Over a tree lies a tree.
LEMMA OverlayTree ==
    ASSUME NEW img \in Images, NEW n \in DOMAIN img, NEW fs \in [Places -> Node], Tree(fs),
           \A p \in Places \ Paths : fs[p] = Nothing
    PROVE  LET new == Overlay(fs, img[n], n)
           IN  new \in [Places -> Node] /\ Tree(new) /\ \A p \in Places \ Paths : new[p] = Nothing
<1> DEFINE l == img[n]
           new == Overlay(fs, l, n)
           own(p) == IF l.has[p] = "dir" THEN Dir ELSE [kind |-> l.has[p], from |-> n]
           gone(p) == \/ \E q \in l.gone : IsPrefix(q, p)
                      \/ \E q \in l.opaque : IsStrictPrefix(q, p)
                      \/ \E q \in Paths : IsStrictPrefix(q, p) /\ l.has[q] \in {"file", "link"}
<1>1. /\ n \in Nat /\ l.has \in [Paths -> {"no", "dir", "file", "link"}]
      /\ l.gone \subseteq Paths /\ l.opaque \subseteq Paths
      /\ \A p \in Paths, q \in Path :
            l.has[p] # "no" /\ q # <<>> /\ IsStrictPrefix(q, p) => q \in Paths /\ l.has[q] = "dir"
  BY LayerFacts
<1>2. \A p \in Entries(l) : /\ p \in Paths /\ own(p) \in Node /\ own(p).kind = l.has[p] /\ l.has[p] # "no"
                            /\ own(p).kind = "dir" => own(p) = Dir
  BY <1>1, NodeFacts DEF Entries
<1>3. /\ DOMAIN new = Places
      /\ \A p \in Places : new[p] = IF p \in Entries(l) THEN own(p)
                                    ELSE IF gone(p) THEN Nothing ELSE fs[p]
      /\ new = [p \in Places |-> new[p]]
  BY DEF Overlay, Kept
<1>4. \A p \in Paths : p \notin Entries(l) => l.has[p] = "no"
  BY DEF Entries
<1>5. \A p \in Places : gone(Front(p)) => gone(p)
  BY <1>1, FrontPlace, PathFacts
<1>6. \A p \in Places, q \in Paths :
         IsStrictPrefix(q, p) /\ ~ gone(p) => l.has[q] \notin {"file", "link"}
  OBVIOUS
<1> HIDE DEF l, new, own, gone
<1>7. \A p \in Places : new[p] \in Node
  BY <1>2, <1>3, NodeFacts
<1>8. \A p \in Places \ Paths : new[p] = Nothing
  BY <1>2, <1>3
<1>9. ASSUME NEW p \in Places
      PROVE  /\ new[p].kind = "no" => new[p] = Nothing
             /\ new[p].kind = "dir" => new[p] = Dir
             /\ p \notin Paths => new[p].kind \in {"no", "file"}
  BY <1>2, <1>3, <1>8, NodeFacts DEF Tree
<1>10. ASSUME NEW p \in Places, new[p].kind # "no", Len(p) > 1
       PROVE  Front(p) \in Places /\ new[Front(p)].kind = "dir"
  <2>1. p \in Paths
    BY <1>8, <1>10, NodeFacts
  <2>2. Front(p) \in Path /\ Front(p) # <<>> /\ IsStrictPrefix(Front(p), p)
    BY <1>10, FrontPlace, EmptySeq
  <2>3. CASE p \in Entries(l)
    <3>1. Front(p) \in Paths /\ l.has[Front(p)] = "dir"
      BY <1>1, <1>2, <2>1, <2>2, <2>3
    <3>2. Front(p) \in Entries(l)
      BY <3>1 DEF Entries
    <3> QED
      BY <1>2, <1>3, <3>1, <3>2, PlaceFacts
  <2>4. CASE p \notin Entries(l)
    <3>1. ~ gone(p) /\ new[p] = fs[p]
      BY <1>3, <1>10, <2>4, NodeFacts
    <3>2. Front(p) \in Places /\ fs[Front(p)].kind = "dir"
      BY <1>10, <3>1 DEF Tree
    <3>3. Front(p) \in Paths
      BY <3>2, NodeFacts
    <3>4. CASE Front(p) \in Entries(l)
      <4>1. l.has[Front(p)] = "dir"
        BY <1>1, <1>2, <1>6, <2>2, <3>1, <3>3, <3>4
      <4> QED
        BY <1>2, <1>3, <3>2, <3>4, <4>1
    <3>5. CASE Front(p) \notin Entries(l)
      BY <1>3, <1>5, <3>1, <3>2, <3>5
    <3> QED
      BY <3>4, <3>5
  <2> QED
    BY <2>3, <2>4
<1>11. new \in [Places -> Node] /\ Tree(new)
  BY <1>3, <1>7, <1>9, <1>10 DEF Tree
<1> QED
  BY <1>8, <1>11 DEF new, l

\* What the layers mean is a tree, whatever the image.
LEMMA StackTree ==
    ASSUME NEW img \in Images
    PROVE  \A n \in 0..Len(img) :
              /\ Stack(img)[n] \in [Places -> Node] /\ Tree(Stack(img)[n])
              /\ \A p \in Places \ Paths : Stack(img)[n][p] = Nothing
<1> DEFINE Good(fs) == /\ fs \in [Places -> Node] /\ Tree(fs)
                       /\ \A p \in Places \ Paths : fs[p] = Nothing
           T == {n \in 0..Len(img) : Good(Stack(img)[n])}
<1>1. Len(img) \in Nat /\ DOMAIN img = 1..Len(img)
  BY LayersAssumption, LenProperties
<1>2. /\ Stack(img)[0] = [p \in Places |-> Nothing]
      /\ \A n \in 1..Len(img) : Stack(img)[n] = Overlay(Stack(img)[n - 1], img[n], n)
  BY <1>1, StackDef
<1>3. Good([p \in Places |-> Nothing])
  BY NodeFacts DEF Tree
<1>4. \A fs : \A n \in DOMAIN img : Good(fs) => Good(Overlay(fs, img[n], n))
  BY OverlayTree
<1> HIDE DEF Good
<1>5. 0 \in T
  BY <1>1, <1>2, <1>3
<1>6. ASSUME NEW n \in T, n < Len(img) PROVE n + 1 \in T
  <2>1. n + 1 \in 1..Len(img) /\ n + 1 \in 0..Len(img) /\ (n + 1) - 1 = n
    BY <1>1, <1>6
  <2>2. Stack(img)[n + 1] = Overlay(Stack(img)[n], img[n + 1], n + 1)
    BY <1>2, <2>1
  <2>3. Good(Stack(img)[n + 1])
    BY <1>1, <1>4, <2>1, <2>2
  <2> QED
    BY <2>1, <2>3
<1>7. \A n \in 0..Len(img) : n \in T
  <2> HIDE DEF T
  <2>1. T \subseteq Nat
    BY <1>1 DEF T
  <2> QED
    BY <1>1, <1>5, <1>6, <2>1, UpToBound
<1> QED
  BY <1>7 DEF Good

LEMMA LowerFacts ==
    ASSUME TypeInv
    PROVE  /\ Lower \in [Places -> Node] /\ Tree(Lower)
           /\ \A p \in Places \ Paths : Lower[p] = Nothing
           /\ UpTo(layer) = Overlay(Lower, Current, layer)
           /\ UpTo(0) = [p \in Places |-> Nothing]
<1>1. /\ image \in Images /\ Len(image) \in Nat /\ layer \in 1..Len(image) /\ layer - 1 \in 0..Len(image)
  BY TypeFacts
<1>2. /\ Stack(image)[0] = [p \in Places |-> Nothing]
      /\ Stack(image)[layer] = Overlay(Stack(image)[layer - 1], image[layer], layer)
  BY <1>1, StackDef
<1>3. /\ Stack(image)[layer - 1] \in [Places -> Node] /\ Tree(Stack(image)[layer - 1])
      /\ \A p \in Places \ Paths : Stack(image)[layer - 1][p] = Nothing
  BY <1>1, StackTree
<1> QED
  BY <1>2, <1>3 DEF Lower, Current, UpTo

\* What a plain image says of the layer that is being applied.
LEMMA PlainFacts ==
    ASSUME TypeInv, Plain
    PROVE  /\ \A p \in Paths : Kept(Lower, Current, p).kind = "dir" => Current.has[p] \in {"no", "dir"}
           /\ \A p \in Paths : Kept(Lower, Current, p).kind = "file" => Current.has[p] # "dir"
           /\ \A p \in Current.opaque : Lower[p].kind = "dir"
           /\ \A p \in Current.gone : Lower[p].kind # "no"
<1>1. layer \in DOMAIN image
  BY TypeFacts
<1> QED
  BY <1>1 DEF Plain, Lower, Current

LEMMA ExactFacts ==
    ASSUME TypeInv
    PROVE  /\ \A p \in Places : Exact(p) \in Node /\ (Exact(p).kind = "no" => Exact(p) = Nothing)
                                /\ (Exact(p).kind = "dir" => Exact(p) = Dir)
           /\ \A p \in Places \ Paths : Exact(p) = Nothing
           /\ MergeDone \subseteq Entries(Current) /\ MergeDone \subseteq Paths
<1>1. MergeDone \subseteq Entries(Current) /\ Entries(Current) \subseteq Paths
  BY DEF MergeDone, Entries
<1>2. \A p \in Entries(Current) : /\ EntryOf(layer, p) \in Node /\ EntryOf(layer, p).kind # "no"
                                  /\ EntryOf(layer, p).kind = "dir" => EntryOf(layer, p) = Dir
  BY TypeFacts, EntryType DEF Current
<1> QED
  BY <1>1, <1>2, LowerFacts, NodeFacts DEF Exact, Tree

\* Where the layers below have a directory and nothing of this one has been put yet, there
\* is that directory, or nothing: what a marker names is reached without following a link.
LEMMA DirectoriesAbove ==
    ASSUME TypeInv, StaleInv, phase # "merge", NEW q \in Paths, Lower[q].kind = "dir"
    PROVE  rootfs[q] \in {Nothing, Dir} /\ At(rootfs, q).kind \in {"no", "dir"}
<1>1. q \in Places /\ Lower[q] = Dir
  BY PlaceFacts, LowerFacts DEF Tree
<1>2. Exact(q) = IF Struck(q) THEN Nothing ELSE Dir
  BY <1>1 DEF Exact, MergeDone
<1>3. ASSUME Struck(q) PROVE rootfs[q] = Nothing
  BY <1>1, <1>3 DEF StaleInv
<1>4. ASSUME ~ Struck(q) PROVE rootfs[q] = Dir
  <2>1. Exact(q) = Dir
    BY <1>2, <1>4
  <2>2. StaleAt(q)
    BY DEF StaleInv
  <2> QED
    BY <2>1, <2>2, NodeFacts DEF StaleAt
<1>5. rootfs[q] \in {Nothing, Dir}
  BY <1>3, <1>4
<1> QED
  BY <1>1, <1>5, NodeFacts, TypeFacts DEF At

\* In the merge, what is meant at an entry that has not been put yet is what the layer keeps.
LEMMA KeptIsExact ==
    ASSUME TypeInv, NEW p \in Entries(Current), p \notin MergeDone, phase = "merge"
    PROVE  Exact(p) = Kept(Lower, Current, p)
<1>1. p \in Paths /\ Current.has[p] # "no"
  BY DEF Entries
<1>2. \A q \in Path : q # <<>> /\ IsStrictPrefix(q, p) => Current.has[q] = "dir"
  BY <1>1, TypeFacts, LayerFacts DEF Current
<1>3. ~ \E q \in Paths : IsStrictPrefix(q, p) /\ Current.has[q] \in {"file", "link"}
  BY <1>2, PathFacts
<1>4. GoneDone = Current.gone /\ OpaqueDone = Current.opaque
  BY DEF GoneDone, OpaqueDone
<1> QED
  BY <1>3, <1>4 DEF Exact, Kept, Struck

\* At the end of the merge, what is meant is the layer over the ones below.
LEMMA MergeComplete ==
    ASSUME TypeInv, Plain, phase = "merge", todo = {}
    PROVE  \A p \in Places : Exact(p) = UpTo(layer)[p]
<1> SUFFICES ASSUME NEW p \in Places PROVE Exact(p) = UpTo(layer)[p]
  OBVIOUS
<1> DEFINE blocked(x) == \E q \in Paths : IsStrictPrefix(q, x) /\ Current.has[q] \in {"file", "link"}
<1>1. /\ MergeDone = Entries(Current)
      /\ GoneDone = Current.gone /\ OpaqueDone = Current.opaque
  BY DEF MergeDone, GoneDone, OpaqueDone
<1>2. \A x : Kept(Lower, Current, x) = IF Struck(x) \/ blocked(x) THEN Nothing ELSE Lower[x]
  BY <1>1 DEF Kept, Struck
<1>3. UpTo(layer)[p] = IF p \in Entries(Current) THEN EntryOf(layer, p) ELSE Kept(Lower, Current, p)
  BY LowerFacts DEF Overlay, EntryOf, Current
<1>4. ASSUME blocked(p), ~ Struck(p), Lower[p].kind # "no" PROVE FALSE
  <2>1. PICK q \in Paths : IsStrictPrefix(q, p) /\ Current.has[q] \in {"file", "link"}
    BY <1>4
  <2>2. q \in Path /\ q # <<>> /\ p \in Path
    BY PathFacts, PlaceFacts
  <2>3. Lower[q].kind = "dir"
    BY <1>4, <2>1, <2>2, LowerFacts, TreeAncestors
  <2>4. ~ Struck(q)
    <3>1. \A r \in Paths : /\ IsPrefix(r, q) => IsPrefix(r, p)
                           /\ IsStrictPrefix(r, q) => IsStrictPrefix(r, p)
      BY <2>1, <2>2, PathFacts, PrefixOrder DEF IsStrictPrefix
    <3> QED
      BY <1>1, <1>4, <3>1, TypeFacts DEF Struck
  <2>5. ~ blocked(q)
    <3>1. \A r \in Path : r # <<>> /\ IsStrictPrefix(r, q) => Current.has[r] = "dir"
      BY <2>1, TypeFacts, LayerFacts DEF Current
    <3> QED
      BY <3>1, PathFacts
  <2>6. Kept(Lower, Current, q).kind = "dir"
    BY <1>2, <2>3, <2>4, <2>5
  <2> QED
    BY <2>1, <2>6, PlainFacts
<1>5. ~ Struck(p) /\ blocked(p) => Lower[p] = Nothing
  BY <1>4, LowerFacts DEF Tree
<1> HIDE DEF blocked
<1> QED
  BY <1>1, <1>2, <1>3, <1>5 DEF Exact

----------------------------------------------------------------------------
(* What is left over is what is still to come. *)

\* A step that leaves the image alone leaves what is said of it.
LEMMA SameImage ==
    ASSUME image' = image
    PROVE  /\ Plain' <=> Plain
           /\ KeepsDirectories' <=> KeepsDirectories
           /\ \A k, p : EntryOf(k, p)' = EntryOf(k, p)
           /\ \A k, p, kind : Puts(k, p, kind)' <=> Puts(k, p, kind)
           /\ \A n : UpTo(n)' = UpTo(n)
BY DEF Plain, KeepsDirectories, EntryOf, Puts, UpTo

\* A marker removes what is at a set of places, and means that it is removed.
LEMMA Strike ==
    ASSUME TypeInv, PlainInv, status = "extracting", phase # "merge",
           UNCHANGED <<image, layer, phase, attempt, status>>,
           NEW Z, \A p \in Paths : p \in Z => Inside(p) \in Z,
           \A p \in Places : rootfs'[p] = IF p \in Z THEN Nothing ELSE rootfs[p],
           \A p \in Places : Struck(p)' <=> Struck(p) \/ p \in Z
    PROVE  PlainInv'
<1>1. /\ \A k, p : EntryOf(k, p)' = EntryOf(k, p)
      /\ \A k, p, kind : Puts(k, p, kind)' <=> Puts(k, p, kind)
      /\ KeepsDirectories' <=> KeepsDirectories
      /\ Lower' = Lower
  BY SameImage DEF Lower
<1>2. \A k, p : Remaining(k, p)' <=> Remaining(k, p)
  BY DEF Remaining
<1>3. \A p \in Places : Exact(p)' = IF p \in Z THEN Nothing ELSE Exact(p)
  <2>1. MergeDone = {} /\ MergeDone' = {}
    BY DEF MergeDone
  <2> QED
    BY <1>1, <2>1 DEF Exact
<1>4. \A p \in Paths : p \in Places /\ Inside(p) \in Places
  BY PlaceFacts, InsideOf
<1>5. ASSUME NEW p \in Paths PROVE LeftoverAt(p)'
  <2>1. LeftoverAt(p)
    BY DEF PlainInv
  <2> QED
    BY <1>1, <1>4, <2>1 DEF LeftoverAt
<1>6. StaleInv
  BY DEF PlainInv
<1>7. ASSUME NEW p \in Paths PROVE StaleAt(p)'
  <2>1. StaleAt(p)
    BY <1>6 DEF StaleInv
  <2>2. CASE p \in Z
    <3>1. Exact(p)' = Nothing /\ rootfs'[p] = Nothing /\ rootfs'[Inside(p)] = Nothing
      BY <1>3, <1>4, <2>2
    <3> QED
      BY <3>1 DEF StaleAt
  <2>3. CASE p \notin Z
    <3>1. /\ Exact(p)' = Exact(p) /\ rootfs'[p] = rootfs[p]
          /\ rootfs'[Inside(p)] # Nothing => rootfs'[Inside(p)] = rootfs[Inside(p)]
      BY <1>3, <1>4, <2>3
    <3> QED
      BY <1>1, <1>2, <2>1, <3>1 DEF StaleAt
  <2> QED
    BY <2>2, <2>3
<1>8. StaleInv'
  <2>1. (\A p \in Places : Struck(p) => rootfs[p] = Nothing)'
    BY <1>6 DEF StaleInv
  <2> QED
    BY <1>7, <2>1 DEF StaleInv
<1>9. attempt = 1 => FreshInv'
  BY <1>3 DEF PlainInv, FreshInv
<1> QED
  BY <1>1, <1>5, <1>8, <1>9 DEF PlainInv
\* The opaque directory of a plain image is reached literally and is no file.
LEMMA ClearOpaquePlain ==
    ASSUME TypeInv, Plain, PlainInv, NEW p \in Paths, ClearOpaque(p)
    PROVE  PlainInv'
<1>1. /\ phase = "opaque" /\ status = "extracting" /\ p \in todo /\ p \in Current.opaque
      /\ todo \subseteq Current.opaque /\ UNCHANGED <<image, layer, phase, attempt>>
      /\ p \in Path /\ p # <<>> /\ p \in Places
  BY PathFacts, PlaceFacts DEF ClearOpaque, Extracting, TypeInv, TreeInv, Treats
<1>2. StaleInv
  BY <1>1 DEF PlainInv
<1>3. Lower[p].kind = "dir"
  BY <1>1, PlainFacts
<1>4. ASSUME NEW q \in Path, q # <<>>, IsPrefix(q, p)
      PROVE  At(rootfs, q).kind \in {"no", "dir"}
  <2>1. q \in Places /\ Lower[q].kind = "dir"
    BY <1>1, <1>3, <1>4, LowerFacts, TreeAncestors DEF IsStrictPrefix
  <2>2. q \in Paths
    BY <2>1, LowerFacts, NodeFacts
  <2> QED
    BY <1>1, <1>2, <2>1, <2>2, DirectoriesAbove
<1>5. Resolved(rootfs, p) = p
  BY <1>1, <1>4, ResolvedLiteral
<1>6. At(rootfs, p).kind # "file"
  BY <1>1, <1>4, PrefixOrder
<1>7. rootfs' = Emptied(rootfs, p) /\ todo' = todo \ {p} /\ status' = status
  BY <1>5, <1>6 DEF ClearOpaque
<1> DEFINE Z == {x \in Path : IsStrictPrefix(p, x)}
<1>8. \A x \in Places : rootfs'[x] = IF x \in Z THEN Nothing ELSE rootfs[x]
  BY <1>7, TypeFacts, PlaceFacts DEF Emptied
<1>9. \A x \in Places : Struck(x)' <=> Struck(x) \/ x \in Z
  <2>1. OpaqueDone' = OpaqueDone \cup {p} /\ GoneDone = {} /\ GoneDone' = {}
    BY <1>1, <1>7 DEF OpaqueDone, GoneDone, Current
  <2> QED
    BY <2>1, PlaceFacts DEF Struck
<1>10. \A x \in Paths : x \in Z => Inside(x) \in Z
  <2>1. \A x \in Paths : IsStrictPrefix(p, x) => IsStrictPrefix(p, Inside(x))
    BY <1>1, AboveInside DEF IsStrictPrefix
  <2> QED
    BY <2>1, InsideOf
<1> HIDE DEF Z
<1> QED
  BY <1>1, <1>7, <1>8, <1>9, <1>10, Strike

\* So is what the whiteout of a plain image names.
LEMMA WhiteoutPlain ==
    ASSUME TypeInv, Plain, PlainInv, NEW p \in Paths, Whiteout(p)
    PROVE  PlainInv'
<1>1. /\ phase = "whiteout" /\ status = "extracting" /\ p \in todo /\ p \in Current.gone
      /\ todo \subseteq Current.gone /\ UNCHANGED <<image, layer, phase, attempt>>
      /\ p \in Path /\ p # <<>> /\ p \in Places
  BY PathFacts, PlaceFacts DEF Whiteout, Extracting, TypeInv, TreeInv, Treats
<1>2. StaleInv
  BY <1>1 DEF PlainInv
<1>3. Lower[p].kind # "no"
  BY <1>1, PlainFacts
<1>4. /\ Front(p) \in Path /\ Append(Front(p), Last(p)) = p
  BY <1>1, FrontOf
<1>5. ASSUME NEW q \in Path, q # <<>>, IsPrefix(q, Front(p))
      PROVE  At(rootfs, q).kind # "link"
  <2>1. IsStrictPrefix(q, p)
    BY <1>1, <1>5, PrefixOfFront
  <2>2. q \in Places /\ Lower[q].kind = "dir"
    BY <1>1, <1>3, <1>5, <2>1, LowerFacts, TreeAncestors
  <2>3. q \in Paths
    BY <2>2, LowerFacts, NodeFacts
  <2>4. At(rootfs, q).kind \in {"no", "dir"}
    BY <1>1, <1>2, <2>2, <2>3, DirectoriesAbove
  <2> QED
    BY <2>4
<1>6. Resolved(rootfs, Front(p)) = Front(p)
  BY <1>4, <1>5, ResolvedLiteral
<1>7. rootfs' = Without(rootfs, p) /\ todo' = todo \ {p} /\ status' = status
  BY <1>4, <1>6 DEF Whiteout
<1> DEFINE Z == {x \in Path : IsPrefix(p, x)}
<1>8. \A x \in Places : rootfs'[x] = IF x \in Z THEN Nothing ELSE rootfs[x]
  BY <1>7, TypeFacts, PlaceFacts DEF Without
<1>9. \A x \in Places : Struck(x)' <=> Struck(x) \/ x \in Z
  <2>1. GoneDone' = GoneDone \cup {p} /\ OpaqueDone' = OpaqueDone
    BY <1>1, <1>7 DEF OpaqueDone, GoneDone, Current
  <2> QED
    BY <2>1, PlaceFacts DEF Struck
<1>10. \A x \in Paths : x \in Z => Inside(x) \in Z
  BY <1>1, AboveInside, InsideOf
<1> HIDE DEF Z
<1> QED
  BY <1>1, <1>7, <1>8, <1>9, <1>10, Strike

\* The merge of a plain image takes what is left over for what the layer says, or raises.
LEMMA MergeMeaning ==
    ASSUME TypeInv, Plain, PlainInv, NEW p \in Paths, Merge(p)
    PROVE  /\ status = "extracting" /\ StaleInv /\ StaleAt(p) /\ LeftoverAt(p) /\ layer \in DOMAIN image
           /\ Puts(layer, p, Current.has[p]) /\ Current.has[p] # "no" /\ Remaining(layer, p)
           /\ Exact(p) = Dir => Current.has[p] = "dir"
           /\ Exact(p).kind = "file" => Current.has[p] # "dir"
<1>1. /\ phase = "merge" /\ status = "extracting" /\ p \in todo /\ p \in Entries(Current)
      /\ layer \in DOMAIN image
  BY MergeCases, TypeFacts
<1>2. /\ p \notin MergeDone /\ Puts(layer, p, Current.has[p]) /\ Current.has[p] # "no"
      /\ Remaining(layer, p)
  BY <1>1, TypeFacts DEF MergeDone, Puts, Remaining, Current, Entries
<1>3. Exact(p) = Kept(Lower, Current, p)
  BY <1>1, <1>2, KeptIsExact
<1>4. StaleInv /\ StaleAt(p) /\ LeftoverAt(p)
  BY <1>1 DEF PlainInv, StaleInv
<1> QED
  BY <1>1, <1>2, <1>3, <1>4, PlainFacts, NodeFacts

\* It raises only over what an earlier attempt left where the type of a path changes.
LEMMA MergeRaises ==
    ASSUME TypeInv, Plain, PlainInv, NEW p \in Paths, Merge(p),
           <<Current.has[p], rootfs[p].kind>> \in {<<"link", "dir">>, <<"dir", "file">>},
           UNCHANGED <<image, rootfs, attempt>>, status' = "failed"
    PROVE  PlainInv'
<1>1. /\ status = "extracting" /\ StaleInv /\ LeftoverAt(p) /\ layer \in DOMAIN image
      /\ Exact(p) = Dir => Current.has[p] = "dir"
      /\ Exact(p).kind = "file" => Current.has[p] # "dir"
      /\ p \in Places /\ rootfs[p] \in Node /\ (rootfs[p].kind = "dir" => rootfs[p] = Dir)
      /\ rootfs[p] # Nothing
  BY MergeMeaning, PlaceFacts, TypeFacts, NodeFacts DEF Tree
<1>2. attempt # 1
  <2> SUFFICES ASSUME attempt = 1 PROVE FALSE
    OBVIOUS
  <2>1. rootfs[p] = Exact(p)
    BY <1>1 DEF PlainInv, FreshInv
  <2> QED
    BY <1>1, <2>1
<1>3. ~ KeepsDirectories
  <2>1. PICK k \in DOMAIN image : image[k].has[p] # "no" /\ rootfs[p] = EntryOf(k, p)
    BY <1>1 DEF LeftoverAt
  <2>2. p \in Entries(image[k])
    BY <2>1 DEF Entries
  <2>3. image[k].has[p] = rootfs[p].kind
    BY <2>1, <2>2, EntryType
  <2>4. \/ image[k].has[p] = "dir" /\ image[layer].has[p] = "link"
        \/ image[k].has[p] = "file" /\ image[layer].has[p] = "dir"
    BY <2>3 DEF Current
  <2> QED
    BY <1>1, <2>4 DEF KeepsDirectories
<1>4. \A x \in Paths : LeftoverAt(x)'
  BY SameImage DEF PlainInv, LeftoverAt
<1> QED
  BY <1>2, <1>3, <1>4, SameImage DEF PlainInv

\* An entry has been treated: what it leaves elsewhere and what it means elsewhere is as
\* before.
LEMMA Treated ==
    ASSUME TypeInv, PlainInv, status = "extracting", phase = "merge", NEW p \in Entries(Current),
           p \in todo, UNCHANGED <<image, layer, phase, attempt, status>>, todo' = todo \ {p},
           \A x \in Places \ {p, Inside(p)} : rootfs'[x] = rootfs[x],
           LeftoverAt(p)', StaleAt(p)',
           attempt = 1 => rootfs'[p] = EntryOf(layer, p) /\ rootfs'[Inside(p)] = Nothing
    PROVE  PlainInv'
<1>0. p \in Paths /\ p \in Places /\ Inside(p) \in Places /\ Inside(p) \notin Paths
  BY InsideOf, PlaceFacts DEF Entries
<1>1. /\ \A k, x : EntryOf(k, x)' = EntryOf(k, x)
      /\ \A k, x, kind : Puts(k, x, kind)' <=> Puts(k, x, kind)
      /\ KeepsDirectories' <=> KeepsDirectories
      /\ Lower' = Lower
  BY SameImage DEF Lower
<1>2. \A k, x : x # p => (Remaining(k, x)' <=> Remaining(k, x))
  BY DEF Remaining
<1>3. /\ MergeDone' = MergeDone \cup {p}
      /\ \A x : Struck(x)' <=> Struck(x)
  BY DEF MergeDone, Struck, GoneDone, OpaqueDone, Current
<1>4. /\ \A x : x # p => Exact(x)' = Exact(x)
      /\ Exact(p)' = EntryOf(layer, p)
  BY <1>1, <1>3 DEF Exact
<1>5. \A x \in Paths : x # p => /\ x \in Places /\ rootfs'[x] = rootfs[x]
                                /\ rootfs'[Inside(x)] = rootfs[Inside(x)]
  <2>1. \A x \in Paths : x # p => /\ x \in Places \ {p, Inside(p)}
                                  /\ Inside(x) \in Places \ {p, Inside(p)}
    BY <1>0, PlaceFacts, InsideOf
  <2> QED
    BY <2>1
<1>6. StaleInv
  BY DEF PlainInv
<1>7. ASSUME NEW x \in Paths, x # p PROVE LeftoverAt(x)' /\ StaleAt(x)'
  <2>1. LeftoverAt(x) /\ StaleAt(x)
    BY <1>6 DEF PlainInv, StaleInv
  <2>2. LeftoverAt(x)'
    BY <1>1, <1>5, <1>7, <2>1 DEF LeftoverAt
  <2>3. StaleAt(x)'
    BY <1>1, <1>2, <1>4, <1>5, <1>7, <2>1 DEF StaleAt
  <2> QED
    BY <2>2, <2>3
<1>8. StaleInv'
  BY <1>7 DEF StaleInv
<1>9. ASSUME attempt = 1 PROVE FreshInv'
  <2>1. FreshInv
    BY <1>9 DEF PlainInv
  <2>2. Exact(Inside(p))' = Nothing
    <3>1. Exact(Inside(p)) = Nothing
      BY <1>0, ExactFacts
    <3>2. Inside(p) # p
      BY <1>0
    <3> QED
      BY <1>4, <3>1, <3>2
  <2>3. \A x \in Places : rootfs'[x] = Exact(x)'
    BY <1>0, <1>4, <1>9, <2>1, <2>2 DEF FreshInv
  <2> QED
    BY <2>3 DEF FreshInv
<1> QED
  BY <1>1, <1>7, <1>8, <1>9 DEF PlainInv

\* What the entry for p means once it has been treated, and who is still to come there.
LEMMA TreatedFacts ==
    ASSUME TypeInv, PlainInv, phase = "merge", NEW p \in Entries(Current), p \in todo,
           UNCHANGED <<image, layer, phase>>, todo' = todo \ {p}
    PROVE  /\ Exact(p)' = EntryOf(layer, p) /\ EntryOf(layer, p) # Nothing
           /\ \A k \in DOMAIN image : Remaining(k, p)' <=> k > layer
           /\ \A k \in DOMAIN image : Remaining(k, p) <=> k > layer \/ k = layer
           /\ \A k, x : EntryOf(k, x)' = EntryOf(k, x)
           /\ \A k, x, kind : Puts(k, x, kind)' <=> Puts(k, x, kind)
<1>1. /\ \A k, x : EntryOf(k, x)' = EntryOf(k, x)
      /\ \A k, x, kind : Puts(k, x, kind)' <=> Puts(k, x, kind)
  BY SameImage
<1>2. p \in MergeDone'
  BY DEF MergeDone, Current
<1>3. Exact(p)' = EntryOf(layer, p)
  BY <1>1, <1>2 DEF Exact
<1>4. EntryOf(layer, p) # Nothing
  BY TypeFacts, EntryType DEF Current
<1>5. \A k \in DOMAIN image : Remaining(k, p)' <=> k > layer
  BY DEF Remaining
<1>6. \A k \in DOMAIN image : Remaining(k, p) <=> k > layer \/ k = layer
  BY DEF Remaining
<1> QED
  BY <1>1, <1>3, <1>4, <1>5, <1>6

\* An entry put at its path.
LEMMA MergePuts ==
    ASSUME TypeInv, Plain, PlainInv, NEW p \in Paths, Merge(p),
           Current.has[p] = "link" => rootfs[p].kind # "dir",
           Current.has[p] = "file" => rootfs[p].kind # "dir",
           rootfs' = [rootfs EXCEPT ![p] = EntryOf(layer, p)],
           todo' = todo \ {p}, status' = status
    PROVE  PlainInv'
<1>1. /\ phase = "merge" /\ status = "extracting" /\ p \in todo /\ p \in Entries(Current)
      /\ UNCHANGED <<image, layer, phase, attempt>> /\ layer \in DOMAIN image
      /\ rootfs \in [Places -> Node] /\ Tree(rootfs) /\ DOMAIN image \subseteq Nat
      /\ Current.has[p] \in {"dir", "file", "link"}
  <2>1. /\ phase = "merge" /\ status = "extracting" /\ p \in todo /\ p \in Entries(Current)
        /\ UNCHANGED <<image, layer, phase, attempt>>
    BY MergeCases
  <2>2. /\ layer \in DOMAIN image /\ rootfs \in [Places -> Node] /\ Tree(rootfs)
        /\ DOMAIN image \subseteq Nat
        /\ Current.has \in [Paths -> {"no", "dir", "file", "link"}]
    BY TypeFacts
  <2> QED
    BY <2>1, <2>2 DEF Entries
<1>2. /\ StaleAt(p) /\ LeftoverAt(p) /\ Puts(layer, p, Current.has[p]) /\ Current.has[p] # "no"
      /\ Exact(p).kind = "file" => Current.has[p] # "dir"
  BY MergeMeaning
<1>3. /\ Exact(p)' = EntryOf(layer, p) /\ EntryOf(layer, p) # Nothing
      /\ \A k \in DOMAIN image : Remaining(k, p)' <=> k > layer
      /\ \A k \in DOMAIN image : Remaining(k, p) <=> k > layer \/ k = layer
      /\ \A k, x : EntryOf(k, x)' = EntryOf(k, x)
      /\ \A k, x, kind : Puts(k, x, kind)' <=> Puts(k, x, kind)
  BY <1>1, TreatedFacts
<1>4. /\ p \in Places /\ Inside(p) \in Places /\ Inside(p) # p /\ Front(Inside(p)) = p
      /\ Len(Inside(p)) > 1 /\ Inside(p) \notin Paths
  BY InsideOf, PlaceFacts
<1>5. /\ rootfs'[p] = EntryOf(layer, p) /\ rootfs'[Inside(p)] = rootfs[Inside(p)]
      /\ \A x \in Places \ {p} : rootfs'[x] = rootfs[x]
  BY <1>1, <1>4
<1>6. LeftoverAt(p)'
  BY <1>1, <1>2, <1>3, <1>5 DEF LeftoverAt, Current
<1>7. ASSUME rootfs[Inside(p)] # Nothing
      PROVE  \E m, k \in DOMAIN image :
                m < k /\ Puts(m, p, "file") /\ Puts(k, p, "dir") /\ k > layer /\ m > layer
  <2>1. rootfs[p].kind = "dir"
    BY <1>1, <1>4, <1>7, NodeFacts DEF Tree
  <2>2. Current.has[p] = "dir"
    BY <1>1, <2>1
  <2>3. PICK m, k \in DOMAIN image :
           /\ m < k /\ Puts(m, p, "file") /\ Puts(k, p, "dir") /\ Remaining(k, p)
           /\ Remaining(m, p) \/ Exact(p).kind = "file"
    BY <1>2, <1>7 DEF StaleAt
  <2>4. Remaining(m, p)
    BY <1>2, <2>2, <2>3
  <2>5. m # layer
    BY <2>2, <2>3 DEF Puts, Current
  <2>6. m > layer /\ k > layer
    BY <1>1, <1>3, <2>3, <2>4, <2>5
  <2> QED
    BY <2>3, <2>6
<1>8. StaleAt(p)'
  <2>1. (Exact(p) # Nothing /\ rootfs[p] = Exact(p))'
    BY <1>3, <1>5
  <2>2. ASSUME rootfs'[Inside(p)] # Nothing
        PROVE  (\E m, k \in DOMAIN image :
                  /\ m < k /\ Puts(m, p, "file") /\ Puts(k, p, "dir") /\ Remaining(k, p)
                  /\ Remaining(m, p) \/ Exact(p).kind = "file")'
    <3>1. PICK m, k \in DOMAIN image :
             m < k /\ Puts(m, p, "file") /\ Puts(k, p, "dir") /\ k > layer /\ m > layer
      BY <1>5, <1>7, <2>2
    <3>2. m \in DOMAIN image' /\ k \in DOMAIN image'
      BY <1>1
    <3> QED
      BY <1>3, <3>1, <3>2
  <2> QED
    BY <2>1, <2>2 DEF StaleAt
<1>9. ASSUME attempt = 1 PROVE rootfs'[Inside(p)] = Nothing
  <2>1. FreshInv
    BY <1>1, <1>9 DEF PlainInv
  <2> QED
    BY <1>4, <1>5, <2>1, ExactFacts DEF FreshInv
<1> QED
  BY <1>1, <1>5, <1>6, <1>8, <1>9, Treated

\* A file put inside a directory that is left over.
LEMMA MergeInside ==
    ASSUME TypeInv, Plain, PlainInv, NEW p \in Paths, Merge(p),
           Current.has[p] = "file", rootfs[p].kind = "dir",
           rootfs' = [rootfs EXCEPT ![Inside(p)] = EntryOf(layer, p)],
           todo' = todo \ {p}, status' = status
    PROVE  PlainInv'
<1>1. /\ phase = "merge" /\ status = "extracting" /\ p \in todo /\ p \in Entries(Current)
      /\ UNCHANGED <<image, layer, phase, attempt>> /\ layer \in DOMAIN image
      /\ rootfs \in [Places -> Node] /\ DOMAIN image \subseteq Nat
  <2>1. /\ phase = "merge" /\ status = "extracting" /\ p \in todo /\ p \in Entries(Current)
        /\ UNCHANGED <<image, layer, phase, attempt>>
    BY MergeCases
  <2>2. layer \in DOMAIN image /\ rootfs \in [Places -> Node] /\ DOMAIN image \subseteq Nat
    BY TypeFacts
  <2> QED
    BY <2>1, <2>2
<1>2. /\ StaleAt(p) /\ LeftoverAt(p) /\ Puts(layer, p, "file")
      /\ Exact(p) # Dir
  BY MergeMeaning
<1>3. /\ Exact(p)' = EntryOf(layer, p) /\ EntryOf(layer, p) # Nothing
      /\ \A k \in DOMAIN image : Remaining(k, p)' <=> k > layer
      /\ \A k \in DOMAIN image : Remaining(k, p) <=> k > layer \/ k = layer
      /\ \A k, x : EntryOf(k, x)' = EntryOf(k, x)
      /\ \A k, x, kind : Puts(k, x, kind)' <=> Puts(k, x, kind)
  BY <1>1, TreatedFacts
<1>4. EntryOf(layer, p).kind = "file"
  BY <1>1, EntryType DEF Current
<1>5. p \in Places /\ Inside(p) \in Places /\ Inside(p) # p /\ rootfs[p] = Dir
  BY InsideOf, PlaceFacts, TypeFacts DEF Tree
<1>6. /\ rootfs'[p] = Dir /\ rootfs'[Inside(p)] = EntryOf(layer, p)
      /\ \A x \in Places \ {Inside(p)} : rootfs'[x] = rootfs[x]
  BY <1>1, <1>5
<1>7. PICK k \in DOMAIN image : Puts(k, p, "dir") /\ k > layer
  <2>1. \E k \in DOMAIN image : Puts(k, p, "dir") /\ Remaining(k, p)
    <3>1. CASE Exact(p) # Nothing
      BY <1>2, <1>5, <3>1 DEF StaleAt
    <3>2. CASE Exact(p) = Nothing
      <4>1. PICK k \in DOMAIN image :
               image[k].has[p] # "no" /\ rootfs[p] = EntryOf(k, p) /\ Remaining(k, p)
        BY <1>2, <1>5, <3>2, NodeFacts DEF StaleAt
      <4>2. image[k].has[p] = "dir"
        <5>1. p \in Entries(image[k])
          BY <4>1 DEF Entries
        <5> QED
          BY <1>5, <4>1, <5>1, EntryType, NodeFacts
      <4> QED
        BY <4>1, <4>2 DEF Puts
    <3> QED
      BY <3>1, <3>2
  <2>2. PICK k \in DOMAIN image : Puts(k, p, "dir") /\ Remaining(k, p)
    BY <2>1
  <2>3. k # layer
    BY <2>2 DEF Puts, Current
  <2> QED
    BY <1>3, <2>2, <2>3
<1>8. layer < k /\ k \in DOMAIN image' /\ layer \in DOMAIN image'
  BY <1>1, <1>7
<1>9. LeftoverAt(p)'
  <2>1. (\E j \in DOMAIN image : image[j].has[p] # "no" /\ rootfs[p] = EntryOf(j, p))'
    BY <1>1, <1>2, <1>3, <1>5, <1>6, NodeFacts DEF LeftoverAt
  <2>2. (\E m, j \in DOMAIN image : m < j /\ Puts(m, p, "file") /\ Puts(j, p, "dir"))'
    BY <1>2, <1>3, <1>7, <1>8
  <2> QED
    BY <2>1, <2>2 DEF LeftoverAt
<1>10. StaleAt(p)'
  <2>1. (Exact(p) # Nothing /\ Exact(p).kind = "file" /\ rootfs[p] = Dir)'
    BY <1>3, <1>4, <1>6
  <2>2. (\E j \in DOMAIN image : Puts(j, p, "dir") /\ Remaining(j, p))'
    BY <1>3, <1>7, <1>8
  <2>3. (\E m, j \in DOMAIN image :
             /\ m < j /\ Puts(m, p, "file") /\ Puts(j, p, "dir") /\ Remaining(j, p)
             /\ Remaining(m, p) \/ Exact(p).kind = "file")'
    BY <1>2, <1>3, <1>7, <1>8, <2>1
  <2> QED
    BY <2>1, <2>2, <2>3 DEF StaleAt
<1>11. attempt # 1
  <2> SUFFICES ASSUME attempt = 1 PROVE FALSE
    OBVIOUS
  <2>1. FreshInv
    BY <1>1 DEF PlainInv
  <2> QED
    BY <1>2, <1>5, <2>1 DEF FreshInv
<1> QED
  BY <1>1, <1>6, <1>9, <1>10, <1>11, Treated

LEMMA MergePlain ==
    ASSUME TypeInv, Plain, PlainInv, NEW p \in Paths, Merge(p)
    PROVE  PlainInv'
<1>1. UNCHANGED <<image, attempt>>
  BY MergeCases
<1>2. CASE /\ <<Current.has[p], rootfs[p].kind>> \in {<<"link", "dir">>, <<"dir", "file">>}
           /\ rootfs' = rootfs /\ status' = "failed"
  BY <1>1, <1>2, MergeRaises
<1>3. CASE /\ Current.has[p] = "link" => rootfs[p].kind # "dir"
           /\ Current.has[p] = "file" => rootfs[p].kind # "dir"
           /\ rootfs' = [rootfs EXCEPT ![p] = EntryOf(layer, p)]
           /\ todo' = todo \ {p} /\ status' = status
  BY <1>3, MergePuts
<1>4. CASE /\ Current.has[p] = "file" /\ rootfs[p].kind = "dir"
           /\ rootfs' = [rootfs EXCEPT ![Inside(p)] = EntryOf(layer, p)]
           /\ todo' = todo \ {p} /\ status' = status
  BY <1>4, MergeInside
<1> QED
  BY <1>2, <1>3, <1>4, MergeCases

\* A step that changes nothing of what is there or meant, and after which no fewer layers are
\* still to come where they have an entry.
LEMMA SameMeaning ==
    ASSUME TypeInv, PlainInv, StaleInv, UNCHANGED <<image, rootfs, attempt>>,
           status' \in {"extracting", "done"},
           \A p \in Places : Exact(p)' = Exact(p),
           phase' # "merge" => \A p \in Places : ~ Struck(p)' \/ (phase # "merge" /\ Struck(p)),
           \A k \in DOMAIN image, p \in Paths :
              image[k].has[p] # "no" /\ Remaining(k, p) => Remaining(k, p)',
           attempt = 1 => FreshInv
    PROVE  PlainInv'
<1>1. /\ \A k, p : EntryOf(k, p)' = EntryOf(k, p)
      /\ \A k, p, kind : Puts(k, p, kind)' <=> Puts(k, p, kind)
      /\ KeepsDirectories' <=> KeepsDirectories
  BY SameImage
<1>2. \A p \in Paths : LeftoverAt(p)'
  BY <1>1 DEF PlainInv, LeftoverAt
<1>3. ASSUME NEW p \in Paths PROVE StaleAt(p)'
  <2>1. StaleAt(p) /\ Exact(p)' = Exact(p)
    BY PlaceFacts DEF StaleInv
  <2>2. \A k \in DOMAIN image :
           /\ image[k].has[p] # "no" /\ Remaining(k, p) => Remaining(k, p)'
           /\ Puts(k, p, "dir") /\ Remaining(k, p) => Remaining(k, p)'
           /\ Puts(k, p, "file") /\ Remaining(k, p) => Remaining(k, p)'
    BY DEF Puts
  <2> QED
    BY <1>1, <2>1, <2>2 DEF StaleAt
<1>4. (phase # "merge" => \A p \in Places : Struck(p) => rootfs[p] = Nothing)'
  BY DEF StaleInv
<1>5. attempt = 1 => FreshInv'
  BY DEF FreshInv
<1> QED
  BY <1>1, <1>2, <1>3, <1>4, <1>5 DEF PlainInv, StaleInv

LEMMA NextPhasePlain ==
    ASSUME TypeInv, Plain, PlainInv, NextPhase
    PROVE  PlainInv'
<1>1. /\ status = "extracting" /\ todo = {} /\ UNCHANGED <<image, rootfs, attempt>>
      /\ layer \in Nat /\ DOMAIN image \subseteq Nat
  BY PhaseCases, TypeFacts
<1>2. StaleInv /\ (attempt = 1 => FreshInv)
  BY <1>1 DEF PlainInv
<1>3. /\ \A k, p : EntryOf(k, p)' = EntryOf(k, p)
      /\ \A n : UpTo(n)' = UpTo(n)
  BY <1>1, SameImage
<1>4. CASE /\ phase = "opaque" /\ phase' = "whiteout" /\ todo' = Current.gone
           /\ layer' = layer /\ status' = status
  <2>1. \A p : Struck(p)' <=> Struck(p)
    BY <1>1, <1>4 DEF Struck, OpaqueDone, GoneDone, Current
  <2>2. \A p \in Places : Exact(p)' = Exact(p)
    BY <1>3, <1>4, <2>1 DEF Exact, MergeDone, Lower
  <2>3. \A k \in DOMAIN image, p \in Paths : Remaining(k, p) => Remaining(k, p)'
    BY <1>4 DEF Remaining
  <2> QED
    BY <1>1, <1>2, <1>4, <2>1, <2>2, <2>3, SameMeaning
<1>5. CASE /\ phase = "whiteout" /\ phase' = "merge" /\ todo' = Entries(Current)
           /\ layer' = layer /\ status' = status
  <2>1. \A p : Struck(p)' <=> Struck(p)
    BY <1>1, <1>5 DEF Struck, OpaqueDone, GoneDone, Current
  <2>2. MergeDone = {} /\ MergeDone' = {}
    BY <1>1, <1>5 DEF MergeDone, Current
  <2>3. \A p \in Places : Exact(p)' = Exact(p)
    BY <1>3, <1>5, <2>1, <2>2 DEF Exact, Lower
  <2>4. \A k \in DOMAIN image, p \in Paths :
           image[k].has[p] # "no" /\ Remaining(k, p) => Remaining(k, p)'
    BY <1>5 DEF Remaining, Entries, Current
  <2> QED
    BY <1>1, <1>2, <1>5, <2>3, <2>4, SameMeaning
<1>6. CASE /\ phase = "merge" /\ phase' = "opaque" /\ layer' = layer + 1
           /\ layer + 1 \in DOMAIN image /\ todo' = image[layer + 1].opaque /\ status' = status
  <2>1. /\ MergeDone' = {} /\ \A p : ~ Struck(p)'
    BY <1>1, <1>6 DEF MergeDone, Struck, OpaqueDone, GoneDone, Current
  <2>2. Lower' = UpTo(layer)
    <3>1. layer' - 1 = layer
      BY <1>1, <1>6
    <3> QED
      BY <1>3, <3>1 DEF Lower
  <2>3. \A p \in Places : Exact(p) = UpTo(layer)[p]
    BY <1>1, <1>6, MergeComplete
  <2>4. \A p \in Places : Exact(p)' = Exact(p)
    BY <2>1, <2>2, <2>3 DEF Exact
  <2>5. \A k \in DOMAIN image, p \in Paths : Remaining(k, p) => Remaining(k, p)'
    <3>1. \A k \in DOMAIN image, p \in Paths : Remaining(k, p) => k > layer
      BY <1>1, <1>6 DEF Remaining
    <3>2. \A k \in DOMAIN image, p \in Paths : k > layer => Remaining(k, p)'
      BY <1>1, <1>6 DEF Remaining
    <3> QED
      BY <3>1, <3>2
  <2> QED
    BY <1>1, <1>2, <1>6, <2>1, <2>4, <2>5, SameMeaning
<1>7. CASE phase = "merge" /\ status' = "done" /\ UNCHANGED <<phase, layer, todo>>
  <2>1. \A p \in Places : Exact(p)' = Exact(p)
    BY <1>1, <1>3, <1>7 DEF Exact, MergeDone, Struck, OpaqueDone, GoneDone, Current, Lower
  <2>2. \A k \in DOMAIN image, p \in Paths : Remaining(k, p) => Remaining(k, p)'
    BY <1>7 DEF Remaining
  <2> QED
    BY <1>1, <1>2, <1>7, <2>1, <2>2, SameMeaning
<1> QED
  BY <1>4, <1>5, <1>6, <1>7, PhaseCases

\* When an attempt starts, what is there is left over from layers that are all to come.
LEMMA StartPlain ==
    ASSUME TypeInv', layer' = 1, phase' = "opaque", todo' = image'[1].opaque,
           \A p \in Paths : LeftoverAt(p)', status' = "extracting",
           attempt' = 1 => \A p \in Places : rootfs'[p] = Nothing
    PROVE  PlainInv'
<1>1. /\ MergeDone' = {} /\ \A p : ~ Struck(p)'
  BY DEF MergeDone, Struck, OpaqueDone, GoneDone, Current
<1>2. Lower' = [p \in Places |-> Nothing]
  <2>1. UpTo(0)' = [p \in Places |-> Nothing]
    <3>1. image' \in Images /\ Len(image') \in Nat
      BY LayersAssumption, LenProperties DEF TypeInv, TreeInv
    <3> QED
      BY <3>1, StackDef DEF UpTo
  <2> QED
    BY <2>1 DEF Lower
<1>3. \A p \in Places : Exact(p)' = Nothing
  BY <1>1, <1>2 DEF Exact
<1>4. DOMAIN image' \subseteq Nat \ {0}
  <2>1. image' \in Images /\ DOMAIN image' = 1..Len(image') /\ Len(image') \in Nat
    BY LayersAssumption, LenProperties DEF TypeInv, TreeInv
  <2> QED
    BY <2>1
<1>5. \A p : \A k \in DOMAIN image' : Remaining(k, p)'
  BY <1>4 DEF Remaining
<1>6. ASSUME NEW p \in Paths PROVE StaleAt(p)'
  <2>1. LeftoverAt(p)' /\ Exact(p)' = Nothing
    BY <1>3, PlaceFacts
  <2> QED
    BY <1>5, <2>1 DEF StaleAt, LeftoverAt
<1>7. StaleInv'
  BY <1>1, <1>6 DEF StaleInv
<1>8. attempt' = 1 => FreshInv'
  BY <1>3 DEF FreshInv
<1> QED
  BY <1>7, <1>8 DEF PlainInv

LEMMA LayersInit == Init => LayersInv
<1> SUFFICES ASSUME Init PROVE LayersInv
  OBVIOUS
<1>1. TypeInv
  BY TypeInit
<1>2. /\ layer = 1 /\ phase = "opaque" /\ todo = image[1].opaque /\ status = "extracting"
      /\ attempt = 1 /\ rootfs = [p \in Places |-> Nothing]
  BY DEF Init
<1>3. MergeDone = {} /\ \A p : ~ Struck(p)
  BY <1>2 DEF MergeDone, Struck, OpaqueDone, GoneDone, Current
<1>4. Lower = [p \in Places |-> Nothing]
  BY <1>1, <1>2, LowerFacts DEF Lower
<1>5. \A p \in Places : Exact(p) = Nothing /\ rootfs[p] = Nothing
  BY <1>2, <1>3, <1>4 DEF Exact
<1>6. \A p \in Paths : LeftoverAt(p) /\ StaleAt(p)
  BY <1>5, PlaceFacts, InsideOf DEF LeftoverAt, StaleAt
<1>7. PlainInv
  BY <1>2, <1>3, <1>5, <1>6 DEF PlainInv, StaleInv, FreshInv
<1> QED
  BY <1>1, <1>7 DEF LayersInv

LEMMA LayersStep == LayersInv /\ [Next]_vars => LayersInv'
<1> SUFFICES ASSUME LayersInv, [Next]_vars PROVE LayersInv'
  OBVIOUS
<1>0. TypeInv /\ TypeInv' /\ (Plain => PlainInv)
  BY TypeStep DEF LayersInv
<1>1. image' = image
  BY DEF Next, vars, ClearOpaque, Whiteout, Merge, NextPhase, Kill, Retry
<1>2. Plain' <=> Plain
  BY <1>1, SameImage
<1> SUFFICES ASSUME Plain, PlainInv PROVE PlainInv'
  BY <1>0, <1>2 DEF LayersInv
<1>3. ASSUME NEW p \in Paths, ClearOpaque(p) PROVE PlainInv'
  BY <1>0, <1>3, ClearOpaquePlain
<1>4. ASSUME NEW p \in Paths, Whiteout(p) PROVE PlainInv'
  BY <1>0, <1>4, WhiteoutPlain
<1>5. ASSUME NEW p \in Paths, Merge(p) PROVE PlainInv'
  BY <1>0, <1>5, MergePlain
<1>6. CASE NextPhase
  BY <1>0, <1>6, NextPhasePlain
<1>7. (rootfs' = rootfs) => \A p \in Paths : LeftoverAt(p)'
  BY <1>1, SameImage DEF PlainInv, LeftoverAt
<1>8. CASE Kill
  <2>1. status' = "killed" /\ rootfs' = rootfs /\ attempt' = attempt
    BY <1>8 DEF Kill
  <2> QED
    BY <1>7, <2>1 DEF PlainInv
<1>9. CASE Retry
  <2>1. /\ rootfs' = rootfs /\ layer' = 1 /\ phase' = "opaque" /\ todo' = image'[1].opaque
        /\ status' = "extracting" /\ attempt' = attempt + 1
    BY <1>1, <1>9 DEF Retry
  <2>2. attempt' # 1
    BY <1>0, <2>1, LayersAssumption DEF TypeInv, TypeOK
  <2> QED
    BY <1>0, <1>7, <2>1, <2>2, StartPlain
<1>10. CASE UNCHANGED vars
  <2>1. UNCHANGED <<image, rootfs, layer, phase, todo, status, attempt>>
    BY <1>10 DEF vars
  <2>2. StaleInv' <=> StaleInv
    BY <2>1 DEF StaleInv, StaleAt, Struck, Exact, Remaining, Puts, EntryOf, Lower, UpTo,
                Current, MergeDone, OpaqueDone, GoneDone
  <2>3. FreshInv' <=> FreshInv
    BY <2>1 DEF FreshInv, Struck, Exact, EntryOf, Lower, UpTo,
                Current, MergeDone, OpaqueDone, GoneDone
  <2>4. KeepsDirectories' <=> KeepsDirectories
    BY <2>1, SameImage
  <2> QED
    BY <1>7, <2>1, <2>2, <2>3, <2>4 DEF PlainInv
<1> QED
  BY <1>3, <1>4, <1>5, <1>6, <1>8, <1>9, <1>10 DEF Next

LEMMA LayersInvariant == Spec => []LayersInv
BY LayersInit, LayersStep, PTL DEF Spec

\* An extraction that completes, at whatever attempt, has made what the layers mean.
THEOREM CompletedIsOverlay == Spec => []ExtractionIsOverlay
<1>1. LayersInv => ExtractionIsOverlay
  <2> SUFFICES ASSUME LayersInv, status = "done", Plain
               PROVE  rootfs = UpTo(Len(image))
    BY DEF ExtractionIsOverlay
  <2>1. /\ TypeInv /\ PlainInv /\ StaleInv
        /\ phase = "merge" /\ todo = {} /\ layer = Len(image)
    BY DEF LayersInv, PlainInv, TypeInv, TreeInv
  <2>2. \A k \in DOMAIN image, p \in Paths : ~ Remaining(k, p)
    BY <2>1, TypeFacts DEF Remaining
  <2>3. \A p \in Paths : StaleAt(p)
    BY <2>1 DEF StaleInv
  <2>4. \A p \in Paths : rootfs[p] = Exact(p) /\ rootfs[Inside(p)] = Nothing
    BY <2>2, <2>3 DEF StaleAt
  <2>5. \A p \in Places : rootfs[p] = Exact(p)
    BY <2>1, <2>4, PlaceFacts, InsideOf, ExactFacts
  <2>6. \A p \in Places : rootfs[p] = UpTo(Len(image))[p]
    BY <2>1, <2>5, MergeComplete
  <2>7. rootfs \in [Places -> Node] /\ UpTo(Len(image)) \in [Places -> Node]
    BY <2>1, TypeFacts, StackTree DEF UpTo
  <2> QED
    BY <2>6, <2>7
<1> QED
  BY LayersInvariant, <1>1, PTL

\* The first extraction of a plain image never raises.
THEOREM FirstSucceeds == Spec => []FirstAttemptSucceeds
<1>1. LayersInv => FirstAttemptSucceeds
  BY DEF LayersInv, PlainInv, FirstAttemptSucceeds
<1> QED
  BY LayersInvariant, <1>1, PTL

\* Nor does a later one, when no path is a directory in one layer and not in another.
THEOREM LaterSucceeds == Spec => []RetrySucceeds
<1>1. LayersInv => RetrySucceeds
  BY DEF LayersInv, PlainInv, RetrySucceeds
<1> QED
  BY LayersInvariant, <1>1, PTL
=============================================================================
