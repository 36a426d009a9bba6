--------------------------- MODULE Manifest_proofs ---------------------------
(***************************************************************************)
(* Proofs about Manifest: what the plan of an image serves, what is linked *)
(* over its names, and that its manifest is that of its layers; for any    *)
(* images, search directories, registries and provider tables.            *)
(***************************************************************************)
EXTENDS Manifest, Layers_proofs, FiniteSetTheorems

-----------------------------------------------------------------------------
(* Repetition. *)

\* f is what a loop makes of a start value, round by round; nothing else is made that way.
MadeBy(f, N, S, start, next) ==
    /\ f \in [0..N -> S]
    /\ f[0] = start
    /\ \A n \in 1..N : f[n] = next[<<f[n - 1], n>>]
    /\ \A g : /\ g[0] = start
              /\ \A n \in 1..N : g[n - 1] \in S => g[n] = next[<<g[n - 1], n>>]
              => \A n \in 0..N : g[n] = f[n]

\* Every loop makes something.
LEMMA Rounds ==
    ASSUME NEW N \in Nat, NEW S, NEW start \in S, NEW next \in [S \X (1..N) -> S]
    PROVE  \E f : MadeBy(f, N, S, start, next)
<1> DEFINE Made(f, m) == /\ f \in [0..m -> S] /\ f[0] = start
                         /\ \A n \in 1..m : f[n] = next[<<f[n - 1], n>>]
           T == {m \in 0..N : \E f : Made(f, m)}
<1>1. 0 \in T
  <2> DEFINE f == [n \in 0..0 |-> start]
  <2>1. Made(f, 0) /\ 0 \in 0..N
    OBVIOUS
  <2> HIDE DEF f, Made
  <2> QED
    BY <2>1
<1>2. ASSUME NEW m \in T, m < N PROVE m + 1 \in T
  <2>1. PICK f : Made(f, m)
    OBVIOUS
  <2>2. f[m] \in S /\ m + 1 \in 1..N /\ m \in Nat
    BY <1>2, <2>1
  <2> DEFINE v == next[<<f[m], m + 1>>]
             h == [n \in 0..(m + 1) |-> IF n = m + 1 THEN v ELSE f[n]]
  <2>3. v \in S
    BY <2>2
  <2> HIDE DEF v
  <2>4. h \in [0..(m + 1) -> S] /\ h[0] = start /\ h[m + 1] = v /\ \A n \in 0..m : h[n] = f[n]
    BY <2>1, <2>2, <2>3
  <2> HIDE DEF h
  <2>5. ASSUME NEW n \in 1..(m + 1) PROVE h[n] = next[<<h[n - 1], n>>]
    <3>1. n - 1 \in 0..m /\ (n = m + 1 => n - 1 = m) /\ (n # m + 1 => n \in 1..m /\ n \in 0..m)
      BY <2>2
    <3>2. h[n - 1] = f[n - 1]
      BY <3>1, <2>4
    <3>3. CASE n = m + 1
      BY <3>1, <3>2, <3>3, <2>4 DEF v
    <3>4. CASE n # m + 1
      BY <3>1, <3>2, <3>4, <2>1, <2>4
    <3> QED
      BY <3>3, <3>4
  <2>6. Made(h, m + 1)
    BY <2>4, <2>5
  <2> QED
    BY <2>2, <2>6
<1>3. N \in T
  <2> HIDE DEF T
  <2>1. \A n \in T : n \in Nat /\ n < N => n + 1 \in T
    BY <1>2
  <2> QED
    BY <1>1, <2>1, UpToBound
<1>4. PICK f : Made(f, N)
  BY <1>3
<1>5. ASSUME NEW g, g[0] = start,
             \A n \in 1..N : g[n - 1] \in S => g[n] = next[<<g[n - 1], n>>]
      PROVE  \A n \in 0..N : g[n] = f[n]
  <2> DEFINE Q == {n \in 0..N : g[n] = f[n]}
  <2>1. 0 \in Q
    BY <1>4, <1>5
  <2>2. ASSUME NEW n \in Q, n < N PROVE n + 1 \in Q
    <3>1. n + 1 \in 1..N /\ n + 1 \in 0..N /\ (n + 1) - 1 = n /\ n \in 0..N
      BY <2>2
    <3>2. g[n] = f[n] /\ f[n] \in S
      BY <3>1, <1>4
    <3>3. g[n + 1] = next[<<g[n], n + 1>>] /\ f[n + 1] = next[<<f[n], n + 1>>]
      BY <3>1, <3>2, <1>4, <1>5
    <3> QED
      BY <3>1, <3>2, <3>3
  <2> HIDE DEF Q
  <2>3. \A n \in 0..N : n \in Q
    BY <2>1, <2>2, UpToBound
  <2> QED
    BY <2>3 DEF Q
<1>6. MadeBy(f, N, S, start, next)
  BY <1>4, <1>5 DEF MadeBy
<1> QED
  BY <1>6

-----------------------------------------------------------------------------
(* The plan. *)

\* The steps of a provider, in their order.
LEMMA StepsOfProvider ==
    ASSUME NEW p \in Providers
    PROVE  /\ StepsOf(p) \in Seq(Providers)
           /\ Deps[p] \in Seq(Providers)
           /\ Len(Deps[p]) \in Nat
           /\ Len(StepsOf(p)) = Len(Deps[p]) + 1
           /\ StepsOf(p)[Len(Deps[p]) + 1] = p
           /\ \A i \in 1..Len(Deps[p]) :
                 StepsOf(p)[i] = Deps[p][i] /\ Deps[p][i] \in Providers /\ Deps[Deps[p][i]] = <<>>
<1>1. Deps[p] \in Seq(Providers) /\ Len(Deps[p]) \in Nat /\ DOMAIN Deps[p] = 1..Len(Deps[p])
  BY ManifestAssumption, LenProperties
<1>2. \A i \in 1..Len(Deps[p]) : Deps[p][i] \in Providers
  BY <1>1, ElementOfSeq
<1>3. ASSUME NEW i \in 1..Len(Deps[p]) PROVE Deps[Deps[p][i]] = <<>>
  <2> DEFINE q == Deps[p][i]
  <2>1. q \in Providers /\ Kind[q] # "build"
    BY <1>1, <1>2, ManifestAssumption
  <2> HIDE DEF q
  <2>2. Deps[q] \in Seq(Providers) /\ DOMAIN Deps[q] = {}
    BY <2>1, ManifestAssumption
  <2>3. Len(Deps[q]) \in Nat /\ DOMAIN Deps[q] = 1..Len(Deps[q])
    BY <2>2, LenProperties
  <2>4. Len(Deps[q]) = 0
    <3>1. ASSUME Len(Deps[q]) # 0 PROVE 1 \in 1..Len(Deps[q])
      BY <2>3, <3>1
    <3> QED
      BY <2>2, <2>3, <3>1
  <2>5. Deps[q] = <<>>
    BY <2>2, <2>4, EmptySeq
  <2> QED
    BY <2>5 DEF q
<1> QED
  BY <1>1, <1>2, <1>3, AppendProperties DEF StepsOf

\* Extended goes through the steps one by one.
Goes(f, plan, p) ==
    /\ f \in [0..Len(StepsOf(p)) -> Seq(Providers)]
    /\ f[0] = plan
    /\ \A i \in 1..Len(StepsOf(p)) :
          f[i] = IF Resolves(StepsOf(p)[i]) /\ ~ Contains(f[i - 1], StepsOf(p)[i])
                 THEN Append(f[i - 1], StepsOf(p)[i]) ELSE f[i - 1]

LEMMA ExtendedDef ==
    ASSUME NEW plan \in Seq(Providers), NEW p \in Providers
    PROVE  \E f : Goes(f, plan, p) /\ Extended(plan, p) = f[Len(StepsOf(p))]
<1> DEFINE N == Len(StepsOf(p))
           S == Seq(Providers)
           s == StepsOf(p)
           With(x, i) == IF Resolves(s[i]) /\ ~ Contains(x, s[i]) THEN Append(x, s[i]) ELSE x
           next == [x \in S \X (1..N) |-> With(x[1], x[2])]
           Form(h) == h = [i \in 0..N |-> IF i = 0 THEN plan ELSE With(h[i - 1], i)]
           g == CHOOSE h : Form(h)
<1>1. s \in S /\ plan \in S /\ N \in Nat /\ \A i \in 1..N : s[i] \in Providers
  BY StepsOfProvider, LenProperties, ElementOfSeq
<1>2. \A x \in S, i \in 1..N : With(x, i) \in S
  BY <1>1, AppendProperties
<1>3. Extended(plan, p) = g[N]
  BY DEF Extended
<1>4. \A x, i : With(x, i) = IF Resolves(s[i]) /\ ~ Contains(x, s[i]) THEN Append(x, s[i]) ELSE x
  OBVIOUS
<1> HIDE DEF With
<1>5. next \in [S \X (1..N) -> S] /\ \A x \in S, i \in 1..N : next[<<x, i>>] = With(x, i)
  BY <1>2
<1> HIDE DEF next
<1>6. PICK f : MadeBy(f, N, S, plan, next)
  <2>1. N \in Nat /\ plan \in S /\ next \in [S \X (1..N) -> S]
    BY <1>1, <1>5
  <2> HIDE DEF S, N
  <2> QED
    BY <2>1, Rounds
<1>7. ASSUME NEW n \in 1..N PROVE f[n] = With(f[n - 1], n)
  <2>1. n - 1 \in 0..N
    BY <1>1
  <2>2. f[n - 1] \in S
    BY <2>1, <1>6 DEF MadeBy
  <2> QED
    BY <2>2, <1>5, <1>6 DEF MadeBy
<1>8. Form(f)
  BY <1>1, <1>6, <1>7 DEF MadeBy
<1>9. Form(g)
  BY <1>8
<1> HIDE DEF g
<1>10. g[0] = plan /\ \A n \in 1..N : g[n] = With(g[n - 1], n)
  BY <1>1, <1>9
<1>11. \A n \in 1..N : g[n - 1] \in S => g[n] = next[<<g[n - 1], n>>]
  BY <1>5, <1>10
<1>12. g[N] = f[N]
  BY <1>1, <1>6, <1>10, <1>11 DEF MadeBy
<1> QED
  BY <1>3, <1>4, <1>6, <1>7, <1>12 DEF Goes, MadeBy
\* A plan in which each step is once, after what it depends on.
Serves(plan) ==
    /\ plan \in Seq(Providers)
    /\ IsInjective(plan)
    /\ \A i \in DOMAIN plan : \A dep \in ToSet(Deps[plan[i]]) :
          Resolves(dep) => \E j \in 1..(i - 1) : plan[j] = dep

\* Appending a new step whose dependencies are there.
LEMMA AppendServes ==
    ASSUME NEW plan, Serves(plan), NEW p \in Providers, ~ Contains(plan, p),
           \A dep \in ToSet(Deps[p]) : Resolves(dep) => Contains(plan, dep)
    PROVE  /\ Serves(Append(plan, p))
           /\ Contains(Append(plan, p), p)
           /\ \A q : Contains(plan, q) => Contains(Append(plan, p), q)
<1> DEFINE new == Append(plan, p)
           n == Len(plan)
<1>1. plan \in Seq(Providers) /\ n \in Nat /\ DOMAIN plan = 1..n
  BY LenProperties DEF Serves
<1>2. /\ new \in Seq(Providers) /\ Len(new) = n + 1 /\ DOMAIN new = 1..(n + 1)
      /\ new[n + 1] = p /\ \A i \in 1..n : new[i] = plan[i]
  <2>1. new \in Seq(Providers) /\ Len(new) = n + 1
        /\ new[n + 1] = p /\ \A i \in 1..n : new[i] = plan[i]
    BY <1>1, AppendProperties
  <2> QED
    BY <2>1, LenProperties
<1>3. \A i \in 1..n : new[i] # p /\ i \in 1..(n + 1)
  BY <1>1, <1>2 DEF Contains
<1> HIDE DEF new, n
<1>4. IsInjective(new)
  <2>1. \A a, b \in 1..n : plan[a] = plan[b] => a = b
    BY <1>1 DEF Serves, IsInjective
  <2>2. \A a \in 1..(n + 1) : a \in 1..n \/ a = n + 1
    BY <1>1
  <2>3. \A a, b \in 1..(n + 1) : new[a] = new[b] => a = b
    BY <1>2, <1>3, <2>1, <2>2
  <2> QED
    BY <1>2, <2>3 DEF IsInjective
<1>5. ASSUME NEW i \in DOMAIN new, NEW dep \in ToSet(Deps[new[i]]), Resolves(dep)
      PROVE  \E j \in 1..(i - 1) : new[j] = dep
  <2>1. CASE i \in 1..n
    <3>1. PICK j \in 1..(i - 1) : plan[j] = dep
      BY <1>1, <1>2, <1>5, <2>1 DEF Serves
    <3>2. j \in 1..n
      BY <1>1, <2>1
    <3> QED
      BY <1>2, <3>1, <3>2
  <2>2. CASE i = n + 1
    <3>1. PICK j \in 1..Len(plan) : plan[j] = dep
      BY <1>2, <1>5, <2>2 DEF Contains
    <3>2. j \in 1..n /\ i - 1 = n
      BY <1>1, <2>2 DEF n
    <3> QED
      BY <1>2, <3>1, <3>2
  <2> QED
    BY <1>1, <1>2, <2>1, <2>2
<1>6. Serves(new)
  BY <1>2, <1>4, <1>5 DEF Serves
<1>7. Contains(new, p)
  <2>1. n + 1 \in 1..Len(new)
    BY <1>1, <1>2
  <2> QED
    BY <1>2, <2>1 DEF Contains
<1>8. ASSUME NEW q, Contains(plan, q) PROVE Contains(new, q)
  <2>1. PICK j \in 1..n : plan[j] = q
    BY <1>8 DEF Contains, n
  <2>2. j \in 1..Len(new) /\ new[j] = q
    BY <1>2, <1>3, <2>1
  <2> QED
    BY <2>2 DEF Contains
<1> QED
  BY <1>6, <1>7, <1>8 DEF new

\* What Extended makes of a plan.
LEMMA ExtendedServes ==
    ASSUME NEW plan, Serves(plan), NEW p \in Providers, Resolves(p)
    PROVE  /\ Serves(Extended(plan, p))
           /\ Contains(Extended(plan, p), p)
           /\ \A q : Contains(plan, q) => Contains(Extended(plan, p), q)
<1> DEFINE s == StepsOf(p)
           N == Len(s)
           d == Len(Deps[p])
<1>1. PICK f : Goes(f, plan, p) /\ Extended(plan, p) = f[N]
  BY ExtendedDef DEF Serves
<1>2. /\ N = d + 1 /\ d \in Nat /\ s[N] = p /\ DOMAIN Deps[p] = 1..d
      /\ \A i \in 1..d : s[i] = Deps[p][i] /\ s[i] \in Providers /\ Deps[s[i]] = <<>>
  <2>1. Deps[p] \in Seq(Providers) /\ N = d + 1 /\ d \in Nat /\ s[d + 1] = p
    BY StepsOfProvider
  <2>2. \A i \in 1..d : s[i] = Deps[p][i] /\ Deps[p][i] \in Providers /\ Deps[Deps[p][i]] = <<>>
    BY StepsOfProvider
  <2>3. DOMAIN Deps[p] = 1..d
    BY <2>1, LenProperties
  <2> HIDE DEF d, s
  <2> QED
    BY <2>1, <2>2, <2>3
<1> DEFINE Done(i) == /\ Serves(f[i])
                      /\ \A q : Contains(plan, q) => Contains(f[i], q)
                      /\ \A j \in 1..i : Resolves(s[j]) => Contains(f[i], s[j])
           T == {i \in 0..N : Done(i)}
<1>3. 0 \in T
  BY <1>1, <1>2 DEF Goes
<1>4. ASSUME NEW i \in T, i < N PROVE i + 1 \in T
  <2> DEFINE c == s[i + 1]
  <2>1. i + 1 \in 1..N /\ i + 1 \in 0..N /\ (i + 1) - 1 = i /\ Done(i) /\ i \in Nat
    <3>1. N \in Nat /\ i \in 0..N /\ Done(i)
      BY <1>2
    <3> HIDE DEF N, Done
    <3> QED
      BY <1>4, <3>1
  <2>2. c \in Providers
    BY <1>2, <2>1
  <2>3. f[i + 1] = IF Resolves(c) /\ ~ Contains(f[i], c) THEN Append(f[i], c) ELSE f[i]
    BY <1>1, <2>1 DEF Goes
  <2>4. \A dep \in ToSet(Deps[c]) : Resolves(dep) => Contains(f[i], dep)
    <3>1. CASE i + 1 \in 1..d
      <4>1. DOMAIN Deps[c] = {}
        BY <1>2, <3>1
      <4> QED
        BY <4>1 DEF ToSet
    <3>2. CASE i + 1 = N
      <4>1. SUFFICES ASSUME NEW j \in 1..d, Resolves(Deps[p][j]) PROVE Contains(f[i], Deps[p][j])
        BY <1>2, <3>2 DEF ToSet
      <4>2. j \in 1..i /\ s[j] = Deps[p][j]
        BY <1>2, <3>2, <4>1
      <4> QED
        BY <2>1, <4>1, <4>2
    <3> QED
      BY <1>2, <2>1, <3>1, <3>2
  <2>5. /\ Serves(f[i + 1])
        /\ \A q : Contains(f[i], q) => Contains(f[i + 1], q)
        /\ Resolves(c) => Contains(f[i + 1], c)
    <3>1. CASE Resolves(c) /\ ~ Contains(f[i], c)
      BY <2>1, <2>2, <2>3, <2>4, <3>1, AppendServes
    <3>2. CASE ~ (Resolves(c) /\ ~ Contains(f[i], c))
      BY <2>1, <2>3, <3>2
    <3> QED
      BY <3>1, <3>2
  <2>6. \A j \in 1..(i + 1) : j \in 1..i \/ j = i + 1
    BY <2>1
  <2>7. Done(i + 1)
    BY <2>1, <2>5, <2>6
  <2> QED
    BY <2>1, <2>7
<1>5. N \in T
  <2>1. \A i \in T : i \in Nat /\ i < N => i + 1 \in T
    BY <1>4
  <2>2. N \in Nat
    BY <1>2
  <2> HIDE DEF T, N
  <2>3. \A i \in 0..N : i \in T
    BY <1>3, <2>1, <2>2, UpToBound
  <2> QED
    BY <2>2, <2>3
<1>6. Done(N) /\ N \in 1..N
  BY <1>2, <1>5
<1> QED
  BY <1>1, <1>2, <1>6

\* Plan goes through the entries one by one.
Plans(f, binaries) ==
    /\ f \in [0..Len(binaries) -> Seq(Providers)]
    /\ f[0] = <<>>
    /\ \A k \in 1..Len(binaries) :
          f[k] = IF Substituted(binaries[k]) /\ Resolves(binaries[k].provider)
                 THEN Extended(f[k - 1], binaries[k].provider) ELSE f[k - 1]

LEMMA PlanDef ==
    ASSUME NEW binaries, Len(binaries) \in Nat,
           \A k \in 1..Len(binaries) : binaries[k].provider \in Providers \cup {None}
    PROVE  \E f : Plans(f, binaries) /\ Plan(binaries) = f[Len(binaries)]
<1> DEFINE N == Len(binaries)
           S == Seq(Providers)
           With(x, k) == IF Substituted(binaries[k]) /\ Resolves(binaries[k].provider)
                         THEN Extended(x, binaries[k].provider) ELSE x
           next == [x \in S \X (1..N) |-> With(x[1], x[2])]
           Form(h) == h = [k \in 0..N |-> IF k = 0 THEN <<>> ELSE With(h[k - 1], k)]
           g == CHOOSE h : Form(h)
<1>1. <<>> \in S /\ N \in Nat
  BY EmptySeq
<1>2. ASSUME NEW x \in S, NEW k \in 1..N PROVE With(x, k) \in S
  <2>1. ASSUME NEW p \in Providers PROVE Extended(x, p) \in S
    <3>1. PICK f : Goes(f, x, p) /\ Extended(x, p) = f[Len(StepsOf(p))]
      BY ExtendedDef
    <3>2. Len(StepsOf(p)) \in 0..Len(StepsOf(p))
      BY StepsOfProvider
    <3> QED
      BY <3>1, <3>2 DEF Goes
  <2>2. Substituted(binaries[k]) => binaries[k].provider \in Providers
    BY DEF Substituted
  <2> QED
    BY <2>1, <2>2
<1>3. Plan(binaries) = g[N]
  BY DEF Plan
<1>4. \A x, k : With(x, k) = IF Substituted(binaries[k]) /\ Resolves(binaries[k].provider)
                             THEN Extended(x, binaries[k].provider) ELSE x
  OBVIOUS
<1> HIDE DEF With
<1>5. next \in [S \X (1..N) -> S] /\ \A x \in S, i \in 1..N : next[<<x, i>>] = With(x, i)
  BY <1>2
<1> HIDE DEF next
<1>6. PICK f : MadeBy(f, N, S, <<>>, next)
  <2>1. N \in Nat /\ <<>> \in S /\ next \in [S \X (1..N) -> S]
    BY <1>1, <1>5
  <2> HIDE DEF S, N
  <2> QED
    BY <2>1, Rounds
<1>7. ASSUME NEW n \in 1..N PROVE f[n] = With(f[n - 1], n)
  <2>1. n - 1 \in 0..N
    BY <1>1
  <2>2. f[n - 1] \in S
    BY <2>1, <1>6 DEF MadeBy
  <2> QED
    BY <2>2, <1>5, <1>6 DEF MadeBy
<1>8. Form(f)
  BY <1>1, <1>6, <1>7 DEF MadeBy
<1>9. Form(g)
  BY <1>8
<1> HIDE DEF g
<1>10. g[0] = <<>> /\ \A n \in 1..N : g[n] = With(g[n - 1], n)
  BY <1>1, <1>9
<1>11. \A n \in 1..N : g[n - 1] \in S => g[n] = next[<<g[n - 1], n>>]
  BY <1>5, <1>10
<1>12. g[N] = f[N]
  BY <1>1, <1>6, <1>10, <1>11 DEF MadeBy
<1> QED
  BY <1>3, <1>4, <1>6, <1>7, <1>12 DEF Plans, MadeBy

\* The plan of any entries serves them.
LEMMA PlanOfEntries ==
    ASSUME NEW binaries, Len(binaries) \in Nat,
           \A k \in 1..Len(binaries) : binaries[k].provider \in Providers \cup {None}
    PROVE  /\ Serves(Plan(binaries))
           /\ \A k \in 1..Len(binaries) :
                 Substituted(binaries[k]) /\ Resolves(binaries[k].provider)
                 => Contains(Plan(binaries), binaries[k].provider)
<1> DEFINE N == Len(binaries)
           Called(k) == Substituted(binaries[k]) /\ Resolves(binaries[k].provider)
<1>1. PICK f : Plans(f, binaries) /\ Plan(binaries) = f[N]
  BY PlanDef
<1> DEFINE Done(i) == /\ Serves(f[i])
                      /\ \A k \in 1..i : Called(k) => Contains(f[i], binaries[k].provider)
           T == {i \in 0..N : Done(i)}
<1>2. 0 \in T
  <2>1. f[0] = <<>>
    BY <1>1 DEF Plans
  <2>2. Serves(<<>>)
    BY EmptySeq DEF Serves, IsInjective
  <2> QED
    BY <2>1, <2>2
<1>3. ASSUME NEW i \in T, i < N PROVE i + 1 \in T
  <2>1. i + 1 \in 1..N /\ i + 1 \in 0..N /\ (i + 1) - 1 = i /\ Done(i) /\ i \in Nat
    BY <1>3
  <2> DEFINE p == binaries[i + 1].provider
  <2>2. f[i + 1] = IF Called(i + 1) THEN Extended(f[i], p) ELSE f[i]
    BY <1>1, <2>1 DEF Plans
  <2>3. Called(i + 1) => p \in Providers /\ Resolves(p)
    BY <2>1 DEF Substituted
  <2>4. /\ Serves(f[i + 1])
        /\ \A q : Contains(f[i], q) => Contains(f[i + 1], q)
        /\ Called(i + 1) => Contains(f[i + 1], p)
    <3> HIDE DEF Called, p
    <3>1. CASE Called(i + 1)
      BY <2>1, <2>2, <2>3, <3>1, ExtendedServes
    <3>2. CASE ~ Called(i + 1)
      BY <2>1, <2>2, <3>2
    <3> QED
      BY <3>1, <3>2
  <2>5. \A j \in 1..(i + 1) : j \in 1..i \/ j = i + 1
    BY <2>1
  <2>6. Done(i + 1)
    <3> HIDE DEF Called
    <3> QED
      BY <2>1, <2>4, <2>5
  <2> QED
    BY <2>1, <2>6
<1>4. N \in T
  <2>1. \A i \in T : i \in Nat /\ i < N => i + 1 \in T
    BY <1>3
  <2> HIDE DEF T, N
  <2>2. N \in Nat
    BY DEF N
  <2>3. \A i \in 0..N : i \in T
    BY <1>2, <2>1, <2>2, UpToBound
  <2> QED
    BY <2>2, <2>3
<1> QED
  BY <1>1, <1>4
-----------------------------------------------------------------------------
(* The walk. *)

\* The places a walk goes to: a search directory and a name.
Spots == (DOMAIN SearchDirs) \X (Names \ SkipDirs)

PathAt(at) == Append(SearchDirs[at[1]], at[2])
ExecutableAt(fs, at) == Executable(fs, SearchDirs[at[1]], at[2])
AbiAt(fs, at) == Content(Target(fs, SearchDirs[at[1]], at[2]), at[2])
EntryAt(fs, registry, at) == Classified(PathAt(at), AbiAt(fs, at), registry)

\* A spot's path is a search directory and a name, and says which.
LEMMA SpotFacts ==
    /\ IsFiniteSet(Spots)
    /\ \A at \in Spots :
          /\ SearchDirs[at[1]] \in Path /\ at[2] \in STRING /\ at[2] \in Names
          /\ PathAt(at) \in Path /\ Last(PathAt(at)) = at[2]
    /\ \A at, to \in Spots : PathAt(at) = PathAt(to)
                             => SearchDirs[at[1]] = SearchDirs[to[1]] /\ at[2] = to[2]
<1>1. SearchDirs \in Seq(Paths) /\ Names \subseteq STRING /\ IsFiniteSet(Names)
  BY ManifestAssumption
<1>2. Len(SearchDirs) \in Nat /\ DOMAIN SearchDirs = 1..Len(SearchDirs)
  BY <1>1, LenProperties
<1>3. IsFiniteSet(Spots)
  <2>1. IsFiniteSet(DOMAIN SearchDirs)
    <3>1. 1 \in Int /\ Len(SearchDirs) \in Int
      BY <1>2
    <3> QED
      BY <1>2, <3>1, FS_Interval
  <2>2. IsFiniteSet(Names \ SkipDirs)
    BY <1>1, FS_Difference
  <2> QED
    BY <2>1, <2>2, FS_Product DEF Spots
<1>4. ASSUME NEW at \in Spots
      PROVE  /\ SearchDirs[at[1]] \in Path /\ at[2] \in STRING /\ at[2] \in Names
             /\ PathAt(at) \in Path /\ Last(PathAt(at)) = at[2]
  <2>1. at[1] \in 1..Len(SearchDirs) /\ at[2] \in Names /\ at[2] \in STRING
    BY <1>1, <1>2 DEF Spots
  <2>2. SearchDirs[at[1]] \in Paths
    BY <1>1, <2>1, ElementOfSeq
  <2>3. SearchDirs[at[1]] \in Path
    BY <2>2, PathsAssumption DEF Path
  <2> DEFINE d == SearchDirs[at[1]]
             n == at[2]
  <2>4. d \in Seq(STRING) /\ n \in STRING
    BY <2>1, <2>3 DEF Path
  <2> HIDE DEF d, n
  <2>5. /\ Append(d, n) \in Seq(STRING)
        /\ Len(Append(d, n)) = Len(d) + 1 /\ Append(d, n)[Len(d) + 1] = n
    BY <2>4, AppendProperties
  <2> QED
    BY <2>1, <2>3, <2>5 DEF d, n, PathAt, Last, Path
<1>5. ASSUME NEW at \in Spots, NEW to \in Spots, PathAt(at) = PathAt(to)
      PROVE  SearchDirs[at[1]] = SearchDirs[to[1]] /\ at[2] = to[2]
  <2>1. /\ SearchDirs[at[1]] \in Seq(STRING) /\ at[2] \in STRING
        /\ SearchDirs[to[1]] \in Seq(STRING) /\ to[2] \in STRING
    BY <1>4 DEF Path
  <2> DEFINE d == SearchDirs[at[1]]
             e == SearchDirs[to[1]]
  <2>2. Append(d, at[2]) = Append(e, to[2])
    BY <1>5 DEF PathAt
  <2> HIDE DEF d, e
  <2>3. d \in Seq(STRING) /\ e \in Seq(STRING)
    BY <2>1 DEF d, e
  <2>4. d = e /\ at[2] = to[2]
    BY <2>1, <2>2, <2>3, AppendInjective
  <2> QED
    BY <2>4 DEF d, e
<1> QED
  BY <1>3, <1>4, <1>5

\* A walk goes to every spot.
LEMMA WalkFacts ==
    ASSUME NEW walk \in Walks
    PROVE  /\ Len(walk) \in Nat
           /\ \A k \in 1..Len(walk) : walk[k] \in Spots
           /\ \A at \in Spots : \E k \in 1..Len(walk) : walk[k] = at
<1> DEFINE n == Cardinality(Spots)
<1>1. n \in Nat /\ IsFiniteSet(Spots)
  BY SpotFacts, FS_CardinalityType
<1>2. walk \in [1..n -> Spots] /\ \A i, j \in 1..n : i # j => walk[i] # walk[j]
  BY DEF Walks, SetToSeqs, Spots
<1> HIDE DEF n
<1>3. walk \in Seq(Spots) /\ Len(walk) = n
  BY <1>1, <1>2
<1>4. walk \in Injection(1..n, Spots)
  BY <1>2 DEF Injection, IsInjective
<1>5. Cardinality(1..n) = Cardinality(Spots)
  BY <1>1, FS_Interval DEF n
<1>6. walk \in Surjection(1..n, Spots)
  BY <1>1, <1>4, <1>5, FS_Injection
<1> QED
  BY <1>1, <1>2, <1>3, <1>6 DEF Surjection

\* Found goes through the spots one by one.
Takes(before, fs, at) ==
    ExecutableAt(fs, at) /\ \A i \in DOMAIN before : before[i].path # PathAt(at)
Finds(f, fs, walk, registry) ==
    /\ f \in [0..Len(walk) -> Seq({EntryAt(fs, registry, at) : at \in Spots})]
    /\ f[0] = <<>>
    /\ \A k \in 1..Len(walk) :
          f[k] = IF Takes(f[k - 1], fs, walk[k])
                 THEN Append(f[k - 1], EntryAt(fs, registry, walk[k])) ELSE f[k - 1]

LEMMA FoundDef ==
    ASSUME NEW fs, NEW walk \in Walks, NEW registry
    PROVE  \E f : Finds(f, fs, walk, registry) /\ Found(fs, walk, registry) = f[Len(walk)]
<1> DEFINE N == Len(walk)
           E == {EntryAt(fs, registry, at) : at \in Spots}
           S == Seq(E)
           With(x, k) == IF Takes(x, fs, walk[k]) THEN Append(x, EntryAt(fs, registry, walk[k])) ELSE x
           next == [x \in S \X (1..N) |-> With(x[1], x[2])]
           Form(h) == h = [k \in 0..N |-> IF k = 0 THEN <<>> ELSE With(h[k - 1], k)]
           g == CHOOSE h : Form(h)
<1>1. <<>> \in S /\ N \in Nat /\ \A k \in 1..N : EntryAt(fs, registry, walk[k]) \in E
  BY EmptySeq, WalkFacts
<1>2. \A x \in S, k \in 1..N : With(x, k) \in S
  <2> HIDE DEF E, N
  <2> QED
    BY <1>1, AppendProperties
<1>3. Found(fs, walk, registry) = g[N]
  BY DEF Found, Takes, ExecutableAt, EntryAt, PathAt, AbiAt
<1>4. \A x, k : With(x, k) = IF Takes(x, fs, walk[k])
                             THEN Append(x, EntryAt(fs, registry, walk[k])) ELSE x
  OBVIOUS
<1> HIDE DEF With, E
<1>5. next \in [S \X (1..N) -> S] /\ \A x \in S, i \in 1..N : next[<<x, i>>] = With(x, i)
  BY <1>2
<1> HIDE DEF next
<1>6. PICK f : MadeBy(f, N, S, <<>>, next)
  <2>1. N \in Nat /\ <<>> \in S /\ next \in [S \X (1..N) -> S]
    BY <1>1, <1>5
  <2> HIDE DEF S, N
  <2> QED
    BY <2>1, Rounds
<1>7. ASSUME NEW n \in 1..N PROVE f[n] = With(f[n - 1], n)
  <2>1. n - 1 \in 0..N
    BY <1>1
  <2>2. f[n - 1] \in S
    BY <2>1, <1>6 DEF MadeBy
  <2> QED
    BY <2>2, <1>5, <1>6 DEF MadeBy
<1>8. Form(f)
  BY <1>1, <1>6, <1>7 DEF MadeBy
<1>9. Form(g)
  BY <1>8
<1> HIDE DEF g
<1>10. g[0] = <<>> /\ \A n \in 1..N : g[n] = With(g[n - 1], n)
  BY <1>1, <1>9
<1>11. \A n \in 1..N : g[n - 1] \in S => g[n] = next[<<g[n - 1], n>>]
  BY <1>5, <1>10
<1>12. g[N] = f[N]
  BY <1>1, <1>6, <1>10, <1>11 DEF MadeBy
<1>13. /\ f \in [0..N -> S] /\ f[0] = <<>>
       /\ \A k \in 1..N : f[k] = IF Takes(f[k - 1], fs, walk[k])
                                 THEN Append(f[k - 1], EntryAt(fs, registry, walk[k])) ELSE f[k - 1]
  BY <1>4, <1>6, <1>7 DEF MadeBy
<1> QED
  BY <1>3, <1>12, <1>13 DEF Finds, E

\* What a walk finds is the executables of the spots it goes to, each path once.
FoundIn(m, fs, registry) ==
    /\ m \in Seq({EntryAt(fs, registry, at) : at \in Spots})
    /\ \A i, j \in DOMAIN m : m[i].path = m[j].path => i = j
    /\ \A i \in DOMAIN m : \E at \in Spots :
          ExecutableAt(fs, at) /\ m[i] = EntryAt(fs, registry, at)
    /\ \A at \in Spots : ExecutableAt(fs, at)
          => \E i \in DOMAIN m : m[i].path = PathAt(at)

LEMMA FoundFacts ==
    ASSUME NEW fs, NEW walk \in Walks, NEW registry
    PROVE  FoundIn(Found(fs, walk, registry), fs, registry)
<1> DEFINE N == Len(walk)
           E == {EntryAt(fs, registry, at) : at \in Spots}
<1>1. PICK f : Finds(f, fs, walk, registry) /\ Found(fs, walk, registry) = f[N]
  BY FoundDef
<1>2. N \in Nat /\ \A k \in 1..N : walk[k] \in Spots
  BY WalkFacts
<1>3. \A at : EntryAt(fs, registry, at).path = PathAt(at)
  BY DEF EntryAt, Classified
<1> DEFINE Once(m) == \A i, j \in DOMAIN m : m[i].path = m[j].path => i = j
           Sound(m) == \A i \in DOMAIN m : \E at \in Spots :
                          ExecutableAt(fs, at) /\ m[i] = EntryAt(fs, registry, at)
           Has(m, at) == \E i \in DOMAIN m : m[i].path = PathAt(at)
           Done(k) == /\ f[k] \in Seq(E) /\ Once(f[k]) /\ Sound(f[k])
                      /\ \A j \in 1..k : ExecutableAt(fs, walk[j]) => Has(f[k], walk[j])
           T == {k \in 0..N : Done(k)}
<1>4. 0 \in T
  BY <1>1, <1>2 DEF Finds
<1>5. ASSUME NEW k \in T, k < N PROVE k + 1 \in T
  <2> DEFINE at == walk[k + 1]
             e == EntryAt(fs, registry, at)
             old == f[k]
             new == f[k + 1]
  <2>1. k + 1 \in 1..N /\ k + 1 \in 0..N /\ (k + 1) - 1 = k /\ Done(k) /\ k \in Nat
    <3>1. k \in 0..N /\ Done(k)
      OBVIOUS
    <3> HIDE DEF N, Done
    <3> QED
      BY <1>2, <1>5, <3>1
  <2>2. at \in Spots /\ e \in E
    BY <1>2, <2>1
  <2>3. new = IF Takes(old, fs, at) THEN Append(old, e) ELSE old
    BY <1>1, <2>1 DEF Finds
  <2>4. new \in Seq(E)
    BY <1>1, <2>1 DEF Finds
  <2>5. /\ Once(new) /\ Sound(new)
        /\ \A to : Has(old, to) => Has(new, to)
        /\ ExecutableAt(fs, at) => Has(new, at)
    <3>1. CASE ~ Takes(old, fs, at)
      BY <2>1, <2>3, <3>1 DEF Takes
    <3>2. CASE Takes(old, fs, at)
      <4> DEFINE n == Len(old)
      <4>1. old \in Seq(E) /\ Once(old) /\ Sound(old)
        BY <2>1
      <4>2. new = Append(old, e) /\ e.path = PathAt(at)
        BY <1>3, <2>3, <3>2
      <4> HIDE DEF old, new, e, E, at
      <4>3. n \in Nat /\ DOMAIN old = 1..n /\ DOMAIN new = 1..(n + 1)
        <5>1. Len(new) = n + 1
          BY <2>2, <4>1, <4>2, AppendProperties
        <5> QED
          BY <2>4, <4>1, <5>1, LenProperties
      <4>4. new[n + 1] = e /\ \A i \in 1..n : new[i] = old[i]
        BY <2>2, <4>1, <4>2, AppendProperties
      <4> HIDE DEF n
      <4>5. \A i \in 1..(n + 1) : i \in 1..n \/ i = n + 1
        BY <4>3
      <4>6. \A i \in 1..n : i \in 1..(n + 1)
        BY <4>3
      <4>7. n + 1 \in 1..(n + 1)
        BY <4>3
      <4>8. \A i \in 1..n : old[i].path # e.path
        BY <3>2, <4>2, <4>3 DEF Takes
      <4>9. Once(new)
        BY <4>1, <4>3, <4>4, <4>5, <4>8
      <4>10. Sound(new)
        <5>1. ExecutableAt(fs, at) /\ e = EntryAt(fs, registry, at)
          BY <3>2 DEF Takes, e
        <5> QED
          BY <2>2, <4>1, <4>3, <4>4, <4>5, <5>1
      <4>11. \A to : Has(old, to) => Has(new, to)
        BY <4>3, <4>4, <4>6
      <4>12. Has(new, at)
        BY <4>2, <4>3, <4>4, <4>7
      <4> QED
        BY <4>9, <4>10, <4>11, <4>12
    <3> QED
      BY <3>1, <3>2
  <2>6. \A j \in 1..(k + 1) : j \in 1..k \/ j = k + 1
    BY <2>1
  <2>7. Done(k + 1)
    <3> HIDE DEF Once, Sound, Has
    <3> QED
      BY <2>1, <2>4, <2>5, <2>6
  <2> QED
    BY <2>1, <2>7
<1>6. Done(N)
  <2>1. \A k \in T : k \in Nat /\ k < N => k + 1 \in T
    BY <1>5
  <2>2. N \in T
    <3> HIDE DEF T, N
    <3>1. \A k \in 0..N : k \in T
      BY <1>2, <1>4, <2>1, UpToBound
    <3> QED
      BY <1>2, <3>1
  <2> QED
    BY <2>2
<1>7. \A at \in Spots : ExecutableAt(fs, at) => Has(f[N], at)
  BY <1>6, WalkFacts
<1> QED
  BY <1>1, <1>6, <1>7 DEF FoundIn
-----------------------------------------------------------------------------
(* What is so of the manifest at every stage. *)

\* The paths and kinds of what is listed, and of what is in the search directories.
Shown(m) == {[path |-> m[i].path, abi |-> m[i].abi] : i \in DOMAIN m}
InTree(fs) == {[path |-> PathAt(at), abi |-> AbiAt(fs, at)] : at \in {at \in Spots : ExecutableAt(fs, at)}}

\* An entry has the provider that the registry has for its name, and no artifact but its own.
IsEntry(e, registry) ==
    /\ e = [path |-> e.path, abi |-> e.abi, status |-> e.status,
            provider |-> e.provider, artifact |-> e.artifact]
    /\ Last(e.path) \in Names
    /\ e.provider = IF e.abi = "linux" THEN registry[Last(e.path)] ELSE None
    /\ e.status = Status(e.abi, e.provider)
    /\ e.artifact # None => Substituted(e) /\ e.artifact = ArtifactOf(e)

Listing(m, fs) ==
    /\ Len(m) \in Nat /\ DOMAIN m = 1..Len(m)
    /\ \A i, j \in DOMAIN m : m[i].path = m[j].path => i = j
    /\ Shown(m) = InTree(fs)
    /\ \E registry \in Registries : \A i \in DOMAIN m : IsEntry(m[i], registry)

ListInv == stage # "unpack" => status = "done" /\ Listing(manifest, rootfs)

\* Once baked, every entry that could be served names its artifact.
FillInv ==
    stage \in {"baked", "shadowed", "gated"} =>
        \A i \in DOMAIN manifest :
            Substituted(manifest[i]) /\ Resolves(manifest[i].provider)
            => manifest[i].artifact = ArtifactOf(manifest[i])

\* A link is that of an entry that is shadowed, and such an entry has its name linked.
LinkInv ==
    stage \in {"shadowed", "gated"} =>
        /\ \A n \in DOMAIN links : \E i \in DOMAIN manifest :
              Shadowed(manifest[i]) /\ n \in LinksOf(manifest[i]) /\ links[n] = manifest[i].artifact
        /\ \A i \in DOMAIN manifest :
              Shadowed(manifest[i]) => Last(manifest[i].path) \in DOMAIN links

GateInv ==
    stage = "gated" => (linux <=> \E i \in DOMAIN manifest : manifest[i].status = "linuxulator")

ManifestInv == ListInv /\ FillInv /\ LinkInv /\ GateInv

\* The stages leave the extraction alone.
LEMMA StagesKeepLayers == [ManifestNext]_<<vars, manifestVars>> => [Next]_vars
BY DEF ManifestNext, Probe, BakeNothing, BakeRefused, BakeFails, BakeRegisters, AssembleShadow,
       Gate, Step, vars

LEMMA ManifestUnpacks == ManifestSpec => Spec
<1>1. ManifestInit => Init
  BY DEF ManifestInit
<1> QED
  BY <1>1, StagesKeepLayers, PTL DEF ManifestSpec, Spec

\* A complete extraction is the last.
LEMMA DoneIsEnd ==
    ASSUME status = "done", Next
    PROVE  FALSE
BY DEF Next, ClearOpaque, Whiteout, Merge, Extracting, NextPhase, Kill, Retry

\* Reading of entries.
LEMMA ClassifiedIsEntry ==
    ASSUME NEW registry, NEW path, Last(path) \in Names, NEW abi
    PROVE  /\ Classified(path, abi, registry).path = path
           /\ Classified(path, abi, registry).abi = abi
           /\ IsEntry(Classified(path, abi, registry), registry)
BY DEF Classified, IsEntry

\* The executables of the search directories, as they are listed.
LEMMA ProbeLists ==
    ASSUME NEW fs, NEW walk \in Walks, NEW registry \in Registries
    PROVE  Listing(Found(fs, walk, registry), fs)
<1> DEFINE m == Found(fs, walk, registry)
           S == {EntryAt(fs, registry, at) : at \in Spots}
           shown(i) == [path |-> m[i].path, abi |-> m[i].abi]
           there(at) == [path |-> PathAt(at), abi |-> AbiAt(fs, at)]
<1>0. FoundIn(m, fs, registry)
  BY FoundFacts
<1> HIDE DEF m
<1>1. /\ m \in Seq(S)
      /\ \A i, j \in DOMAIN m : m[i].path = m[j].path => i = j
      /\ \A i \in DOMAIN m : \E at \in Spots :
            ExecutableAt(fs, at) /\ m[i] = EntryAt(fs, registry, at)
      /\ \A at \in Spots : ExecutableAt(fs, at) => \E i \in DOMAIN m : m[i].path = PathAt(at)
  BY <1>0 DEF FoundIn
<1> HIDE DEF S
<1>2. Len(m) \in Nat /\ DOMAIN m = 1..Len(m)
  BY <1>1, LenProperties
<1>3. ASSUME NEW at \in Spots
      PROVE  /\ EntryAt(fs, registry, at).path = PathAt(at)
             /\ EntryAt(fs, registry, at).abi = AbiAt(fs, at)
             /\ IsEntry(EntryAt(fs, registry, at), registry)
  <2>1. Last(PathAt(at)) \in Names
    BY SpotFacts
  <2> QED
    BY <2>1, ClassifiedIsEntry DEF EntryAt
<1>4. \A i \in DOMAIN m : IsEntry(m[i], registry)
  BY <1>1, <1>3
<1>5. ASSUME NEW i \in DOMAIN m PROVE shown(i) \in InTree(fs)
  <2>1. PICK at \in Spots : ExecutableAt(fs, at) /\ m[i] = EntryAt(fs, registry, at)
    BY <1>1
  <2>2. shown(i) = there(at)
    BY <1>3, <2>1
  <2> QED
    BY <2>1, <2>2 DEF InTree
<1>6. ASSUME NEW at \in Spots, ExecutableAt(fs, at) PROVE there(at) \in Shown(m)
  <2>1. PICK i \in DOMAIN m : m[i].path = PathAt(at)
    BY <1>1, <1>6
  <2>2. PICK to \in Spots : ExecutableAt(fs, to) /\ m[i] = EntryAt(fs, registry, to)
    BY <1>1
  <2>3. PathAt(to) = PathAt(at) /\ m[i].abi = AbiAt(fs, to)
    BY <1>3, <2>1, <2>2
  <2>4. AbiAt(fs, to) = AbiAt(fs, at)
    BY <2>3, SpotFacts DEF AbiAt
  <2>5. there(at) = shown(i)
    BY <2>1, <2>3, <2>4
  <2> HIDE DEF there, shown
  <2>6. Shown(m) = {shown(j) : j \in DOMAIN m}
    BY DEF Shown, shown
  <2> QED
    BY <2>5, <2>6
<1>7. Shown(m) = InTree(fs)
  <2>1. Shown(m) = {shown(i) : i \in DOMAIN m}
    BY DEF Shown
  <2>2. InTree(fs) = {there(at) : at \in {at \in Spots : ExecutableAt(fs, at)}}
    BY DEF InTree
  <2> HIDE DEF there, shown
  <2> QED
    BY <1>5, <1>6, <2>1, <2>2
<1>8. Listing(m, fs)
  BY <1>1, <1>2, <1>4, <1>7 DEF Listing
<1> QED
  BY <1>8 DEF m

\* Filling in an artifact changes nothing else of an entry.
LEMMA FilledFacts ==
    ASSUME NEW e, NEW registry, IsEntry(e, registry), NEW plan
    PROVE  LET new == Filled(e, plan) IN
           /\ new.path = e.path /\ new.abi = e.abi /\ new.provider = e.provider
           /\ new.status = e.status
           /\ IsEntry(new, registry)
           /\ Substituted(e) /\ Contains(plan, e.provider) => new.artifact = ArtifactOf(new)
<1> DEFINE new == Filled(e, plan)
<1>1. CASE ~ (Substituted(e) /\ Contains(plan, e.provider))
  BY <1>1 DEF Filled
<1>2. CASE Substituted(e) /\ Contains(plan, e.provider)
  <2> DEFINE a == ArtifactOf(e)
  <2>1. new = [path |-> e.path, abi |-> e.abi, status |-> e.status,
               provider |-> e.provider, artifact |-> a]
    <3>1. new = [e EXCEPT !.artifact = a]
      BY <1>2 DEF Filled
    <3> HIDE DEF new, a
    <3> QED
      BY <3>1 DEF IsEntry
  <2> HIDE DEF new, a
  <2>2. /\ new.path = e.path /\ new.abi = e.abi /\ new.provider = e.provider
        /\ new.status = e.status /\ new.artifact = a
    BY <2>1
  <2>3. ArtifactOf(new) = a
    BY <2>2 DEF a, ArtifactOf
  <2>4. Substituted(new)
    BY <1>2, <2>2 DEF Substituted
  <2>5. new = [path |-> new.path, abi |-> new.abi, status |-> new.status,
               provider |-> new.provider, artifact |-> new.artifact]
    BY <2>1, <2>2
  <2>6. IsEntry(new, registry)
    BY <2>2, <2>3, <2>4, <2>5 DEF IsEntry
  <2> QED
    BY <2>2, <2>3, <2>6 DEF new
<1> QED
  BY <1>1, <1>2

\* Filling in the artifacts lists the same, and an artifact for whatever is planned.
LEMMA FillLists ==
    ASSUME NEW fs, Listing(manifest, fs), Fill
    PROVE  /\ Listing(manifest', fs)
           /\ \A i \in DOMAIN manifest' :
                 /\ i \in DOMAIN manifest
                 /\ Substituted(manifest'[i]) = Substituted(manifest[i])
                 /\ manifest'[i].provider = manifest[i].provider
                 /\ Substituted(manifest[i]) /\ Contains(Planned, manifest[i].provider)
                    => manifest'[i].artifact = ArtifactOf(manifest'[i])
<1> DEFINE n == Len(manifest)
           plan == Planned
           new == manifest'
<1>1. /\ n \in Nat /\ DOMAIN manifest = 1..n
      /\ \A i, j \in 1..n : manifest[i].path = manifest[j].path => i = j
      /\ Shown(manifest) = InTree(fs)
  BY DEF Listing
<1>2. PICK registry \in Registries : \A i \in 1..n : IsEntry(manifest[i], registry)
  BY <1>1 DEF Listing
<1>3. new = [i \in 1..n |-> Filled(manifest[i], plan)]
  BY <1>1 DEF Fill, Planned
<1> HIDE DEF n, plan, new
<1>4. ASSUME NEW i \in 1..n
      PROVE  /\ new[i].path = manifest[i].path /\ new[i].abi = manifest[i].abi
             /\ new[i].provider = manifest[i].provider /\ new[i].status = manifest[i].status
             /\ IsEntry(new[i], registry)
             /\ Substituted(manifest[i]) /\ Contains(plan, manifest[i].provider)
                => new[i].artifact = ArtifactOf(new[i])
  <2>1. new[i] = Filled(manifest[i], plan)
    BY <1>3
  <2> QED
    BY <1>2, <2>1, FilledFacts
<1>5. DOMAIN new = 1..n /\ Len(new) = n
  <2> DEFINE S == {Filled(manifest[i], plan) : i \in 1..n}
  <2>1. new \in [1..n -> S]
    BY <1>3
  <2> HIDE DEF S
  <2> QED
    BY <1>1, <2>1
<1>6. Shown(new) = Shown(manifest)
  BY <1>1, <1>4, <1>5 DEF Shown
<1>7. Listing(new, fs)
  BY <1>1, <1>2, <1>4, <1>5, <1>6 DEF Listing
<1>8. \A i \in 1..n : Substituted(new[i]) = Substituted(manifest[i])
  BY <1>4 DEF Substituted
<1> QED
  BY <1>1, <1>4, <1>5, <1>7, <1>8 DEF new, plan
\* A plan serves the entries of any listing.
LEMMA PlanOfListing ==
    ASSUME NEW fs, Listing(manifest, fs)
    PROVE  /\ Serves(Planned)
           /\ \A i \in DOMAIN manifest :
                 Substituted(manifest[i]) /\ Resolves(manifest[i].provider)
                 => Contains(Planned, manifest[i].provider)
<1>1. PICK registry \in Registries : \A i \in DOMAIN manifest : IsEntry(manifest[i], registry)
  BY DEF Listing
<1>2. registry \in [Names -> Providers \cup {None}]
  BY ManifestAssumption
<1>3. \A i \in DOMAIN manifest : manifest[i].provider \in Providers \cup {None}
  BY <1>1, <1>2 DEF IsEntry
<1>4. Len(manifest) \in Nat /\ DOMAIN manifest = 1..Len(manifest)
  BY DEF Listing
<1> QED
  BY <1>3, <1>4, PlanOfEntries DEF Planned

\* The first entry that calls for a name makes its link.
LEMMA ShadowLinks ==
    ASSUME NEW fs, Listing(manifest, fs), AssembleShadow
    PROVE  LinkInv'
<1> DEFINE shadowed == {i \in DOMAIN manifest : Shadowed(manifest[i])}
           callers(n) == {i \in shadowed : n \in LinksOf(manifest[i])}
           names == UNION {LinksOf(manifest[i]) : i \in shadowed}
<1>1. /\ links' = [n \in names |-> manifest[Min(callers(n))].artifact]
      /\ manifest' = manifest /\ base' = base
  BY DEF AssembleShadow
<1>2. \A i : Shadowed(manifest[i])' <=> Shadowed(manifest[i])
  BY <1>1 DEF Shadowed
<1>3. ASSUME NEW n \in names
      PROVE  \E i \in DOMAIN manifest :
                Shadowed(manifest[i]) /\ n \in LinksOf(manifest[i]) /\ links'[n] = manifest[i].artifact
  <2> DEFINE i == Min(callers(n))
  <2>1. callers(n) # {} /\ callers(n) \subseteq Nat
    BY DEF Listing
  <2>2. \E k \in callers(n) : \A j \in callers(n) : k <= j
    <3> HIDE DEF callers
    <3> QED
      BY <2>1, LeastNatural
  <2>3. i \in callers(n)
    <3> HIDE DEF callers
    <3> QED
      BY <2>2 DEF Min
  <2>4. links'[n] = manifest[i].artifact
    BY <1>1
  <2> HIDE DEF i
  <2>5. i \in DOMAIN manifest /\ Shadowed(manifest[i]) /\ n \in LinksOf(manifest[i])
    BY <2>3
  <2> QED
    BY <2>4, <2>5
<1>4. ASSUME NEW i \in DOMAIN manifest, Shadowed(manifest[i])
      PROVE  Last(manifest[i].path) \in names
  BY <1>4 DEF LinksOf
<1> HIDE DEF names, callers
<1>5. DOMAIN links' = names
  BY <1>1
<1> QED
  BY <1>1, <1>2, <1>3, <1>4, <1>5 DEF LinkInv

LEMMA ManifestInvInit == ManifestInit => ManifestInv
BY DEF ManifestInit, ManifestInv, ListInv, FillInv, LinkInv, GateInv

LEMMA ManifestInvStep == ManifestInv /\ [ManifestNext]_<<vars, manifestVars>> => ManifestInv'
<1> SUFFICES ASSUME ManifestInv, [ManifestNext]_<<vars, manifestVars>> PROVE ManifestInv'
  OBVIOUS
<1>0. ListInv /\ FillInv /\ LinkInv /\ GateInv
  BY DEF ManifestInv
<1>1. ASSUME UNCHANGED manifestVars, stage = "unpack" \/ UNCHANGED vars PROVE ManifestInv'
  <2>1. /\ stage' = stage /\ manifest' = manifest /\ base' = base /\ links' = links
        /\ linux' = linux
        /\ stage # "unpack" => status' = status /\ rootfs' = rootfs
    BY <1>1 DEF manifestVars, vars
  <2>2. ListInv'
    BY <1>0, <2>1 DEF ListInv
  <2>3. FillInv'
    BY <1>0, <2>1 DEF FillInv
  <2>4. LinkInv'
    BY <1>0, <2>1 DEF LinkInv, Shadowed
  <2>5. GateInv'
    BY <1>0, <2>1 DEF GateInv
  <2> QED
    BY <2>2, <2>3, <2>4, <2>5 DEF ManifestInv
<1>2. CASE Next /\ UNCHANGED manifestVars
  <2>1. stage = "unpack"
    BY <1>0, <1>2, DoneIsEnd DEF ListInv
  <2> QED
    BY <1>1, <1>2, <2>1
<1>3. CASE UNCHANGED <<vars, manifestVars>>
  BY <1>1, <1>3
<1>4. CASE Probe
  <2>1. PICK walk \in Walks, registry \in Registries : manifest' = Found(rootfs, walk, registry)
    BY <1>4 DEF Probe
  <2>2. stage' = "probed" /\ status = "done" /\ status' = status /\ rootfs' = rootfs
    BY <1>4 DEF Probe, Step, vars
  <2>3. Listing(manifest', rootfs')
    BY <2>1, <2>2, ProbeLists
  <2> QED
    BY <2>2, <2>3 DEF ManifestInv, ListInv, FillInv, LinkInv, GateInv
<1>5. ASSUME Step("probed", "baked") PROVE
         /\ stage = "probed" /\ stage' = "baked" /\ status' = status /\ rootfs' = rootfs
         /\ status = "done" /\ Listing(manifest, rootfs)
  BY <1>0, <1>5 DEF Step, ListInv, vars
<1>6. CASE BakeNothing
  <2>1. Step("probed", "baked") /\ Planned = <<>> /\ manifest' = manifest
    BY <1>6 DEF BakeNothing
  <2>2. /\ stage' = "baked" /\ status' = status /\ rootfs' = rootfs
        /\ status = "done" /\ Listing(manifest, rootfs)
    BY <1>5, <2>1
  <2>3. \A i \in DOMAIN manifest : ~ (Substituted(manifest[i]) /\ Resolves(manifest[i].provider))
    BY <2>1, <2>2, PlanOfListing DEF Contains
  <2>4. ListInv' /\ FillInv'
    BY <2>1, <2>2, <2>3 DEF ListInv, FillInv
  <2> QED
    BY <2>2, <2>4 DEF ManifestInv, LinkInv, GateInv
<1>7. CASE BakeRefused \/ BakeFails \/ BakeRegisters
  <2>1. Step("probed", "baked") /\ Fill
    BY <1>7 DEF BakeRefused, BakeFails, BakeRegisters
  <2>2. /\ stage' = "baked" /\ status' = status /\ rootfs' = rootfs
        /\ status = "done" /\ Listing(manifest, rootfs)
    BY <1>5, <2>1
  <2>3. ListInv'
    BY <2>1, <2>2, FillLists DEF ListInv
  <2>4. ASSUME NEW i \in DOMAIN manifest',
               Substituted(manifest'[i]), Resolves(manifest'[i].provider)
        PROVE  manifest'[i].artifact = ArtifactOf(manifest'[i])
    <3>1. /\ i \in DOMAIN manifest /\ Substituted(manifest'[i]) = Substituted(manifest[i])
          /\ manifest'[i].provider = manifest[i].provider
          /\ Substituted(manifest[i]) /\ Contains(Planned, manifest[i].provider)
             => manifest'[i].artifact = ArtifactOf(manifest'[i])
      BY <2>1, <2>2, FillLists
    <3>2. Contains(Planned, manifest[i].provider)
      BY <2>2, <2>4, <3>1, PlanOfListing
    <3> QED
      BY <2>4, <3>1, <3>2
  <2>5. FillInv'
    BY <2>4 DEF FillInv
  <2> QED
    BY <2>2, <2>3, <2>5 DEF ManifestInv, LinkInv, GateInv
<1>8. CASE AssembleShadow
  <2>1. /\ stage = "baked" /\ stage' = "shadowed" /\ status' = status /\ rootfs' = rootfs
        /\ manifest' = manifest
    BY <1>8 DEF AssembleShadow, Step, vars
  <2>2. ListInv' /\ FillInv'
    BY <1>0, <2>1 DEF ListInv, FillInv
  <2>3. LinkInv'
    BY <1>0, <1>8, <2>1, ShadowLinks DEF ListInv
  <2> QED
    BY <2>1, <2>2, <2>3 DEF ManifestInv, GateInv
<1>9. CASE Gate
  <2>1. /\ stage = "shadowed" /\ stage' = "gated" /\ status' = status /\ rootfs' = rootfs
        /\ manifest' = manifest /\ base' = base /\ links' = links
        /\ linux' = \E i \in DOMAIN manifest : manifest[i].status = "linuxulator"
    BY <1>9 DEF Gate, Step, vars
  <2>2. ListInv' /\ FillInv'
    BY <1>0, <2>1 DEF ListInv, FillInv
  <2>3. LinkInv'
    BY <1>0, <2>1 DEF LinkInv, Shadowed
  <2>4. GateInv'
    BY <2>1 DEF GateInv
  <2> QED
    BY <2>2, <2>3, <2>4 DEF ManifestInv
<1> QED
  BY <1>2, <1>3, <1>4, <1>6, <1>7, <1>8, <1>9 DEF ManifestNext

LEMMA ManifestInvariant == ManifestSpec => []ManifestInv
BY ManifestInvInit, ManifestInvStep, PTL DEF ManifestSpec

-----------------------------------------------------------------------------
(* The properties. *)

\* The manifest lists, once each, what is executable directly in a search directory of the
\* image that the layers describe under a name not in SKIP_DIRS, and nothing else, whatever
\* earlier attempts of its extraction left behind.
THEOREM ListsTheTopLevel == ManifestSpec => []ListsTopLevel
<1>1. ExtractionIsOverlay /\ ManifestInv => ListsTopLevel
  <2> SUFFICES ASSUME ExtractionIsOverlay, ManifestInv, stage # "unpack", Plain
               PROVE  /\ {[path |-> e.path, abi |-> e.abi] : e \in Binaries} = TopLevel
                      /\ Len(manifest) = Cardinality(TopLevel)
    BY DEF ListsTopLevel
  <2> DEFINE shown(e) == [path |-> e.path, abi |-> e.abi]
             n == Len(manifest)
  <2>1. rootfs = UpTo(Len(image)) /\ Listing(manifest, rootfs)
    BY DEF ManifestInv, ListInv, ExtractionIsOverlay
  <2>2. /\ n \in Nat /\ DOMAIN manifest = 1..n
        /\ \A i, j \in 1..n : manifest[i].path = manifest[j].path => i = j
        /\ Shown(manifest) = InTree(rootfs)
    BY <2>1 DEF Listing
  <2>3. {shown(e) : e \in Binaries} = Shown(manifest)
    BY DEF Binaries, ToSet, Shown
  <2>4. InTree(rootfs) = TopLevel
    <3> DEFINE there(at) == [path |-> PathAt(at), abi |-> AbiAt(rootfs, at)]
               node(at) == At(rootfs, Resolved(rootfs, Append(at[1], at[2])))
               found == {at \in ToSet(SearchDirs) \X (Names \ SkipDirs) :
                            node(at).kind = "file" /\ Content(node(at), at[2]) # "data"}
               entry(at) == [path |-> Append(at[1], at[2]), abi |-> Content(node(at), at[2])]
    <3>1. TopLevel = {entry(at) : at \in found}
      BY <2>1 DEF TopLevel
    <3>2. InTree(rootfs) = {there(at) : at \in {at \in Spots : ExecutableAt(rootfs, at)}}
      BY DEF InTree
    <3>3. ASSUME NEW at \in Spots
          PROVE  /\ <<SearchDirs[at[1]], at[2]>> \in ToSet(SearchDirs) \X (Names \ SkipDirs)
                 /\ ExecutableAt(rootfs, at) <=> <<SearchDirs[at[1]], at[2]>> \in found
                 /\ there(at) = entry(<<SearchDirs[at[1]], at[2]>>)
      BY DEF Spots, ToSet, ExecutableAt, Executable, Target, PathAt, AbiAt
    <3>4. ASSUME NEW to \in found PROVE \E at \in Spots : to = <<SearchDirs[at[1]], at[2]>>
      <4>1. PICK d \in DOMAIN SearchDirs : to[1] = SearchDirs[d]
        BY DEF ToSet
      <4>2. <<d, to[2]>> \in Spots /\ to = <<SearchDirs[d], to[2]>>
        BY <4>1 DEF Spots
      <4> QED
        BY <4>2
    <3>5. ASSUME NEW s \in InTree(rootfs) PROVE s \in TopLevel
      <4>1. PICK at \in Spots : ExecutableAt(rootfs, at) /\ s = there(at)
        BY <3>2
      <4>2. <<SearchDirs[at[1]], at[2]>> \in found /\ s = entry(<<SearchDirs[at[1]], at[2]>>)
        BY <3>3, <4>1
      <4> HIDE DEF entry, found, there
      <4> QED
        BY <3>1, <4>2
    <3>6. ASSUME NEW s \in TopLevel PROVE s \in InTree(rootfs)
      <4>1. PICK to \in found : s = entry(to)
        BY <3>1
      <4>2. PICK at \in Spots : to = <<SearchDirs[at[1]], at[2]>>
        BY <3>4
      <4>3. ExecutableAt(rootfs, at) /\ there(at) = entry(to)
        BY <3>3, <4>2
      <4> HIDE DEF entry, found, there
      <4> QED
        BY <3>2, <4>1, <4>3
    <3>7. InTree(rootfs) \subseteq TopLevel /\ TopLevel \subseteq InTree(rootfs)
      BY <3>5, <3>6
    <3> QED
      BY <3>7
  <2>5. n = Cardinality(Shown(manifest))
    <3> DEFINE f == [i \in 1..n |-> shown(manifest[i])]
    <3>1. f \in [1..n -> Shown(manifest)]
      BY <2>2 DEF Shown
    <3>2. \A i, j \in 1..n : f[i] = f[j] => i = j
      BY <2>2
    <3>3. \A s \in Shown(manifest) : \E i \in 1..n : f[i] = s
      BY <2>2 DEF Shown
    <3> HIDE DEF f, n
    <3>4. f \in Bijection(1..n, Shown(manifest))
      BY <3>1, <3>2, <3>3 DEF Bijection, Injection, Surjection, IsInjective
    <3>5. ExistsBijection(1..n, Shown(manifest))
      BY <3>4 DEF ExistsBijection
    <3> QED
      BY <2>2, <3>5, FS_CountingElements
  <2> QED
    BY <2>2, <2>3, <2>4, <2>5
<1>2. ManifestSpec => []ExtractionIsOverlay
  BY ManifestUnpacks, CompletedIsOverlay, PTL
<1> QED
  BY <1>1, <1>2, ManifestInvariant, PTL

\* The plan has one step for each provider that resolves, and what a recipe depends on comes
\* before it, however the image's names share providers and these their dependencies.
THEOREM PlansServe == ManifestSpec => []PlanServes
<1>1. ManifestInv => PlanServes
  <2> SUFFICES ASSUME ManifestInv, stage = "probed" PROVE PlanServes
    BY DEF PlanServes
  <2>1. Listing(manifest, rootfs)
    BY DEF ManifestInv, ListInv
  <2>2. /\ Serves(Planned)
        /\ \A i \in DOMAIN manifest :
              Substituted(manifest[i]) /\ Resolves(manifest[i].provider)
              => Contains(Planned, manifest[i].provider)
    BY <2>1, PlanOfListing
  <2>3. \A e \in Binaries :
           Substituted(e) /\ Resolves(e.provider) => Contains(Planned, e.provider)
    BY <2>2 DEF Binaries, ToSet
  <2> QED
    BY <2>2, <2>3 DEF PlanServes, Serves
<1> QED
  BY <1>1, ManifestInvariant, PTL

\* Where all providers resolve and the base has all that was planned, no Linux executable of
\* the image is left with neither a native one nor emulation.
THEOREM CompleteBasesServe == ManifestSpec => []CompleteBaseServes
<1>1. ManifestInv => CompleteBaseServes
  <2> SUFFICES ASSUME ManifestInv, stage = "gated", base # None,
                      \A e \in Binaries : Substituted(e) => Resolves(e.provider),
                      \A e \in Binaries : e.artifact # None => e.artifact \in base,
                      NEW e \in Binaries, e.abi = "linux", ~ linux
               PROVE  Last(e.path) \in DOMAIN links
    BY DEF CompleteBaseServes
  <2>1. PICK i \in DOMAIN manifest : e = manifest[i]
    BY DEF Binaries, ToSet
  <2>2. PICK registry \in Registries : IsEntry(e, registry)
    BY <2>1 DEF ManifestInv, ListInv, Listing
  <2>3. e.status # "linuxulator"
    BY <2>1 DEF ManifestInv, GateInv
  <2>4. Substituted(e)
    BY <2>2, <2>3 DEF IsEntry, Status, Substituted
  <2>5. e.artifact = ArtifactOf(e)
    BY <2>1, <2>4 DEF ManifestInv, FillInv
  <2>6. ArtifactOf(e) \in Artifact
    <3>1. e.provider \in Providers /\ ToolOf(e.provider, Last(e.path)) \in STRING
      <4>1. Last(e.path) \in Names
        BY <2>2 DEF IsEntry
      <4>2. registry[Last(e.path)] \in Providers \cup {None}
        <5>1. registry \in [Names -> Providers \cup {None}]
          BY ManifestAssumption
        <5> QED
          BY <4>1, <5>1
      <4>3. e.provider \in Providers
        BY <2>2, <2>4, <4>2 DEF IsEntry, Substituted
      <4>4. CASE e.provider \in Multi
        <5>1. Versioned \in [Multi -> [Names -> STRING]]
          BY ManifestAssumption
        <5>2. Versioned[e.provider][Last(e.path)] \in STRING
          BY <4>1, <4>4, <5>1
        <5> QED
          BY <4>3, <4>4, <5>2 DEF ToolOf
      <4>5. CASE e.provider \notin Multi
        <5>1. Tool \in [Providers -> STRING]
          BY ManifestAssumption
        <5>2. Tool[e.provider] \in STRING
          BY <4>3, <5>1
        <5> QED
          BY <4>3, <4>5, <5>2 DEF ToolOf
      <4> QED
        BY <4>4, <4>5
    <3> QED
      BY <3>1 DEF ArtifactOf, Artifact
  <2>7. e.artifact # None
    BY <2>5, <2>6, ManifestAssumption
  <2>8. Shadowed(e)
    BY <2>4, <2>7 DEF Shadowed, Substituted
  <2> QED
    BY <2>1, <2>8 DEF ManifestInv, LinkInv
<1> QED
  BY <1>1, ManifestInvariant, PTL

\* Whatever links the entries of an image make over each other's names, a name that has a
\* provider leads to an artifact of that provider in the base, or nowhere.
THEOREM ShadowsAreOwn == ManifestSpec => []ShadowIsOwn
<1>1. ManifestInv => ShadowIsOwn
  <2> SUFFICES ASSUME ManifestInv, stage \in {"shadowed", "gated"},
                      NEW e \in Binaries, Substituted(e), Last(e.path) \in DOMAIN links
               PROVE  /\ links[Last(e.path)].of = e.provider
                      /\ base # None /\ links[Last(e.path)] \in base
    BY DEF ShadowIsOwn
  <2> DEFINE n == Last(e.path)
  <2>1. PICK registry \in Registries : \A i \in DOMAIN manifest : IsEntry(manifest[i], registry)
    BY DEF ManifestInv, ListInv, Listing
  <2>2. IsEntry(e, registry)
    BY <2>1 DEF Binaries, ToSet
  <2>3. PICK i \in DOMAIN manifest :
           Shadowed(manifest[i]) /\ n \in LinksOf(manifest[i]) /\ links[n] = manifest[i].artifact
    BY DEF ManifestInv, LinkInv
  <2> DEFINE f == manifest[i]
  <2>4. IsEntry(f, registry)
    BY <2>1
  <2> HIDE DEF f, n
  <2>5. /\ Shadowed(f) /\ n \in LinksOf(f) /\ links[n] = f.artifact
    BY <2>3 DEF f
  <2>6. base # None /\ links[n] \in base /\ f.artifact # None
    BY <2>5 DEF Shadowed
  <2>7. Substituted(f) /\ f.artifact = ArtifactOf(f)
    BY <2>4, <2>6 DEF IsEntry
  <2>8. links[n].of = f.provider
    BY <2>5, <2>7 DEF ArtifactOf
  <2>9. n \in Names /\ Last(f.path) \in Names
    BY <2>2, <2>4 DEF IsEntry, n
  <2>10. registry[n] = e.provider /\ registry[Last(f.path)] = f.provider
    BY <2>2, <2>4, <2>7 DEF IsEntry, Substituted, n
  <2>11. f.provider = e.provider
    <3>1. CASE n = Last(f.path)
      BY <2>10, <3>1
    <3>2. CASE n # Last(f.path)
      <4>1. n = ArtifactOf(f).tool
        BY <2>5, <2>7, <3>2 DEF LinksOf
      <4>2. registry[Last(f.path)] # None /\ ToolOf(registry[Last(f.path)], Last(f.path)) = n
        BY <2>7, <2>10, <4>1 DEF ArtifactOf, Substituted
      <4>4. registry[n] \in {f.provider, None}
        BY <2>9, <2>10, <4>2, RegistriesAssumption
      <4> QED
        BY <2>10, <4>4 DEF Substituted
    <3> QED
      BY <3>1, <3>2
  <2> QED
    BY <2>6, <2>8, <2>11 DEF n
<1> QED
  BY <1>1, ManifestInvariant, PTL
=============================================================================
