------------------------ MODULE ExtractionJail_proofs ------------------------
(* What ExtractionJail keeps as long as images are extracted one at a time,  *)
(* for any number of processes and whatever fails.                          *)
EXTENDS ExtractionJail, SequenceTheorems, TLAPS

-----------------------------------------------------------------------------
(* The inductive invariant.                                                 *)

Single == \A p, q \in Procs : Active(p) /\ Active(q) => p = q

\* What a process has mounted, by where it is; it is what its finally block unmounts,
\* where every process is whose mount or teardown was spoilt.
Covering(p) ==
    /\ pc[p] \in {"idle", "copy", "torn", "mkdir", "input", "done", "failed"} => cleanup[p] = {}
    /\ pc[p] = "output" => cleanup[p] = {"input"}
    /\ pc[p] \in {"jail", "open", "extract", "remove"} => cleanup[p] = Points
    /\ p \in spoilt => pc[p] \in {"finally", "done", "failed", "dead"}

\* A living process finds its own mount on top of those of others, and has no other
\* unless it was spoilt.
OnTop(p) ==
    pc[p] # "dead" =>
        \A pt \in Points :
            /\ pt \in cleanup[p] => Visible(pt) = p
            /\ \A i \in 1 .. Len(mnt[pt]) :
                  mnt[pt][i] = p => p \in spoilt \/ (i = Len(mnt[pt]) /\ pt \in cleanup[p])

\* Only its own bsdtar writes to the output of a process.
OwnOutput(p) ==
    /\ got[p] \subseteq {p}
    /\ pc[p] = "extract" => target[p] = p
    /\ extracted[p] => got[p] = {p} /\ pc[p] \in {"remove", "finally", "done", "failed", "dead"}
    /\ pc[p] = "done" => extracted[p]

OwnJail(p) ==
    p \in jails =>
        /\ pc[p] \in {"open", "extract", "remove", "finally", "done", "failed", "dead"}
        /\ pc[p] \in {"finally", "done", "failed"} => ~extracted[p] \/ p \in spoilt

JailInv ==
    /\ TypeOK
    /\ Single
    /\ \A p \in Procs : Covering(p) /\ OnTop(p) /\ OwnOutput(p) /\ OwnJail(p)

-----------------------------------------------------------------------------
(* Lemmas.                                                                  *)

\* Taking the visible mount away leaves the others as they were.
LEMMA UncoveredStack ==
    ASSUME NEW s \in Seq(Procs), s # <<>>, NEW t, t = [i \in 1 .. Len(s) - 1 |-> s[i]]
    PROVE  /\ t \in Seq(Procs)
           /\ Len(t) = Len(s) - 1
           /\ \A i \in 1 .. Len(t) : t[i] = s[i]
<1>1. Len(s) \in Nat /\ Len(s) # 0
  BY EmptySeq, LenProperties
<1>2. \A i \in 1 .. Len(s) : s[i] \in Procs
  BY ElementOfSeq
<1>3. Len(s) - 1 \in Nat
  BY <1>1
<1>4. t \in [1 .. Len(s) - 1 -> Procs]
  BY <1>1, <1>2
<1>5. t \in Seq(Procs)
  BY <1>3, <1>4
<1>6. Len(t) = Len(s) - 1
  BY <1>3, <1>5
<1> QED
  BY <1>1, <1>5, <1>6

LEMMA JailInit == Init => JailInv
<1> SUFFICES ASSUME Init PROVE JailInv
  OBVIOUS
<1>1. <<>> \in Seq(Procs) /\ Len(<<>>) = 0
  BY EmptySeq
<1>2. TypeOK
  BY <1>1 DEF Init, TypeOK, PC, Parts, Part, Needed, Points, Dirs
<1>3. Single
  BY DEF Init, Single, Active
<1>4. ASSUME NEW p \in Procs PROVE Covering(p) /\ OwnOutput(p) /\ OwnJail(p)
  BY DEF Init, Covering, OwnOutput, OwnJail, Dirs
<1>5. ASSUME NEW p \in Procs PROVE OnTop(p)
  BY <1>1 DEF Init, OnTop, Points
<1> QED
  BY <1>2, <1>3, <1>4, <1>5 DEF JailInv

\* What a step of p that mounts and unmounts nothing has to show.
LEMMA StepOffMounts ==
    ASSUME JailInv, OneAtATime, TypeOK', NEW p \in Procs, mnt' = mnt, cleanup' = cleanup,
           \A q \in Procs \ {p} :
               /\ pc'[q] = pc[q] /\ target'[q] = target[q] /\ extracted'[q] = extracted[q]
               /\ got'[q] = got[q] /\ (q \in jails' <=> q \in jails)
               /\ (q \in spoilt' <=> q \in spoilt),
           p \in spoilt => p \in spoilt',
           pc[p] # "dead", Covering(p)', OwnOutput(p)', OwnJail(p)'
    PROVE  JailInv'
<1>1. Single'
  BY DEF OneAtATime, Single
<1>2. ASSUME NEW q \in Procs \ {p}
      PROVE  Covering(q)' /\ OnTop(q)' /\ OwnOutput(q)' /\ OwnJail(q)'
  <2>1. Covering(q) /\ OnTop(q) /\ OwnOutput(q) /\ OwnJail(q)
    BY DEF JailInv
  <2>2. Covering(q)' /\ OwnOutput(q)' /\ OwnJail(q)'
    BY <2>1 DEF Covering, OwnOutput, OwnJail
  <2>3. OnTop(q)'
    BY <2>1 DEF OnTop, Visible
  <2> QED
    BY <2>2, <2>3
<1>3. OnTop(p)'
  BY DEF JailInv, OnTop, Visible
<1> QED
  BY <1>1, <1>2, <1>3 DEF JailInv

\* When a process acts, the others are dead or have nothing mounted.
LEMMA OthersRest ==
    ASSUME JailInv, NEW p \in Procs, Active(p), NEW q \in Procs \ {p}, pc[q] # "dead"
    PROVE  /\ cleanup[q] = {}
           /\ q \notin spoilt =>
                 \A pt \in Points : \A i \in 1 .. Len(mnt[pt]) : mnt[pt][i] # q
<1>1. pc[q] \in {"idle", "done", "failed"}
  BY DEF JailInv, TypeOK, PC, Single, Active
<1>2. cleanup[q] = {}
  BY <1>1 DEF JailInv, Covering
<1> QED
  BY <1>2 DEF JailInv, OnTop

LEMMA JailEnsure ==
    ASSUME JailInv, OneAtATime, NEW p \in Procs, Ensure(p)
    PROVE  JailInv'
<1>0. TypeOK /\ Covering(p) /\ OnTop(p) /\ OwnOutput(p) /\ OwnJail(p)
  BY DEF JailInv
<1>1. CASE Begin(p)
  <2>1. TypeOK'
    BY <1>0, <1>1 DEF Begin, Goto, TypeOK, PC
  <2>2. Covering(p)' /\ OwnOutput(p)' /\ OwnJail(p)'
    BY <1>0, <1>1 DEF Begin, Goto, TypeOK, Covering, OwnOutput, OwnJail
  <2> QED
    BY <1>0, <1>1, <2>1, <2>2, StepOffMounts DEF Begin, Goto, TypeOK
<1>2. CASE CopyBegins(p)
  <2>1. TypeOK'
    BY <1>0, <1>2 DEF CopyBegins, Goto, TypeOK, PC
  <2>2. Covering(p)' /\ OwnOutput(p)' /\ OwnJail(p)'
    BY <1>0, <1>2 DEF CopyBegins, Goto, TypeOK, Covering, OwnOutput, OwnJail
  <2> QED
    BY <1>0, <1>2, <2>1, <2>2, StepOffMounts DEF CopyBegins, Goto, TypeOK
<1>3. CASE CopyEnds(p)
  <2>3. Len(Parts) = 4
    BY <1>0 DEF Parts
  <2>5. next[p] \in 1 .. 4 /\ next \in [Procs -> 1 .. 4]
    BY <1>0, <2>3 DEF TypeOK
  <2>4. next' \in [Procs -> 1 .. 4]
    <3>1. CASE next[p] < 4
      <4>1. next[p] + 1 \in 1 .. 4 /\ next' = [next EXCEPT ![p] = next[p] + 1]
        BY <1>0, <1>3, <2>3, <2>5, <3>1 DEF CopyEnds
      <4> QED
        BY <1>0, <2>5, <4>1
    <3>2. CASE ~(next[p] < 4)
      BY <1>0, <1>3, <2>3, <2>5, <3>2 DEF CopyEnds
    <3> QED
      BY <1>0, <3>1, <3>2
  <2>1. TypeOK'
    BY <1>0, <1>3, <2>3, <2>4 DEF CopyEnds, Goto, TypeOK, PC
  <2>2. Covering(p)' /\ OwnOutput(p)' /\ OwnJail(p)'
    BY <1>0, <1>3 DEF CopyEnds, Goto, TypeOK, Covering, OwnOutput, OwnJail
  <2> QED
    BY <1>0, <1>3, <2>1, <2>2, StepOffMounts DEF CopyEnds, Goto, TypeOK
<1>4. CASE CopyFails(p)
  <2>1. TypeOK'
    BY <1>0, <1>4 DEF CopyFails, Goto, TypeOK, PC
  <2>2. Covering(p)' /\ OwnOutput(p)' /\ OwnJail(p)'
    BY <1>0, <1>4 DEF CopyFails, Goto, TypeOK, Covering, OwnOutput, OwnJail
  <2> QED
    BY <1>4, <2>1, <2>2, StepOffMounts DEF CopyFails, Goto, TypeOK
<1> QED
  BY <1>1, <1>2, <1>3, <1>4 DEF Ensure

\* A mount of p goes on top of what dead processes left.
LEMMA JailMount ==
    ASSUME JailInv, OneAtATime, TypeOK', NEW p \in Procs, Active(p), NEW at \in Points,
           Mount(p, at), at \notin cleanup[p], p \notin spoilt,
           \/ cleanup' = [cleanup EXCEPT ![p] = @ \cup {at}] /\ spoilt' = spoilt
           \/ cleanup' = cleanup /\ spoilt' = spoilt \cup {p},
           \A q \in Procs \ {p} : pc'[q] = pc[q],
           UNCHANGED <<target, extracted, got, jails>>,
           pc'[p] # "dead", Covering(p)', OwnOutput(p)', OwnJail(p)'
    PROVE  JailInv'
<1> DEFINE s == mnt[at]
           t == mnt'[at]
<1>1. s \in Seq(Procs) /\ t = Append(s, p)
  BY DEF JailInv, TypeOK, Mount
<1>2. /\ Len(s) \in Nat
      /\ Len(t) = Len(s) + 1 /\ t # <<>>
      /\ \A i \in 1 .. Len(s) : t[i] = s[i]
      /\ t[Len(s) + 1] = p
  BY <1>1, AppendProperties, LenProperties
<1>3. \A pt \in Points \ {at} : mnt'[pt] = mnt[pt]
  BY DEF JailInv, TypeOK, Mount
<1>4. Single'
  BY DEF OneAtATime, Single
<1>5. OnTop(p)'
  <2> SUFFICES ASSUME NEW pt \in Points
               PROVE  /\ pt \in cleanup'[p] => Visible(pt)' = p
                      /\ \A i \in 1 .. Len(mnt'[pt]) : mnt'[pt][i] = p
                            => p \in spoilt' \/ (i = Len(mnt'[pt]) /\ pt \in cleanup'[p])
    BY DEF OnTop
  <2>1. OnTop(p) /\ pc[p] # "dead"
    BY DEF JailInv, Active
  <2>4. \/ cleanup'[p] = cleanup[p] \cup {at}
        \/ cleanup'[p] = cleanup[p] /\ p \in spoilt'
    BY DEF JailInv, TypeOK
  <2>2. CASE pt # at
    BY <1>3, <2>1, <2>2, <2>4 DEF OnTop, Visible
  <2>3. CASE pt = at
    <3>1. \A i \in 1 .. Len(s) : s[i] # p
      BY <2>1 DEF OnTop
    <3>2. Visible(pt)' = p
      BY <1>2, <2>3 DEF Visible
    <3>3. \A i \in 1 .. Len(t) : t[i] = p => i = Len(t)
      BY <1>2, <3>1
    <3> QED
      BY <2>3, <2>4, <3>2, <3>3
  <2> QED
    BY <2>2, <2>3
<1>6. ASSUME NEW q \in Procs \ {p}
      PROVE  Covering(q)' /\ OnTop(q)' /\ OwnOutput(q)' /\ OwnJail(q)'
  <2>1. Covering(q) /\ OnTop(q) /\ OwnOutput(q) /\ OwnJail(q)
    BY DEF JailInv
  <2>2. pc'[q] = pc[q] /\ cleanup'[q] = cleanup[q] /\ (q \in spoilt' <=> q \in spoilt)
    BY DEF JailInv, TypeOK
  <2>3. Covering(q)' /\ OwnOutput(q)' /\ OwnJail(q)'
    BY <2>1, <2>2 DEF Covering, OwnOutput, OwnJail
  <2>4. OnTop(q)'
    <3> SUFFICES ASSUME pc[q] # "dead", q \notin spoilt, NEW pt \in Points
                 PROVE  \A i \in 1 .. Len(mnt'[pt]) : mnt'[pt][i] # q
      BY <2>2, OthersRest DEF OnTop
    <3>1. \A i \in 1 .. Len(mnt[pt]) : mnt[pt][i] # q
      BY OthersRest
    <3>2. CASE pt # at
      BY <1>3, <3>1, <3>2
    <3>3. CASE pt = at
      BY <1>2, <3>1, <3>3
    <3> QED
      BY <3>2, <3>3
  <2> QED
    BY <2>3, <2>4
<1> QED
  BY <1>4, <1>5, <1>6 DEF JailInv

LEMMA JailSetUp ==
    ASSUME JailInv, OneAtATime, NEW p \in Procs, SetUp(p)
    PROVE  JailInv'
<1>0. TypeOK /\ Covering(p) /\ OnTop(p) /\ OwnOutput(p) /\ OwnJail(p)
  BY DEF JailInv
<1>1. CASE MakePoints(p)
  <2>1. TypeOK'
    BY <1>0, <1>1 DEF MakePoints, Goto, TypeOK, PC
  <2>2. Covering(p)' /\ OwnOutput(p)' /\ OwnJail(p)'
    BY <1>0, <1>1 DEF MakePoints, Goto, TypeOK, Covering, OwnOutput, OwnJail
  <2> QED
    BY <1>0, <1>1, <2>1, <2>2, StepOffMounts DEF MakePoints, Goto, TypeOK
<1>2. CASE MountBlobs(p)
  <2>1. mnt'["input"] \in Seq(Procs)
    BY <1>0, <1>2, AppendProperties DEF MountBlobs, Mount, TypeOK, Points
  <2>2. TypeOK'
    BY <1>0, <1>2, <2>1 DEF MountBlobs, Mount, Goto, TypeOK, PC, Points
  <2>3. cleanup[p] = {} /\ p \notin spoilt /\ Active(p)
    BY <1>0, <1>2 DEF MountBlobs, Covering, Active
  <2>4. Covering(p)' /\ OwnOutput(p)' /\ OwnJail(p)'
    BY <1>0, <1>2, <2>3 DEF MountBlobs, Goto, TypeOK, Covering, OwnOutput, OwnJail
  <2> QED
    BY <1>0, <1>2, <2>2, <2>3, <2>4, JailMount DEF MountBlobs, Goto, TypeOK, Points
<1>3. CASE MountOutput(p)
  <2>1. mnt'["output"] \in Seq(Procs)
    BY <1>0, <1>3, AppendProperties DEF MountOutput, Mount, TypeOK, Points
  <2>2. TypeOK'
    BY <1>0, <1>3, <2>1 DEF MountOutput, Mount, Goto, TypeOK, PC, Points
  <2>3. cleanup[p] = {"input"} /\ p \notin spoilt /\ Active(p)
    BY <1>0, <1>3 DEF MountOutput, Covering, Active
  <2>4. Covering(p)' /\ OwnOutput(p)' /\ OwnJail(p)'
    BY <1>0, <1>3, <2>3 DEF MountOutput, Goto, TypeOK, Covering, OwnOutput, OwnJail, Points
  <2> QED
    BY <1>0, <1>3, <2>2, <2>3, <2>4, JailMount DEF MountOutput, Goto, TypeOK, Points
<1>4. CASE MountFails(p)
  <2>1. TypeOK'
    BY <1>0, <1>4 DEF MountFails, Goto, TypeOK, PC
  <2>2. Covering(p)' /\ OwnOutput(p)' /\ OwnJail(p)'
    BY <1>0, <1>4 DEF MountFails, Goto, TypeOK, Covering, OwnOutput, OwnJail
  <2> QED
    BY <1>0, <1>4, <2>1, <2>2, StepOffMounts DEF MountFails, Goto, TypeOK
<1>5. CASE MountTimesOut(p)
  <2> DEFINE at == pc[p]
  <2>1. at \in Points /\ at \notin cleanup[p] /\ p \notin spoilt /\ Active(p)
    BY <1>0, <1>5 DEF MountTimesOut, Covering, Active, Points
  <2>2. mnt'[at] \in Seq(Procs)
    BY <1>0, <1>5, <2>1, AppendProperties DEF MountTimesOut, Mount, TypeOK
  <2>3. TypeOK'
    BY <1>0, <1>5, <2>1, <2>2 DEF MountTimesOut, Mount, Goto, TypeOK, PC
  <2>4. Covering(p)' /\ OwnOutput(p)' /\ OwnJail(p)' /\ pc'[p] # "dead"
    BY <1>0, <1>5 DEF MountTimesOut, Goto, TypeOK, Covering, OwnOutput, OwnJail
  <2>5. Mount(p, at) /\ cleanup' = cleanup /\ spoilt' = spoilt \cup {p}
    BY <1>5 DEF MountTimesOut
  <2>6. UNCHANGED <<target, extracted, got, jails>> /\ \A q \in Procs \ {p} : pc'[q] = pc[q]
    BY <1>0, <1>5 DEF MountTimesOut, Goto, TypeOK
  <2> HIDE DEF at
  <2> QED
    BY <2>1, <2>3, <2>4, <2>5, <2>6, JailMount
<1> QED
  BY <1>0, <1>1, <1>2, <1>3, <1>4, <1>5 DEF SetUp

LEMMA JailJailed ==
    ASSUME JailInv, OneAtATime, NEW p \in Procs, Jailed(p)
    PROVE  JailInv'
<1>0. TypeOK /\ Covering(p) /\ OnTop(p) /\ OwnOutput(p) /\ OwnJail(p)
  BY DEF JailInv
<1>1. CASE CreateJail(p)
  <2>1. TypeOK'
    BY <1>0, <1>1 DEF CreateJail, Goto, TypeOK, PC
  <2>2. Covering(p)' /\ OwnOutput(p)' /\ OwnJail(p)'
    BY <1>0, <1>1 DEF CreateJail, Goto, TypeOK, Covering, OwnOutput, OwnJail
  <2> QED
    BY <1>0, <1>1, <2>1, <2>2, StepOffMounts DEF CreateJail, Goto, TypeOK
<1>2. CASE CreateJailFails(p)
  <2>1. TypeOK'
    BY <1>0, <1>2 DEF CreateJailFails, Goto, TypeOK, PC
  <2>2. Covering(p)' /\ OwnOutput(p)' /\ OwnJail(p)'
    BY <1>0, <1>2 DEF CreateJailFails, Goto, TypeOK, Covering, OwnOutput, OwnJail
  <2> QED
    BY <1>0, <1>2, <2>1, <2>2, StepOffMounts DEF CreateJailFails, Goto, TypeOK
<1>3. CASE Open(p)
  <2>1. Visible("output") = p
    BY <1>0, <1>3 DEF Open, Covering, OnTop, Points
  <2>2. TypeOK'
    BY <1>0, <1>3, <2>1 DEF Open, Goto, TypeOK, PC, Dirs
  <2>3. Covering(p)' /\ OwnOutput(p)' /\ OwnJail(p)'
    BY <1>0, <1>3, <2>1 DEF Open, Goto, TypeOK, Covering, OwnOutput, OwnJail
  <2> QED
    BY <1>0, <1>3, <2>2, <2>3, StepOffMounts DEF Open, Goto, TypeOK
<1>4. CASE OpenFails(p)
  <2>1. TypeOK'
    BY <1>0, <1>4 DEF OpenFails, Goto, TypeOK, PC
  <2>2. Covering(p)' /\ OwnOutput(p)' /\ OwnJail(p)'
    BY <1>0, <1>4 DEF OpenFails, Goto, TypeOK, Covering, OwnOutput, OwnJail
  <2> QED
    BY <1>0, <1>4, <2>1, <2>2, StepOffMounts DEF OpenFails, Goto, TypeOK
<1>5. CASE Extract(p)
  <2>1. target[p] = p /\ got' = [got EXCEPT ![p] = @ \cup {p}]
    BY <1>0, <1>5 DEF Extract, Fill, OwnOutput
  <2>2. TypeOK'
    BY <1>0, <1>5, <2>1 DEF Extract, Goto, TypeOK, PC, Dirs
  <2>3. got[p] \subseteq {p} /\ got'[p] = {p}
    BY <1>0, <2>1 DEF OwnOutput, TypeOK, Dirs
  <2>4. Covering(p)' /\ OwnOutput(p)' /\ OwnJail(p)'
    BY <1>0, <1>5, <2>3 DEF Extract, Goto, TypeOK, Covering, OwnOutput, OwnJail
  <2>5. \A q \in Procs \ {p} : got'[q] = got[q]
    BY <1>0, <2>1 DEF TypeOK, Dirs
  <2> QED
    BY <1>0, <1>5, <2>2, <2>4, <2>5, StepOffMounts DEF Extract, Goto, TypeOK
<1>6. CASE ExtractFails(p)
  <2>1. target[p] = p /\ (got' = [got EXCEPT ![p] = @ \cup {p}] \/ got' = got)
    BY <1>0, <1>6 DEF ExtractFails, Fill, OwnOutput
  <2>7. got' \in [Dirs -> SUBSET Procs]
    BY <1>0, <2>1 DEF TypeOK, Dirs
  <2>2. TypeOK'
    BY <1>0, <1>6, <2>7 DEF ExtractFails, Goto, TypeOK, PC
  <2>6. got[p] \subseteq {p} /\ ~extracted[p]
    BY <1>0, <1>6 DEF ExtractFails, OwnOutput
  <2>3. got'[p] \subseteq {p} /\ ~extracted[p]
    BY <1>0, <2>1, <2>6 DEF TypeOK, Dirs
  <2>4. Covering(p)' /\ OwnOutput(p)' /\ OwnJail(p)'
    BY <1>0, <1>6, <2>3 DEF ExtractFails, Goto, TypeOK, Covering, OwnOutput, OwnJail
  <2>5. \A q \in Procs \ {p} : got'[q] = got[q]
    BY <1>0, <2>1 DEF TypeOK, Dirs
  <2> QED
    BY <1>0, <1>6, <2>2, <2>4, <2>5, StepOffMounts DEF ExtractFails, Goto, TypeOK
<1>7. CASE TimesOut(p)
  <2>1. TypeOK'
    BY <1>0, <1>7 DEF TimesOut, Goto, TypeOK, PC
  <2>2. Covering(p)' /\ OwnOutput(p)' /\ OwnJail(p)'
    BY <1>0, <1>7 DEF TimesOut, Goto, TypeOK, Covering, OwnOutput, OwnJail
  <2> QED
    BY <1>0, <1>7, <2>1, <2>2, StepOffMounts DEF TimesOut, Goto, TypeOK
<1>8. CASE RemoveJail(p)
  <2>1. TypeOK'
    BY <1>0, <1>8 DEF RemoveJail, Goto, TypeOK, PC
  <2>2. Covering(p)' /\ OwnOutput(p)' /\ OwnJail(p)'
    BY <1>0, <1>8 DEF RemoveJail, Goto, TypeOK, Covering, OwnOutput, OwnJail
  <2> QED
    BY <1>0, <1>8, <2>1, <2>2, StepOffMounts DEF RemoveJail, Goto, TypeOK
<1>9. CASE RemoveJailFails(p)
  <2>1. TypeOK'
    BY <1>0, <1>9 DEF RemoveJailFails, Goto, TypeOK, PC
  <2>2. Covering(p)' /\ OwnOutput(p)' /\ OwnJail(p)'
    BY <1>0, <1>9 DEF RemoveJailFails, Goto, TypeOK, Covering, OwnOutput, OwnJail
  <2> QED
    BY <1>0, <1>9, <2>1, <2>2, StepOffMounts DEF RemoveJailFails, Goto, TypeOK
<1> QED
  BY <1>0, <1>1, <1>2, <1>3, <1>4, <1>5, <1>6, <1>7, <1>8, <1>9 DEF Jailed

\* umount takes away p's own mount, and leaves the others as they were.
LEMMA Popped ==
    ASSUME JailInv, NEW p \in Procs, pc[p] = "finally", cleanup[p] # {},
           mnt' = [mnt EXCEPT ![Turn(p)] = Uncovered(Turn(p))]
    PROVE  /\ Turn(p) \in cleanup[p] /\ Turn(p) \in Points
           /\ mnt' \in [Points -> Seq(Procs)]
           /\ \A pt \in Points \ {Turn(p)} : mnt'[pt] = mnt[pt]
           /\ Len(mnt[Turn(p)]) \in Nat
           /\ Len(mnt'[Turn(p)]) = Len(mnt[Turn(p)]) - 1
           /\ \A i \in 1 .. Len(mnt'[Turn(p)]) : mnt'[Turn(p)][i] = mnt[Turn(p)][i]
<1> DEFINE at == Turn(p)
           s == mnt[at]
           t == mnt'[at]
<1>0. TypeOK /\ OnTop(p)
  BY DEF JailInv
<1>1. at \in cleanup[p] /\ at \in Points
  BY <1>0 DEF Turn, TypeOK, Points
<1>2. s \in Seq(Procs) /\ Visible(at) = p
  BY <1>0, <1>1 DEF TypeOK, OnTop
<1>3. s # <<>> /\ Len(s) \in Nat
  BY <1>2, ExtractionAssumption, LenProperties DEF Visible
<1>4. t = [i \in 1 .. Len(s) - 1 |-> s[i]] /\ mnt' = [mnt EXCEPT ![at] = t]
  BY <1>0, <1>1 DEF Uncovered, TypeOK
<1> HIDE DEF at
<1>5. /\ t \in Seq(Procs)
      /\ Len(t) = Len(s) - 1
      /\ \A i \in 1 .. Len(t) : t[i] = s[i]
  <2> HIDE DEF s, t
  <2> QED
    BY <1>2, <1>3, <1>4, UncoveredStack
<1>6. mnt' \in [Points -> Seq(Procs)] /\ \A pt \in Points \ {at} : mnt'[pt] = mnt[pt]
  BY <1>0, <1>1, <1>4, <1>5 DEF TypeOK
<1> QED
  BY <1>1, <1>3, <1>5, <1>6 DEF at

\* What an umount of p, done or not, leaves of the others.
LEMMA OthersKeep ==
    ASSUME JailInv, NEW p \in Procs, pc[p] = "finally", cleanup[p] # {},
           \/ mnt' = [mnt EXCEPT ![Turn(p)] = Uncovered(Turn(p))]
           \/ mnt' = mnt,
           NEW q \in Procs \ {p}, pc'[q] = pc[q], cleanup'[q] = cleanup[q],
           q \in spoilt' <=> q \in spoilt, UNCHANGED <<target, extracted, got, jails>>
    PROVE  Covering(q)' /\ OnTop(q)' /\ OwnOutput(q)' /\ OwnJail(q)'
<1>1. Covering(q) /\ OnTop(q) /\ OwnOutput(q) /\ OwnJail(q)
  BY DEF JailInv
<1>2. Covering(q)' /\ OwnOutput(q)' /\ OwnJail(q)'
  BY <1>1 DEF Covering, OwnOutput, OwnJail
<1>3. OnTop(q)'
  <2>1. CASE mnt' = mnt
    BY <1>1, <2>1 DEF OnTop, Visible
  <2>2. CASE mnt' = [mnt EXCEPT ![Turn(p)] = Uncovered(Turn(p))]
    <3>0. Active(p)
      BY DEF Active
    <3> SUFFICES ASSUME pc[q] # "dead", q \notin spoilt, NEW pt \in Points
                 PROVE  \A i \in 1 .. Len(mnt'[pt]) : mnt'[pt][i] # q
      BY <3>0, OthersRest DEF OnTop
    <3>1. \A i \in 1 .. Len(mnt[pt]) : mnt[pt][i] # q
      BY <3>0, OthersRest
    <3>2. CASE pt # Turn(p)
      BY <2>2, <3>1, <3>2, Popped
    <3>3. CASE pt = Turn(p)
      <4> DEFINE m == Len(mnt[pt])
                 n == Len(mnt'[pt])
      <4>1. m \in Nat /\ n = m - 1 /\ \A i \in 1 .. n : mnt'[pt][i] = mnt[pt][i]
        BY <2>2, <3>3, Popped
      <4>2. \A i \in 1 .. m : mnt[pt][i] # q
        BY <3>1
      <4> HIDE DEF m, n
      <4>3. 1 .. n \subseteq 1 .. m
        BY <4>1
      <4>4. \A i \in 1 .. n : mnt'[pt][i] # q
        BY <4>1, <4>2, <4>3
      <4> QED
        BY <4>4 DEF n
    <3> QED
      BY <3>2, <3>3
  <2> QED
    BY <2>1, <2>2
<1> QED
  BY <1>2, <1>3

LEMMA JailUnmount ==
    ASSUME JailInv, OneAtATime, NEW p \in Procs,
           Unmount(p) \/ UnmountFails(p) \/ UnmountTimesOut(p)
    PROVE  JailInv'
<1>0. TypeOK /\ Covering(p) /\ OnTop(p) /\ OwnOutput(p) /\ OwnJail(p)
  BY DEF JailInv
<1>1. pc[p] = "finally" /\ cleanup[p] # {}
  BY DEF Unmount, UnmountFails, UnmountTimesOut
<1>2. \/ mnt' = [mnt EXCEPT ![Turn(p)] = Uncovered(Turn(p))]
      \/ mnt' = mnt
  BY DEF Unmount, UnmountFails, UnmountTimesOut
<1>3. UNCHANGED <<target, extracted, got, jails>>
  BY DEF Unmount, UnmountFails, UnmountTimesOut
<1>4. Single'
  BY DEF OneAtATime, Single
<1>5. mnt' \in [Points -> Seq(Procs)]
  BY <1>0, <1>1, <1>2, Popped DEF TypeOK
<1>6. TypeOK'
  <2>1. CASE Unmount(p)
    <3>1. cleanup' \in [Procs -> SUBSET Points] /\ dirs' \in SUBSET Points
      BY <1>0, <2>1 DEF Unmount, TypeOK
    <3> QED
      BY <1>0, <1>3, <1>5, <2>1, <3>1 DEF Unmount, TypeOK
  <2>2. CASE UnmountFails(p)
    <3>1. cleanup' \in [Procs -> SUBSET Points] /\ spoilt' \in SUBSET Procs
      BY <1>0, <2>2 DEF UnmountFails, TypeOK
    <3> QED
      BY <1>0, <1>3, <1>5, <2>2, <3>1 DEF UnmountFails, TypeOK
  <2>3. CASE UnmountTimesOut(p)
    <3>1. cleanup' \in [Procs -> SUBSET Points] /\ spoilt' \in SUBSET Procs
      BY <1>0, <2>3 DEF UnmountTimesOut, TypeOK
    <3>2. pc' \in [Procs -> PC]
      BY <1>0, <2>3 DEF UnmountTimesOut, Goto, TypeOK, PC
    <3> QED
      BY <1>0, <1>3, <1>5, <2>3, <3>1, <3>2 DEF UnmountTimesOut, TypeOK
  <2> QED
    BY <2>1, <2>2, <2>3
<1>7. ASSUME NEW q \in Procs \ {p}
      PROVE  Covering(q)' /\ OnTop(q)' /\ OwnOutput(q)' /\ OwnJail(q)'
  <2>1. pc'[q] = pc[q] /\ cleanup'[q] = cleanup[q] /\ (q \in spoilt' <=> q \in spoilt)
    BY <1>0 DEF Unmount, UnmountFails, UnmountTimesOut, Goto, TypeOK
  <2> QED
    BY <1>1, <1>2, <1>3, <2>1, OthersKeep
<1>8. Covering(p)' /\ OnTop(p)' /\ OwnOutput(p)' /\ OwnJail(p)'
  <2>1. CASE Unmount(p)
    <3>1. cleanup'[p] = cleanup[p] \ {Turn(p)} /\ pc' = pc /\ spoilt' = spoilt
      BY <1>0, <2>1 DEF Unmount, TypeOK
    <3>2. Covering(p)' /\ OwnOutput(p)' /\ OwnJail(p)'
      BY <1>0, <1>1, <1>3, <3>1 DEF Covering, OwnOutput, OwnJail
    <3>3. mnt' = [mnt EXCEPT ![Turn(p)] = Uncovered(Turn(p))]
      BY <2>1 DEF Unmount
    <3>4. ASSUME NEW pt \in Points
          PROVE  /\ pt \in cleanup'[p] => Visible(pt)' = p
                 /\ \A i \in 1 .. Len(mnt'[pt]) : mnt'[pt][i] = p
                       => p \in spoilt' \/ (i = Len(mnt'[pt]) /\ pt \in cleanup'[p])
      <4>1. CASE pt # Turn(p)
        BY <1>0, <1>1, <3>1, <3>3, <4>1, Popped DEF OnTop, Visible
      <4>2. CASE pt = Turn(p)
        <5>1. \A i \in 1 .. Len(mnt[pt]) : mnt[pt][i] = p => p \in spoilt \/ i = Len(mnt[pt])
          BY <1>0, <1>1 DEF OnTop
        <5>2. /\ Len(mnt[pt]) \in Nat /\ Len(mnt'[pt]) = Len(mnt[pt]) - 1
              /\ \A i \in 1 .. Len(mnt'[pt]) : mnt'[pt][i] = mnt[pt][i]
          BY <1>1, <3>3, <4>2, Popped
        <5>3. \A i \in 1 .. Len(mnt'[pt]) : mnt'[pt][i] = p => p \in spoilt
          BY <5>1, <5>2
        <5> QED
          BY <3>1, <4>2, <5>3
      <4> QED
        BY <4>1, <4>2
    <3> QED
      BY <3>2, <3>4 DEF OnTop
  <2>2. CASE UnmountFails(p)
    <3>1. cleanup'[p] \subseteq cleanup[p] /\ pc' = pc /\ p \in spoilt' /\ mnt' = mnt
      BY <1>0, <2>2 DEF UnmountFails, TypeOK
    <3>2. Covering(p)' /\ OwnOutput(p)' /\ OwnJail(p)'
      BY <1>0, <1>1, <1>3, <3>1 DEF Covering, OwnOutput, OwnJail
    <3>3. OnTop(p)'
      BY <1>0, <3>1 DEF OnTop, Visible
    <3> QED
      BY <3>2, <3>3
  <2>3. CASE UnmountTimesOut(p)
    <3>1. cleanup'[p] = {} /\ pc'[p] = "failed" /\ p \in spoilt'
      BY <1>0, <2>3 DEF UnmountTimesOut, Goto, TypeOK
    <3>2. Covering(p)' /\ OwnOutput(p)' /\ OwnJail(p)'
      BY <1>0, <1>1, <1>3, <3>1 DEF Covering, OwnOutput, OwnJail
    <3>3. OnTop(p)'
      BY <3>1 DEF OnTop
    <3> QED
      BY <3>2, <3>3
  <2> QED
    BY <2>1, <2>2, <2>3
<1> QED
  BY <1>4, <1>6, <1>7, <1>8 DEF JailInv

LEMMA JailEnds ==
    ASSUME JailInv, OneAtATime, NEW p \in Procs, Return(p) \/ Crash(p)
    PROVE  JailInv'
<1> USE DEF JailInv
<1>1. CASE Return(p)
  <2>1. TypeOK'
    BY <1>1 DEF Return, Goto, TypeOK, PC
  <2>2. Covering(p)' /\ OwnOutput(p)' /\ OwnJail(p)'
    BY <1>1 DEF Return, Goto, TypeOK, Covering, OwnOutput, OwnJail
  <2> QED
    BY <1>1, <2>1, <2>2, StepOffMounts DEF Return, Goto, TypeOK
<1>2. CASE Crash(p)
  <2>1. TypeOK'
    BY <1>2 DEF Crash, Goto, TypeOK, PC
  <2>2. Covering(p)' /\ OwnOutput(p)' /\ OwnJail(p)'
    BY <1>2 DEF Crash, Goto, TypeOK, Covering, OwnOutput, OwnJail
  <2>3. pc[p] # "dead"
    BY <1>2 DEF Crash, Active
  <2> QED
    BY <1>2, <2>1, <2>2, <2>3, StepOffMounts DEF Crash, Goto, TypeOK
<1> QED
  BY <1>1, <1>2

LEMMA JailStep == JailInv /\ [Next /\ OneAtATime]_vars => JailInv'
<1> SUFFICES ASSUME JailInv, [Next /\ OneAtATime]_vars
             PROVE  JailInv'
  OBVIOUS
<1>1. CASE Next /\ OneAtATime
  <2>1. PICK p \in Procs : Ensure(p) \/ SetUp(p) \/ Jailed(p) \/ CleanUp(p) \/ Crash(p)
    BY <1>1 DEF Next
  <2> QED
    BY <1>1, <2>1, JailEnsure, JailSetUp, JailJailed, JailUnmount, JailEnds DEF CleanUp
<1>2. CASE UNCHANGED vars
  BY <1>2 DEF vars, JailInv, TypeOK, Single, Active, Covering, OnTop, Visible, OwnOutput,
              OwnJail
<1> QED
  BY <1>1, <1>2

-----------------------------------------------------------------------------
(* Theorems.                                                                *)

\* The invariant: who is alive has its own mounts on top of what dead processes left
\* over the template, and its bsdtar writes to its own output only.
THEOREM OneExtractionAtATime == SequentialSpec => []JailInv
<1>1. Init => JailInv
  BY JailInit
<1>2. JailInv /\ [Next /\ OneAtATime]_vars => JailInv'
  BY JailStep
<1> QED
  BY <1>1, <1>2, PTL DEF SequentialSpec

\* Every state of sequential extractions is well typed.
THEOREM ExtractionTypes == SequentialSpec => []TypeOK
<1>1. JailInv => TypeOK
  BY DEF JailInv
<1> QED
  BY <1>1, OneExtractionAtATime, PTL

\* A layer taken for extracted is in its output directory and alone there.
THEOREM LayersAreOwn == SequentialSpec => []ExtractedIsOwnLayer
<1>1. JailInv => ExtractedIsOwnLayer
  BY DEF JailInv, ExtractedIsOwnLayer, OwnOutput
<1> QED
  BY <1>1, OneExtractionAtATime, PTL

\* A call that nothing has spoilt has left no mount when it returns, and no jail if it
\* succeeded.
THEOREM NothingIsLeftOver == SequentialSpec => []NothingStays
<1>1. ASSUME JailInv PROVE NothingStays
  <2> SUFFICES ASSUME NEW p \in Procs \ spoilt
               PROVE  /\ pc[p] \in {"done", "failed"} =>
                            \A pt \in Points : \A i \in 1 .. Len(mnt[pt]) : mnt[pt][i] # p
                      /\ pc[p] = "done" => p \notin jails
    BY DEF NothingStays
  <2>1. Covering(p) /\ OnTop(p) /\ OwnOutput(p) /\ OwnJail(p)
    BY <1>1 DEF JailInv
  <2> QED
    BY <2>1 DEF Covering, OnTop, OwnOutput, OwnJail
<1> QED
  BY <1>1, OneExtractionAtATime, PTL

=============================================================================
