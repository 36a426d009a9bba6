-------------------------- MODULE Network_proofs --------------------------
(***************************************************************************)
(* Theorems of Network: no address is given out twice within a process, a  *)
(* jail that is up keeps its address, a run that is over leaves nothing    *)
(* behind, the operator's pf rules are lost in one way only, and what a    *)
(* jail sends over TCP and UDP reaches what its own allow-list permits.    *)
(* The assumptions each rests on stand in its statement.                   *)
(***************************************************************************)
EXTENDS Network, TLAPS

USE DEF At, Sync, Goto, Raise, RaiseOn, Mates, ProcOf, NameOf, Allow, own, file, kernel

\* The assumption, in parts.
LEMMA Constants ==
    /\ Plans \subseteq [Runs -> Plan]
    /\ Pool \subseteq Nat /\ Blocks \in Nat
    /\ None \notin Nat /\ None \notin Runs
    /\ Confs \subseteq SUBSET Line
BY NetworkAssumption

LEMMA PlanType ==
    ASSUME plan \in Plans, NEW r \in Runs
    PROVE  /\ plan[r].proc \in Procs /\ plan[r].name \in JailNames
           /\ plan[r].net \in {"allow", "vnet"}
BY Constants DEF Plan

\* What a step of one run is.
LEMMA NextCases ==
    ASSUME Next, NEW Q,
           \A r \in Runs : Start(r) => Q,
           \A r \in Runs : AllowStep(r) => Q,
           \A r \in Runs : VnetStep(r) => Q,
           \A r \in Runs : JailStep(r) => Q,
           \A r \in Runs : TeardownStep(r) => Q,
           \A r \in Runs : Stop(r) => Q,
           \A p \in Procs : Die(p) => Q
    PROVE  Q
BY DEF Next, RunStep

LEMMA TypeInit == Init => TypeOK /\ PlaceInv /\ TableInv
<1> SUFFICES ASSUME Init PROVE TypeOK /\ PlaceInv /\ TableInv
    OBVIOUS
<1>1. TypeOK
    BY Constants DEF Init, TypeOK, PC, Anchor, Flushed, Line
<1>2. PlaceInv
    BY DEF Init, PlaceInv, Blocking
<1>3. TableInv
    BY DEF Init, TableInv, DedicatedAddress
<1>. QED
    BY <1>1, <1>2, <1>3

LEMMA TypeStep == TypeOK /\ PlaceInv /\ [Next]_vars => TypeOK'
<1> SUFFICES ASSUME TypeOK, PlaceInv, [Next]_vars PROVE TypeOK'
    OBVIOUS
<1> USE DEF TypeOK, PC
<1>0. plan \in [Runs -> Plan] /\ \A r \in Runs : plan[r].proc \in Procs
    BY Constants, PlanType
<1>1. CASE UNCHANGED vars
    BY <1>1 DEF vars
<1>2. CASE Next
    <2>1. ASSUME NEW r \in Runs, Start(r) PROVE TypeOK'
        BY <2>1 DEF Start
    <2>2. ASSUME NEW r \in Runs, AllowStep(r) PROVE TypeOK'
        <3>1. CASE AllocAddress(r)
            <4>1. PICK a \in Pool : /\ held' = [held EXCEPT ![r] = a]
                                    /\ used' = [used EXCEPT ![plan[r].proc] = @ \cup {a}]
                BY <3>1 DEF AllocAddress, Free
            <4>2. held' \in [Runs -> Nat \cup {None}] /\ used' \in [Procs -> SUBSET Pool]
                BY <4>1, <1>0, Constants
            <4>. QED
                BY <3>1, <4>2 DEF AllocAddress
        <3>2. CASE AllocFails(r)
            BY <3>2 DEF AllocFails
        <3>3. CASE ReadConf(r)
            BY <3>3 DEF ReadConf, Missing, Line
        <3>4. CASE TruncateConf(r) \/ WriteConf(r) \/ Reload(r)
            BY <3>4 DEF TruncateConf, WriteConf, Reload
        <3>5. CASE AddAlias(r)
            <4>1. held[r] \in Pool
                BY <3>5 DEF AddAlias, PlaceInv, Blocking
            <4>. QED
                BY <3>5, <4>1 DEF AddAlias
        <3>6. CASE LoadAnchor(r)
            <4>1. Loaded("filter", r) \in Anchor
                BY DEF Loaded, Anchor
            <4>. QED
                BY <3>6, <4>1 DEF LoadAnchor
        <3>. QED
            BY <2>2, <3>1, <3>2, <3>3, <3>4, <3>5, <3>6 DEF AllowStep
    <2>3. ASSUME NEW r \in Runs, VnetStep(r) PROVE TypeOK'
        <3>1. CASE AllocVnet(r)
            BY <3>1, <1>0 DEF AllocVnet
        <3>2. CASE SetupVnetHost(r)
            BY <3>2 DEF SetupVnetHost
        <3>3. CASE LoadNat(r) \/ Publish(r)
            BY <3>3 DEF LoadNat, Publish, Loaded, Anchor
        <3>. QED
            BY <2>3, <3>1, <3>2, <3>3 DEF VnetStep
    <2>4. ASSUME NEW r \in Runs, JailStep(r) PROVE TypeOK'
        BY <2>4 DEF JailStep, CreateJail, Exec, RemoveJail
    <2>5. ASSUME NEW r \in Runs, TeardownStep(r) PROVE TypeOK'
        <3>1. CASE FlushAnchor(r)
            BY <3>1 DEF FlushAnchor, Flushed, Anchor
        <3>2. CASE RemoveAlias(r)
            BY <3>2 DEF RemoveAlias
        <3>3. CASE Discard(r)
            BY <3>3, <1>0 DEF Discard
        <3>4. CASE DestroyEpair(r)
            BY <3>4 DEF DestroyEpair
        <3>. QED
            BY <2>5, <3>1, <3>2, <3>3, <3>4 DEF TeardownStep
    <2>6. ASSUME NEW r \in Runs, Stop(r) PROVE TypeOK'
        BY <2>6 DEF Stop
    <2>7. ASSUME NEW p \in Procs, Die(p) PROVE TypeOK'
        BY <2>7 DEF Die
    <2>. QED
        BY <1>2, <2>1, <2>2, <2>3, <2>4, <2>5, <2>6, <2>7, NextCases
<1>. QED
    BY <1>1, <1>2

LEMMA PlaceStep == TypeOK /\ PlaceInv /\ [Next]_vars => PlaceInv'
<1> SUFFICES ASSUME TypeOK, PlaceInv, [Next]_vars PROVE PlaceInv'
    OBVIOUS
<1> USE DEF PlaceInv, Blocking
<1>0. pc \in [Runs -> PC] /\ held \in [Runs -> Nat \cup {None}]
    BY DEF TypeOK
<1>1. CASE UNCHANGED vars
    BY <1>1 DEF vars
<1>2. CASE Next
    <2>1. ASSUME NEW r \in Runs, Start(r) PROVE PlaceInv'
        BY <2>1, <1>0 DEF Start
    <2>2. ASSUME NEW r \in Runs, AllowStep(r) PROVE PlaceInv'
        <3>1. CASE AllocAddress(r)
            <4>1. PICK a \in Pool : held' = [held EXCEPT ![r] = a]
                BY <3>1 DEF AllocAddress, Free
            <4>2. a # None
                BY Constants
            <4>. QED
                BY <3>1, <4>1, <4>2, <1>0 DEF AllocAddress
        <3>2. CASE AllocFails(r)
            BY <3>2, <1>0 DEF AllocFails
        <3>3. CASE ReadConf(r)
            BY <3>3, <1>0 DEF ReadConf
        <3>4. CASE TruncateConf(r) \/ WriteConf(r) \/ Reload(r)
            BY <3>4, <1>0 DEF TruncateConf, WriteConf, Reload
        <3>5. CASE AddAlias(r) \/ LoadAnchor(r)
            BY <3>5, <1>0 DEF AddAlias, LoadAnchor
        <3>. QED
            BY <2>2, <3>1, <3>2, <3>3, <3>4, <3>5 DEF AllowStep
    <2>3. ASSUME NEW r \in Runs, VnetStep(r) PROVE PlaceInv'
        <3>1. CASE AllocVnet(r)
            <4>1. counter[plan[r].proc] # None
                BY PlanType, Constants DEF TypeOK
            <4>. QED
                BY <3>1, <4>1, <1>0 DEF AllocVnet
        <3>2. CASE SetupVnetHost(r) \/ LoadNat(r) \/ Publish(r)
            BY <3>2, <1>0 DEF SetupVnetHost, LoadNat, Publish
        <3>. QED
            BY <2>3, <3>1, <3>2 DEF VnetStep
    <2>4. ASSUME NEW r \in Runs, JailStep(r) PROVE PlaceInv'
        <3>1. CASE CreateJail(r)
            BY <3>1, <1>0 DEF CreateJail, Raise
        <3>2. CASE Exec(r)
            BY <3>2, <1>0 DEF Exec
        <3>3. CASE RemoveJail(r)
            BY <3>3, <1>0 DEF RemoveJail
        <3>. QED
            BY <2>4, <3>1, <3>2, <3>3 DEF JailStep
    <2>5. ASSUME NEW r \in Runs, TeardownStep(r) PROVE PlaceInv'
        BY <2>5, <1>0 DEF TeardownStep, FlushAnchor, RemoveAlias, Discard, DestroyEpair
    <2>6. ASSUME NEW r \in Runs, Stop(r) PROVE PlaceInv'
        BY <2>6 DEF Stop
    <2>7. ASSUME NEW p \in Procs, Die(p) PROVE PlaceInv'
        BY <2>7 DEF Die
    <2>. QED
        BY <1>2, <2>1, <2>2, <2>3, <2>4, <2>5, <2>6, <2>7, NextCases
<1>. QED
    BY <1>1, <1>2

\* Every reachable state is well typed.
THEOREM NetworkTypes == Spec => []TypeOK
<1>1. Init => TypeOK /\ PlaceInv
    BY TypeInit
<1>2. TypeOK /\ PlaceInv /\ [Next]_vars => (TypeOK /\ PlaceInv)'
    BY TypeStep, PlaceStep
<1>. QED
    BY <1>1, <1>2, PTL DEF Spec
-----------------------------------------------------------------------------
(* Addresses.                                                               *)

\* Only these steps touch what is given out.
LEMMA TableUntouched ==
    ASSUME TableInv, UNCHANGED <<plan, used, counter, held>>
    PROVE  TableInv'
BY DEF TableInv, DedicatedAddress

LEMMA TableStep == TypeOK /\ PlaceInv /\ TableInv /\ [Next]_vars => TableInv'
<1> SUFFICES ASSUME TypeOK, PlaceInv, TableInv, [Next]_vars PROVE TableInv'
    OBVIOUS
<1>0. /\ held \in [Runs -> Nat \cup {None}]
      /\ used \in [Procs -> SUBSET Pool] /\ counter \in [Procs -> Nat]
      /\ \A r \in Runs : plan[r].proc \in Procs
    BY PlanType DEF TypeOK
<1>1. CASE UNCHANGED vars
    BY <1>1, TableUntouched DEF vars
<1>2. CASE Next
    <2>1. ASSUME NEW r \in Runs, Start(r) PROVE TableInv'
        BY <2>1, TableUntouched DEF Start
    <2>2. ASSUME NEW r \in Runs, AllowStep(r) PROVE TableInv'
        <3>1. CASE AllocAddress(r)
            <4>1. PICK a \in Pool \ used[plan[r].proc] :
                      /\ held' = [held EXCEPT ![r] = a]
                      /\ used' = [used EXCEPT ![plan[r].proc] = @ \cup {a}]
                      /\ plan' = plan /\ counter' = counter
                      /\ plan[r].net = "allow"
                BY <3>1 DEF AllocAddress, Free
            <4>. QED
                BY <4>1, <1>0 DEF TableInv, DedicatedAddress
        <3>2. CASE ~ AllocAddress(r)
            BY <2>2, <3>2, TableUntouched
               DEF AllowStep, AllocFails, ReadConf, TruncateConf, WriteConf, Reload, AddAlias, LoadAnchor
        <3>. QED
            BY <3>1, <3>2
    <2>3. ASSUME NEW r \in Runs, VnetStep(r) PROVE TableInv'
        <3>1. CASE AllocVnet(r) /\ ~ RaiseOn("apply", r)
            <4>1. /\ held' = [held EXCEPT ![r] = counter[plan[r].proc]]
                  /\ counter' = [counter EXCEPT ![plan[r].proc] = @ + 1]
                  /\ plan' = plan /\ used' = used
                  /\ plan[r].net # "allow"
                BY <3>1 DEF AllocVnet
            <4>2. \A s \in Runs : held'[s] = IF s = r THEN counter[plan[r].proc] ELSE held[s]
                BY <4>1, <1>0
            <4>3. \A p \in Procs : counter'[p] = IF p = plan[r].proc THEN counter[p] + 1 ELSE counter[p]
                BY <4>1, <1>0
            <4>4. \A s \in Runs : held'[s] # None =>
                     IF plan[s].net = "allow" THEN held'[s] \in used[plan[s].proc]
                     ELSE held'[s] < counter'[plan[s].proc]
                BY <4>1, <4>2, <4>3, <1>0, Constants DEF TableInv
            <4>5. \A s \in Runs : s # r /\ plan[s].net # "allow" /\ plan[s].proc = plan[r].proc
                                  /\ held[s] # None => held[s] # counter[plan[r].proc]
                BY <1>0 DEF TableInv
            <4>6. DedicatedAddress'
                BY <4>1, <4>2, <4>5 DEF TableInv, DedicatedAddress
            <4>. QED
                BY <4>1, <4>4, <4>6 DEF TableInv
        <3>2. CASE ~ (AllocVnet(r) /\ ~ RaiseOn("apply", r))
            BY <2>3, <3>2, TableUntouched DEF VnetStep, AllocVnet, SetupVnetHost, LoadNat, Publish
        <3>. QED
            BY <3>1, <3>2
    <2>4. ASSUME NEW r \in Runs, JailStep(r) PROVE TableInv'
        BY <2>4, TableUntouched DEF JailStep, CreateJail, Exec, RemoveJail
    <2>5. ASSUME NEW r \in Runs, TeardownStep(r) PROVE TableInv'
        <3>1. CASE Discard(r)
            BY <3>1, <1>0 DEF Discard, PlaceInv, TableInv, DedicatedAddress
        <3>2. CASE DestroyEpair(r)
            BY <3>2, <1>0 DEF DestroyEpair, TableInv, DedicatedAddress
        <3>3. CASE FlushAnchor(r) \/ RemoveAlias(r)
            BY <3>3, TableUntouched DEF FlushAnchor, RemoveAlias
        <3>. QED
            BY <2>5, <3>1, <3>2, <3>3 DEF TeardownStep
    <2>6. ASSUME NEW r \in Runs, Stop(r) PROVE TableInv'
        BY <2>6, TableUntouched DEF Stop
    <2>7. ASSUME NEW p \in Procs, Die(p) PROVE TableInv'
        BY <2>7, TableUntouched DEF Die
    <2>. QED
        BY <1>2, <2>1, <2>2, <2>3, <2>4, <2>5, <2>6, <2>7, NextCases
<1>. QED
    BY <1>1, <1>2

\* No two runs of a process are given one address or block: for any number of
\* runs and processes, any pool, whatever fails.
THEOREM AddressesAreDedicated == Spec => []DedicatedAddress
<1>1. Init => TypeOK /\ PlaceInv /\ TableInv
    BY TypeInit
<1>2. TypeOK /\ PlaceInv /\ TableInv /\ [Next]_vars => (TypeOK /\ PlaceInv /\ TableInv)'
    BY TypeStep, PlaceStep, TableStep
<1>3. TableInv => DedicatedAddress
    BY DEF TableInv
<1>. QED
    BY <1>1, <1>2, <1>3, PTL DEF Spec
-----------------------------------------------------------------------------
(* While a jail is up.                                                      *)

\* One process, and one only from the beginning to the end, uses --network allow.
AllowInOneProcess ==
    \A q \in Plans : \A r, s \in Runs :
        q[r].net = "allow" /\ q[s].net = "allow" => q[r].proc = q[s].proc

LEMMA JailInit == Init => JailInv
BY DEF Init, JailInv

\* Steps that leave aliases, epairs and the jails alone.
LEMMA JailMoves ==
    ASSUME TypeOK, JailInv, NEW r \in Runs, NEW there \in PC,
           UNCHANGED <<plan, held, aliases, epairs, up>>,
           pc' = [pc EXCEPT ![r] = there],
           r \in up => there \in {"exec", "remove"},
           there \in {"load", "create", "exec"} =>
              (IF Allow(r) THEN held[r] \in aliases ELSE r \in epairs),
           there \in {"nat", "publish", "create", "exec"} =>
              Allow(r) \/ (r \in epairs /\ held[r] < Blocks),
           there = "host" => r \in epairs
    PROVE  JailInv'
BY DEF JailInv, TypeOK

LEMMA JailStepKeeps ==
    ASSUME AllowInOneProcess, "jail -r" \notin Faults
    PROVE  TypeOK /\ PlaceInv /\ TableInv /\ JailInv /\ [Next]_vars => JailInv'
<1> SUFFICES ASSUME TypeOK, PlaceInv, TableInv, JailInv, [Next]_vars PROVE JailInv'
    OBVIOUS
<1>0. /\ pc \in [Runs -> PC] /\ held \in [Runs -> Nat \cup {None}]
      /\ up \subseteq Runs
    BY DEF TypeOK
<1>1. CASE UNCHANGED vars
    BY <1>1 DEF vars, JailInv
<1>2. CASE Next
    <2>1. ASSUME NEW r \in Runs, Start(r) PROVE JailInv'
        BY <2>1, <1>0, JailMoves DEF Start, PC, JailInv
    <2>2. ASSUME NEW r \in Runs, AllowStep(r) PROVE JailInv'
        <3>1. CASE AllocAddress(r)
            <4>1. \A s \in Runs : s # r => held'[s] = held[s] /\ pc'[s] = pc[s]
                BY <3>1, <1>0 DEF AllocAddress
            <4>2. pc'[r] = "hooks" /\ r \notin up
                BY <3>1, <1>0 DEF AllocAddress, JailInv
            <4>. QED
                BY <3>1, <4>1, <4>2 DEF AllocAddress, JailInv
        <3>2. CASE AllocFails(r)
            BY <3>2, <1>0, JailMoves DEF AllocFails, PC
        <3>3. CASE ReadConf(r) \/ TruncateConf(r) \/ WriteConf(r) \/ Reload(r)
            BY <3>3, <1>0, JailMoves DEF ReadConf, TruncateConf, WriteConf, Reload, PC, JailInv
        <3>4. CASE AddAlias(r) /\ ~ RaiseOn("apply", r)
            <4>1. /\ aliases' = aliases \cup {held[r]} /\ Allow(r) /\ r \notin up
                  /\ pc' = [pc EXCEPT ![r] = "load"]
                  /\ UNCHANGED <<plan, held, epairs, up>>
                BY <3>4 DEF AddAlias, PlaceInv, JailInv
            <4>. QED
                BY <4>1, <1>0 DEF JailInv
        <3>5. CASE AddAlias(r) /\ RaiseOn("apply", r)
            BY <3>5, <1>0, JailMoves DEF PC
        <3>6. CASE LoadAnchor(r)
            BY <3>6, <1>0, JailMoves DEF LoadAnchor, PC, JailInv, PlaceInv
        <3>. QED
            BY <2>2, <3>1, <3>2, <3>3, <3>4, <3>5, <3>6 DEF AllowStep
    <2>3. ASSUME NEW r \in Runs, VnetStep(r) PROVE JailInv'
        <3>1. CASE AllocVnet(r) /\ ~ RaiseOn("apply", r)
            <4>1. /\ epairs' = epairs \cup {r} /\ r \notin up
                  /\ pc' = [pc EXCEPT ![r] = "host"]
                  /\ held' = [held EXCEPT ![r] = counter[plan[r].proc]]
                  /\ UNCHANGED <<plan, aliases, up>>
                BY <3>1 DEF AllocVnet, JailInv
            <4>2. \A s \in Runs : s # r => held'[s] = held[s] /\ pc'[s] = pc[s]
                BY <4>1, <1>0
            <4>. QED
                BY <4>1, <4>2, <1>0 DEF JailInv
        <3>2. CASE AllocVnet(r) /\ RaiseOn("apply", r)
            BY <3>2, <1>0, JailMoves DEF PC
        <3>3. CASE SetupVnetHost(r)
            BY <3>3, <1>0, JailMoves DEF SetupVnetHost, PC, JailInv
        <3>4. CASE LoadNat(r) \/ Publish(r)
            BY <3>4, <1>0, JailMoves DEF LoadNat, Publish, PC, JailInv, PlaceInv
        <3>. QED
            BY <2>3, <3>1, <3>2, <3>3, <3>4 DEF VnetStep
    <2>4. ASSUME NEW r \in Runs, JailStep(r) PROVE JailInv'
        <3>1. CASE CreateJail(r)
            <4>1. held[r] # None
                BY <3>1 DEF CreateJail, PlaceInv
            <4>2. /\ IF Allow(r) THEN held[r] \in aliases ELSE r \in epairs
                  /\ Allow(r) \/ (r \in epairs /\ held[r] < Blocks)
                BY <3>1 DEF CreateJail, JailInv
            <4>3. PICK there \in {"exec", "remove"} : pc' = [pc EXCEPT ![r] = there]
                BY <3>1 DEF CreateJail
            <4>4. up' \subseteq up \cup {r} /\ UNCHANGED <<plan, held, aliases, epairs>>
                BY <3>1 DEF CreateJail
            <4>. QED
                BY <4>1, <4>2, <4>3, <4>4, <1>0 DEF JailInv
        <3>2. CASE Exec(r)
            BY <3>2, <1>0, JailMoves DEF Exec, PC
        <3>3. CASE RemoveJail(r)
            <4>1. PICK there \in {"over", "flush"} : pc' = [pc EXCEPT ![r] = there]
                BY <3>3 DEF RemoveJail
            <4>2. UNCHANGED <<plan, held, aliases, epairs>> /\ up' \subseteq up /\ r \notin up'
                BY <3>3, <1>0 DEF RemoveJail, Namesakes
            <4>. QED
                BY <4>1, <4>2, <1>0 DEF JailInv
        <3>. QED
            BY <2>4, <3>1, <3>2, <3>3 DEF JailStep
    <2>5. ASSUME NEW r \in Runs, TeardownStep(r) PROVE JailInv'
        <3>0. r \notin up
            BY <2>5 DEF TeardownStep, FlushAnchor, RemoveAlias, Discard, DestroyEpair, JailInv
        <3>1. CASE FlushAnchor(r)
            BY <3>0, <3>1, <1>0, JailMoves DEF FlushAnchor, PC
        <3>2. CASE RemoveAlias(r)
            <4>1. \A s \in Runs : s # r /\ Allow(s) /\ held[s] # None => held[s] # held[r]
                <5> SUFFICES ASSUME NEW s \in Runs, s # r, Allow(s), held[s] # None
                             PROVE  held[s] # held[r]
                    OBVIOUS
                <5>1. Allow(r) /\ plan \in Plans
                    BY <3>2 DEF RemoveAlias, PlaceInv, TypeOK
                <5>2. plan[s].proc = plan[r].proc
                    BY <5>1 DEF AllowInOneProcess
                <5>. QED
                    BY <5>1, <5>2 DEF TableInv, DedicatedAddress
            <4>2. /\ aliases \ {held[r]} \subseteq aliases' /\ pc' = [pc EXCEPT ![r] = "discard"]
                  /\ UNCHANGED <<plan, held, epairs, up>>
                BY <3>2 DEF RemoveAlias
            <4>3. \A s \in Runs : pc[s] \in {"load", "create", "exec"} \/ s \in up => held[s] # None
                BY DEF PlaceInv, JailInv, Blocking
            <4>. QED
                BY <3>0, <4>1, <4>2, <4>3, <1>0 DEF JailInv
        <3>3. CASE Discard(r) \/ DestroyEpair(r)
            <4>1. \A s \in Runs : s # r => held'[s] = held[s] /\ pc'[s] = pc[s]
                BY <3>3, <1>0 DEF Discard, DestroyEpair
            <4>2. pc'[r] = "over"
                BY <3>3, <1>0 DEF Discard, DestroyEpair
            <4>3. UNCHANGED <<plan, aliases, up>> /\ epairs \ {r} \subseteq epairs'
                BY <3>3 DEF Discard, DestroyEpair
            <4>. QED
                BY <3>0, <4>1, <4>2, <4>3 DEF JailInv
        <3>. QED
            BY <2>5, <3>1, <3>2, <3>3 DEF TeardownStep
    <2>6. ASSUME NEW r \in Runs, Stop(r) PROVE JailInv'
        BY <2>6 DEF Stop, JailInv
    <2>7. ASSUME NEW p \in Procs, Die(p) PROVE JailInv'
        BY <2>7 DEF Die, JailInv
    <2>. QED
        BY <1>2, <2>1, <2>2, <2>3, <2>4, <2>5, <2>6, <2>7, NextCases
<1>. QED
    BY <1>1, <1>2

\* If the runs with --network allow are all of one process and jail -r works, a jail
\* that is up has its address, whatever else fails and whoever dies.
THEOREM LiveJailsKeepAddress ==
    ASSUME AllowInOneProcess, "jail -r" \notin Faults
    PROVE  Spec => []LiveJailHasAddress
<1>1. Init => TypeOK /\ PlaceInv /\ TableInv /\ JailInv
    BY TypeInit, JailInit
<1>2. TypeOK /\ PlaceInv /\ TableInv /\ JailInv /\ [Next]_vars
        => (TypeOK /\ PlaceInv /\ TableInv /\ JailInv)'
    BY TypeStep, PlaceStep, TableStep, JailStepKeeps
<1>3. TypeOK /\ JailInv => LiveJailHasAddress
    BY DEF TypeOK, JailInv, LiveJailHasAddress
<1>. QED
    BY <1>1, <1>2, <1>3, PTL DEF Spec
-----------------------------------------------------------------------------
(* When a run is over.                                                      *)

LEMMA LeftInit == Init => LeftInv
BY DEF Init, LeftInv, Flushed

\* Steps that touch neither what is held nor what is set up.
LEMMA LeftMoves ==
    ASSUME TypeOK, LeftInv, NEW r \in Runs, NEW there \in PC,
           UNCHANGED <<plan, held, used, aliases, anchors, epairs>>,
           pc' = [pc EXCEPT ![r] = there],
           there \notin {"unalias", "discard", "destroy"}
    PROVE  LeftInv'
BY DEF LeftInv, TypeOK

\* pfctl replaces what the anchor of a run's name had, or fails.
LEMMA LeftLoads ==
    ASSUME TypeOK, LeftInv, NEW r \in Runs, NEW there \in PC, NEW rules,
           UNCHANGED <<plan, held, used, aliases, epairs>>,
           anchors' \in {anchors, [anchors EXCEPT ![NameOf(r)] = Loaded(rules, r)]},
           pc' = [pc EXCEPT ![r] = there], held[r] # None,
           there \notin {"unalias", "discard", "destroy"}
    PROVE  LeftInv'
<1>1. CASE anchors' = anchors
    BY <1>1, LeftMoves
<1>2. CASE anchors' = [anchors EXCEPT ![NameOf(r)] = Loaded(rules, r)]
    <2>1. \A s \in Runs : pc'[s] = IF s = r THEN there ELSE pc[s]
        BY DEF TypeOK
    <2>2. \A n \in JailNames : anchors'[n] = IF n = NameOf(r) THEN Loaded(rules, r) ELSE anchors[n]
        BY <1>2 DEF TypeOK
    <2>3. Loaded(rules, r).by = r
        BY DEF Loaded
    <2>4. \A n \in JailNames : anchors[n].by \in Runs \cup {None}
        BY DEF TypeOK, Anchor
    <2>. QED
        BY <2>1, <2>2, <2>3, <2>4 DEF LeftInv
<1>. QED
    BY <1>1, <1>2

LEMMA LeftStep ==
    ASSUME "undo" \notin Faults
    PROVE  TypeOK /\ PlaceInv /\ LeftInv /\ [Next]_vars => LeftInv'
<1> SUFFICES ASSUME TypeOK, PlaceInv, LeftInv, [Next]_vars PROVE LeftInv'
    OBVIOUS
<1>0. /\ pc \in [Runs -> PC] /\ held \in [Runs -> Nat \cup {None}]
      /\ anchors \in [JailNames -> Anchor] /\ used \in [Procs -> SUBSET Pool]
      /\ \A r \in Runs : plan[r].proc \in Procs /\ plan[r].name \in JailNames
      /\ \A n \in JailNames : anchors[n].by \in Runs \cup {None}
      /\ None \notin Runs
    BY PlanType, Constants DEF TypeOK, Anchor
<1>1. CASE UNCHANGED vars
    BY <1>1 DEF vars, LeftInv
<1>2. CASE Next
    <2>1. ASSUME NEW r \in Runs, Start(r) PROVE LeftInv'
        BY <2>1, LeftMoves DEF Start, PC
    <2>2. ASSUME NEW r \in Runs, AllowStep(r) PROVE LeftInv'
        <3>1. CASE AllocAddress(r)
            <4>1. PICK a \in Pool : /\ held' = [held EXCEPT ![r] = a]
                                    /\ used' = [used EXCEPT ![plan[r].proc] = @ \cup {a}]
                                    /\ pc' = [pc EXCEPT ![r] = "hooks"]
                                    /\ UNCHANGED <<plan, aliases, anchors, epairs>>
                                    /\ Allow(r) /\ held[r] = None
                BY <3>1 DEF AllocAddress, Free, PlaceInv
            <4>2. a # None /\ aliases \subseteq Pool /\ None \notin Pool
                BY Constants DEF TypeOK
            <4>3. \A s \in Runs : IF s = r THEN held'[s] = a /\ pc'[s] = "hooks"
                                            ELSE held'[s] = held[s] /\ pc'[s] = pc[s]
                BY <4>1, <1>0
            <4>4. \A b \in aliases : \E s \in Runs : Allow(s) /\ held'[s] = b /\ pc'[s] # "discard"
                BY <4>1, <4>2, <4>3 DEF LeftInv
            <4>5. \A p \in Procs : \A b \in used'[p] :
                      \E s \in Runs : ProcOf(s) = p /\ Allow(s) /\ held'[s] = b
                BY <4>1, <4>2, <4>3, <1>0 DEF LeftInv
            <4>6. \A n \in JailNames : anchors[n].by # r
                BY <4>1, <1>0 DEF LeftInv
            <4>. QED
                BY <4>1, <4>2, <4>3, <4>4, <4>5, <4>6, <1>0 DEF LeftInv
        <3>2. CASE AllocFails(r) \/ ReadConf(r) \/ TruncateConf(r) \/ WriteConf(r) \/ Reload(r)
            BY <3>2, LeftMoves DEF AllocFails, ReadConf, TruncateConf, WriteConf, Reload, PC
        <3>3. CASE AddAlias(r) /\ ~ RaiseOn("apply", r)
            <4>1. /\ aliases' = aliases \cup {held[r]} /\ Allow(r)
                  /\ pc' = [pc EXCEPT ![r] = "load"]
                  /\ UNCHANGED <<plan, held, used, anchors, epairs>>
                BY <3>3 DEF AddAlias, PlaceInv
            <4>. QED
                BY <4>1, <1>0 DEF LeftInv
        <3>4. CASE LoadAnchor(r) /\ ~ RaiseOn("apply", r)
            BY <3>4, LeftLoads DEF LoadAnchor, PlaceInv, Blocking, PC
        <3>5. CASE RaiseOn("apply", r)
            BY <3>5, LeftMoves DEF PC
        <3>. QED
            BY <2>2, <3>1, <3>2, <3>3, <3>4, <3>5 DEF AllowStep
    <2>3. ASSUME NEW r \in Runs, VnetStep(r) PROVE LeftInv'
        <3>1. CASE AllocVnet(r) /\ ~ RaiseOn("apply", r)
            <4>1. /\ epairs' = epairs \cup {r} /\ ~ Allow(r)
                  /\ pc' = [pc EXCEPT ![r] = "host"]
                  /\ held' = [held EXCEPT ![r] = counter[plan[r].proc]]
                  /\ UNCHANGED <<plan, used, aliases, anchors>>
                BY <3>1 DEF AllocVnet
            <4>2. \A s \in Runs : s # r => held'[s] = held[s] /\ pc'[s] = pc[s]
                BY <4>1, <1>0
            <4>3. held'[r] # None /\ pc'[r] = "host"
                BY <4>1, <1>0, Constants DEF TypeOK
            <4>4. \A n \in JailNames : anchors[n].by # r
                BY <3>1, <1>0 DEF AllocVnet, LeftInv, PlaceInv
            <4>. QED
                BY <4>1, <4>2, <4>3, <4>4, <1>0 DEF LeftInv
        <3>2. CASE RaiseOn("apply", r) \/ SetupVnetHost(r)
            BY <3>2, LeftMoves DEF SetupVnetHost, PC
        <3>3. CASE LoadNat(r) \/ Publish(r)
            <4>1. PICK there \in {"publish", "create"} : pc' = [pc EXCEPT ![r] = there]
                BY <3>3 DEF LoadNat, Publish
            <4>2. PICK rules \in {"nat", "rdr"} :
                      anchors' \in {anchors, [anchors EXCEPT ![NameOf(r)] = Loaded(rules, r)]}
                BY <3>3 DEF LoadNat, Publish
            <4>3. held[r] # None /\ UNCHANGED <<plan, held, used, aliases, epairs>>
                BY <3>3 DEF LoadNat, Publish, PlaceInv, Blocking
            <4>. QED
                BY <4>1, <4>2, <4>3, LeftLoads DEF PC
        <3>. QED
            BY <2>3, <3>1, <3>2, <3>3 DEF VnetStep
    <2>4. ASSUME NEW r \in Runs, JailStep(r) PROVE LeftInv'
        BY <2>4, LeftMoves DEF JailStep, CreateJail, Exec, RemoveJail, PC
    <2>5. ASSUME NEW r \in Runs, TeardownStep(r) PROVE LeftInv'
        <3>1. CASE FlushAnchor(r)
            <4>1. PICK there \in {"unalias", "destroy"} : pc' = [pc EXCEPT ![r] = there]
                BY <3>1 DEF FlushAnchor
            <4>2. /\ anchors' = [anchors EXCEPT ![plan[r].name] = Flushed]
                  /\ UNCHANGED <<plan, held, used, aliases, epairs>>
                BY <3>1 DEF FlushAnchor
            <4>3. \A s \in Runs : pc'[s] = IF s = r THEN there ELSE pc[s]
                BY <4>1, <1>0
            <4>4. \A n \in JailNames : anchors'[n] = IF n = plan[r].name THEN Flushed ELSE anchors[n]
                BY <4>2, <1>0
            <4>5. Flushed.by = None
                BY DEF Flushed
            <4>. QED
                BY <4>2, <4>3, <4>4, <4>5, <1>0 DEF LeftInv
        <3>2. CASE RemoveAlias(r)
            <4>1. /\ aliases' = aliases \ {held[r]} /\ pc' = [pc EXCEPT ![r] = "discard"]
                  /\ \A n \in JailNames : anchors[n].by # r
                  /\ UNCHANGED <<plan, held, used, anchors, epairs>>
                BY <3>2, <1>0 DEF RemoveAlias, LeftInv
            <4>. QED
                BY <4>1, <1>0 DEF LeftInv
        <3>3. CASE Discard(r)
            <4>1. /\ pc[r] = "discard" /\ Allow(r) /\ \A n \in JailNames : anchors[n].by # r
                  /\ held' = [held EXCEPT ![r] = None] /\ pc' = [pc EXCEPT ![r] = "over"]
                  /\ used' = [used EXCEPT ![plan[r].proc] = @ \ {held[r]}]
                  /\ UNCHANGED <<plan, aliases, anchors, epairs>>
                BY <3>3, <1>0 DEF Discard, LeftInv, PlaceInv
            <4>2. \A s \in Runs : s # r => held'[s] = held[s] /\ pc'[s] = pc[s]
                BY <4>1, <1>0
            <4>3. r \notin epairs
                BY <4>1 DEF LeftInv
            <4>4. \A p \in Procs : \A b \in used'[p] : b \in used[p] /\ (plan[r].proc = p => b # held[r])
                BY <4>1, <1>0
            <4>5. \A p \in Procs : \A b \in used'[p] :
                      \E s \in Runs : ProcOf(s) = p /\ Allow(s) /\ held'[s] = b
                BY <4>2, <4>4 DEF LeftInv
            <4>6. \A b \in aliases : \E s \in Runs : Allow(s) /\ held'[s] = b /\ pc'[s] # "discard"
                BY <4>1, <4>2 DEF LeftInv
            <4>. QED
                BY <4>1, <4>2, <4>3, <4>5, <4>6, <1>0 DEF LeftInv
        <3>4. CASE DestroyEpair(r)
            <4>1. /\ \A n \in JailNames : anchors[n].by # r
                  /\ ~ Allow(r) /\ epairs' = epairs \ {r}
                  /\ held' = [held EXCEPT ![r] = None] /\ pc' = [pc EXCEPT ![r] = "over"]
                  /\ UNCHANGED <<plan, used, aliases, anchors>>
                BY <3>4, <1>0 DEF DestroyEpair, LeftInv, PlaceInv
            <4>2. \A s \in Runs : s # r => held'[s] = held[s] /\ pc'[s] = pc[s]
                BY <4>1, <1>0
            <4>. QED
                BY <4>1, <4>2, <1>0 DEF LeftInv
        <3>. QED
            BY <2>5, <3>1, <3>2, <3>3, <3>4 DEF TeardownStep
    <2>6. ASSUME NEW r \in Runs, Stop(r) PROVE LeftInv'
        BY <2>6 DEF Stop, LeftInv
    <2>7. ASSUME NEW p \in Procs, Die(p) PROVE LeftInv'
        BY <2>7 DEF Die, LeftInv
    <2>. QED
        BY <1>2, <2>1, <2>2, <2>3, <2>4, <2>5, <2>6, <2>7, NextCases
<1>. QED
    BY <1>1, <1>2

\* If undoing works, a run that is over has left nothing, from wherever it
\* failed and whatever other runs did with the same address or the same name.
THEOREM NothingIsLeft ==
    ASSUME "undo" \notin Faults
    PROVE  Spec => []NothingLeft
<1>1. Init => TypeOK /\ PlaceInv /\ LeftInv
    BY TypeInit, LeftInit
<1>2. TypeOK /\ PlaceInv /\ LeftInv /\ [Next]_vars => (TypeOK /\ PlaceInv /\ LeftInv)'
    BY TypeStep, PlaceStep, LeftStep
<1>3. TypeOK /\ PlaceInv /\ LeftInv => NothingLeft
    BY Constants DEF PlaceInv, LeftInv, NothingLeft
<1>. QED
    BY <1>1, <1>2, <1>3, PTL DEF Spec
-----------------------------------------------------------------------------
(* pf.conf.                                                                 *)

LEMMA RulesInit ==
    ASSUME \A c \in Confs : "operator" \in c
    PROVE  Init => RulesInv
BY DEF Init, RulesInv

\* Steps that leave pf.conf alone and do not begin to write it.
LEMMA RulesMoves ==
    ASSUME TypeOK, RulesInv, NEW r \in Runs, NEW there \in PC,
           UNCHANGED file, pc' = [pc EXCEPT ![r] = there],
           pc[r] # "write", there \notin {"truncate", "write"}
    PROVE  RulesInv'
<1>1. \A s \in Runs : pc'[s] = IF s = r THEN there ELSE pc[s]
    BY DEF TypeOK
<1>2. UNCHANGED <<conf, lines, loaded>>
    OBVIOUS
<1>3. (\E s \in Runs : pc[s] = "write") => \E s \in Runs : pc'[s] = "write"
    BY <1>1
<1>. QED
    BY <1>1, <1>2, <1>3 DEF RulesInv

LEMMA RulesStep ==
    ASSUME AllowInOneProcess
    PROVE  TypeOK /\ PlaceInv /\ RulesInv /\ [Next]_vars => RulesInv'
<1> SUFFICES ASSUME TypeOK, PlaceInv, RulesInv, [Next]_vars PROVE RulesInv'
    OBVIOUS
<1>0. pc \in [Runs -> PC] /\ lines \in [Runs -> SUBSET Line]
    BY DEF TypeOK
<1>1. CASE UNCHANGED vars
    BY <1>1 DEF vars, RulesInv
<1>2. CASE Next
    <2>0. ASSUME NEW r \in Runs, pc[r] \in {"hooks", "reload"},
                 \A s \in Mates(r) \ {r} : pc[s] \notin Blocking
          PROVE  "operator" \in conf
        <3> SUFFICES ASSUME NEW s \in Runs, pc[s] = "write" PROVE FALSE
            BY DEF RulesInv
        <3>1. Allow(s) /\ Allow(r) /\ plan \in Plans
            BY <2>0 DEF PlaceInv, TypeOK
        <3>2. s \in Mates(r) \ {r}
            BY <2>0, <3>1 DEF AllowInOneProcess
        <3>. QED
            BY <2>0, <3>2 DEF Blocking
    <2>1. ASSUME NEW r \in Runs, Start(r) PROVE RulesInv'
        BY <2>1, RulesMoves DEF Start, PC
    <2>2. ASSUME NEW r \in Runs, AllowStep(r) PROVE RulesInv'
        <3>1. CASE AllocAddress(r) \/ AllocFails(r) \/ AddAlias(r) \/ LoadAnchor(r)
            BY <3>1, RulesMoves DEF AllocAddress, AllocFails, AddAlias, LoadAnchor, PC
        <3>2. CASE ReadConf(r)
            <4>1. "operator" \in conf
                BY <3>2, <2>0 DEF ReadConf
            <4>2. \A s \in Runs : lines'[s] = IF s = r THEN conf \cup Missing(conf) ELSE lines[s]
                BY <3>2, <1>0 DEF ReadConf
            <4>3. \A s \in Runs : s # r => pc'[s] = pc[s]
                BY <3>2, <1>0 DEF ReadConf
            <4>4. UNCHANGED <<conf, loaded>>
                BY <3>2 DEF ReadConf
            <4>. QED
                BY <4>1, <4>2, <4>3, <4>4 DEF RulesInv
        <3>3. CASE TruncateConf(r)
            BY <3>3, <1>0 DEF TruncateConf, RulesInv
        <3>4. CASE WriteConf(r)
            BY <3>4, <1>0 DEF WriteConf, RulesInv
        <3>5. CASE Reload(r) /\ ~ RaiseOn("reload", r)
            <4>1. "operator" \in conf
                BY <3>5, <2>0 DEF Reload
            <4>. QED
                BY <3>5, <4>1, <1>0 DEF Reload, RulesInv
        <3>6. CASE Reload(r) /\ RaiseOn("reload", r)
            BY <3>6, RulesMoves DEF Reload, PC
        <3>. QED
            BY <2>2, <3>1, <3>2, <3>3, <3>4, <3>5, <3>6 DEF AllowStep
    <2>3. ASSUME NEW r \in Runs, VnetStep(r) PROVE RulesInv'
        BY <2>3, RulesMoves DEF VnetStep, AllocVnet, SetupVnetHost, LoadNat, Publish, PC
    <2>4. ASSUME NEW r \in Runs, JailStep(r) PROVE RulesInv'
        BY <2>4, RulesMoves DEF JailStep, CreateJail, Exec, RemoveJail, PC
    <2>5. ASSUME NEW r \in Runs, TeardownStep(r) PROVE RulesInv'
        BY <2>5, RulesMoves DEF TeardownStep, FlushAnchor, RemoveAlias, Discard, DestroyEpair, PC
    <2>6. ASSUME NEW r \in Runs, Stop(r) PROVE RulesInv'
        BY <2>6 DEF Stop, RulesInv
    <2>7. ASSUME NEW p \in Procs, Die(p) PROVE RulesInv'
        BY <2>7 DEF Die, RulesInv
    <2>. QED
        BY <1>2, <2>1, <2>2, <2>3, <2>4, <2>5, <2>6, <2>7, NextCases
<1>. QED
    BY <1>1, <1>2

LEMMA RulesAlways ==
    ASSUME AllowInOneProcess, \A c \in Confs : "operator" \in c
    PROVE  Spec => [](TypeOK /\ PlaceInv /\ RulesInv)
<1>1. Init => TypeOK /\ PlaceInv /\ RulesInv
    BY TypeInit, RulesInit
<1>2. TypeOK /\ PlaceInv /\ RulesInv /\ [Next]_vars => (TypeOK /\ PlaceInv /\ RulesInv)'
    BY TypeStep, PlaceStep, RulesStep
<1>. QED
    BY <1>1, <1>2, PTL DEF Spec

\* If the runs with --network allow are all of one process, the operator's own rules are lost
\* by its death between emptying and writing pf.conf and by nothing else, whatever fails.
THEOREM RulesLostAtOnePlace ==
    ASSUME AllowInOneProcess, \A c \in Confs : "operator" \in c
    PROVE  Spec => []RulesLostByDeathOnly
<1>1. RulesInv => RulesLostByDeathOnly
    BY DEF RulesInv, RulesLostByDeathOnly, OperatorRulesSurvive, DiedWriting
<1>. QED
    BY <1>1, RulesAlways, PTL

\* Without the fault "crash" nobody dies.
LEMMA NobodyDies ==
    ASSUME "crash" \notin Faults
    PROVE  Spec => [](dead = {})
<1>1. Init => dead = {}
    BY DEF Init
<1>2. dead = {} /\ [Next]_vars => (dead = {})'
    <2> SUFFICES ASSUME dead = {}, [Next]_vars PROVE dead' = {}
        OBVIOUS
    <2>1. CASE UNCHANGED vars
        BY <2>1 DEF vars
    <2>2. CASE Next
        <3>1. ASSUME NEW r \in Runs, Start(r) PROVE dead' = {}
            BY <3>1 DEF Start
        <3>2. ASSUME NEW r \in Runs, AllowStep(r) PROVE dead' = {}
            BY <3>2 DEF AllowStep, AllocAddress, AllocFails, ReadConf, TruncateConf, WriteConf,
                        Reload, AddAlias, LoadAnchor
        <3>3. ASSUME NEW r \in Runs, VnetStep(r) PROVE dead' = {}
            BY <3>3 DEF VnetStep, AllocVnet, SetupVnetHost, LoadNat, Publish
        <3>4. ASSUME NEW r \in Runs, JailStep(r) PROVE dead' = {}
            BY <3>4 DEF JailStep, CreateJail, Exec, RemoveJail
        <3>5. ASSUME NEW r \in Runs, TeardownStep(r) PROVE dead' = {}
            BY <3>5 DEF TeardownStep, FlushAnchor, RemoveAlias, Discard, DestroyEpair
        <3>6. ASSUME NEW r \in Runs, Stop(r) PROVE dead' = {}
            BY <3>6 DEF Stop
        <3>7. ASSUME NEW p \in Procs, Die(p) PROVE dead' = {}
            BY <3>7 DEF Die
        <3>. QED
            BY <2>2, <3>1, <3>2, <3>3, <3>4, <3>5, <3>6, <3>7, NextCases
    <2>. QED
        BY <2>1, <2>2
<1>. QED
    BY <1>1, <1>2, PTL DEF Spec

\* If, moreover, no process dies, they are never lost: pf works with them, and pf.conf is
\* without them only while a process writes it.
THEOREM OperatorRulesStay ==
    ASSUME AllowInOneProcess, "crash" \notin Faults, \A c \in Confs : "operator" \in c
    PROVE  Spec => []OperatorRulesSurvive
<1>1. RulesInv /\ dead = {} => OperatorRulesSurvive
    BY DEF RulesInv, OperatorRulesSurvive
<1>. QED
    BY <1>1, RulesAlways, NobodyDies, PTL
-----------------------------------------------------------------------------
(* Egress.                                                                  *)

\* Steps that do not bring a run among those of netops, or that do so when no other run of
\* its process is there.
LEMMA SyncMoves ==
    ASSUME TypeOK, SyncInv, NEW r \in Runs, NEW there \in PC, plan' = plan,
           pc' = [pc EXCEPT ![r] = there],
           there \in Blocking =>
              pc[r] \in Blocking \/ \A s \in Mates(r) \ {r} : pc[s] \notin Blocking
    PROVE  SyncInv'
<1>1. \A s \in Runs : pc'[s] = IF s = r THEN there ELSE pc[s]
    BY DEF TypeOK
<1> SUFFICES ASSUME NEW s \in Runs, NEW t \in Runs, s # t, plan[t].proc = plan[s].proc,
                    pc'[s] \in Blocking, pc'[t] \in Blocking
             PROVE  FALSE
    BY DEF SyncInv
<1>2. CASE s = r
    BY <1>1, <1>2 DEF SyncInv
<1>3. CASE t = r
    BY <1>1, <1>3 DEF SyncInv
<1>4. CASE s # r /\ t # r
    BY <1>1, <1>4 DEF SyncInv
<1>. QED
    BY <1>2, <1>3, <1>4

LEMMA SyncStep == TypeOK /\ SyncInv /\ [Next]_vars => SyncInv'
<1> SUFFICES ASSUME TypeOK, SyncInv, [Next]_vars PROVE SyncInv'
    OBVIOUS
<1>1. CASE UNCHANGED vars
    BY <1>1 DEF vars, SyncInv
<1>2. CASE Next
    <2>1. ASSUME NEW r \in Runs, Start(r) PROVE SyncInv'
        BY <2>1, SyncMoves DEF Start, PC, Blocking
    <2>2. ASSUME NEW r \in Runs, AllowStep(r) PROVE SyncInv'
        <3>1. CASE AllocAddress(r)
            BY <3>1, SyncMoves DEF AllocAddress, PC
        <3>2. CASE AllocFails(r)
            BY <3>2, SyncMoves DEF AllocFails, PC
        <3>3. CASE ReadConf(r)
            BY <3>3, SyncMoves DEF ReadConf, PC
        <3>4. CASE TruncateConf(r) \/ WriteConf(r)
            BY <3>4, SyncMoves DEF TruncateConf, WriteConf, PC
        <3>5. CASE Reload(r) \/ AddAlias(r) \/ LoadAnchor(r)
            BY <3>5, SyncMoves DEF Reload, AddAlias, LoadAnchor, PC
        <3>. QED
            BY <2>2, <3>1, <3>2, <3>3, <3>4, <3>5 DEF AllowStep
    <2>3. ASSUME NEW r \in Runs, VnetStep(r) PROVE SyncInv'
        BY <2>3, SyncMoves DEF VnetStep, AllocVnet, SetupVnetHost, LoadNat, Publish, PC
    <2>4. ASSUME NEW r \in Runs, JailStep(r) PROVE SyncInv'
        BY <2>4, SyncMoves DEF JailStep, CreateJail, Exec, RemoveJail, PC, Blocking
    <2>5. ASSUME NEW r \in Runs, TeardownStep(r) PROVE SyncInv'
        BY <2>5, SyncMoves DEF TeardownStep, FlushAnchor, RemoveAlias, Discard, DestroyEpair, PC
    <2>6. ASSUME NEW r \in Runs, Stop(r) PROVE SyncInv'
        BY <2>6 DEF Stop, SyncInv
    <2>7. ASSUME NEW p \in Procs, Die(p) PROVE SyncInv'
        BY <2>7 DEF Die, SyncInv
    <2>. QED
        BY <1>2, <2>1, <2>2, <2>3, <2>4, <2>5, <2>6, <2>7, NextCases
<1>. QED
    BY <1>1, <1>2

\* A run that begins a step of pf.conf is the only one, if one process uses --network allow.
LEMMA OneAtPfConf ==
    ASSUME AllowInOneProcess, TypeOK, PlaceInv, SyncInv, NEW r \in Runs, Allow(r),
           pc[r] \in {"hooks", "truncate", "write", "reload"}
    PROVE  \A s \in Runs : s # r => pc[s] \notin {"hooks", "truncate", "write", "reload"}
<1> SUFFICES ASSUME NEW s \in Runs, s # r, pc[s] \in {"hooks", "truncate", "write", "reload"}
             PROVE  FALSE
    OBVIOUS
<1>1. Allow(s) /\ plan \in Plans
    BY DEF PlaceInv, TypeOK
<1>2. plan[s].proc = plan[r].proc
    BY <1>1 DEF AllowInOneProcess
<1>. QED
    BY <1>2 DEF SyncInv, Blocking

\* Steps that leave pf.conf and the main ruleset alone.
LEMMA WiredMoves ==
    ASSUME TypeOK, WiredInv, NEW r \in Runs, NEW there \in PC,
           UNCHANGED <<plan, conf, lines, loaded>>, pc' = [pc EXCEPT ![r] = there],
           pc[r] # "reload", there \notin {"truncate", "write", "reload"}, up' \subseteq up \cup {r},
           Allow(r) /\ (there \in {"alias", "load", "create", "exec"} \/ r \in up') => "anchor" \in loaded
    PROVE  WiredInv'
<1>1. \A s \in Runs : pc'[s] = IF s = r THEN there ELSE pc[s]
    BY DEF TypeOK
<1>2. (\E s \in Runs : pc[s] = "reload") => \E s \in Runs : pc'[s] = "reload"
    BY <1>1
<1>. QED
    BY <1>1, <1>2 DEF WiredInv

LEMMA WiredStep ==
    ASSUME AllowInOneProcess, "reload" \notin Faults
    PROVE  TypeOK /\ PlaceInv /\ JailInv /\ SyncInv /\ WiredInv /\ [Next]_vars => WiredInv'
<1> SUFFICES ASSUME TypeOK, PlaceInv, JailInv, SyncInv, WiredInv, [Next]_vars PROVE WiredInv'
    OBVIOUS
<1>0. /\ pc \in [Runs -> PC] /\ lines \in [Runs -> SUBSET Line]
      /\ \A r \in Runs : r \in up => pc[r] \in {"exec", "remove"}
    BY DEF TypeOK, JailInv
<1>1. CASE UNCHANGED vars
    BY <1>1 DEF vars, WiredInv
<1>2. CASE Next
    <2>1. ASSUME NEW r \in Runs, Start(r) PROVE WiredInv'
        BY <2>1, <1>0, WiredMoves DEF Start, PC, WiredInv
    <2>2. ASSUME NEW r \in Runs, AllowStep(r) PROVE WiredInv'
        <3>1. CASE AllocAddress(r) \/ AllocFails(r)
            BY <3>1, <1>0, WiredMoves DEF AllocAddress, AllocFails, PC
        <3>2. CASE ReadConf(r)
            <4>1. /\ pc[r] = "hooks" /\ Allow(r) /\ r \notin up
                  /\ lines' = [lines EXCEPT ![r] = conf \cup Missing(conf)]
                  /\ pc' = [pc EXCEPT ![r] = IF Missing(conf) = {} THEN "alias" ELSE "truncate"]
                  /\ UNCHANGED <<plan, conf, loaded, up>>
                BY <3>2, <1>0 DEF ReadConf, PlaceInv
            <4>2. "anchor" \in conf \cup Missing(conf)
                BY DEF Missing, WiredInv
            <4>3. Missing(conf) = {} => "anchor" \in loaded
                BY <4>1, <4>2, OneAtPfConf DEF WiredInv
            <4>4. /\ \A s \in Runs : s # r => pc'[s] = pc[s] /\ lines'[s] = lines[s]
                  /\ lines'[r] = conf \cup Missing(conf)
                  /\ pc'[r] = IF Missing(conf) = {} THEN "alias" ELSE "truncate"
                BY <4>1, <1>0
            <4>5. (\E s \in Runs : pc[s] = "reload") => \E s \in Runs : pc'[s] = "reload"
                BY <4>1, <4>4
            <4>. QED
                BY <4>1, <4>2, <4>3, <4>4, <4>5 DEF WiredInv
        <3>3. CASE TruncateConf(r)
            <4>1. /\ pc[r] = "truncate" /\ Allow(r) /\ r \notin up /\ conf' = {}
                  /\ pc' = [pc EXCEPT ![r] = "write"]
                  /\ UNCHANGED <<plan, lines, loaded, up>>
                BY <3>3, <1>0 DEF TruncateConf, PlaceInv
            <4>2. \A s \in Runs : s # r => pc[s] # "reload" /\ pc'[s] = pc[s]
                BY <4>1, <1>0, OneAtPfConf
            <4>3. pc'[r] = "write"
                BY <4>1, <1>0
            <4>. QED
                BY <4>1, <4>2, <4>3 DEF WiredInv
        <3>4. CASE WriteConf(r)
            <4>1. /\ pc[r] = "write" /\ Allow(r) /\ r \notin up /\ conf' = lines[r]
                  /\ pc' = [pc EXCEPT ![r] = "reload"]
                  /\ UNCHANGED <<plan, lines, loaded, up>>
                BY <3>4, <1>0 DEF WriteConf, PlaceInv
            <4>2. \A s \in Runs : s # r => pc[s] # "reload" /\ pc'[s] = pc[s]
                BY <4>1, <1>0, OneAtPfConf
            <4>3. pc'[r] = "reload" /\ "anchor" \in lines[r]
                BY <4>1, <1>0 DEF WiredInv
            <4>. QED
                BY <4>1, <4>2, <4>3 DEF WiredInv
        <3>5. CASE Reload(r)
            <4>1. /\ pc[r] = "reload" /\ Allow(r) /\ r \notin up /\ loaded' = conf
                  /\ pc' = [pc EXCEPT ![r] = "alias"]
                  /\ UNCHANGED <<plan, lines, conf, up>>
                BY <3>5, <1>0 DEF Reload, PlaceInv
            <4>2. \A s \in Runs : s # r => pc'[s] = pc[s]
                BY <4>1, <1>0
            <4>3. pc'[r] = "alias" /\ "anchor" \in conf
                BY <4>1, <1>0 DEF WiredInv
            <4>. QED
                BY <4>1, <4>2, <4>3 DEF WiredInv
        <3>6. CASE AddAlias(r) \/ LoadAnchor(r)
            BY <3>6, <1>0, WiredMoves DEF AddAlias, LoadAnchor, PC, WiredInv
        <3>. QED
            BY <2>2, <3>1, <3>2, <3>3, <3>4, <3>5, <3>6 DEF AllowStep
    <2>3. ASSUME NEW r \in Runs, VnetStep(r) PROVE WiredInv'
        <3>1. ~ Allow(r)
            BY <2>3 DEF VnetStep, AllocVnet, SetupVnetHost, LoadNat, Publish, PlaceInv
        <3>. QED
            BY <2>3, <3>1, <1>0, WiredMoves DEF VnetStep, AllocVnet, SetupVnetHost, LoadNat, Publish, PC
    <2>4. ASSUME NEW r \in Runs, JailStep(r) PROVE WiredInv'
        BY <2>4, WiredMoves DEF JailStep, CreateJail, Exec, RemoveJail, PC, WiredInv
    <2>5. ASSUME NEW r \in Runs, TeardownStep(r) PROVE WiredInv'
        BY <2>5, <1>0, WiredMoves DEF TeardownStep, FlushAnchor, RemoveAlias, Discard, DestroyEpair, PC
    <2>6. ASSUME NEW r \in Runs, Stop(r) PROVE WiredInv'
        BY <2>6 DEF Stop, WiredInv
    <2>7. ASSUME NEW p \in Procs, Die(p) PROVE WiredInv'
        BY <2>7 DEF Die, WiredInv
    <2>. QED
        BY <1>2, <2>1, <2>2, <2>3, <2>4, <2>5, <2>6, <2>7, NextCases
<1>. QED
    BY <1>1, <1>2

\* No two runs have jails of one name.
NamesApart == \A q \in Plans : \A r, s \in Runs : q[r].name = q[s].name => r = s

\* Steps that leave the anchors and what is given out alone.
LEMMA FilterMoves ==
    ASSUME TypeOK, FilterInv, NEW r \in Runs, NEW there \in PC,
           UNCHANGED <<plan, held, anchors>>, pc' = [pc EXCEPT ![r] = there],
           up' \subseteq up \cup {r},
           Allow(r) /\ (there \in {"create", "exec"} \/ r \in up') => HasRules(r)
    PROVE  FilterInv'
<1>1. \A s \in Runs : pc'[s] = IF s = r THEN there ELSE pc[s]
    BY DEF TypeOK
<1>. QED
    BY <1>1 DEF FilterInv, HasRules

\* Steps in which a run with no jail and no rules is given something or gives it back.
LEMMA FilterGives ==
    ASSUME TypeOK, FilterInv, NEW r \in Runs, UNCHANGED <<plan, anchors, up>>,
           \A s \in Runs : s # r => held'[s] = held[s] /\ pc'[s] = pc[s],
           r \notin up, pc'[r] \notin {"create", "exec"},
           \A n \in JailNames : anchors[n].by # r
    PROVE  FilterInv'
BY DEF FilterInv, HasRules

\* Steps that put something else into the anchor of r's name.
LEMMA FilterLoads ==
    ASSUME NamesApart, TypeOK, FilterInv, NEW r \in Runs, NEW there \in PC, NEW content,
           UNCHANGED <<plan, held, up>>, pc' = [pc EXCEPT ![r] = there],
           anchors' = [anchors EXCEPT ![NameOf(r)] = content],
           content.holds = "filter" => Allow(r) /\ content.by = r /\ content.of = held[r],
           Allow(r) => content.holds = "filter" \/ (there \notin {"create", "exec"} /\ r \notin up)
    PROVE  FilterInv'
<1>1. \A s \in Runs : pc'[s] = IF s = r THEN there ELSE pc[s]
    BY DEF TypeOK
<1>2. \A n \in JailNames : anchors'[n] = IF n = NameOf(r) THEN content ELSE anchors[n]
    BY DEF TypeOK
<1>3. \A s \in Runs : NameOf(s) \in JailNames /\ (s # r => NameOf(s) # NameOf(r))
    BY PlanType DEF TypeOK, NamesApart
<1>. QED
    BY <1>1, <1>2, <1>3 DEF FilterInv, HasRules

LEMMA FilterStep ==
    ASSUME NamesApart, "undo" \notin Faults
    PROVE  TypeOK /\ PlaceInv /\ JailInv /\ LeftInv /\ FilterInv /\ [Next]_vars => FilterInv'
<1> SUFFICES ASSUME TypeOK, PlaceInv, JailInv, LeftInv, FilterInv, [Next]_vars PROVE FilterInv'
    OBVIOUS
<1>0. /\ pc \in [Runs -> PC] /\ held \in [Runs -> Nat \cup {None}]
      /\ \A r \in Runs : r \in up => pc[r] \in {"exec", "remove"}
    BY DEF TypeOK, JailInv
\* Whose network is not set up, or whose anchor is flushed, has loaded none.
<1>0a. ASSUME NEW r \in Runs, held[r] = None \/ pc[r] \in {"unalias", "discard", "destroy"}
       PROVE  \A n \in JailNames : anchors[n].by # r
    BY <1>0a, Constants DEF LeftInv
<1>1. CASE UNCHANGED vars
    BY <1>1 DEF vars, FilterInv, HasRules
<1>2. CASE Next
    <2>1. ASSUME NEW r \in Runs, Start(r) PROVE FilterInv'
        BY <2>1, <1>0, FilterMoves DEF Start, PC
    <2>2. ASSUME NEW r \in Runs, AllowStep(r) PROVE FilterInv'
        <3>1. CASE AllocAddress(r)
            <4>1. /\ held[r] = None /\ r \notin up
                  /\ pc' = [pc EXCEPT ![r] = "hooks"]
                  /\ UNCHANGED <<plan, anchors, up>>
                BY <3>1, <1>0 DEF AllocAddress, PlaceInv
            <4>2. \A s \in Runs : s # r => held'[s] = held[s] /\ pc'[s] = pc[s]
                BY <3>1, <1>0 DEF AllocAddress
            <4>3. pc'[r] = "hooks"
                BY <4>1, <1>0
            <4>. QED
                BY <4>1, <4>2, <4>3, <1>0a, FilterGives
        <3>2. CASE AllocFails(r) \/ ReadConf(r) \/ TruncateConf(r) \/ WriteConf(r) \/ Reload(r)
            BY <3>2, <1>0, FilterMoves DEF AllocFails, ReadConf, TruncateConf, WriteConf, Reload, PC
        <3>3. CASE AddAlias(r)
            BY <3>3, <1>0, FilterMoves DEF AddAlias, PC
        <3>4. CASE LoadAnchor(r) /\ RaiseOn("apply", r)
            BY <3>4, <1>0, FilterMoves DEF LoadAnchor, PC
        <3>5. CASE LoadAnchor(r) /\ ~ RaiseOn("apply", r)
            <4>1. /\ Allow(r) /\ UNCHANGED <<plan, held, up>>
                  /\ anchors' = [anchors EXCEPT ![NameOf(r)] = Loaded("filter", r)]
                  /\ pc' = [pc EXCEPT ![r] = "create"]
                BY <3>5 DEF LoadAnchor, PlaceInv, Blocking
            <4>2. /\ Loaded("filter", r).holds = "filter" /\ Loaded("filter", r).by = r
                  /\ Loaded("filter", r).of = held[r]
                BY DEF Loaded
            <4>. QED
                BY <4>1, <4>2, FilterLoads DEF PC
        <3>. QED
            BY <2>2, <3>1, <3>2, <3>3, <3>4, <3>5 DEF AllowStep
    <2>3. ASSUME NEW r \in Runs, VnetStep(r) PROVE FilterInv'
        <3>0. ~ Allow(r) /\ plan' = plan /\ up' = up
            BY <2>3 DEF VnetStep, AllocVnet, SetupVnetHost, LoadNat, Publish, PlaceInv
        <3>1. CASE AllocVnet(r) /\ ~ RaiseOn("apply", r)
            <4>1. /\ held[r] = None /\ r \notin up /\ anchors' = anchors
                  /\ pc' = [pc EXCEPT ![r] = "host"]
                BY <3>1, <1>0 DEF AllocVnet, PlaceInv
            <4>2. \A s \in Runs : s # r => held'[s] = held[s] /\ pc'[s] = pc[s]
                BY <3>1, <1>0 DEF AllocVnet
            <4>3. pc'[r] = "host"
                BY <4>1, <1>0
            <4>. QED
                BY <3>0, <4>1, <4>2, <4>3, <1>0a, FilterGives
        <3>2. CASE RaiseOn("apply", r) \/ SetupVnetHost(r)
            BY <3>0, <3>2, FilterMoves DEF SetupVnetHost, PC
        <3>3. CASE LoadNat(r) \/ Publish(r)
            <4>1. PICK there \in {"publish", "create"} : pc' = [pc EXCEPT ![r] = there]
                BY <3>3 DEF LoadNat, Publish
            <4>2. PICK rules \in {"nat", "rdr"} :
                      anchors' \in {anchors, [anchors EXCEPT ![NameOf(r)] = Loaded(rules, r)]}
                BY <3>3 DEF LoadNat, Publish
            <4>3. held' = held
                BY <3>3 DEF LoadNat, Publish
            <4>4. Loaded(rules, r).holds # "filter"
                BY <4>2 DEF Loaded
            <4>5. CASE anchors' = anchors
                BY <3>0, <4>1, <4>3, <4>5, FilterMoves DEF PC
            <4>6. CASE anchors' = [anchors EXCEPT ![NameOf(r)] = Loaded(rules, r)]
                BY <3>0, <4>1, <4>3, <4>4, <4>6, FilterLoads DEF PC
            <4>. QED
                BY <4>2, <4>5, <4>6
        <3>. QED
            BY <2>3, <3>1, <3>2, <3>3 DEF VnetStep
    <2>4. ASSUME NEW r \in Runs, JailStep(r) PROVE FilterInv'
        <3>1. CASE CreateJail(r)
            <4>1. PICK there \in {"exec", "remove"} : pc' = [pc EXCEPT ![r] = there]
                BY <3>1 DEF CreateJail
            <4>2. Allow(r) => HasRules(r)
                BY <3>1 DEF CreateJail, FilterInv
            <4>. QED
                BY <3>1, <4>1, <4>2, FilterMoves DEF CreateJail, PC
        <3>2. CASE Exec(r)
            <4>1. Allow(r) /\ r \in up => HasRules(r)
                BY DEF FilterInv
            <4>. QED
                BY <3>2, <4>1, FilterMoves DEF Exec, PC
        <3>3. CASE RemoveJail(r)
            <4>1. PICK there \in {"over", "flush"} : pc' = [pc EXCEPT ![r] = there]
                BY <3>3 DEF RemoveJail
            <4>2. Allow(r) /\ r \in up => HasRules(r)
                BY DEF FilterInv
            <4>. QED
                BY <3>3, <4>1, <4>2, FilterMoves DEF RemoveJail, PC
        <3>. QED
            BY <2>4, <3>1, <3>2, <3>3 DEF JailStep
    <2>5. ASSUME NEW r \in Runs, TeardownStep(r) PROVE FilterInv'
        <3>1. r \notin up /\ plan' = plan /\ up' = up
            BY <2>5, <1>0 DEF TeardownStep, FlushAnchor, RemoveAlias, Discard, DestroyEpair
        <3>2. CASE FlushAnchor(r)
            <4>1. PICK there \in {"unalias", "destroy"} : pc' = [pc EXCEPT ![r] = there]
                BY <3>2 DEF FlushAnchor
            <4>2. anchors' = [anchors EXCEPT ![NameOf(r)] = Flushed] /\ held' = held
                BY <3>2 DEF FlushAnchor
            <4>3. Flushed.holds # "filter"
                BY DEF Flushed
            <4>. QED
                BY <3>1, <4>1, <4>2, <4>3, FilterLoads DEF PC
        <3>3. CASE RemoveAlias(r)
            BY <3>1, <3>3, FilterMoves DEF RemoveAlias, PC
        <3>4. CASE Discard(r) \/ DestroyEpair(r)
            <4>1. pc[r] \in {"discard", "destroy"} /\ anchors' = anchors /\ pc'[r] = "over"
                BY <3>4, <1>0 DEF Discard, DestroyEpair
            <4>2. \A s \in Runs : s # r => held'[s] = held[s] /\ pc'[s] = pc[s]
                BY <3>4, <1>0 DEF Discard, DestroyEpair
            <4>. QED
                BY <3>1, <4>1, <4>2, <1>0a, FilterGives
        <3>. QED
            BY <2>5, <3>2, <3>3, <3>4 DEF TeardownStep
    <2>6. ASSUME NEW r \in Runs, Stop(r) PROVE FilterInv'
        BY <2>6 DEF Stop, FilterInv, HasRules
    <2>7. ASSUME NEW p \in Procs, Die(p) PROVE FilterInv'
        BY <2>7 DEF Die, FilterInv, HasRules
    <2>. QED
        BY <1>2, <2>1, <2>2, <2>3, <2>4, <2>5, <2>6, <2>7, NextCases
<1>. QED
    BY <1>1, <1>2

LEMMA EgressInit ==
    ASSUME \A c \in Confs : "nat-anchor" \in c => "anchor" \in c
    PROVE  Init => SyncInv /\ WiredInv /\ FilterInv
<1> SUFFICES ASSUME Init PROVE SyncInv /\ WiredInv /\ FilterInv
    OBVIOUS
<1>1. SyncInv
    BY DEF Init, SyncInv, Blocking
<1>2. WiredInv
    BY DEF Init, WiredInv
<1>3. FilterInv
    BY DEF Init, FilterInv, Flushed
<1>. QED
    BY <1>1, <1>2, <1>3

LEMMA RuleFields ==
    ASSUME NEW does, NEW from, NEW to, NEW tag
    PROVE  /\ Rule(does, from, to, tag).does = does
           /\ Rule(does, from, to, tag).from = from
           /\ Rule(does, from, to, tag).to = to
           /\ Rule(does, from, to, tag).tag = tag
BY DEF Rule

\* The packets the rules of an anchor are about: all of them leave through ext_if.
Filtered == OnExtIf(Dest, {"tcp", "udp"})

LEMMA FilteredPackets ==
    ASSUME NEW packet \in Filtered
    PROVE  packet \in OnExtIf(Dest, Protocols) /\ packet \in Packet /\ packet[1] \in Dest
BY DEF Filtered, OnExtIf, Protocols, Packet

\* What an anchor that holds filter rules adds to the ruleset.
LEMMA AnchorRules ==
    ASSUME TypeOK, FilterInv, "anchor" \in loaded,
           NEW j \in DOMAIN AnchorOrder, anchors[AnchorOrder[j]].holds = "filter",
           NEW s, s = anchors[AnchorOrder[j]].by
    PROVE  /\ \A k \in 1..3 : <<j, k>> \in DOMAIN Ruleset
           /\ Ruleset[<<j, 1>>] = Rule("match", held[s], OnExtIf(Dest, Protocols), TagOf[NameOf(s)])
           /\ Ruleset[<<j, 2>>] = Rule("pass", None, OnExtIf(Allowed(s), {"tcp", "udp"}), TagOf[NameOf(s)])
           /\ Ruleset[<<j, 3>>] = Rule("block", None, Filtered, TagOf[NameOf(s)])
<1> DEFINE filters == {i \in DOMAIN AnchorOrder :
                          "anchor" \in loaded /\ anchors[AnchorOrder[i]].holds = "filter"}
           R == Render(s, held[s])
<1>1. AnchorOrder[j] \in JailNames
    <2>1. AnchorOrder \in Seq(JailNames)
        BY NetworkAssumption
    <2>. QED
        BY <2>1
<1>2. anchors[AnchorOrder[j]].of = held[s]
    BY <1>1 DEF FilterInv
<1>3. \A k \in 1..3 : <<j, k>> \in filters \X (1..3)
    OBVIOUS
<1>4. \A k \in 1..3 : <<j, k>> \in DOMAIN Ruleset /\ Ruleset[<<j, k>>] = R[k]
    BY <1>2, <1>3 DEF Ruleset
<1>5. Ruleset[<<j, 1>>] = R[1] /\ Ruleset[<<j, 2>>] = R[2] /\ Ruleset[<<j, 3>>] = R[3]
    BY <1>4
<1>6. \A k \in 1..3 : <<j, k>> \in DOMAIN Ruleset
    BY <1>4
<1>. QED
    BY <1>5, <1>6 DEF Render, Filtered

\* Every rule is one of an anchor that holds filter rules.
LEMMA RulePlaces ==
    ASSUME NEW at \in DOMAIN Ruleset
    PROVE  \E j \in DOMAIN AnchorOrder, k \in 1..3 :
              at = <<j, k>> /\ anchors[AnchorOrder[j]].holds = "filter"
BY DEF Ruleset

\* The tag of a jail's packet: none up to the match rule of its own anchor, its own after it.
LEMMA OwnTag ==
    ASSUME AllowInOneProcess, TypeOK, TableInv, LeftInv, FilterInv, "anchor" \in loaded,
           NEW r \in Runs, Allow(r), held[r] # None, HasRules(r),
           NEW i \in DOMAIN AnchorOrder, AnchorOrder[i] = NameOf(r)
    PROVE  \A at \in DOMAIN Ruleset :
              /\ at \in Nat \X (1..3)
              /\ Ruleset[at].tag # None
              /\ \A packet \in Filtered :
                    TagAt(at, held[r], packet, Ruleset)
                       = IF Before(<<i, 1>>, at) THEN TagOf[NameOf(r)] ELSE None
<1>1. AnchorOrder \in Seq(JailNames) /\ NameOf(r) \in JailNames
    BY NetworkAssumption, PlanType DEF TypeOK
<1>2. \A j \in DOMAIN AnchorOrder : j \in Nat /\ AnchorOrder[j] \in JailNames
    BY <1>1
<1>3. /\ <<i, 1>> \in DOMAIN Ruleset
      /\ Ruleset[<<i, 1>>] = Rule("match", held[r], OnExtIf(Dest, Protocols), TagOf[NameOf(r)])
    <2>1. anchors[AnchorOrder[i]].holds = "filter" /\ anchors[AnchorOrder[i]].by = r /\ 1 \in 1..3
        BY DEF HasRules
    <2>. QED
        BY <2>1, AnchorRules
<1>4. /\ Ruleset[<<i, 1>>].does = "match" /\ Ruleset[<<i, 1>>].from = held[r]
      /\ Ruleset[<<i, 1>>].to = OnExtIf(Dest, Protocols) /\ Ruleset[<<i, 1>>].tag = TagOf[NameOf(r)]
    BY <1>3, RuleFields
\* The match rule of the address of r is that of its anchor.
<1>5. ASSUME NEW at \in DOMAIN Ruleset
      PROVE  /\ at \in Nat \X (1..3)
             /\ Ruleset[at].tag # None
             /\ Ruleset[at].does = "match" /\ Ruleset[at].from = held[r] => at = <<i, 1>>
    <2>1. PICK j \in DOMAIN AnchorOrder, k \in 1..3 :
              at = <<j, k>> /\ anchors[AnchorOrder[j]].holds = "filter"
        BY RulePlaces
    <2> DEFINE s == anchors[AnchorOrder[j]].by
    <2>2. s \in Runs /\ Allow(s) /\ NameOf(s) = AnchorOrder[j] /\ held[s] # None
        BY <1>2, <2>1, Constants DEF FilterInv, LeftInv
    <2>3. /\ Ruleset[<<j, 1>>] = Rule("match", held[s], OnExtIf(Dest, Protocols), TagOf[NameOf(s)])
          /\ Ruleset[<<j, 2>>] = Rule("pass", None, OnExtIf(Allowed(s), {"tcp", "udp"}), TagOf[NameOf(s)])
          /\ Ruleset[<<j, 3>>] = Rule("block", None, Filtered, TagOf[NameOf(s)])
        BY <2>1, AnchorRules
    <2> HIDE DEF s
    <2>4. Ruleset[<<j, 1>>].from = held[s] /\ Ruleset[<<j, 1>>].tag = TagOf[NameOf(s)]
        BY <2>3, RuleFields
    <2>5. Ruleset[<<j, 2>>].does = "pass" /\ Ruleset[<<j, 2>>].tag = TagOf[NameOf(s)]
        BY <2>3, RuleFields
    <2>6. Ruleset[<<j, 3>>].does = "block" /\ Ruleset[<<j, 3>>].tag = TagOf[NameOf(s)]
        BY <2>3, RuleFields
    <2>7. TagOf[NameOf(s)] # None
        BY <1>2, <2>2, NetworkAssumption
    <2>8. k = 1 \/ k = 2 \/ k = 3
        BY <2>1
    <2>9. held[s] = held[r] => j = i
        <3> SUFFICES ASSUME held[s] = held[r] PROVE j = i
            OBVIOUS
        <3>1. plan[s].proc = plan[r].proc
            BY <2>2 DEF AllowInOneProcess, TypeOK
        <3>2. s = r
            BY <2>2, <3>1 DEF TableInv, DedicatedAddress
        <3>. QED
            BY <2>2, <3>2, NetworkAssumption
    <2>10. at \in Nat \X (1..3)
        BY <1>2, <2>1
    <2>11. CASE k = 1
        BY <2>1, <2>4, <2>7, <2>9, <2>10, <2>11
    <2>12. CASE k # 1
        BY <2>1, <2>5, <2>6, <2>7, <2>8, <2>10, <2>12
    <2>. QED
        BY <2>11, <2>12
<1>6. ASSUME NEW at \in DOMAIN Ruleset, NEW packet \in Filtered
      PROVE  TagAt(at, held[r], packet, Ruleset)
                = IF Before(<<i, 1>>, at) THEN TagOf[NameOf(r)] ELSE None
    <2> DEFINE M == {m \in DOMAIN Ruleset :
                        /\ Before(m, at) /\ Ruleset[m].does = "match"
                        /\ Ruleset[m].from = held[r] /\ packet \in Ruleset[m].to}
    <2>1. M = IF Before(<<i, 1>>, at) THEN {<<i, 1>>} ELSE {}
        BY <1>3, <1>4, <1>5, FilteredPackets
    <2>2. CASE ~ Before(<<i, 1>>, at)
        BY <2>1, <2>2 DEF TagAt
    <2>3. CASE Before(<<i, 1>>, at)
        <3>1. M = {<<i, 1>>}
            BY <2>1, <2>3
        <3>2. ~ Before(<<i, 1>>, <<i, 1>>)
            BY <1>2 DEF Before
        <3>3. (CHOOSE m \in M : \A n \in M : ~ Before(m, n)) = <<i, 1>>
            BY <3>1, <3>2
        <3>4. TagAt(at, held[r], packet, Ruleset)
                 = Ruleset[CHOOSE m \in M : \A n \in M : ~ Before(m, n)].tag
            BY <3>1 DEF TagAt
        <3>. QED
            BY <3>3, <3>4, <1>4, <2>3
    <2>. QED
        BY <2>2, <2>3
<1>. QED
    BY <1>5, <1>6

\* What the allow-list stands for is what it permits, as far as anything may be reached.
LEMMA AllowedIsPermitted ==
    ASSUME TypeOK, NEW r \in Runs
    PROVE  \A to \in Dest : to \in Allowed(r) <=> to \in Permitted(r)
<1> SUFFICES ASSUME NEW to \in Dest PROVE to \in Allowed(r) <=> to \in Permitted(r)
    OBVIOUS
<1>1. to = <<to[1], to[2]>> /\ to[2] \in Ports
    BY DEF Dest
<1>2. to \in Resolvers \X {53} <=> to[1] \in Resolvers /\ to[2] = 53
    BY <1>1
<1>3. AnyPort \notin Ports
    BY NetworkAssumption
<1>4. \A e \in plan[r].allow :
         to \in Resolve[e.host] \X (IF e.port = AnyPort THEN Ports ELSE {e.port})
            <=> to[1] \in Resolve[e.host] /\ e.port \in {to[2], AnyPort}
    BY <1>1, <1>3
<1>5. to \in Expanded(plan[r].allow)
         <=> \E e \in plan[r].allow : to[1] \in Resolve[e.host] /\ e.port \in {to[2], AnyPort}
    BY <1>4 DEF Expanded
<1>. QED
    BY <1>2, <1>5 DEF Allowed, Permitted

\* pf decides on a jail's TCP and UDP packets by the rules of its own anchor.
LEMMA OwnEgress ==
    ASSUME AllowInOneProcess, TypeOK, TableInv, LeftInv, FilterInv, "anchor" \in loaded,
           NEW r \in Runs, Allow(r), held[r] # None, HasRules(r)
    PROVE  Reachable(r) \cap Filtered = OnExtIf(Permitted(r), {"tcp", "udp"})
<1>1. PICK i \in DOMAIN AnchorOrder : AnchorOrder[i] = NameOf(r)
    BY NetworkAssumption, PlanType DEF TypeOK
<1>2. i \in Nat
    <2>1. AnchorOrder \in Seq(JailNames)
        BY NetworkAssumption
    <2>. QED
        BY <2>1
<1> DEFINE rules == Ruleset
           tag == TagOf[NameOf(r)]
           passed == OnExtIf(Allowed(r), {"tcp", "udp"})
<1>3. /\ <<i, 2>> \in DOMAIN rules /\ <<i, 3>> \in DOMAIN rules
      /\ rules[<<i, 2>>] = Rule("pass", None, passed, tag)
      /\ rules[<<i, 3>>] = Rule("block", None, Filtered, tag)
    <2>1. /\ anchors[AnchorOrder[i]].holds = "filter" /\ anchors[AnchorOrder[i]].by = r
          /\ 2 \in 1..3 /\ 3 \in 1..3
        BY <1>1 DEF HasRules
    <2>. QED
        BY <2>1, AnchorRules
<1>4. \A at \in DOMAIN rules :
         /\ at \in Nat \X (1..3)
         /\ rules[at].tag # None
         /\ \A packet \in Filtered :
               TagAt(at, held[r], packet, rules) = IF Before(<<i, 1>>, at) THEN tag ELSE None
    BY <1>1, OwnTag
<1>5. rules[<<i, 2>>].does = "pass" /\ rules[<<i, 2>>].to = passed /\ rules[<<i, 2>>].tag = tag
    <2>1. rules[<<i, 2>>] = Rule("pass", None, passed, tag)
        BY <1>3
    <2> HIDE DEF passed, tag, rules
    <2>. QED
        BY <2>1, RuleFields
<1>6. rules[<<i, 3>>].does = "block" /\ rules[<<i, 3>>].to = Filtered /\ rules[<<i, 3>>].tag = tag
    <2>1. rules[<<i, 3>>] = Rule("block", None, Filtered, tag)
        BY <1>3
    <2> HIDE DEF tag, rules
    <2>. QED
        BY <2>1, RuleFields
<1>7. Before(<<i, 1>>, <<i, 2>>) /\ Before(<<i, 1>>, <<i, 3>>) /\ Before(<<i, 2>>, <<i, 3>>)
    BY <1>2 DEF Before
<1> HIDE DEF rules, passed, tag
<1>8. ASSUME NEW packet \in Filtered
      PROVE  Passes(held[r], packet, rules) <=> packet \in passed
    <2> DEFINE deciding == {at \in DOMAIN rules :
                               /\ rules[at].does \in {"pass", "block"} /\ packet \in rules[at].to
                               /\ rules[at].tag = TagAt(at, held[r], packet, rules)}
               First(at) == \A other \in deciding : ~ Before(other, at)
    <2>1. Passes(held[r], packet, rules) <=> \A at \in deciding : First(at) => rules[at].does = "pass"
        BY DEF Passes
    <2>2. \A at \in deciding : Before(<<i, 1>>, at) /\ at \in Nat \X (1..3)
        BY <1>4
    <2>3. <<i, 3>> \in deciding
        BY <1>3, <1>4, <1>6, <1>7
    <2>4. <<i, 2>> \in deciding <=> packet \in passed
        BY <1>3, <1>4, <1>5, <1>7
    <2> HIDE DEF deciding
    <2>5. CASE packet \in passed
        <3>1. ASSUME NEW at \in deciding, First(at) PROVE at = <<i, 2>>
            <4>1. ~ Before(<<i, 2>>, at) /\ Before(<<i, 1>>, at)
                BY <2>2, <2>4, <2>5, <3>1
            <4>2. PICK j \in Nat, k \in 1..3 : at = <<j, k>>
                BY <2>2
            <4>. QED
                BY <4>1, <4>2, <1>2 DEF Before
        <3>. QED
            BY <2>1, <2>5, <3>1, <1>5
    <2>6. CASE packet \notin passed
        <3>1. ASSUME NEW other \in deciding, Before(other, <<i, 3>>) PROVE FALSE
            <4>1. PICK j \in Nat, k \in 1..3 : other = <<j, k>>
                BY <2>2
            <4>2. other = <<i, 2>>
                BY <4>1, <2>2, <3>1, <1>2 DEF Before
            <4>. QED
                BY <4>2, <2>4, <2>6
        <3>2. First(<<i, 3>>)
            BY <3>1
        <3>. QED
            BY <2>1, <2>3, <2>6, <3>2, <1>6
    <2>. QED
        BY <2>5, <2>6
<1>9. Reachable(r) = {packet \in Packet : Passes(held[r], packet, rules)}
    BY DEF Reachable, rules
<1>10. Reachable(r) \cap Filtered = Filtered \cap passed
    BY <1>8, <1>9, FilteredPackets
<1>11. ASSUME NEW packet
       PROVE  packet \in Filtered \cap passed <=> packet \in OnExtIf(Permitted(r), {"tcp", "udp"})
    <2>1. Permitted(r) \subseteq Dest
        BY DEF Permitted
    <2>2. \A to \in Dest : to \in Allowed(r) <=> to \in Permitted(r)
        BY AllowedIsPermitted
    <2>. QED
        BY <2>1, <2>2 DEF Filtered, passed, OnExtIf
<1>. QED
    BY <1>10, <1>11

\* Whatever anchors the other runs have loaded, whatever their tags, for any allow-lists: what
\* a jail that is up sends over TCP and UDP through ext_if reaches what its own list permits and
\* nothing else.  That the runs with --network allow are all of one process and that no two jails
\* have one name is assumed of the runs, that jail -r, flushing an anchor and reloading pf.conf
\* work of the failures, and of pf.conf that nobody has put the line nat-anchor there without the
\* line anchor.
THEOREM EgressStaysOwn ==
    ASSUME AllowInOneProcess, NamesApart, {"jail -r", "undo", "reload"} \cap Faults = {},
           \A c \in Confs : "nat-anchor" \in c => "anchor" \in c
    PROVE  Spec => []EgressIsOwnPolicy
<1> DEFINE Inv == /\ TypeOK /\ PlaceInv /\ TableInv /\ JailInv /\ LeftInv
                  /\ SyncInv /\ WiredInv /\ FilterInv
<1>0. "jail -r" \notin Faults /\ "undo" \notin Faults /\ "reload" \notin Faults
    OBVIOUS
<1>1. Init => Inv
    BY TypeInit, JailInit, LeftInit, EgressInit
<1>2. Inv /\ [Next]_vars => Inv'
    <2>1. Inv /\ [Next]_vars => (TypeOK /\ PlaceInv /\ TableInv)'
        BY TypeStep, PlaceStep, TableStep
    <2>2. Inv /\ [Next]_vars => (JailInv /\ LeftInv)'
        BY <1>0, JailStepKeeps, LeftStep
    <2>3. Inv /\ [Next]_vars => (SyncInv /\ WiredInv /\ FilterInv)'
        BY <1>0, SyncStep, WiredStep, FilterStep
    <2>. QED
        BY <2>1, <2>2, <2>3
<1>3. Inv => EgressIsOwnPolicy
    <2> SUFFICES ASSUME Inv, NEW r \in up, Allow(r)
                 PROVE  Reachable(r) \cap Filtered = OnExtIf(Permitted(r), {"tcp", "udp"})
        BY DEF EgressIsOwnPolicy, Filtered
    <2>1. r \in Runs /\ held[r] # None
        BY DEF TypeOK, JailInv
    <2>2. "anchor" \in loaded /\ HasRules(r)
        BY <2>1 DEF WiredInv, FilterInv
    <2>. QED
        BY <2>1, <2>2, OwnEgress
<1>. QED
    BY <1>1, <1>2, <1>3, PTL DEF Spec
=============================================================================
