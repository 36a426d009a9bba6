------------------------------ MODULE MCNetwork ------------------------------
(* Instances of Network for TLC.                                            *)
EXTENDS Network, TLC

CONSTANTS r1, r2, r3, p1, p2

MCNames == {"pinned", "named", "nowhere"}
MCResolve == ("pinned" :> {1}) @@ ("named" :> {2, 3}) @@ ("nowhere" :> {})

Dst(name, port) == [host |-> name, port |-> port]
AllowPlan(entries, n, p) ==
    [net |-> "allow", allow |-> entries, publish |-> FALSE, terminal |-> FALSE, name |-> n, proc |-> p]
VnetPlan(publish, n, p) ==
    [net |-> "vnet", allow |-> {}, publish |-> publish, terminal |-> FALSE, name |-> n, proc |-> p]
Interactive(options) == [options EXCEPT !.terminal = TRUE]

Web == {Dst("pinned", 443)}
Wide == {Dst("named", AnyPort)}
Bad == {Dst("pinned", 443), Dst("nowhere", 443)}

\* Allow-lists that differ, one that cannot be resolved, more runs of a
\* process than it has addresses or blocks, VNET with and without published
\* ports, a process with VNET runs beside one with allow-lists, and a terminal.
MCPlans ==
    { (r1 :> AllowPlan(Web, "a.b", p1)) @@ (r2 :> AllowPlan(Wide, "a-b", p1)) @@ (r3 :> c) :
          c \in { AllowPlan(Web, "c", p1), Interactive(AllowPlan(Bad, "c", p1)),
                  VnetPlan(TRUE, "c", p1), Interactive(VnetPlan(TRUE, "c", p2)) } }
    \cup { (r1 :> AllowPlan(Wide, "a.b", p1)) @@ (r2 :> Interactive(VnetPlan(FALSE, "a-b", p1)))
           @@ (r3 :> VnetPlan(TRUE, "c", p)) : p \in {p1, p2} }

\* Two runs as the command line starts them: each in a process of its own.
Apart == {(r1 :> AllowPlan(Web, "a.b", p1)) @@ (r2 :> AllowPlan(Wide, "c", p2))}

Wired == {"nat-anchor", "anchor", "operator"}
MCConfs == {Wired, {"operator"}, {"anchor", "operator"}}
WiredOnly == {Wired}

\* Two names that differ in punctuation only have one tag.
MCJailNames == {"a-b", "a.b", "c"}
MCAnchorOrder == <<"a-b", "a.b", "c">>
MCTagOf == ("a-b" :> "jailrun_a_b") @@ ("a.b" :> "jailrun_a_b") @@ ("c" :> "jailrun_c")
=============================================================================
