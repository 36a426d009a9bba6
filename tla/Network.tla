------------------------------ MODULE Network ------------------------------
(***************************************************************************)
(* The network of runs with `--network allow=...` and `--network vnet`     *)
(* (netpolicy.py, netops.py and the parts of _run_async that call them):   *)
(* loopback addresses and /30 blocks, which a process hands out from       *)
(* tables of its own, and the host's pf.conf, pf anchors, aliases and      *)
(* epairs, which all processes share.  A process may have several runs on  *)
(* its event loop.  The calls of netops block the loop, so that runs of    *)
(* one process interleave only where _run_async awaits; runs of different  *)
(* processes interleave anywhere.  A pf anchor has the name of the jail,   *)
(* which runs of different processes may share.                            *)
(***************************************************************************)
EXTENDS Naturals, Sequences

CONSTANTS
    Runs,
    Procs,
    JailNames,
    Plans,        \* what the runs may be started with: see Plan
    Names,        \* the host names and addresses of allow-lists
    Resolve,      \* the addresses of each, {} when it cannot be resolved
    AnyPort,      \* an entry without a port
    Ports,
    Resolvers,    \* the nameservers of the host
    Inside,       \* addresses that packets do not leave the host for by its ext_if
    Pool,         \* the loopback addresses, as numbers
    Blocks,       \* the /30 blocks of 10.101.0.0/24
    Confs,        \* what pf.conf may contain at first
    AnchorOrder,  \* the jails' names in alphabetical order
    TagOf,        \* the pf tag that each name gets
    None,         \* no address, no tag, no run
    Faults        \* what may go wrong

Entry == [host : Names, port : Ports \cup {AnyPort}]
\* "terminal": whether the run is interactive.
Plan == [net : {"allow", "vnet"}, allow : SUBSET Entry, publish : BOOLEAN,
         terminal : BOOLEAN, name : JailNames, proc : Procs]

\* The lines of pf.conf: the two hooks, and the operator's own rules.
Line == {"nat-anchor", "anchor", "operator"}

ASSUME NetworkAssumption ==
    /\ Plans \subseteq [Runs -> Plan]
    /\ Resolve \in [Names -> SUBSET Nat]
    /\ AnyPort \notin Ports
    /\ Ports \subseteq Nat /\ 53 \in Ports
    /\ Resolvers \subseteq Nat /\ Inside \subseteq Nat
    /\ Pool \subseteq Nat
    /\ Blocks \in Nat
    /\ Confs \subseteq SUBSET Line
    /\ AnchorOrder \in Seq(JailNames)
    /\ \A n \in JailNames : \E i \in DOMAIN AnchorOrder : AnchorOrder[i] = n
    /\ \A i, j \in DOMAIN AnchorOrder : AnchorOrder[i] = AnchorOrder[j] => i = j
    /\ TagOf \in [JailNames -> STRING]
    /\ None \notin Nat \cup Runs /\ \A n \in JailNames : None # TagOf[n]
    /\ Faults \subseteq {"crash", "route", "apply", "reload", "jail -r", "undo"}

VARIABLES
    plan,     \* the network options of each run
    pc,       \* where each run is
    dead,     \* the processes that died
    used,     \* _netpolicy_used_ips of each process
    counter,  \* _vnet_next_ip of each process, in blocks
    held,     \* the address, or the block, a run was given (_jail_ip, _vnet_host_if)
    conf,     \* the lines of /etc/pf.conf
    lines,    \* the lines a run is about to write there
    loaded,   \* the lines of the main ruleset pf works with
    aliases,  \* the addresses on lo1
    anchors,  \* the rules in the anchor of each name
    epairs,   \* the runs whose epair exists
    up        \* the runs whose jail is up

own == <<used, counter, held>>
file == <<conf, lines, loaded>>
kernel == <<aliases, anchors, epairs>>
vars == <<plan, pc, dead, own, file, kernel, up>>

Allow(r) == plan[r].net = "allow"
ProcOf(r) == plan[r].proc
NameOf(r) == plan[r].name
Mates(r) == {s \in Runs : ProcOf(s) = ProcOf(r)}
-----------------------------------------------------------------------------
(* The rules of an anchor, and what they do with a packet.                  *)

\* Every address an allow-list or a nameserver may stand for, or that is inside, with a
\* port (of which ICMP makes nothing).
Dest == (Resolvers \cup Inside \cup UNION {Resolve[n] : n \in Names}) \X Ports

\* A packet has a destination and a protocol.
Protocols == {"tcp", "udp", "icmp"}
Packet == Dest \X Protocols
OnExtIf(dests, protocols) == {packet \in dests \X protocols : packet[1][1] \notin Inside}

Rule(does, from, to, tag) == [does |-> does, from |-> from, to |-> to, tag |-> tag]

\* Mutant: an entry stands for its host, whatever its port.
ExpandedAnyPort(entries) == UNION {Resolve[e.host] \X Ports : e \in entries}

\* resolve_allowlist: an entry stands for each address of its host, with its
\* port or with every port.
Expanded(entries) ==
    UNION {Resolve[e.host] \X (IF e.port = AnyPort THEN Ports ELSE {e.port}) : e \in entries}

\* What the jail of r may reach: its list, and DNS at the host's nameservers.
Allowed(r) == Expanded(plan[r].allow) \cup Resolvers \X {53}

\* render_pf_anchor: every rule is `out on ext_if`, and all but the match rule are about TCP
\* and UDP.  The pass rules of an anchor are one here, whose "to" is all their packets.
Render(r, address) ==
    LET tag == TagOf[NameOf(r)]
    IN << Rule("match", address, OnExtIf(Dest, Protocols), tag),
          Rule("pass", None, OnExtIf(Allowed(r), {"tcp", "udp"}), tag),
          Rule("block", None, OnExtIf(Dest, {"tcp", "udp"}), tag) >>

\* What has been loaded into an anchor: the rules of render_pf_anchor, or the
\* NAT rules of setup_vnet_host, or the rdr rules of setup_publish_ports, by
\* a run for an address or a block.
Anchor == [holds : {"nothing", "filter", "nat", "rdr"}, by : Runs \cup {None},
           of : Nat \cup {None}]
Flushed == [holds |-> "nothing", by |-> None, of |-> None]
Loaded(rules, r) == [holds |-> rules, by |-> r, of |-> held[r]]

\* The rules pf goes through, at their places, if the anchors are hooked in: the place of the
\* anchor in alphabetical order and the line in it.  NAT and rdr rules concern no packet of a
\* jail with an alias.
Ruleset ==
    LET filters == {i \in DOMAIN AnchorOrder :
                       "anchor" \in loaded /\ anchors[AnchorOrder[i]].holds = "filter"}
    IN [at \in filters \X (1..3) |->
           LET anchor == anchors[AnchorOrder[at[1]]] IN Render(anchor.by, anchor.of)[at[2]]]
Before(at, other) == at[1] < other[1] \/ (at[1] = other[1] /\ at[2] < other[2])

\* The tag of a packet when it comes to a place: that of the last match rule before it.
TagAt(at, address, packet, rules) ==
    LET matches == {m \in DOMAIN rules :
                       /\ Before(m, at) /\ rules[m].does = "match"
                       /\ rules[m].from = address /\ packet \in rules[m].to}
    IN IF matches = {} THEN None
       ELSE rules[CHOOSE m \in matches : \A n \in matches : ~ Before(m, n)].tag

\* The first rule for its tag and for the packet decides, all of them being
\* quick; pf passes what none decides.
Passes(address, packet, rules) ==
    LET deciding == {at \in DOMAIN rules :
                        /\ rules[at].does \in {"pass", "block"} /\ packet \in rules[at].to
                        /\ rules[at].tag = TagAt(at, address, packet, rules)}
    IN \A at \in deciding : (\A other \in deciding : ~ Before(other, at)) => rules[at].does = "pass"

Reachable(r) == LET rules == Ruleset IN {packet \in Packet : Passes(held[r], packet, rules)}
-----------------------------------------------------------------------------
PC == {"new", "alloc", "hooks", "truncate", "write", "reload", "alias", "load", "host",
       "nat", "publish", "create", "exec", "remove", "flush", "unalias", "discard",
       "destroy", "over"}

TypeOK ==
    /\ plan \in Plans
    /\ pc \in [Runs -> PC]
    /\ dead \subseteq Procs
    /\ used \in [Procs -> SUBSET Pool]
    /\ counter \in [Procs -> Nat]
    /\ held \in [Runs -> Nat \cup {None}]
    /\ conf \subseteq Line /\ loaded \subseteq Line
    /\ lines \in [Runs -> SUBSET Line]
    /\ aliases \subseteq Pool
    /\ anchors \in [JailNames -> Anchor]
    /\ epairs \subseteq Runs /\ up \subseteq Runs

Init ==
    /\ plan \in Plans
    /\ pc = [r \in Runs |-> "new"]
    /\ dead = {}
    /\ used = [p \in Procs |-> {}]
    /\ counter = [p \in Procs |-> 0]
    /\ held = [r \in Runs |-> None]
    /\ conf \in Confs
    /\ loaded = conf
    /\ lines = [r \in Runs |-> {}]
    /\ aliases = {}
    /\ anchors = [n \in JailNames |-> Flushed]
    /\ epairs = {}
    /\ up = {}
-----------------------------------------------------------------------------
(* A step of a run is guarded by At, or, when it is one of netops, by Sync: *)
(* no other run of its process is in the middle of such steps.              *)
Blocking == {"hooks", "truncate", "write", "reload", "alias", "load", "host", "nat",
             "publish", "unalias", "discard", "destroy"}
At(r, here) == pc[r] = here /\ ProcOf(r) \notin dead
Sync(r, here) == At(r, here) /\ \A s \in Mates(r) \ {r} : pc[s] \notin Blocking
Goto(r, there) == pc' = [pc EXCEPT ![r] = there]

\* The run raises: its finally block runs, since jail_name is set.
Raise(r) == Goto(r, "remove")
RaiseOn(fault, r) == fault \in Faults /\ Raise(r) /\ UNCHANGED <<plan, dead, own, file, kernel, up>>

\* jail_name is set and the network setup begins.  `run -d --name` has seen that no jail of
\* this name is up, which is not to say that no run is about to make one.
Start(r) ==
    /\ At(r, "new") /\ Goto(r, "alloc")
    /\ \A s \in up : NameOf(s) # NameOf(r)
    /\ UNCHANGED <<plan, dead, own, file, kernel, up>>

\* alloc_jail_ip takes the lowest address that the table lacks.
Free(r) == {a \in Pool \ used[ProcOf(r)] : \A b \in Pool \ used[ProcOf(r)] : a <= b}

\* Mutant: the address is not entered in the table.
AllocUnrecorded(r) ==
    /\ Sync(r, "alloc") /\ Allow(r)
    /\ \A e \in plan[r].allow : Resolve[e.host] # {}
    /\ \E address \in Free(r) : held' = [held EXCEPT ![r] = address]
    /\ Goto(r, "hooks")
    /\ UNCHANGED <<plan, dead, used, counter, file, kernel, up>>

\* alloc_jail_ip, under the lock of the process, after the names resolved and
\* a default route was found.
AllocAddress(r) ==
    /\ Sync(r, "alloc") /\ Allow(r)
    /\ \A e \in plan[r].allow : Resolve[e.host] # {}
    /\ \E address \in Free(r) :
           /\ held' = [held EXCEPT ![r] = address]
           /\ used' = [used EXCEPT ![ProcOf(r)] = @ \cup {address}]
    /\ Goto(r, "hooks")
    /\ UNCHANGED <<plan, dead, counter, file, kernel, up>>

\* Mutant: a run that got no address goes on without.
AllocFailsSilently(r) ==
    /\ Sync(r, "alloc") /\ Allow(r)
    /\ Pool \subseteq used[ProcOf(r)]
    /\ Goto(r, "hooks")
    /\ UNCHANGED <<plan, dead, own, file, kernel, up>>

\* A name does not resolve, there is no default route, the pool is exhausted.
AllocFails(r) ==
    /\ Sync(r, "alloc") /\ Allow(r)
    /\ \/ "route" \in Faults
       \/ \E e \in plan[r].allow : Resolve[e.host] = {}
       \/ Pool \subseteq used[ProcOf(r)]
    /\ Raise(r)
    /\ UNCHANGED <<plan, dead, own, file, kernel, up>>

\* The hooks _ensure_anchor_wired misses.  It looks for a substring, and
\* `nat-anchor "jailrun/*"` has `anchor "jailrun/*"` in it.
Missing(text) ==
    (IF "nat-anchor" \in text THEN {} ELSE {"nat-anchor"})
    \cup (IF text \cap {"nat-anchor", "anchor"} # {} THEN {} ELSE {"anchor"})

\* Mutant: only the hooks are written.
ReadConfHooksOnly(r) ==
    /\ Sync(r, "hooks")
    /\ lines' = [lines EXCEPT ![r] = Missing(conf)]
    /\ Goto(r, IF Missing(conf) = {} THEN "alias" ELSE "truncate")
    /\ UNCHANGED <<plan, dead, own, conf, loaded, kernel, up>>

\* _ensure_anchor_wired reads pf.conf.
ReadConf(r) ==
    /\ Sync(r, "hooks")
    /\ lines' = [lines EXCEPT ![r] = conf \cup Missing(conf)]
    /\ Goto(r, IF Missing(conf) = {} THEN "alias" ELSE "truncate")
    /\ UNCHANGED <<plan, dead, own, conf, loaded, kernel, up>>

\* write_text opens the file, which empties it, ...
TruncateConf(r) ==
    /\ Sync(r, "truncate") /\ Goto(r, "write")
    /\ conf' = {}
    /\ UNCHANGED <<plan, dead, own, lines, loaded, kernel, up>>

\* ... then writes it.
WriteConf(r) ==
    /\ Sync(r, "write") /\ Goto(r, "reload")
    /\ conf' = lines[r]
    /\ UNCHANGED <<plan, dead, own, lines, loaded, kernel, up>>

\* pfctl -f /etc/pf.conf
Reload(r) ==
    /\ Sync(r, "reload")
    /\ \/ /\ loaded' = conf /\ Goto(r, "alias")
          /\ UNCHANGED <<plan, dead, own, conf, lines, kernel, up>>
       \/ RaiseOn("reload", r)

\* ifconfig lo1 inet <address>/32 alias, which is no error when it is there.
AddAlias(r) ==
    /\ Sync(r, "alias")
    /\ \/ /\ aliases' = aliases \cup {held[r]} /\ Goto(r, "load")
          /\ UNCHANGED <<plan, dead, own, file, anchors, epairs, up>>
       \/ RaiseOn("apply", r)

\* load_anchor replaces whatever the anchor of this name had.
LoadAnchor(r) ==
    /\ Sync(r, "load")
    /\ \/ /\ anchors' = [anchors EXCEPT ![NameOf(r)] = Loaded("filter", r)] /\ Goto(r, "create")
          /\ UNCHANGED <<plan, dead, own, file, aliases, epairs, up>>
       \/ RaiseOn("apply", r)

\* create_epair and _alloc_vnet_ip, under the other lock of the process.
AllocVnet(r) ==
    /\ Sync(r, "alloc") /\ ~ Allow(r)
    /\ \/ /\ epairs' = epairs \cup {r}
          /\ held' = [held EXCEPT ![r] = counter[ProcOf(r)]]
          /\ counter' = [counter EXCEPT ![ProcOf(r)] = @ + 1]
          /\ Goto(r, "host")
          /\ UNCHANGED <<plan, dead, used, file, aliases, anchors, up>>
       \/ RaiseOn("apply", r)

\* setup_vnet_host: ifconfig refuses an octet above 255.
SetupVnetHost(r) ==
    /\ Sync(r, "host")
    /\ \/ /\ held[r] < Blocks /\ Goto(r, "nat")
          /\ UNCHANGED <<plan, dead, own, file, kernel, up>>
       \/ /\ held[r] >= Blocks \/ "apply" \in Faults
          /\ Raise(r)
          /\ UNCHANGED <<plan, dead, own, file, kernel, up>>

\* ... and its NAT rules, which it can do without.
LoadNat(r) ==
    /\ Sync(r, "nat") /\ Goto(r, IF plan[r].publish THEN "publish" ELSE "create")
    /\ \/ anchors' = [anchors EXCEPT ![NameOf(r)] = Loaded("nat", r)]
       \/ "apply" \in Faults /\ anchors' = anchors
    /\ UNCHANGED <<plan, dead, own, file, aliases, epairs, up>>

\* setup_publish_ports: pfctl -f replaces what the anchor had.
Publish(r) ==
    /\ Sync(r, "publish") /\ Goto(r, "create")
    /\ \/ anchors' = [anchors EXCEPT ![NameOf(r)] = Loaded("rdr", r)]
       \/ Faults \cap {"apply", "route"} # {} /\ anchors' = anchors
    /\ UNCHANGED <<plan, dead, own, file, aliases, epairs, up>>

\* The jails that have the name of r: jail -c makes no second one.
Namesakes(r) == {s \in up : NameOf(s) = NameOf(r)}

\* Mutant: only a jail whose jail -c returned in time is removed.
CreateJailOrForget(r) ==
    /\ At(r, "create")
    /\ \/ Namesakes(r) = {} /\ up' = up \cup {r} /\ pc' \in {[pc EXCEPT ![r] = there] : there \in {"exec", "flush"}}
       \/ up' = up /\ Goto(r, "flush")
    /\ UNCHANGED <<plan, dead, own, file, kernel>>

\* jail -c; one that timed out may have made the jail.
CreateJail(r) ==
    /\ At(r, "create")
    /\ \/ /\ Namesakes(r) = {} /\ up' = up \cup {r}
          /\ pc' \in {[pc EXCEPT ![r] = there] : there \in {"exec", "remove"}}
       \/ up' = up /\ Raise(r)
    /\ UNCHANGED <<plan, dead, own, file, kernel>>

\* The rest of the body: setup_vnet_jail and the command, which ends, fails or times out.
Exec(r) ==
    /\ At(r, "exec") /\ Raise(r)
    /\ UNCHANGED <<plan, dead, own, file, kernel, up>>

\* Mutant: the network of a run whose jail is not up is not torn down.
RemoveJailKeepNetwork(r) ==
    /\ At(r, "remove") /\ up' = up \ Namesakes(r)
    /\ Goto(r, IF r \notin up THEN "over" ELSE "flush")
    /\ UNCHANGED <<plan, dead, own, file, kernel>>

\* The finally block up to jail -r, which removes the jail of this name.
RemoveJail(r) ==
    /\ At(r, "remove")
    /\ \/ up' = up \ Namesakes(r)
       \/ "jail -r" \in Faults /\ up' = up
    /\ Goto(r, IF held[r] = None THEN "over" ELSE "flush")
    /\ UNCHANGED <<plan, dead, own, file, kernel>>

\* flush_anchor empties the anchor of this name, whoever loaded it.
FlushAnchor(r) ==
    /\ Sync(r, "flush") /\ Goto(r, IF Allow(r) THEN "unalias" ELSE "destroy")
    /\ \/ anchors' = [anchors EXCEPT ![NameOf(r)] = Flushed]
       \/ "undo" \in Faults /\ anchors' = anchors
    /\ UNCHANGED <<plan, dead, own, file, aliases, epairs, up>>

\* Mutant: the address does not go back to the pool.
RemoveAliasOnly(r) ==
    /\ Sync(r, "unalias") /\ Goto(r, "over")
    /\ aliases' = aliases \ {held[r]}
    /\ UNCHANGED <<plan, dead, own, file, anchors, epairs, up>>

\* remove_alias
RemoveAlias(r) ==
    /\ Sync(r, "unalias") /\ Goto(r, "discard")
    /\ \/ aliases' = aliases \ {held[r]}
       \/ "undo" \in Faults /\ aliases' = aliases
    /\ UNCHANGED <<plan, dead, own, file, anchors, epairs, up>>

\* The address goes back to the pool of the process.
Discard(r) ==
    /\ Sync(r, "discard") /\ Goto(r, "over")
    /\ used' = [used EXCEPT ![ProcOf(r)] = @ \ {held[r]}]
    /\ held' = [held EXCEPT ![r] = None]
    /\ UNCHANGED <<plan, dead, counter, file, kernel, up>>

\* destroy_epair: the addresses of the block go with the epair, and the
\* counter never goes back.
DestroyEpair(r) ==
    /\ Sync(r, "destroy") /\ Goto(r, "over")
    /\ \/ epairs' = epairs \ {r}
       \/ "undo" \in Faults /\ epairs' = epairs
    /\ held' = [held EXCEPT ![r] = None]
    /\ UNCHANGED <<plan, dead, used, counter, file, aliases, anchors, up>>

\* `jailrun stop`, or an operator's jail -r: it knows nothing of the network.
Stop(r) ==
    /\ r \in up /\ up' = up \ {r}
    /\ UNCHANGED <<plan, pc, dead, own, file, kernel>>

\* The process dies; or hangs for ever in a netops._run, which has no timeout and blocks the
\* event loop.
Die(p) ==
    /\ "crash" \in Faults
    /\ \E r \in Runs : ProcOf(r) = p
    /\ p \notin dead /\ dead' = dead \cup {p}
    /\ UNCHANGED <<plan, pc, own, file, kernel, up>>

AllowStep(r) ==
    \/ AllocAddress(r) \/ AllocFails(r)
    \/ ReadConf(r) \/ TruncateConf(r) \/ WriteConf(r) \/ Reload(r)
    \/ AddAlias(r) \/ LoadAnchor(r)

VnetStep(r) == AllocVnet(r) \/ SetupVnetHost(r) \/ LoadNat(r) \/ Publish(r)

JailStep(r) == CreateJail(r) \/ Exec(r) \/ RemoveJail(r)

TeardownStep(r) ==
    FlushAnchor(r) \/ RemoveAlias(r) \/ Discard(r) \/ DestroyEpair(r)

RunStep(r) == AllowStep(r) \/ VnetStep(r) \/ JailStep(r) \/ TeardownStep(r)

Next ==
    \/ \E r \in Runs : Start(r) \/ RunStep(r) \/ Stop(r)
    \/ \E p \in Procs : Die(p)

Spec == Init /\ [][Next]_vars

\* _stream_jexec_pty has no timeout.  Everywhere else a process that neither died nor hangs
\* goes on: its other waits have a timeout, and the locks of the process are let go.
Waits(r) == plan[r].terminal /\ pc[r] = "exec"
FairSpec == Spec /\ \A r \in Runs : WF_vars(RunStep(r) /\ ~ Waits(r))
-----------------------------------------------------------------------------
\* No two runs of a process are given one address or one /30 block, however
\* allocations, failures and teardowns of its runs follow each other
\* (alloc_jail_ip, _alloc_vnet_ip and the locks around them in _run_async).
DedicatedAddress ==
    \A r, s \in Runs :
        r # s /\ s \in Mates(r) /\ (Allow(r) <=> Allow(s)) /\ held[r] # None => held[r] # held[s]

\* While a jail is up its alias is on lo1, or its epair exists and has an
\* address of 10.101.0.0/24: the teardown of _run_async takes neither away
\* before jail -r, nor the teardown of one run that of another.
LiveJailHasAddress ==
    \A r \in up : IF Allow(r) THEN held[r] \in aliases ELSE r \in epairs /\ held[r] < Blocks

\* What the entries of r name, and DNS at the host's nameservers.
Permitted(r) ==
    {to \in Dest : \/ to[1] \in Resolvers /\ to[2] = 53
                   \/ \E e \in plan[r].allow : to[1] \in Resolve[e.host] /\ e.port \in {to[2], AnyPort}}

\* What pf lets a jail send over TCP and UDP through ext_if is what its allow-list and DNS
\* permit, as long as the jail is up, whichever anchors other runs have loaded and even if
\* two jails have one tag (render_pf_anchor, apply_network).
EgressIsOwnPolicy ==
    \A r \in up : Allow(r) =>
        Reachable(r) \cap OnExtIf(Dest, {"tcp", "udp"}) = OnExtIf(Permitted(r), {"tcp", "udp"})

\* What a run set up is gone when it is over, from wherever it came to its
\* finally block, and the pool of a process has lost no address.
NothingLeft ==
    /\ \A r \in Runs : pc[r] = "over" => r \notin epairs /\ \A n \in JailNames : anchors[n].by # r
    /\ \A a \in aliases : \E r \in Runs : Allow(r) /\ held[r] = a
    /\ \A p \in Procs : \A a \in used[p] : \E r \in Runs : ProcOf(r) = p /\ Allow(r) /\ held[r] = a

\* pf works with the operator's own rules, and pf.conf contains them but for the moment in
\* which a process that lives writes it (_ensure_anchor_wired).
OperatorRulesSurvive ==
    /\ "operator" \in loaded
    /\ "operator" \in conf \/ \E r \in Runs : pc[r] = "write" /\ ProcOf(r) \notin dead

\* A process has died after it emptied pf.conf and before it wrote it.
DiedWriting == \E r \in Runs : pc[r] = "write" /\ ProcOf(r) \in dead

\* Nothing but such a death loses the operator's rules: no order in which runs read, empty,
\* write and reload pf.conf, no failure and no death elsewhere.  Such a death does, for good,
\* since nobody has a copy; pf itself goes on with the rules it has loaded.
RulesLostByDeathOnly == OperatorRulesSurvive \/ ("operator" \in loaded /\ DiedWriting)

\* An address or a block that a run was given comes back from it, unless its process dies or
\* hangs, or the run waits at its terminal for ever (the finally block of _run_async).
AddressReturns ==
    \A r \in Runs : held[r] # None ~> held[r] = None \/ ProcOf(r) \in dead \/ []Waits(r)
-----------------------------------------------------------------------------
(* The inductive invariant of the proofs.                                   *)

\* Which steps belong to which kind of run, and when it holds an address.
PlaceInv ==
    \A r \in Runs :
        /\ pc[r] \in {"hooks", "truncate", "write", "reload", "alias", "load", "unalias", "discard"}
              => Allow(r)
        /\ pc[r] \in {"host", "nat", "publish", "destroy"} => ~ Allow(r)
        /\ pc[r] \in Blocking \cup {"create", "exec", "flush"} => held[r] # None
        /\ pc[r] \in {"new", "alloc", "over"} => held[r] = None
        /\ held[r] # None /\ Allow(r) => held[r] \in Pool

\* What is given out is in the table of the process.
TableInv ==
    /\ DedicatedAddress
    /\ \A r \in Runs :
          held[r] # None => IF Allow(r) THEN held[r] \in used[ProcOf(r)]
                                        ELSE held[r] < counter[ProcOf(r)]

\* A jail is up only between jail -c and the jail -r of its run, which has its
\* network all that time.
JailInv ==
    \A r \in Runs :
        /\ r \in up => pc[r] \in {"exec", "remove"} /\ held[r] # None
        /\ pc[r] \in {"load", "create", "exec"} \/ r \in up
              => (IF Allow(r) THEN held[r] \in aliases ELSE r \in epairs)
        /\ pc[r] \in {"nat", "publish", "create", "exec"} \/ r \in up
              => Allow(r) \/ (r \in epairs /\ held[r] < Blocks)
        /\ pc[r] = "host" => r \in epairs

\* What is set up belongs to a run that still has to undo it.
LeftInv ==
    /\ \A n \in JailNames :
          anchors[n].by # None =>
              LET r == anchors[n].by
              IN NameOf(r) = n /\ held[r] # None /\ pc[r] \notin {"unalias", "discard", "destroy"}
    /\ \A r \in Runs : r \in epairs => ~ Allow(r) /\ held[r] # None
    /\ \A a \in aliases : \E r \in Runs : Allow(r) /\ held[r] = a /\ pc[r] # "discard"
    /\ \A p \in Procs : \A a \in used[p] : \E r \in Runs : ProcOf(r) = p /\ Allow(r) /\ held[r] = a

\* Who is about to write pf.conf has read the operator's rules.
RulesInv ==
    /\ "operator" \in loaded
    /\ "operator" \in conf \/ \E r \in Runs : pc[r] = "write"
    /\ \A r \in Runs : pc[r] \in {"truncate", "write"} => "operator" \in lines[r]

\* One run of a process at a time is in the middle of steps of netops.
SyncInv ==
    \A r, s \in Runs : r # s /\ s \in Mates(r) /\ pc[r] \in Blocking => pc[s] \notin Blocking

\* From the time a run has passed _ensure_anchor_wired, pf has the hook of the anchors.
WiredInv ==
    /\ "nat-anchor" \in conf => "anchor" \in conf
    /\ "anchor" \in conf => "anchor" \in loaded \/ \E r \in Runs : pc[r] = "reload"
    /\ \A r \in Runs :
          /\ pc[r] \in {"truncate", "write"} => "anchor" \in lines[r]
          /\ pc[r] = "reload" => "anchor" \in conf
          /\ Allow(r) /\ (pc[r] \in {"alias", "load", "create", "exec"} \/ r \in up)
                => "anchor" \in loaded

\* The anchor of r's name has r's filter rules.
HasRules(r) == anchors[NameOf(r)].holds = "filter" /\ anchors[NameOf(r)].by = r

\* The rules in an anchor are those of the run that loaded it, for the address it holds, and
\* nobody replaces those of a run with a jail.
FilterInv ==
    /\ \A n \in JailNames :
          anchors[n].holds = "filter" =>
              LET r == anchors[n].by IN r \in Runs /\ Allow(r) /\ anchors[n].of = held[r]
    /\ \A r \in Runs : Allow(r) /\ (pc[r] \in {"create", "exec"} \/ r \in up) => HasRules(r)
=============================================================================
