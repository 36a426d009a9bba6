------------------------------ MODULE Manifest ------------------------------
(***************************************************************************)
(* From the extracted root filesystem to what an executable of the image   *)
(* runs as.  probe.py lists the executables and proposes for each a        *)
(* native FreeBSD provider by its name; bakery.py plans the packages,      *)
(* ports and source builds these need, has a base provisioned with them    *)
(* and writes into the manifest where each artifact is; engine.py links    *)
(* the names of the image to the artifacts of the base it has mounted,     *)
(* and turns Linux emulation on when the manifest says it is needed.       *)
(*                                                                         *)
(* A file is known by the layer it comes from and its name: Binary says    *)
(* what is in it.  Roles, risks, notes and verification levels are left    *)
(* out: nothing decides by them.                                           *)
(***************************************************************************)
EXTENDS Layers

CONSTANTS
    SearchDirs,  \* the directories probe walks, in order
    SkipDirs,    \* SKIP_DIRS: names it passes over, wherever they are and whatever they name
    Names,       \* names of executables
    Binary,      \* what each layer ships under each name, see Abis
    Registries,  \* provider-map.json: the provider of a name, or None
    Providers,
    Kind,        \* "pkg", "port" or "build", of a provider
    Listed,      \* the ports and recipes with an entry in bakery's tables
    Deps,        \* the packages and ports that a recipe needs, in that order
    Multi,       \* multi-binary-pkgs.json: packages that install many tools
    Versioned,   \* the name such a package has for a tool, see multi-binary-suffix.json
    Tool,        \* the name of the artifact of the other providers
    None

\* "data" is what probe passes over: not regular, or not executable.
Abis == {"linux", "freebsd", "script", "unknown", "data"}

\* A file of a provider in the base.
Artifact == [of : Providers, tool : STRING]

ASSUME ManifestAssumption ==
    /\ SearchDirs \in Seq(Paths)
    /\ Names \subseteq STRING /\ IsFiniteSet(Names)
    /\ \A p \in Paths : Last(p) \in Names \/ Len(p) = 1
    /\ \A from \in DOMAIN Binary : Binary[from] \in [Names -> Abis]
    /\ \A i \in Images : DOMAIN i \subseteq DOMAIN Binary
    /\ None \notin Providers \cup Artifact
    /\ Registries \subseteq [Names -> Providers \cup {None}]
    /\ Kind \in [Providers -> {"pkg", "port", "build"}]
    /\ Listed \subseteq Providers /\ Multi \subseteq Providers
    /\ Versioned \in [Multi -> [Names -> STRING]] /\ Tool \in [Providers -> STRING]
    /\ Deps \in [Providers -> Seq(Providers)]
    /\ \A p \in Multi : Kind[p] = "pkg"
    /\ \A p \in Providers : \A i \in DOMAIN Deps[p] : Kind[p] = "build" /\ Kind[Deps[p][i]] # "build"

\* The file that a name of the image stands for in a provider.
ToolOf(provider, n) == IF provider \in Multi THEN Versioned[provider][n] ELSE Tool[provider]

\* The name of an artifact is not one that the map gives to another provider.
ASSUME RegistriesAssumption ==
    \A r \in Registries : \A n, m \in Names :
        r[m] # None /\ ToolOf(r[m], m) = n => r[n] \in {r[m], None}

VARIABLES
    stage,     \* "unpack", "probed", "baked", "shadowed" or "gated"
    manifest,  \* the binaries of the manifest
    base,      \* the artifacts in the registered base, or None
    links,     \* <rootfs>/jailrun-native/bin: what each name leads to
    linux      \* Linux emulation is on for the run

manifestVars == <<stage, manifest, base, links, linux>>

----------------------------------------------------------------------------
(* probe *)

\* What the entry of a directory is once symlinks are followed.
Target(fs, dir, n) == At(fs, Resolved(fs, Append(dir, n)))

Content(node, n) == Binary[node.from][n]

\* Mutant: a directory that is a symlink is passed over.
ExecutableInDirectory(fs, dir, n) ==
    /\ At(fs, dir).kind = "dir" /\ Target(fs, dir, n).kind = "file"
    /\ Content(Target(fs, dir, n), n) # "data"

Executable(fs, dir, n) ==
    Target(fs, dir, n).kind = "file" /\ Content(Target(fs, dir, n), n) # "data"

Status(abi, provider) ==
    CASE abi \in {"freebsd", "script"} -> "native"
      [] abi = "linux" -> IF provider = None THEN "linuxulator" ELSE "native"
      [] OTHER -> "unknown"

\* A provider is proposed for Linux executables only.
Classified(path, abi, registry) ==
    LET provider == IF abi = "linux" THEN registry[Last(path)] ELSE None IN
    [path |-> path, abi |-> abi, status |-> Status(abi, provider),
     provider |-> provider, artifact |-> None]

\* The names a walk comes across: one search directory after the other, each in the order of
\* its listing, which is the file system's, less the names of SKIP_DIRS.  The walk of a
\* subdirectory is called for and never consumed, so nothing of it is yielded.
Walks ==
    {walk \in SetToSeqs((DOMAIN SearchDirs) \X (Names \ SkipDirs)) :
        \A j, k \in DOMAIN walk : j < k => walk[j][1] <= walk[k][1]}

\* The manifest of a walk: every executable, a path it has seen before only once.
Found(fs, walk, registry) ==
    LET found[k \in 0..Len(walk)] ==
            IF k = 0 THEN <<>>
            ELSE LET before == found[k - 1]
                     dir == SearchDirs[walk[k][1]]
                     n == walk[k][2]
                 IN  IF /\ Executable(fs, dir, n)
                        /\ \A i \in DOMAIN before : before[i].path # Append(dir, n)
                     THEN Append(before, Classified(Append(dir, n),
                                                    Content(Target(fs, dir, n), n), registry))
                     ELSE before
    IN  found[Len(walk)]

----------------------------------------------------------------------------
(* bakery *)

\* A package always resolves, if need be to a guess; a port or recipe without an entry
\* is a warning and no step.
Resolves(p) == Kind[p] = "pkg" \/ p \in Listed

\* Mutant: the recipe is added before its dependencies.
StepsFirst(p) == <<p>> \o Deps[p]

\* A recipe comes after what it depends on.
StepsOf(p) == Append(Deps[p], p)

\* The plan with the steps of a provider that it does not have.
Extended(plan, p) ==
    LET with[i \in 0..Len(StepsOf(p))] ==
            IF i = 0 THEN plan
            ELSE LET step == StepsOf(p)[i] IN
                 IF Resolves(step) /\ ~ Contains(with[i - 1], step)
                 THEN Append(with[i - 1], step) ELSE with[i - 1]
    IN  with[Len(StepsOf(p))]

Substituted(entry) == entry.status = "native" /\ entry.provider # None

\* The steps in the order the manifest first calls for them.
Plan(binaries) ==
    LET plan[k \in 0..Len(binaries)] ==
            IF k = 0 THEN <<>>
            ELSE IF Substituted(binaries[k]) /\ Resolves(binaries[k].provider)
                 THEN Extended(plan[k - 1], binaries[k].provider) ELSE plan[k - 1]
    IN  plan[Len(binaries)]

ArtifactOf(entry) ==
    [of |-> entry.provider, tool |-> ToolOf(entry.provider, Last(entry.path))]

\* The status is left as it is when there is no artifact.
Filled(entry, plan) ==
    IF Substituted(entry) /\ Contains(plan, entry.provider)
    THEN [entry EXCEPT !.artifact = ArtifactOf(entry)] ELSE entry

Fill == manifest' = [i \in DOMAIN manifest |-> Filled(manifest[i], Plan(manifest))]

\* What provisioning with this plan may bring: the artifacts that the manifest expects of a
\* step, or fewer, where the tables name a file the package does not have.
Brought(binaries) ==
    SUBSET {ArtifactOf(e) : e \in {e \in ToSet(binaries) :
                                     Substituted(e) /\ Contains(Plan(binaries), e.provider)}}

----------------------------------------------------------------------------
(* A cold run of the image: _load_manifest, the shadow and the gate *)

ManifestInit ==
    /\ Init
    /\ stage = "unpack" /\ manifest = <<>> /\ base = None /\ links = <<>> /\ linux = FALSE

Step(s, next) == stage = s /\ stage' = next /\ UNCHANGED vars

Probe ==
    /\ status = "done" /\ Step("unpack", "probed")
    /\ \E walk \in Walks, registry \in Registries : manifest' = Found(rootfs, walk, registry)
    /\ UNCHANGED <<base, links, linux>>

Planned == Plan(manifest)
NeedsBuild == \E i \in DOMAIN Planned : Kind[Planned[i]] = "build"

BakeNothing ==
    /\ Step("probed", "baked") /\ Planned = <<>>
    /\ UNCHANGED <<manifest, base, links, linux>>

\* No command is rendered of a plan with a recipe in it: all of it goes without a base.
BakeRefused ==
    /\ Step("probed", "baked") /\ NeedsBuild
    /\ Fill /\ UNCHANGED <<base, links, linux>>

\* register_base raises.  The artifacts are filled in all the same.
BakeFails ==
    /\ Step("probed", "baked") /\ Planned # <<>> /\ ~NeedsBuild
    /\ Fill /\ UNCHANGED <<base, links, linux>>

BakeRegisters ==
    /\ Step("probed", "baked") /\ Planned # <<>> /\ ~NeedsBuild
    /\ Fill /\ base' \in Brought(manifest)
    /\ UNCHANGED <<links, linux>>

\* Mutant: no alias for the name that the image uses.
LinksByTool(entry) == {entry.artifact.tool}

\* The names that an entry links to its artifact.
LinksOf(entry) == {entry.artifact.tool, Last(entry.path)}

\* Mutant: the link is made without a look at what is in the base.
ShadowedUnseen(entry) == entry.status = "native" /\ entry.artifact # None /\ base # None

\* Without a base, or when the base does not have it, the image's own binary stays.
Shadowed(entry) == /\ entry.status = "native" /\ entry.artifact # None
                   /\ base # None /\ entry.artifact \in base

\* A link that is there when an entry calls for it stays as it is.
AssembleShadow ==
    /\ Step("baked", "shadowed")
    /\ LET shadowed == {i \in DOMAIN manifest : Shadowed(manifest[i])}
           callers(n) == {i \in shadowed : n \in LinksOf(manifest[i])}
       IN  links' = [n \in UNION {LinksOf(manifest[i]) : i \in shadowed} |->
                        manifest[Min(callers(n))].artifact]
    /\ UNCHANGED <<manifest, base, linux>>

\* The required flag of probe, which nothing writes after it, says the same.
Gate ==
    /\ Step("shadowed", "gated")
    /\ linux' = \E i \in DOMAIN manifest : manifest[i].status = "linuxulator"
    /\ UNCHANGED <<manifest, base, links>>

ManifestNext ==
    \/ Next /\ UNCHANGED manifestVars
    \/ Probe
    \/ BakeNothing \/ BakeRefused \/ BakeFails \/ BakeRegisters
    \/ AssembleShadow \/ Gate

ManifestSpec == ManifestInit /\ [][ManifestNext]_<<vars, manifestVars>>

----------------------------------------------------------------------------
(* Properties *)

Binaries == ToSet(manifest)

\* The executables that the layers put directly into a directory of the search under a
\* name that is not in SKIP_DIRS, by the path it has there, and what they are for.
TopLevel ==
    LET fs == UpTo(Len(image))
        node(at) == At(fs, Resolved(fs, Append(at[1], at[2])))
        found == {at \in ToSet(SearchDirs) \X (Names \ SkipDirs) :
                     node(at).kind = "file" /\ Content(node(at), at[2]) # "data"}
    IN  {[path |-> Append(at[1], at[2]), abi |-> Content(node(at), at[2])] : at \in found}

\* What the walk reaches, it reaches in the image that the layers describe: the manifest
\* has the executables at the top of the search directories, whatever directories are
\* links, and no leftover of an attempt that was killed, each once; and no others.
ListsTopLevel ==
    stage # "unpack" /\ Plain =>
        /\ {[path |-> e.path, abi |-> e.abi] : e \in Binaries} = TopLevel
        /\ Len(manifest) = Cardinality(TopLevel)

\* Provisioning in the order of the plan finds what it needs: every provider that resolves
\* has one step, and what a recipe depends on comes before it.
PlanServes ==
    stage = "probed" =>
        /\ IsInjective(Planned)
        /\ \A e \in Binaries :
             Substituted(e) /\ Resolves(e.provider) => Contains(Planned, e.provider)
        /\ \A i \in DOMAIN Planned : \A dep \in ToSet(Deps[Planned[i]]) :
             Resolves(dep) => \E j \in 1..(i - 1) : Planned[j] = dep

\* With a base that has all that was planned, and no provider unresolved, every Linux
\* executable of the image runs as a native one or under emulation.
CompleteBaseServes ==
    /\ stage = "gated" /\ base # None
    /\ \A e \in Binaries : Substituted(e) => Resolves(e.provider)
    /\ \A e \in Binaries : e.artifact # None => e.artifact \in base
    => \A e \in Binaries : e.abi = "linux" => linux \/ Last(e.path) \in DOMAIN links

\* A name of the image with a provider leads into the base to an artifact of that provider
\* or stays the image's own, whatever links the other entries have called for.
ShadowIsOwn ==
    stage \in {"shadowed", "gated"} =>
        \A e \in Binaries : Substituted(e) /\ Last(e.path) \in DOMAIN links =>
            /\ links[Last(e.path)].of = e.provider
            /\ base # None /\ links[Last(e.path)] \in base

\* What ARCHITECTURE.md requires of bakery and runtime together: a native executable that
\* turns out to have no artifact goes back to emulation, so none is left with neither.
EveryBinaryRuns ==
    stage = "gated" =>
        \A e \in Binaries : e.abi = "linux" => linux \/ Last(e.path) \in DOMAIN links

=============================================================================
