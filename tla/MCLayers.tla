------------------------------ MODULE MCLayers ------------------------------
(* Images over two directories with two files each, and what probe, bakery and the engine
   make of them. *)
EXTENDS Manifest

MCPaths == {<<"d">>, <<"e">>, <<"d", "x">>, <<"d", "y">>, <<"e", "x">>, <<"e", "y">>,
            <<"e", "run">>}
MCLinkTo == <<"e">>

\* Three layers over one file in each directory.
OneFile == {p \in MCPaths : Last(p) \notin {"y", "run"}}

\* The layers that touch the given paths only, with or without whiteouts.
LayersOn(paths, Whiteouts) ==
    LET children(p) == {q \in paths : IsStrictPrefix(p, q)}
        has == {[p \in MCPaths |-> IF p \in paths THEN h[p] ELSE "no"] :
                   h \in [paths -> {"no", "dir", "file", "link"}]}
    IN
    {l \in [has : has, gone : SUBSET (paths \cap Whiteouts), opaque : SUBSET (paths \cap Whiteouts)] :
        /\ \A p \in MCPaths : Len(p) = 2 => l.has[p] \in {"no", "file"}
        /\ \A p \in paths : Len(p) = 1 /\ l.has[p] # "dir" =>
                               children(p) \cap (l.gone \cup {q \in paths : l.has[q] # "no"}) = {}
        /\ \A p \in l.opaque : Len(p) = 1 /\ l.has[p] = "dir"}

Bottom == {l \in LayersOn(OneFile, {}) : l.has[<<"e">>] = "dir"}
Upper == LayersOn({<<"d">>, <<"d", "x">>}, MCPaths)

\* Two files in each directory, or one directory that is a link to the other, and in the
\* other one a file of a name that probe passes over.
Full(d) ==
    {[has |-> [p \in MCPaths |-> CASE p = <<"e">> -> "dir"
                                   [] p = <<"d">> -> d
                                   [] OTHER -> IF p \in files \cup {<<"e", "run">>} THEN "file" ELSE "no"],
      gone |-> {}, opaque |-> {}] :
        files \in SUBSET {p \in MCPaths : Len(p) = 2 /\ Last(p) # "run" /\ (d = "link" => p[1] = "e")}}

Blank == [has |-> [p \in MCPaths |-> "no"], gone |-> {}, opaque |-> {}]

MCShort == {<<a>> : a \in Full("dir") \cup Full("link")}

MCImages == {<<a, b, c>> : a \in Bottom, b \in Upper, c \in Upper}
       \cup MCShort
       \cup {<<Blank, a>> : a \in Full("dir") \cup Full("link")}

----------------------------------------------------------------------------
(* The first layer ships Linux programs only. *)

MCSearchDirs == <<<<"d">>, <<"e">>>>
MCSkipDirs == {"run"}
MCNames == {"x", "y", "run"}
MCBinary == <<[x |-> "linux", y |-> "linux", run |-> "linux"],
              [x |-> "linux", y |-> "script", run |-> "script"],
              [x |-> "data", y |-> "linux", run |-> "linux"]>>

MCProviders == {"pkg", "tools", "port", "noport", "recipe", "norecipe"}
MCKind == [p \in MCProviders |->
              CASE p \in {"pkg", "tools"} -> "pkg"
                [] p \in {"port", "noport"} -> "port"
                [] OTHER -> "build"]
MCListed == {"port", "recipe"}
MCDeps == [p \in MCProviders |-> IF p = "recipe" THEN <<"pkg", "noport", "port">> ELSE <<>>]
MCMulti == {"tools"}
MCVersioned == [p \in MCMulti |-> [x |-> "x", y |-> "y16", run |-> "run"]]
MCTool == [p \in MCProviders |-> IF p = "pkg" THEN "x" ELSE p]

\* What two names can be: no provider, one each, the same, and all kinds of providers.
MCRegistries ==
    {[x |-> r[1], y |-> r[2], run |-> None] :
        r \in {<<"pkg", "tools">>, <<"pkg", "pkg">>, <<"tools", "tools">>, <<"pkg", None>>,
               <<"port", "recipe">>, <<"pkg", "recipe">>, <<"noport", "port">>,
               <<"norecipe", "tools">>, <<None, None>>}}

=============================================================================
