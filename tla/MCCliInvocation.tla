---------------------------- MODULE MCCliInvocation ----------------------------
(***************************************************************************)
(* A repository r with the directories p, p/a, p/a/n, p/b and q, each with *)
(* a manifest or none that may declare zod, under thirteen lists of        *)
(* patterns in the manifest and in pnpm-workspace.yaml; and repositories   *)
(* with nested roots, closed, hidden and too deep directories, and too     *)
(* large files.  The command runs at the root, in a workspace and outside. *)
(***************************************************************************)
EXTENDS CliInvocation

Fixed(name) == Part("fixed", {name})
Star == Part("glob", {"p", "q", "a", "b", "n", "m", "r"})
Deep == Part("deep", {"p", "q", "a", "b", "n", "m", "r"})
AorB == Part("glob", {"a", "b"})
Dot == Part("dot", {})
Empty == Part("empty", {})
Up == Part("up", {})

In(parts) == Pattern(FALSE, parts)
Out(parts) == Pattern(TRUE, parts)
Item(indent, parts) == Line(indent, "item", In(parts))
Blank == Line(0, "blank", Out(<<>>))
Key(name) == Line(0, name, Out(<<>>))

PatternLists ==
    {<<>>, <<In(<<Fixed("p"), Star>>)>>, <<In(<<Dot, Fixed("p"), Star, Empty>>), Out(<<Fixed("p"), Fixed("b")>>)>>,
     <<In(<<Fixed("p"), Deep>>)>>, <<In(<<Deep, Fixed("n")>>), In(<<Fixed("q")>>)>>,
     <<In(<<Star, AorB>>), In(<<Up, Star>>), In(<<Empty, Star>>), In(<<Dot, Empty>>)>>,
     <<In(<<Deep>>), Out(<<Fixed("p"), Star>>)>>, <<In(<<Fixed("p"), Fixed("a"), Star>>), In(<<Star>>)>>,
     <<Out(<<Fixed("q")>>)>>}

YamlLists ==
    {<<Key("packages"), Blank, Item(2, <<Fixed("p"), Star>>), Key("other"), Item(2, <<Deep>>)>>,
     <<Key("other"), Key("packages"), Item(0, <<Fixed("q")>>), Line(0, "blank", Out(<<>>)), Item(0, <<Star, Star, Star>>)>>,
     <<Key("other"), Item(2, <<Deep>>)>>}

Manifest(workspaces, declares) == [large |-> FALSE, workspaces |-> workspaces, declares |-> declares]

Tree ==
    {<<>>, <<"r">>, <<"r", "p">>, <<"r", "p", "a">>, <<"r", "p", "b">>, <<"r", "p", "a", "n">>, <<"r", "q">>,
     <<"r", "p", "node_modules">>}

\* Each of these directories has no manifest, one, or one that declares zod.
Leaves == {<<"r", "p", "a">>, <<"r", "p", "b">>, <<"r", "p", "a", "n">>, <<"r", "q">>}

Repository(dirs, manifests, yaml, closed) == [dirs |-> dirs, manifests |-> manifests, yaml |-> yaml, closed |-> closed]

Manifests(kinds) ==
    [d \in {d \in Leaves : kinds[d] # 0} |-> Manifest(<<>>, IF kinds[d] = 2 THEN {"zod"} ELSE {})]

Yaml(lines) == (<<"r">> :> [large |-> FALSE, lines |-> lines])

PlainRepositories ==
    {Repository(Tree, (<<"r">> :> Manifest(w, {})) @@ Manifests(k), <<>>, {}) : w \in PatternLists, k \in [Leaves -> 0..2]}
    \cup {Repository(Tree, (<<"r">> :> Manifest(<<>>, {})) @@ Manifests(k), Yaml(y), {}) : y \in YamlLists, k \in [Leaves -> {1, 2}]}

\* The same with something else about it.
All == Manifests([d \in Leaves |-> 1])
Deepest == {<<"r", "p", "a", "n", "m">>, <<"r", "p", "a", "n", "m", "m">>}
EveryDirectory == <<In(<<Deep>>)>>

OtherRepositories ==
    LET root(w, declares) == (<<"r">> :> Manifest(w, declares))
        z(d) == (d :> Manifest(<<>>, {"zod"}))
    IN  {Repository(Tree, root(EveryDirectory, {"zod"}) @@ z(<<"r", "q">>), <<>>, {}),
         Repository(Tree, root(EveryDirectory, {}) @@ z(<<"r", "q">>) @@ z(<<"r", "p", "a">>), <<>>, {<<"r", "p">>}),
         Repository(Tree, root(EveryDirectory, {}) @@ z(<<"r", "q">>) @@ z(<<"r", "p", "node_modules">>), <<>>, {}),
         Repository(Tree \cup Deepest, root(EveryDirectory, {}) @@ z(<<"r", "q">>), <<>>, {}),
         Repository(Tree, root(EveryDirectory, {}) @@ (<<"r", "q">> :> [Manifest(<<>>, {"zod"}) EXCEPT !.large = TRUE]), <<>>, {}),
         Repository(Tree, (<<"r">> :> [Manifest(EveryDirectory, {}) EXCEPT !.large = TRUE]) @@ All, <<>>, {}),
         Repository(Tree \cup {<<"r", "m">>, <<"r", "n">>, <<"r", "q", "m">>, <<"r", "q", "n">>},
                    root(EveryDirectory, {}) @@ z(<<"r", "q">>), <<>>, {}),
         Repository(Tree, root(EveryDirectory, {}) @@ z(<<"r", "p", "a">>)
                          @@ (<<"r", "p">> :> Manifest(<<In(<<Fixed("a")>>)>>, {})), <<>>, {})}

SomeRepositories == PlainRepositories \cup OtherRepositories

SomeInvocations ==
    LET json == Option("json") pretty == Option("pretty") workspace == Option("workspace") access == Option("access")
        zod == Word("zod") find == Word("search") overview == Word("overview") compare == Word("compare")
    IN  {<<zod>>, <<json, workspace, find, zod>>, <<workspace, overview, json, find, zod, Word("text")>>,
         <<access, Word("import"), json, overview, zod>>, <<json, Dashes, overview>>, <<pretty, zod>>,
         <<json, overview, Option("subpaths"), zod>>, <<json, workspace>>, <<find, zod>>,
         <<compare, zod, Word("fs"), Option("beforeWorkspace"), Word("w")>>, <<compare, Word("../x"), zod, json>>,
         <<Option("beforeWorkspace"), Word("w"), compare, zod, zod>>}

SomeDirectories == {<<"r">>, <<"r", "p">>, <<"r", "p", "a">>}
SomePackages == [s \in {"zod", "fs", "../x", "overview"} |-> IF s = "../x" THEN None ELSE s]
SomePaths == [w \in {"w", "search", "overview"} |-> IF w = "w" THEN <<"r", "q">> ELSE <<"r", w>>]
=============================================================================
