------------------------- MODULE MCDeclarationGraph --------------------------
(***************************************************************************)
(* Small programs: two files, a declaration in the second and an ambient   *)
(* module declaration in the first.  Every file has few edges of any   *)
(* kind, to itself, to the other, to a declaration or to nothing.          *)
(***************************************************************************)
EXTENDS DeclarationGraph

CONSTANTS index, util, item, module

Edges ==
    {"refs", "stars"} \X {index, util, Missing} \cup {"names"} \X {util, item, Missing}

Leads(edges, kind) == {e[2] : e \in {x \in edges : x[1] = kind}}

AtMost(n) == {E \in SUBSET Edges : Cardinality(E) <= n}

\* What the body of a file names: the modules of its re-exports.
Body(edges, dangling) ==
    Leads(edges, "stars")
        \cup (IF Leads(edges, "names") # {} THEN {util} ELSE {})
        \cup (IF dangling THEN {Missing} ELSE {})

Program(edges, dangling, deep, named, ambient, hasModule) ==
    [refs |-> [f \in {index, util} |-> Leads(edges[f], "refs")],
     stars |-> [f \in {index, util} |-> Leads(edges[f], "stars")],
     names |-> [f \in {index, util} |-> Leads(edges[f], "names")],
     bodies |-> [n \in {index, util, item, module} |->
                    CASE n = module -> named
                      [] n \in {index, util} -> Body(edges[n], n \in dangling)
                      [] OTHER -> IF n \in dangling THEN {Missing} ELSE {}],
     dangling |-> dangling,
     deep |-> deep,
     deepBody |-> deep,
     module |-> hasModule,
     ambient |-> ambient]

SmallPrograms ==
    {Program([f \in {index, util} |-> IF f = index THEN E ELSE F], D, {}, {util}, A, TRUE) :
        E \in AtMost(2), F \in AtMost(2), D \in {{}, {util}, {item}}, A \in {{}, {module}}}
      \cup
    {Program([f \in {index, util} |-> E], {}, X, N, {module}, M) :
        E \in AtMost(1), X \in {{}, {item}, {module}},
        N \in {{}, {module}, {index, Missing}}, M \in BOOLEAN}

FileOfEach == [n \in {index, util, item, module} |-> IF n \in {index, module} THEN index ELSE util]
FewStatements == [f \in {index, util} |-> 1]
SmallSize == [n \in {index, util, item, module} |-> 1]
=============================================================================
