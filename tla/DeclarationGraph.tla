-------------------------- MODULE DeclarationGraph ---------------------------
(***************************************************************************)
(* Before a module is inspected, what its declarations re-export, refer to *)
(* and import must be resolved, so that no partial interface is returned.  *)
(*                                                                         *)
(* Two traversals share one budget of syntax nodes.  The first goes from   *)
(* the entrypoint along references between files and along re-exports: a   *)
(* star re-export leads to a file whose own re-exports count, a named one  *)
(* to single declarations.  The second goes from the ambient declarations  *)
(* of the module along everything that their bodies name.                  *)
(*                                                                         *)
(* The order in which pending entries are taken is left open: the code     *)
(* takes the first one pushed.                                             *)
(***************************************************************************)
EXTENDS Naturals, FiniteSets, Totals

CONSTANTS SourceFiles,   \* source files of the program
          Nodes,         \* declarations, the source files among them
          FileOf,        \* the source file a declaration is in
          Entrypoint,
          Graphs,        \* what files and declarations may refer to
          Statements,    \* top-level statements of a file
          Size,          \* syntax nodes of a declaration
          BodySize,      \* syntax nodes of the statements in its body
          MaxNodes,      \* declarationGraphNodes
          Missing        \* what does not resolve

GraphType ==
    [refs : [SourceFiles -> SUBSET (SourceFiles \cup {Missing})],   \* /// references
     stars : [SourceFiles -> SUBSET (SourceFiles \cup {Missing})],  \* export * from
     names : [SourceFiles -> SUBSET (Nodes \cup {Missing})],        \* export {..} from
     bodies : [Nodes -> SUBSET (Nodes \cup {Missing})],  \* all that a body names
     dangling : SUBSET Nodes,  \* an import type in it does not resolve
     deep : SUBSET Nodes,      \* its syntax is nested too deeply
     deepBody : SUBSET Nodes,  \* a statement in its body is
     module : BOOLEAN,         \* the program has the module's symbol
     ambient : SUBSET Nodes]   \* the module's ambient declarations

ASSUME GraphAssumption ==
    /\ SourceFiles \subseteq Nodes /\ IsFiniteSet(Nodes)
    /\ FileOf \in [Nodes -> SourceFiles] /\ \A f \in SourceFiles : FileOf[f] = f
    /\ Entrypoint \in SourceFiles
    /\ Graphs \subseteq GraphType
    /\ Statements \in [SourceFiles -> Nat]
    /\ Size \in [Nodes -> Nat] /\ BodySize \in [Nodes -> Nat]
    /\ MaxNodes \in Nat
    /\ Missing \notin Nodes

VARIABLES
    graph,       \* the declarations, fixed
    phase,       \* "select", "take", "references", "body", "ambient" or the end
    nodeCount,   \* the budget spent
    selecting,   \* what the choice of a Node provider spent of it
    pending,     \* entries to take: a declaration, and whether to follow its exports
    entry,       \* the entry being inspected
    visited,     \* visitedDeclarations
    expanded,    \* visitedExpandedSourceFiles
    referenced,  \* visitedReferenceSourceFiles
    pendingAmbient, visitedAmbient  \* the second traversal

firstVars  == <<pending, entry, visited, expanded, referenced>>
secondVars == <<pendingAmbient, visitedAmbient>>
vars == <<graph, phase, nodeCount, selecting, firstVars, secondVars>>

Entries == [declaration : Nodes, expand : BOOLEAN]

Follow(files) == {[declaration |-> f, expand |-> TRUE] : f \in files}
Inspect(ns)   == {[declaration |-> n, expand |-> FALSE] : n \in ns}

Init ==
    /\ graph \in Graphs
    /\ phase = "select"
    /\ nodeCount = 0
    /\ selecting = 0
    /\ pending = Follow({Entrypoint})
    /\ entry = [declaration |-> Entrypoint, expand |-> TRUE]
    /\ visited = {}
    /\ expanded = {}
    /\ referenced = {}
    /\ pendingAmbient = {}
    /\ visitedAmbient = {}

-----------------------------------------------------------------------------
(* The budget.  It is checked after it was raised.                         *)

Spend(n) == nodeCount' = nodeCount + n

\* Mutant of Within: the budget is checked before it is raised.
WithinBefore(n) == nodeCount <= MaxNodes

Within(n) == nodeCount + n <= MaxNodes

OverLimit(n) ==
    /\ ~Within(n)
    /\ Spend(n)
    /\ phase' = "limit"

\* A walk through syntax pays for one node after the other, and ends at the
\* first that is too many or, when deep, perhaps at one that is too far down.
WalkOverLimit(n, deep) ==
    /\ \/ ~Within(n) /\ nodeCount' = MaxNodes + 1
       \/ deep /\ n > 0 /\ nodeCount' \in nodeCount + 1 .. nodeCount + n
                         /\ nodeCount' <= MaxNodes
    /\ phase' = "limit"

\* The choice of a Node provider walks declarations before the traversals.
ReserveTraversalNode ==
    /\ phase = "select"
    /\ selecting' = selecting + 1
    /\ \/ Within(1) /\ Spend(1) /\ UNCHANGED phase
       \/ OverLimit(1)
    /\ UNCHANGED <<graph, firstVars, secondVars>>

Selected ==
    /\ phase = "select"
    /\ phase' = "take"
    /\ UNCHANGED <<graph, nodeCount, selecting, firstVars, secondVars>>

\* Something does not resolve: the inspection is unsupported.
Reject == phase' = "unsupported"

-----------------------------------------------------------------------------
(* The first traversal: taking an entry.                                   *)

\* A file may have to be followed after it was only inspected.
AlreadyVisited(e) ==
    e.declaration \in visited /\ (e.declaration \notin SourceFiles \/ ~e.expand)

TakeVisited(e) ==
    /\ phase = "take" /\ e \in pending /\ AlreadyVisited(e)
    /\ pending' = pending \ {e}
    /\ UNCHANGED <<graph, phase, nodeCount, selecting, entry, visited, expanded,
                   referenced, secondVars>>

\* Mutant of TakeEntry: whatever was visited is skipped, also if only inspected.
TakeEntryOnce(e) ==
    /\ phase = "take" /\ e \in pending /\ ~AlreadyVisited(e)
    /\ pending' = pending \ {e}
    /\ entry' = e
    /\ visited' = visited \cup {e.declaration}
    /\ phase' = IF e.declaration \in visited THEN "take" ELSE "references"
    /\ UNCHANGED <<graph, nodeCount, selecting, expanded, referenced, secondVars>>

TakeEntry(e) ==
    /\ phase = "take" /\ e \in pending /\ ~AlreadyVisited(e)
    /\ pending' = pending \ {e}
    /\ entry' = e
    /\ visited' = visited \cup {e.declaration}
    /\ phase' = "references"
    /\ UNCHANGED <<graph, nodeCount, selecting, expanded, referenced, secondVars>>

\* The references of the file that the declaration is in, once for each file.
File == FileOf[entry.declaration]
Refs == graph.refs[File]

\* Mutant of EnqueueReferences: the file is not recorded.
EnqueueReferencesAgain ==
    /\ phase = "references" /\ File \notin referenced
    /\ Within(Cardinality(Refs)) /\ Spend(Cardinality(Refs))
    /\ IF Missing \in Refs
         THEN Reject /\ UNCHANGED pending
         ELSE phase' = "body" /\ pending' = pending \cup Follow(Refs)
    /\ UNCHANGED <<graph, selecting, entry, visited, expanded, referenced, secondVars>>

EnqueueReferences ==
    /\ phase = "references" /\ File \notin referenced
    /\ Within(Cardinality(Refs)) /\ Spend(Cardinality(Refs))
    /\ referenced' = referenced \cup {File}
    /\ IF Missing \in Refs
         THEN Reject /\ UNCHANGED pending
         ELSE phase' = "body" /\ pending' = pending \cup Follow(Refs)
    /\ UNCHANGED <<graph, selecting, entry, visited, expanded, secondVars>>

ReferencesOverLimit ==
    /\ phase = "references" /\ File \notin referenced
    /\ OverLimit(Cardinality(Refs))
    /\ referenced' = referenced \cup {File}
    /\ UNCHANGED <<graph, selecting, pending, entry, visited, expanded, secondVars>>

SkipReferences ==
    /\ phase = "references" /\ File \in referenced
    /\ phase' = "body"
    /\ UNCHANGED <<graph, nodeCount, selecting, firstVars, secondVars>>

-----------------------------------------------------------------------------
(* The first traversal: what the entry re-exports or imports.              *)

Following == entry.expand /\ entry.declaration \in SourceFiles

ReExportsOf(f) == graph.stars[f] \cup graph.names[f]

\* Mutant of ExpandSource: a file re-exported by name is followed.
ExpandSourceFollowing ==
    /\ phase = "body" /\ Following /\ entry.declaration \notin expanded
    /\ Within(Statements[entry.declaration]) /\ Spend(Statements[entry.declaration])
    /\ expanded' = expanded \cup {entry.declaration}
    /\ IF Missing \in ReExportsOf(entry.declaration)
         THEN Reject /\ UNCHANGED pending
         ELSE /\ phase' = "take"
              /\ pending' = pending
                    \cup Follow(graph.stars[entry.declaration])
                    \cup Follow(graph.names[entry.declaration])
    /\ UNCHANGED <<graph, selecting, entry, visited, referenced, secondVars>>

ExpandSource ==
    /\ phase = "body" /\ Following /\ entry.declaration \notin expanded
    /\ Within(Statements[entry.declaration]) /\ Spend(Statements[entry.declaration])
    /\ expanded' = expanded \cup {entry.declaration}
    /\ IF Missing \in ReExportsOf(entry.declaration)
         THEN Reject /\ UNCHANGED pending
         ELSE /\ phase' = "take"
              /\ pending' = pending
                    \cup Follow(graph.stars[entry.declaration])
                    \cup Inspect(graph.names[entry.declaration])
    /\ UNCHANGED <<graph, selecting, entry, visited, referenced, secondVars>>

ExpandOverLimit ==
    /\ phase = "body" /\ Following /\ entry.declaration \notin expanded
    /\ OverLimit(Statements[entry.declaration])
    /\ expanded' = expanded \cup {entry.declaration}
    /\ UNCHANGED <<graph, selecting, pending, entry, visited, referenced, secondVars>>

SkipExpanded ==
    /\ phase = "body" /\ Following /\ entry.declaration \in expanded
    /\ phase' = "take"
    /\ UNCHANGED <<graph, nodeCount, selecting, firstVars, secondVars>>

\* A declaration that is re-exported by name: its import types must resolve.
ScanImportTypes ==
    /\ phase = "body" /\ ~Following
    /\ Within(Size[entry.declaration]) /\ Spend(Size[entry.declaration])
    /\ entry.declaration \notin graph.deep
    /\ IF entry.declaration \in graph.dangling THEN Reject ELSE phase' = "take"
    /\ UNCHANGED <<graph, selecting, firstVars, secondVars>>

ScanOverLimit ==
    /\ phase = "body" /\ ~Following
    /\ WalkOverLimit(Size[entry.declaration], entry.declaration \in graph.deep)
    /\ UNCHANGED <<graph, selecting, firstVars, secondVars>>

\* Every question to the host or to the compiler may itself fail: a referenced
\* file is outside the packages that may be read, another budget is spent.
HostFails ==
    /\ phase \in {"references", "body", "ambient"}
    /\ phase' = "host-failure"
    /\ UNCHANGED <<graph, nodeCount, selecting, firstVars, secondVars>>

\* The module's symbol is looked up when the first traversal is over.
FinishSource ==
    /\ phase = "take" /\ pending = {}
    /\ IF graph.module
         THEN phase' = "ambient" /\ pendingAmbient' = graph.ambient
         ELSE Reject /\ UNCHANGED pendingAmbient
    /\ UNCHANGED <<graph, nodeCount, selecting, firstVars, visitedAmbient>>

-----------------------------------------------------------------------------
(* The second traversal.                                                   *)

\* The file references of a declaration that is a source file.
OwnRefs(n) == IF n \in SourceFiles THEN graph.refs[n] ELSE {}

AmbientCost(n) == BodySize[n] + Cardinality(OwnRefs(n))

TakeVisitedAmbient(n) ==
    /\ phase = "ambient" /\ n \in pendingAmbient /\ n \in visitedAmbient
    /\ pendingAmbient' = pendingAmbient \ {n}
    /\ UNCHANGED <<graph, phase, nodeCount, selecting, firstVars, visitedAmbient>>

\* What the body names is looked up before the file references are paid for.
RejectAmbient(n) ==
    /\ phase = "ambient" /\ n \in pendingAmbient \ visitedAmbient
    /\ Within(BodySize[n]) /\ Spend(BodySize[n]) /\ n \notin graph.deepBody
    /\ Missing \in graph.bodies[n]
    /\ visitedAmbient' = visitedAmbient \cup {n}
    /\ pendingAmbient' = pendingAmbient \ {n}
    /\ Reject
    /\ UNCHANGED <<graph, selecting, firstVars>>

VisitAmbient(n) ==
    /\ phase = "ambient" /\ n \in pendingAmbient \ visitedAmbient
    /\ Within(AmbientCost(n)) /\ Spend(AmbientCost(n)) /\ n \notin graph.deepBody
    /\ Missing \notin graph.bodies[n]
    /\ visitedAmbient' = visitedAmbient \cup {n}
    /\ IF Missing \in OwnRefs(n)
         THEN Reject /\ pendingAmbient' = pendingAmbient \ {n}
         ELSE /\ pendingAmbient' = (pendingAmbient \ {n}) \cup graph.bodies[n] \cup OwnRefs(n)
              /\ UNCHANGED phase
    /\ UNCHANGED <<graph, selecting, firstVars>>

AmbientOverLimit(n) ==
    /\ phase = "ambient" /\ n \in pendingAmbient \ visitedAmbient
    /\ visitedAmbient' = visitedAmbient \cup {n}
    /\ pendingAmbient' = pendingAmbient \ {n}
    /\ \/ WalkOverLimit(BodySize[n], n \in graph.deepBody)
       \/ /\ n \notin graph.deepBody /\ Within(BodySize[n])
          /\ Missing \notin graph.bodies[n]
          /\ OverLimit(AmbientCost(n))
    /\ UNCHANGED <<graph, selecting, firstVars>>

Accept ==
    /\ phase = "ambient" /\ pendingAmbient = {}
    /\ phase' = "accepted"
    /\ UNCHANGED <<graph, nodeCount, selecting, firstVars, secondVars>>

-----------------------------------------------------------------------------
Select == ReserveTraversalNode \/ Selected

First ==
    \/ \E e \in Entries : TakeVisited(e) \/ TakeEntry(e)
    \/ EnqueueReferences \/ ReferencesOverLimit \/ SkipReferences
    \/ ExpandSource \/ ExpandOverLimit \/ SkipExpanded
    \/ ScanImportTypes \/ ScanOverLimit
    \/ FinishSource

Second ==
    \/ \E n \in Nodes : \/ TakeVisitedAmbient(n) \/ VisitAmbient(n)
                     \/ RejectAmbient(n) \/ AmbientOverLimit(n)
    \/ Accept

Next == Select \/ First \/ Second \/ HostFails

Spec == Init /\ [][Next]_vars

-----------------------------------------------------------------------------
(* What holds.                                                             *)

\* The shape of the state.
TypeOK ==
    /\ graph \in GraphType
    /\ phase \in {"select", "take", "references", "body", "ambient", "accepted",
                  "unsupported", "limit", "host-failure"}
    /\ nodeCount \in Nat /\ selecting \in Nat
    /\ phase # "limit" => nodeCount <= MaxNodes
    /\ pending \subseteq Entries /\ entry \in Entries
    /\ visited \subseteq Nodes
    /\ expanded \subseteq SourceFiles /\ referenced \subseteq SourceFiles
    /\ pendingAmbient \subseteq Nodes /\ visitedAmbient \subseteq Nodes

\* E: files whose exports are part of the interface; D: declarations that are
\* re-exported by name; A: declarations that the ambient module leads to.
FilesIn(E, D) == E \cup {FileOf[n] : n \in D}

ClosedExports(E, D) ==
    /\ Entrypoint \in E
    /\ \A f \in FilesIn(E, D) : graph.refs[f] \ {Missing} \subseteq E
    /\ \A f \in E : /\ graph.stars[f] \ {Missing} \subseteq E
                    /\ graph.names[f] \ {Missing} \subseteq D

ResolvedExports(E, D) ==
    /\ graph.module
    /\ \A f \in FilesIn(E, D) : Missing \notin graph.refs[f]
    /\ \A f \in E : Missing \notin ReExportsOf(f)
    /\ \A n \in D \ SourceFiles : n \notin graph.dangling

ClosedAmbient(A) ==
    /\ graph.ambient \subseteq A
    /\ \A n \in A : (graph.bodies[n] \cup OwnRefs(n)) \ {Missing} \subseteq A

ResolvedAmbient(A) ==
    \A n \in A : Missing \notin graph.bodies[n] \cup OwnRefs(n)

\* A file that is itself re-exported by name has its import types scanned only
\* when it was not followed before: neither property speaks of these.

\* No partial interface: what is accepted is resolved as far as the module
\* leads, along cycles and along every mixture of references and re-exports.
AcceptedIsResolved ==
    phase = "accepted" =>
        /\ \E E \in SUBSET SourceFiles, D \in SUBSET Nodes :
                ClosedExports(E, D) /\ ResolvedExports(E, D)
        /\ \E A \in SUBSET Nodes : ClosedAmbient(A) /\ ResolvedAmbient(A)

\* Nothing is rejected for what its interface does not lead to.
RejectedIsUnresolved ==
    phase = "unsupported" =>
        \A E \in SUBSET SourceFiles, D \in SUBSET Nodes :
            /\ ClosedExports(E, D)
            /\ ResolvedExports(E, D)
            /\ D \cap SourceFiles \cap graph.dangling = {}
            => \A A \in SUBSET Nodes : ClosedAmbient(A) => ~ResolvedAmbient(A)

\* Cycles cost nothing: the budget pays for the references of a file, for its
\* statements and for the syntax of a declaration once in each traversal,
\* however often they are met.
CountedOnce ==
    nodeCount <= selecting
        + Total([f \in SourceFiles |-> Cardinality(graph.refs[f])], referenced)
        + Total(Statements, expanded)
        + Total(Size, visited)
        + Total([n \in Nodes |-> AmbientCost(n)], visitedAmbient)
=============================================================================
