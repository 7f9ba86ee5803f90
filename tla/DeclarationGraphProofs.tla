------------------------ MODULE DeclarationGraphProofs -----------------------
(***************************************************************************)
(* Proofs that a module is accepted only when all that it leads to         *)
(* resolves, and rejected only when something does not, for any            *)
(* declarations, any budget and any order of traversal.                    *)
(*                                                                         *)
(* Both rest on an invariant of a worklist.  For acceptance, what the      *)
(* expanded files and the visited declarations lead to is known: done,     *)
(* pending, or the entry in hand.  When nothing is pending the expanded    *)
(* files and the visited declarations are the closed sets that             *)
(* AcceptedIsResolved asks for.  For rejection, all that is known lies in  *)
(* every pair of closed sets, so that what does not resolve is in each.    *)
(***************************************************************************)
EXTENDS DeclarationGraph, FiniteSetTheorems, TLAPS

\* Only files are followed.
OnlyFilesFollowed ==
    /\ \A e \in pending \cup {entry} : e.expand => e.declaration \in SourceFiles
    /\ phase \in {"references", "body"} => entry.declaration \in visited

-----------------------------------------------------------------------------
(* Types.                                                                  *)

LEMMA GraphTyped ==
    ASSUME TypeOK
    PROVE  /\ \A f \in SourceFiles : /\ graph.refs[f] \subseteq SourceFiles \cup {Missing}
                                     /\ graph.stars[f] \subseteq SourceFiles \cup {Missing}
                                     /\ graph.names[f] \subseteq Nodes \cup {Missing}
           /\ \A n \in Nodes : graph.bodies[n] \subseteq Nodes \cup {Missing}
           /\ graph.dangling \subseteq Nodes /\ graph.ambient \subseteq Nodes
           /\ graph.module \in BOOLEAN
  BY DEF TypeOK, GraphType

LEMMA RefsCounted ==
    ASSUME TypeOK, NEW f \in SourceFiles PROVE Cardinality(graph.refs[f]) \in Nat
<1>1. IsFiniteSet(Nodes \cup {Missing})
  BY GraphAssumption, FS_AddElement
<1>2. graph.refs[f] \subseteq Nodes \cup {Missing}
  BY GraphTyped, GraphAssumption
<1>3. IsFiniteSet(graph.refs[f])
  BY <1>1, <1>2, FS_Subset
<1> QED
  BY <1>3, FS_CardinalityType

LEMMA InHand ==
    ASSUME TypeOK
    PROVE  /\ entry.declaration \in Nodes /\ entry.expand \in BOOLEAN
           /\ File \in SourceFiles
           /\ Cardinality(Refs) \in Nat
<1>1. entry.declaration \in Nodes /\ entry.expand \in BOOLEAN
  BY DEF TypeOK, Entries
<1>2. File \in SourceFiles
  BY <1>1, GraphAssumption DEF File
<1> QED
  BY <1>1, <1>2, RefsCounted DEF Refs

LEMMA FollowTyped ==
    /\ \A S \in SUBSET SourceFiles : Follow(S) \subseteq Entries
    /\ \A S \in SUBSET Nodes : Inspect(S) \subseteq Entries
<1>1. ASSUME NEW n \in Nodes, NEW x \in BOOLEAN
      PROVE  [declaration |-> n, expand |-> x] \in Entries
  BY DEF Entries
<1>2. ASSUME NEW S \in SUBSET Nodes PROVE Follow(S) \subseteq Entries
  BY <1>1 DEF Follow
<1>3. ASSUME NEW S \in SUBSET Nodes PROVE Inspect(S) \subseteq Entries
  BY <1>1 DEF Inspect
<1>4. SourceFiles \subseteq Nodes
  BY GraphAssumption
<1> QED
  BY <1>2, <1>3, <1>4

LEMMA OwnRefsCounted ==
    ASSUME TypeOK, NEW n \in Nodes
    PROVE  AmbientCost(n) \in Nat /\ OwnRefs(n) \subseteq SourceFiles \cup {Missing}
<1>1. Cardinality(OwnRefs(n)) \in Nat /\ OwnRefs(n) \subseteq SourceFiles \cup {Missing}
  <2>1. CASE n \in SourceFiles
    BY <2>1, RefsCounted, GraphTyped DEF OwnRefs
  <2>2. CASE n \notin SourceFiles
    BY <2>2, FS_EmptySet DEF OwnRefs
  <2> QED
    BY <2>1, <2>2
<1>2. BodySize[n] \in Nat
  BY GraphAssumption
<1> QED
  BY <1>1, <1>2 DEF AmbientCost

LEMMA InitTyped == Init => TypeOK
<1> SUFFICES ASSUME Init PROVE TypeOK
  OBVIOUS
<1>1. graph \in GraphType
  BY GraphAssumption DEF Init
<1>2. Entrypoint \in Nodes /\ {Entrypoint} \in SUBSET SourceFiles
  BY GraphAssumption
<1>3. pending \subseteq Entries
  BY <1>2, FollowTyped DEF Init
<1>4. entry \in Entries
  BY <1>2 DEF Init, Entries
<1>5. 0 <= MaxNodes
  BY GraphAssumption
<1> QED
  BY <1>1, <1>3, <1>4, <1>5 DEF Init, TypeOK

LEMMA SelectTyped == TypeOK /\ Select => TypeOK'
<1> SUFFICES ASSUME TypeOK, Select PROVE TypeOK'
  OBVIOUS
<1>1. CASE ReserveTraversalNode
  BY <1>1, GraphAssumption
  DEF TypeOK, ReserveTraversalNode, Within, Spend, OverLimit, firstVars, secondVars
<1>2. CASE Selected
  BY <1>2 DEF TypeOK, Selected, firstVars, secondVars
<1> QED
  BY <1>1, <1>2 DEF Select

LEMMA TakeTyped ==
    ASSUME TypeOK, NEW e \in Entries, TakeVisited(e) \/ TakeEntry(e) PROVE TypeOK'
<1>1. e.declaration \in Nodes
  BY DEF Entries
<1> QED
  BY <1>1 DEF TypeOK, TakeVisited, TakeEntry, firstVars, secondVars

LEMMA ReferencesTyped ==
    ASSUME TypeOK, EnqueueReferences \/ ReferencesOverLimit \/ SkipReferences PROVE TypeOK'
<1>1. CASE EnqueueReferences
  <2>1. Missing \notin Refs => Follow(Refs) \subseteq Entries
    BY InHand, GraphTyped, FollowTyped DEF Refs
  <2> QED
    BY <1>1, <2>1, InHand, GraphAssumption
    DEF TypeOK, EnqueueReferences, Within, Spend, Reject, secondVars
<1>2. CASE ReferencesOverLimit
  BY <1>2, InHand DEF TypeOK, ReferencesOverLimit, OverLimit, Spend, secondVars
<1>3. CASE SkipReferences
  BY <1>3 DEF TypeOK, SkipReferences, firstVars, secondVars
<1> QED
  BY <1>1, <1>2, <1>3

LEMMA ExpandTyped ==
    ASSUME TypeOK, ExpandSource \/ ExpandOverLimit \/ SkipExpanded PROVE TypeOK'
<1>1. Following => Statements[entry.declaration] \in Nat
  BY InHand, GraphAssumption DEF Following
<1>2. CASE ExpandSource
  <2>1. Missing \notin ReExportsOf(entry.declaration) =>
            /\ Follow(graph.stars[entry.declaration]) \subseteq Entries
            /\ Inspect(graph.names[entry.declaration]) \subseteq Entries
    BY <1>2, GraphTyped, FollowTyped DEF ReExportsOf, ExpandSource, Following
  <2> QED
    BY <1>1, <1>2, <2>1, GraphAssumption
    DEF TypeOK, ExpandSource, Following, Within, Spend, Reject, secondVars
<1>3. CASE ExpandOverLimit
  BY <1>1, <1>3 DEF TypeOK, ExpandOverLimit, Following, OverLimit, Spend, secondVars
<1>4. CASE SkipExpanded
  BY <1>4 DEF TypeOK, SkipExpanded, firstVars, secondVars
<1> QED
  BY <1>2, <1>3, <1>4

LEMMA WalkTyped ==
    ASSUME TypeOK, NEW n \in Nat, NEW S, NEW d, WalkOverLimit(n, d \in S)
    PROVE  phase' = "limit" /\ nodeCount' \in Nat
  BY GraphAssumption DEF TypeOK, WalkOverLimit

LEMMA ScanTyped ==
    ASSUME TypeOK, ScanImportTypes \/ ScanOverLimit \/ FinishSource \/ HostFails
    PROVE  TypeOK'
<1>1. Size[entry.declaration] \in Nat
  BY InHand, GraphAssumption
<1>2. CASE ScanImportTypes
  BY <1>1, <1>2, GraphAssumption
  DEF TypeOK, ScanImportTypes, Within, Spend, Reject, firstVars, secondVars
<1>3. CASE ScanOverLimit
  BY <1>1, <1>3, WalkTyped DEF TypeOK, ScanOverLimit, firstVars, secondVars
<1>4. CASE FinishSource
  BY <1>4, GraphTyped DEF TypeOK, FinishSource, Reject, firstVars
<1>5. CASE HostFails
  BY <1>5 DEF TypeOK, HostFails, firstVars, secondVars
<1> QED
  BY <1>2, <1>3, <1>4, <1>5

LEMMA SecondTyped == TypeOK /\ Second => TypeOK'
<1> SUFFICES ASSUME TypeOK, Second PROVE TypeOK'
  OBVIOUS
<1>1. ASSUME NEW n \in Nodes, TakeVisitedAmbient(n) PROVE TypeOK'
  BY <1>1 DEF TypeOK, TakeVisitedAmbient, firstVars
<1>2. ASSUME NEW n \in Nodes, VisitAmbient(n) PROVE TypeOK'
  <2>1. /\ Missing \notin graph.bodies[n] => graph.bodies[n] \subseteq Nodes
        /\ Missing \notin OwnRefs(n) => OwnRefs(n) \subseteq Nodes
    BY OwnRefsCounted, GraphTyped, GraphAssumption
  <2>2. AmbientCost(n) \in Nat
    BY OwnRefsCounted
  <2> QED
    BY <1>2, <2>1, <2>2, GraphAssumption
    DEF TypeOK, VisitAmbient, Within, Spend, Reject, firstVars
<1>3. ASSUME NEW n \in Nodes, RejectAmbient(n) PROVE TypeOK'
  BY <1>3, GraphAssumption DEF TypeOK, RejectAmbient, Within, Spend, Reject, firstVars
<1>4. ASSUME NEW n \in Nodes, AmbientOverLimit(n) PROVE TypeOK'
  <2>1. phase' = "limit" /\ nodeCount' \in Nat
    <3>1. CASE WalkOverLimit(BodySize[n], n \in graph.deepBody)
      BY <3>1, WalkTyped, GraphAssumption
    <3>2. CASE OverLimit(AmbientCost(n))
      BY <3>2, OwnRefsCounted DEF TypeOK, OverLimit, Spend
    <3> QED
      BY <1>4, <3>1, <3>2 DEF AmbientOverLimit
  <2> QED
    BY <1>4, <2>1 DEF TypeOK, AmbientOverLimit, firstVars
<1>5. CASE Accept
  BY <1>5 DEF TypeOK, Accept, firstVars, secondVars
<1> QED
  BY <1>1, <1>2, <1>3, <1>4, <1>5 DEF Second

LEMMA StutterTyped == TypeOK /\ UNCHANGED vars => TypeOK'
  BY DEF TypeOK, vars, firstVars, secondVars

LEMMA NextTyped == TypeOK /\ [Next]_vars => TypeOK'
<1> SUFFICES ASSUME TypeOK, [Next]_vars PROVE TypeOK'
  OBVIOUS
<1>1. CASE First
  BY <1>1, TakeTyped, ReferencesTyped, ExpandTyped, ScanTyped DEF First
<1> QED
  BY <1>1, SelectTyped, SecondTyped, ScanTyped, StutterTyped DEF Next

\* The budget is never overspent without the inspection ending in its limit.
THEOREM TypeCorrect == Spec => []TypeOK
<1>1. Init => TypeOK
  BY InitTyped
<1>2. TypeOK /\ [Next]_vars => TypeOK'
  BY NextTyped
<1> QED
  BY <1>1, <1>2, PTL DEF Spec

-----------------------------------------------------------------------------
(* Acceptance.                                                             *)

InBody == phase \in {"references", "body"}

\* Files that were followed, are in hand to be followed, or are pending.
KnownFiles ==
    expanded
        \cup {f \in SourceFiles : [declaration |-> f, expand |-> TRUE] \in pending}
        \cup {f \in SourceFiles : InBody /\ Following /\ f = entry.declaration}

KnownDeclarations ==
    visited \cup {n \in Nodes : [declaration |-> n, expand |-> FALSE] \in pending}

\* The entry in hand has not been examined; all other visits have.
ExportsKnown ==
    /\ Entrypoint \in KnownFiles
    /\ \A f \in referenced : graph.refs[f] \subseteq KnownFiles
    /\ \A f \in expanded : /\ graph.stars[f] \subseteq KnownFiles
                           /\ graph.names[f] \subseteq KnownDeclarations
    /\ expanded \subseteq visited
    /\ InBody => entry.declaration \in visited
    /\ phase = "body" => File \in referenced
    /\ \A n \in visited :
        /\ FileOf[n] \in referenced \/ (phase = "references" /\ n = entry.declaration)
        /\ \/ n \in SourceFiles \/ n \notin graph.dangling
           \/ (InBody /\ n = entry.declaration)

ExportsDone == ClosedExports(expanded, visited) /\ ResolvedExports(expanded, visited)

AmbientKnown ==
    /\ graph.ambient \subseteq pendingAmbient \cup visitedAmbient
    /\ \A n \in visitedAmbient :
        graph.bodies[n] \cup OwnRefs(n) \subseteq pendingAmbient \cup visitedAmbient

Traversing == phase \in {"select", "take", "references", "body"}

AcceptInv ==
    /\ Traversing => ExportsKnown /\ visitedAmbient = {}
    /\ phase \in {"ambient", "accepted"} => ExportsDone /\ AmbientKnown
    /\ phase = "accepted" => pendingAmbient = {}

LEMMA AcceptInit == Init => AcceptInv
  BY GraphAssumption
  DEF Init, AcceptInv, Traversing, ExportsKnown, KnownFiles, KnownDeclarations, InBody, Follow

\* When nothing is pending, the traversal has closed the exports.
LEMMA NothingPending ==
    ASSUME TypeOK, ExportsKnown, phase = "take", pending = {}, graph.module
    PROVE  ExportsDone
<1>1. KnownFiles = expanded /\ KnownDeclarations = visited
  BY DEF KnownFiles, KnownDeclarations, InBody
<1>2. FilesIn(expanded, visited) \subseteq referenced
  BY GraphAssumption DEF FilesIn, ExportsKnown, TypeOK
<1>3. Missing \notin expanded \cup visited
  BY GraphAssumption DEF TypeOK
<1>4. ClosedExports(expanded, visited)
  BY <1>1, <1>2 DEF ClosedExports, ExportsKnown
<1>5. ResolvedExports(expanded, visited)
  BY <1>1, <1>2, <1>3 DEF ResolvedExports, ExportsKnown, ReExportsOf, InBody
<1> QED
  BY <1>4, <1>5 DEF ExportsDone

LEMMA AcceptTake ==
    ASSUME TypeOK, AcceptInv, NEW e \in Entries, TakeVisited(e) \/ TakeEntry(e)
    PROVE  AcceptInv'
<1>1. /\ phase = "take" /\ phase' \in {"take", "references"} /\ UNCHANGED <<graph, expanded, referenced>>
      /\ ExportsKnown /\ visitedAmbient' = {}
  BY DEF TakeVisited, TakeEntry, AcceptInv, Traversing, secondVars
<1>2. e.declaration \in Nodes /\ e.expand \in BOOLEAN
      /\ e = [declaration |-> e.declaration, expand |-> e.expand]
  BY DEF Entries
<1>3. KnownFiles \subseteq KnownFiles' /\ KnownDeclarations \subseteq KnownDeclarations'
  <2>1. CASE TakeVisited(e)
    BY <1>1, <1>2, <2>1
    DEF TakeVisited, AlreadyVisited, KnownFiles, KnownDeclarations, InBody
  <2>2. CASE TakeEntry(e)
    BY <1>1, <1>2, <2>2
    DEF TakeEntry, KnownFiles, KnownDeclarations, InBody, Following
  <2> QED
    BY <2>1, <2>2
<1>4. ExportsKnown'
  <2>1. CASE TakeVisited(e)
    BY <1>1, <1>3, <2>1 DEF TakeVisited, ExportsKnown, InBody
  <2>2. CASE TakeEntry(e)
    BY <1>1, <1>3, <2>2 DEF TakeEntry, ExportsKnown, InBody
  <2> QED
    BY <2>1, <2>2
<1> QED
  BY <1>1, <1>4 DEF AcceptInv, Traversing

LEMMA AcceptReferences ==
    ASSUME TypeOK, AcceptInv, EnqueueReferences \/ ReferencesOverLimit \/ SkipReferences
    PROVE  AcceptInv'
<1>1. phase = "references" /\ ExportsKnown /\ visitedAmbient' = {}
  BY DEF EnqueueReferences, ReferencesOverLimit, SkipReferences, AcceptInv, Traversing, secondVars
<1>2. CASE phase' \in {"limit", "unsupported"}
  BY <1>2 DEF AcceptInv, Traversing
<1>3. CASE phase' = "body"
  <2>1. UNCHANGED <<graph, entry, visited, expanded>>
    BY <1>3 DEF EnqueueReferences, ReferencesOverLimit, SkipReferences, OverLimit, firstVars
  <2>2. /\ pending \subseteq pending' /\ referenced' = referenced \cup {File}
        /\ Refs \subseteq KnownFiles'
    <3>1. CASE EnqueueReferences
      <4>1. Refs \subseteq SourceFiles
        BY <1>3, <3>1, InHand, GraphTyped DEF EnqueueReferences, Reject, Refs
      <4>2. \A f \in Refs : [declaration |-> f, expand |-> TRUE] \in pending'
        BY <1>3, <3>1 DEF EnqueueReferences, Reject, Follow
      <4> QED
        BY <1>3, <3>1, <4>1, <4>2 DEF EnqueueReferences, Reject, KnownFiles
    <3>2. CASE SkipReferences
      <4>1. KnownFiles' = KnownFiles
        BY <1>1, <1>3, <3>2 DEF SkipReferences, KnownFiles, InBody, Following, firstVars
      <4> QED
        BY <1>1, <3>2, <4>1 DEF SkipReferences, ExportsKnown, Refs, firstVars
    <3> QED
      BY <1>3, <3>1, <3>2 DEF ReferencesOverLimit, OverLimit
  <2>3. KnownFiles \subseteq KnownFiles' /\ KnownDeclarations \subseteq KnownDeclarations'
    BY <1>1, <1>3, <2>1, <2>2 DEF KnownFiles, KnownDeclarations, InBody, Following
  <2>4. ExportsKnown'
    BY <1>1, <1>3, <2>1, <2>2, <2>3 DEF ExportsKnown, InBody, File, Refs
  <2> QED
    BY <1>1, <1>3, <2>4 DEF AcceptInv, Traversing
<1> QED
  BY <1>2, <1>3 DEF EnqueueReferences, ReferencesOverLimit, SkipReferences, OverLimit, Reject

LEMMA AcceptBody ==
    ASSUME TypeOK, AcceptInv,
           ExpandSource \/ ExpandOverLimit \/ SkipExpanded \/ ScanImportTypes \/ ScanOverLimit
    PROVE  AcceptInv'
<1>1. phase = "body" /\ ExportsKnown /\ visitedAmbient' = {}
  BY DEF ExpandSource, ExpandOverLimit, SkipExpanded, ScanImportTypes, ScanOverLimit,
         AcceptInv, Traversing, secondVars
<1>2. CASE phase' \in {"limit", "unsupported"}
  BY <1>2 DEF AcceptInv, Traversing
<1>3. CASE phase' = "take"
  <2>1. UNCHANGED <<graph, entry, visited, referenced>> /\ pending \subseteq pending'
    BY <1>3 DEF ExpandSource, ExpandOverLimit, SkipExpanded, ScanImportTypes, ScanOverLimit,
                OverLimit, WalkOverLimit, Reject, firstVars
  <2>2. /\ expanded \subseteq expanded'
        /\ Following => expanded' = expanded \cup {entry.declaration}
        /\ ~Following => expanded' = expanded
    BY <1>3 DEF ExpandSource, ExpandOverLimit, SkipExpanded, ScanImportTypes, ScanOverLimit,
                OverLimit, WalkOverLimit, Reject, firstVars
  <2>3. KnownFiles \subseteq KnownFiles' /\ KnownDeclarations \subseteq KnownDeclarations'
    BY <1>1, <1>3, <2>1, <2>2 DEF KnownFiles, KnownDeclarations, InBody
  <2>4. ~Following => entry.declaration \in SourceFiles \/ entry.declaration \notin graph.dangling
    BY <1>3 DEF ExpandSource, ExpandOverLimit, SkipExpanded, ScanImportTypes, ScanOverLimit,
                WalkOverLimit, Reject
  <2>5. Following => /\ graph.stars[entry.declaration] \subseteq KnownFiles'
                     /\ graph.names[entry.declaration] \subseteq KnownDeclarations'
    <3>1. CASE ExpandSource
      <4>1. entry.declaration \in SourceFiles /\ Missing \notin ReExportsOf(entry.declaration)
        BY <1>3, <3>1 DEF ExpandSource, Following, Reject
      <4>2. /\ graph.stars[entry.declaration] \subseteq SourceFiles
            /\ graph.names[entry.declaration] \subseteq Nodes
        BY <4>1, GraphTyped DEF ReExportsOf
      <4>3. /\ \A f \in graph.stars[entry.declaration] :
                    [declaration |-> f, expand |-> TRUE] \in pending'
            /\ \A n \in graph.names[entry.declaration] :
                    [declaration |-> n, expand |-> FALSE] \in pending'
        BY <1>3, <3>1 DEF ExpandSource, Follow, Inspect, Reject
      <4> QED
        BY <4>2, <4>3 DEF KnownFiles, KnownDeclarations
    <3>2. CASE SkipExpanded
      BY <1>1, <2>3, <3>2 DEF SkipExpanded, ExportsKnown
    <3> QED
      BY <1>3, <3>1, <3>2
      DEF ExpandOverLimit, OverLimit, ScanImportTypes, ScanOverLimit
  <2>6. ExportsKnown'
    BY <1>1, <1>3, <2>1, <2>2, <2>3, <2>4, <2>5
    DEF ExportsKnown, InBody, File, Following
  <2> QED
    BY <1>1, <1>3, <2>6 DEF AcceptInv, Traversing
<1> QED
  BY <1>2, <1>3 DEF ExpandSource, ExpandOverLimit, SkipExpanded, ScanImportTypes, ScanOverLimit,
                    OverLimit, WalkOverLimit, Reject

LEMMA AcceptSecond ==
    ASSUME TypeOK, AcceptInv, FinishSource \/ Second PROVE AcceptInv'
<1>1. CASE FinishSource
  <2>1. phase = "take" /\ pending = {} /\ ExportsKnown /\ visitedAmbient' = {}
    BY <1>1 DEF FinishSource, AcceptInv, Traversing
  <2>2. CASE graph.module
    <3>1. ExportsDone /\ ExportsDone'
      <4>1. ExportsDone
        BY <2>1, <2>2, NothingPending
      <4>2. UNCHANGED <<graph, expanded, visited>>
        BY <1>1 DEF FinishSource, firstVars
      <4> QED
        BY <4>1, <4>2 DEF ExportsDone, ClosedExports, ResolvedExports, FilesIn, ReExportsOf
    <3>2. phase' = "ambient" /\ graph' = graph /\ pendingAmbient' = graph.ambient
      BY <1>1, <2>2 DEF FinishSource
    <3> QED
      BY <2>1, <3>1, <3>2 DEF AcceptInv, Traversing, AmbientKnown
  <2>3. CASE ~graph.module
    BY <1>1, <2>3 DEF FinishSource, Reject, AcceptInv, Traversing
  <2> QED
    BY <2>2, <2>3
<1>2. CASE Second
  <2>1. phase = "ambient" /\ ExportsDone /\ AmbientKnown
    BY <1>2 DEF Second, TakeVisitedAmbient, VisitAmbient, RejectAmbient, AmbientOverLimit,
                Accept, AcceptInv
  <2>2. UNCHANGED <<graph, expanded, visited>>
    BY <1>2 DEF Second, TakeVisitedAmbient, VisitAmbient, RejectAmbient, AmbientOverLimit,
                Accept, firstVars
  <2>3. ExportsDone'
    BY <2>1, <2>2 DEF ExportsDone, ClosedExports, ResolvedExports, FilesIn, ReExportsOf
  <2>4. CASE phase' \in {"limit", "unsupported"}
    BY <2>4 DEF AcceptInv, Traversing
  <2>5. ASSUME phase' \notin {"limit", "unsupported"} PROVE AmbientKnown'
    <3>1. ASSUME NEW n \in Nodes, TakeVisitedAmbient(n) PROVE AmbientKnown'
      BY <2>1, <3>1 DEF TakeVisitedAmbient, AmbientKnown, OwnRefs
    <3>2. ASSUME NEW n \in Nodes, VisitAmbient(n) PROVE AmbientKnown'
      BY <2>1, <2>5, <3>2 DEF VisitAmbient, Reject, AmbientKnown, OwnRefs
    <3>3. CASE Accept
      BY <2>1, <3>3 DEF Accept, AmbientKnown, OwnRefs, secondVars
    <3> QED
      BY <1>2, <2>5, <3>1, <3>2, <3>3
      DEF Second, RejectAmbient, AmbientOverLimit, OverLimit, WalkOverLimit, Reject
  <2>6. phase' = "accepted" => pendingAmbient' = {}
    BY <1>2, <2>1 DEF Second, TakeVisitedAmbient, VisitAmbient, RejectAmbient, AmbientOverLimit,
                      OverLimit, WalkOverLimit, Reject, Accept, secondVars
  <2>7. phase' \in {"ambient", "accepted", "limit", "unsupported"}
    BY <1>2, <2>1 DEF Second, TakeVisitedAmbient, VisitAmbient, RejectAmbient, AmbientOverLimit,
                      OverLimit, WalkOverLimit, Reject, Accept
  <2> QED
    BY <2>3, <2>4, <2>5, <2>6, <2>7 DEF AcceptInv, Traversing
<1> QED
  BY <1>1, <1>2

LEMMA AcceptSelect ==
    ASSUME TypeOK, AcceptInv, Select \/ HostFails PROVE AcceptInv'
<1>1. CASE phase' \in {"limit", "host-failure"}
  BY <1>1 DEF AcceptInv, Traversing
<1>2. CASE phase' \in {"select", "take"}
  <2>1. phase = "select" /\ UNCHANGED <<graph, firstVars, secondVars>>
    BY <1>2 DEF Select, ReserveTraversalNode, Selected, OverLimit, HostFails
  <2>2. KnownFiles' = KnownFiles /\ KnownDeclarations' = KnownDeclarations
    BY <1>2, <2>1 DEF KnownFiles, KnownDeclarations, InBody, firstVars
  <2>3. ExportsKnown'
    BY <1>2, <2>1, <2>2 DEF AcceptInv, Traversing, ExportsKnown, InBody, firstVars
  <2> QED
    BY <1>2, <2>1, <2>3 DEF AcceptInv, Traversing, secondVars
<1> QED
  BY <1>1, <1>2 DEF Select, ReserveTraversalNode, Selected, OverLimit, HostFails

LEMMA AcceptStutter == AcceptInv /\ UNCHANGED vars => AcceptInv'
<1> SUFFICES ASSUME AcceptInv, UNCHANGED vars PROVE AcceptInv'
  OBVIOUS
<1>1. UNCHANGED <<graph, phase, pending, entry, visited, expanded, referenced,
                  pendingAmbient, visitedAmbient>>
  BY DEF vars, firstVars, secondVars
<1> QED
  BY <1>1 DEF AcceptInv, Traversing, ExportsKnown, ExportsDone, AmbientKnown, KnownFiles,
              KnownDeclarations, InBody, Following, File, ClosedExports, ResolvedExports,
              FilesIn, ReExportsOf, OwnRefs

LEMMA AcceptNext == TypeOK /\ AcceptInv /\ [Next]_vars => AcceptInv'
<1> SUFFICES ASSUME TypeOK, AcceptInv, [Next]_vars PROVE AcceptInv'
  OBVIOUS
<1>1. CASE First
  BY <1>1, AcceptTake, AcceptReferences, AcceptBody, AcceptSecond DEF First
<1> QED
  BY <1>1, AcceptSelect, AcceptSecond, AcceptStutter DEF Next

\* The closed sets that AcceptedIsResolved asks for are those the traversals made.
LEMMA AcceptEnough == TypeOK /\ AcceptInv => AcceptedIsResolved
<1> SUFFICES ASSUME TypeOK, AcceptInv, phase = "accepted" PROVE AcceptedIsResolved
  BY DEF AcceptedIsResolved
<1>1. expanded \in SUBSET SourceFiles /\ visited \in SUBSET Nodes
      /\ visitedAmbient \in SUBSET Nodes /\ Missing \notin visitedAmbient
  BY GraphAssumption DEF TypeOK
<1>2. ClosedExports(expanded, visited) /\ ResolvedExports(expanded, visited)
  BY DEF AcceptInv, ExportsDone
<1>3. ClosedAmbient(visitedAmbient) /\ ResolvedAmbient(visitedAmbient)
  BY <1>1 DEF AcceptInv, AmbientKnown, ClosedAmbient, ResolvedAmbient
<1> QED
  BY <1>1, <1>2, <1>3 DEF AcceptedIsResolved

\* No partial interface: for any declarations, any budget and any order, a
\* module is accepted only when all that it leads to resolves.
THEOREM Accepted == Spec => []AcceptedIsResolved
<1>1. Init => TypeOK /\ AcceptInv
  BY InitTyped, AcceptInit
<1>2. TypeOK /\ AcceptInv /\ [Next]_vars => (TypeOK /\ AcceptInv)'
  BY NextTyped, AcceptNext
<1>3. TypeOK /\ AcceptInv => AcceptedIsResolved
  BY AcceptEnough
<1> QED
  BY <1>1, <1>2, <1>3, PTL DEF Spec

-----------------------------------------------------------------------------
(* Rejection.                                                              *)

\* What is known lies in every pair of closed sets.
ExportsWithin(E, D) ==
    /\ expanded \subseteq E
    /\ referenced \subseteq FilesIn(E, D)
    /\ \A x \in pending : IF x.expand THEN x.declaration \in E ELSE x.declaration \in D
    /\ InBody => IF entry.expand THEN entry.declaration \in E ELSE entry.declaration \in D

AmbientWithin(A) == pendingAmbient \cup visitedAmbient \subseteq A

RejectInv ==
    /\ OnlyFilesFollowed
    /\ Traversing => /\ \A E \in SUBSET SourceFiles, D \in SUBSET Nodes :
                            ClosedExports(E, D) => ExportsWithin(E, D)
                     /\ pendingAmbient = {} /\ visitedAmbient = {}
    /\ phase = "ambient" => \A A \in SUBSET Nodes : ClosedAmbient(A) => AmbientWithin(A)
    /\ RejectedIsUnresolved

\* In every pair of closed sets there is something that does not resolve.
Unresolved ==
    \A E \in SUBSET SourceFiles, D \in SUBSET Nodes :
        ClosedExports(E, D) =>
            ~ResolvedExports(E, D) \/ D \cap SourceFiles \cap graph.dangling # {}

LEMMA RejectInit == Init => RejectInv
<1> SUFFICES ASSUME Init PROVE RejectInv
  OBVIOUS
<1>1. OnlyFilesFollowed
  BY GraphAssumption DEF Init, OnlyFilesFollowed, Follow
<1>2. ASSUME NEW E \in SUBSET SourceFiles, NEW D \in SUBSET Nodes, ClosedExports(E, D)
      PROVE  ExportsWithin(E, D)
  BY <1>2 DEF Init, ClosedExports, ExportsWithin, Follow, InBody
<1> QED
  BY <1>1, <1>2 DEF Init, RejectInv, RejectedIsUnresolved, Traversing

\* The second half of the invariant does not speak of these phases.
LEMMA RejectEnds ==
    ASSUME RejectInv, OnlyFilesFollowed', phase' \in {"limit", "host-failure", "accepted"}
    PROVE  RejectInv'
  BY DEF RejectInv, RejectedIsUnresolved, Traversing

LEMMA RejectTraversing ==
    ASSUME RejectInv, OnlyFilesFollowed', phase' \in {"take", "references", "body"},
           Traversing, UNCHANGED <<graph, pendingAmbient, visitedAmbient>>,
           ASSUME NEW E \in SUBSET SourceFiles, NEW D \in SUBSET Nodes,
                  ClosedExports(E, D), ExportsWithin(E, D)
           PROVE  ExportsWithin(E, D)'
    PROVE  RejectInv'
<1>1. ASSUME NEW E \in SUBSET SourceFiles, NEW D \in SUBSET Nodes, ClosedExports(E, D)'
      PROVE  ExportsWithin(E, D)'
  <2>1. ClosedExports(E, D)
    BY <1>1 DEF ClosedExports, FilesIn
  <2>2. ExportsWithin(E, D)
    BY <2>1 DEF RejectInv
  <2> QED
    BY <2>1, <2>2
<1>2. RejectedIsUnresolved'
  BY DEF RejectedIsUnresolved
<1> QED
  BY <1>1, <1>2 DEF RejectInv, Traversing

LEMMA RejectUnsupported ==
    ASSUME RejectInv, OnlyFilesFollowed', phase' = "unsupported", graph' = graph, Unresolved
    PROVE  RejectInv'
<1>1. RejectedIsUnresolved'
  BY DEF RejectedIsUnresolved, Unresolved, ClosedExports, ResolvedExports, FilesIn, ReExportsOf
<1> QED
  BY <1>1 DEF RejectInv, Traversing

LEMMA RejectTake ==
    ASSUME TypeOK, RejectInv, NEW e \in Entries, TakeVisited(e) \/ TakeEntry(e)
    PROVE  RejectInv'
<1>1. /\ phase = "take" /\ phase' \in {"take", "references"} /\ e \in pending
      /\ UNCHANGED <<graph, expanded, referenced, pendingAmbient, visitedAmbient>>
      /\ pending' = pending \ {e}
  BY DEF TakeVisited, TakeEntry, secondVars
<1>2. phase' = "references" => entry' = e /\ visited' = visited \cup {e.declaration}
  BY <1>1 DEF TakeVisited, TakeEntry
<1>3. entry' \in {entry, e}
  BY DEF TakeVisited, TakeEntry
<1>4. OnlyFilesFollowed'
  BY <1>1, <1>2, <1>3 DEF RejectInv, OnlyFilesFollowed
<1>5. ASSUME NEW E \in SUBSET SourceFiles, NEW D \in SUBSET Nodes, ExportsWithin(E, D)
      PROVE  ExportsWithin(E, D)'
  BY <1>1, <1>2, <1>5 DEF ExportsWithin, InBody, FilesIn
<1> QED
  BY <1>1, <1>4, <1>5, RejectTraversing DEF Traversing

LEMMA RejectReferences ==
    ASSUME TypeOK, RejectInv, EnqueueReferences \/ ReferencesOverLimit \/ SkipReferences
    PROVE  RejectInv'
<1>1. /\ phase = "references"
      /\ UNCHANGED <<graph, entry, visited, expanded, pendingAmbient, visitedAmbient>>
  BY DEF EnqueueReferences, ReferencesOverLimit, SkipReferences, firstVars, secondVars
<1>2. pending' \in {pending, pending \cup Follow(Refs)}
      /\ (Missing \in Refs => pending' = pending)
  BY DEF EnqueueReferences, ReferencesOverLimit, SkipReferences, firstVars
<1>3. OnlyFilesFollowed'
  <2>1. Missing \notin Refs => Refs \subseteq SourceFiles
    BY InHand, GraphTyped DEF Refs
  <2>2. Missing \notin Refs => \A x \in Follow(Refs) : x.declaration \in SourceFiles
    BY <2>1 DEF Follow
  <2>3. \A x \in pending' \cup {entry'} : x.expand => x.declaration \in SourceFiles
    BY <1>1, <1>2, <2>2 DEF RejectInv, OnlyFilesFollowed
  <2>4. entry'.declaration \in visited'
    BY <1>1 DEF RejectInv, OnlyFilesFollowed
  <2> QED
    BY <2>3, <2>4 DEF OnlyFilesFollowed
<1>4. ASSUME NEW E \in SUBSET SourceFiles, NEW D \in SUBSET Nodes, ExportsWithin(E, D)
      PROVE  File \in FilesIn(E, D)
  <2>1. CASE entry.expand
    <3>1. entry.declaration \in E
      BY <1>1, <1>4, <2>1 DEF ExportsWithin, InBody
    <3> QED
      BY <3>1, GraphAssumption DEF File, FilesIn
  <2>2. CASE ~entry.expand
    BY <1>1, <1>4, <2>2 DEF ExportsWithin, InBody, File, FilesIn
  <2> QED
    BY <2>1, <2>2
<1>5. CASE phase' = "limit"
  BY <1>3, <1>5, RejectEnds
<1>6. CASE phase' = "unsupported"
  <2>1. Missing \in Refs
    BY <1>6 DEF EnqueueReferences, ReferencesOverLimit, OverLimit, SkipReferences
  <2>2. Unresolved
    BY <1>1, <1>4, <2>1 DEF RejectInv, Traversing, Unresolved, ResolvedExports, Refs
  <2> QED
    BY <1>1, <1>3, <1>6, <2>2, RejectUnsupported
<1>7. CASE phase' = "body"
  <2>1. referenced' \subseteq referenced \cup {File}
    BY DEF EnqueueReferences, ReferencesOverLimit, SkipReferences, firstVars
  <2>2. pending' = pending \/ (Missing \notin Refs /\ pending' = pending \cup Follow(Refs))
    BY <1>2
  <2>3. ASSUME NEW E \in SUBSET SourceFiles, NEW D \in SUBSET Nodes,
               ClosedExports(E, D), ExportsWithin(E, D)
        PROVE  ExportsWithin(E, D)'
    <3>1. File \in FilesIn(E, D)
      BY <1>4, <2>3
    <3>2. Missing \notin Refs => Refs \subseteq E
      BY <2>3, <3>1 DEF ClosedExports, Refs
    <3>3. Missing \notin Refs => \A x \in Follow(Refs) : x.expand /\ x.declaration \in E
      BY <3>2 DEF Follow
    <3>4. \A x \in pending' : IF x.expand THEN x.declaration \in E ELSE x.declaration \in D
      BY <2>2, <2>3, <3>3 DEF ExportsWithin
    <3>5. referenced' \subseteq FilesIn(E, D)
      BY <2>1, <2>3, <3>1 DEF ExportsWithin
    <3> QED
      BY <1>1, <2>3, <3>4, <3>5 DEF ExportsWithin, InBody, FilesIn
  <2> QED
    BY <1>1, <1>3, <1>7, <2>3, RejectTraversing DEF Traversing
<1> QED
  BY <1>5, <1>6, <1>7 DEF EnqueueReferences, ReferencesOverLimit, SkipReferences, OverLimit, Reject

LEMMA RejectBody ==
    ASSUME TypeOK, RejectInv,
           ExpandSource \/ ExpandOverLimit \/ SkipExpanded \/ ScanImportTypes \/ ScanOverLimit
    PROVE  RejectInv'
<1>1. /\ phase = "body"
      /\ UNCHANGED <<graph, entry, visited, referenced, pendingAmbient, visitedAmbient>>
  BY DEF ExpandSource, ExpandOverLimit, SkipExpanded, ScanImportTypes, ScanOverLimit,
         firstVars, secondVars
<1> DEFINE d == entry.declaration
           new == Follow(graph.stars[d]) \cup Inspect(graph.names[d])
<1>2. pending' = pending
      \/ (Following /\ Missing \notin ReExportsOf(d) /\ pending' = pending \cup new)
  BY DEF ExpandSource, ExpandOverLimit, SkipExpanded, ScanImportTypes, ScanOverLimit, firstVars
<1>3. OnlyFilesFollowed'
  <2>1. Following /\ Missing \notin ReExportsOf(d) => graph.stars[d] \subseteq SourceFiles
    BY GraphTyped DEF ReExportsOf, Following
  <2>2. Following /\ Missing \notin ReExportsOf(d) =>
            \A x \in new : x.expand => x.declaration \in SourceFiles
    BY <2>1 DEF Follow, Inspect
  <2>3. \A x \in pending' \cup {entry'} : x.expand => x.declaration \in SourceFiles
    BY <1>1, <1>2, <2>2 DEF RejectInv, OnlyFilesFollowed
  <2>4. entry'.declaration \in visited'
    BY <1>1 DEF RejectInv, OnlyFilesFollowed
  <2> QED
    BY <2>3, <2>4 DEF OnlyFilesFollowed
<1>4. ~Following <=> ~entry.expand
  BY DEF RejectInv, OnlyFilesFollowed, Following
<1>5. CASE phase' = "limit"
  BY <1>3, <1>5, RejectEnds
<1>6. CASE phase' = "unsupported"
  <2>1. \/ Following /\ Missing \in ReExportsOf(d)
        \/ ~Following /\ d \in graph.dangling
    BY <1>6 DEF ExpandSource, ExpandOverLimit, SkipExpanded, ScanImportTypes, ScanOverLimit,
                OverLimit, WalkOverLimit
  <2>2. ASSUME NEW E \in SUBSET SourceFiles, NEW D \in SUBSET Nodes, ClosedExports(E, D)
        PROVE  ~ResolvedExports(E, D) \/ D \cap SourceFiles \cap graph.dangling # {}
    <3>1. ExportsWithin(E, D)
      BY <1>1, <2>2 DEF RejectInv, Traversing
    <3>2. CASE Following
      BY <1>1, <1>4, <2>1, <3>1, <3>2 DEF ExportsWithin, InBody, ResolvedExports
    <3>3. CASE ~Following
      BY <1>1, <1>4, <2>1, <3>1, <3>3 DEF ExportsWithin, InBody, ResolvedExports
    <3> QED
      BY <3>2, <3>3
  <2> QED
    BY <1>1, <1>3, <1>6, <2>2, RejectUnsupported DEF Unresolved
<1>7. CASE phase' = "take"
  <2>1. ASSUME NEW E \in SUBSET SourceFiles, NEW D \in SUBSET Nodes,
               ClosedExports(E, D), ExportsWithin(E, D)
        PROVE  ExportsWithin(E, D)'
    <3>1. Following => d \in E
      BY <1>1, <1>4, <2>1 DEF ExportsWithin, InBody
    <3>2. expanded' \subseteq E
      BY <2>1, <3>1
      DEF ExpandSource, ExpandOverLimit, SkipExpanded, ScanImportTypes, ScanOverLimit,
          firstVars, ExportsWithin
    <3>3. Following /\ Missing \notin ReExportsOf(d) =>
              graph.stars[d] \subseteq E /\ graph.names[d] \subseteq D
      BY <2>1, <3>1 DEF ClosedExports, ReExportsOf
    <3>4. Following /\ Missing \notin ReExportsOf(d) =>
              \A x \in new : IF x.expand THEN x.declaration \in E ELSE x.declaration \in D
      BY <3>3 DEF Follow, Inspect
    <3>5. \A x \in pending' : IF x.expand THEN x.declaration \in E ELSE x.declaration \in D
      BY <1>2, <2>1, <3>4 DEF ExportsWithin
    <3> QED
      BY <1>1, <1>7, <2>1, <3>2, <3>5 DEF ExportsWithin, InBody, FilesIn
  <2> QED
    BY <1>1, <1>3, <1>7, <2>1, RejectTraversing DEF Traversing
<1> QED
  BY <1>5, <1>6, <1>7
  DEF ExpandSource, ExpandOverLimit, SkipExpanded, ScanImportTypes, ScanOverLimit,
      OverLimit, WalkOverLimit, Reject

LEMMA RejectFinish == TypeOK /\ RejectInv /\ FinishSource => RejectInv'
<1> SUFFICES ASSUME TypeOK, RejectInv, FinishSource PROVE RejectInv'
  OBVIOUS
<1>1. /\ phase = "take" /\ graph' = graph
      /\ UNCHANGED <<pending, entry, visited, visitedAmbient>>
  BY DEF FinishSource, firstVars
<1>2. OnlyFilesFollowed'
  <2>1. phase' \notin {"references", "body"}
    BY DEF FinishSource, Reject
  <2> QED
    BY <1>1, <2>1 DEF RejectInv, OnlyFilesFollowed
<1>3. CASE graph.module
  <2>1. phase' = "ambient" /\ pendingAmbient' = graph.ambient /\ visitedAmbient' = {}
    BY <1>1, <1>3 DEF FinishSource, RejectInv, Traversing
  <2>2. \A A \in SUBSET Nodes : ClosedAmbient(A)' => AmbientWithin(A)'
    BY <1>1, <2>1 DEF ClosedAmbient, AmbientWithin
  <2> QED
    BY <1>2, <2>1, <2>2 DEF RejectInv, RejectedIsUnresolved, Traversing
<1>4. CASE ~graph.module
  <2>1. phase' = "unsupported" /\ Unresolved
    BY <1>4 DEF FinishSource, Reject, Unresolved, ResolvedExports
  <2> QED
    BY <1>1, <1>2, <2>1, RejectUnsupported
<1> QED
  BY <1>3, <1>4

\* A visited declaration of the ambient module is in every closed set.
LEMMA RejectAmbiently ==
    ASSUME RejectInv, OnlyFilesFollowed', graph' = graph, phase = "ambient",
           phase' = "unsupported", NEW n \in pendingAmbient,
           Missing \in graph.bodies[n] \cup OwnRefs(n)
    PROVE  RejectInv'
<1>1. ASSUME NEW A \in SUBSET Nodes, ClosedAmbient(A) PROVE ~ResolvedAmbient(A)
  BY <1>1 DEF RejectInv, AmbientWithin, ResolvedAmbient
<1>2. \A A \in SUBSET Nodes : ClosedAmbient(A)' => ~ResolvedAmbient(A)'
  BY <1>1 DEF ClosedAmbient, ResolvedAmbient, OwnRefs
<1>3. RejectedIsUnresolved'
  BY <1>2 DEF RejectedIsUnresolved
<1> QED
  BY <1>3 DEF RejectInv, Traversing

LEMMA RejectSecond == TypeOK /\ RejectInv /\ Second => RejectInv'
<1> SUFFICES ASSUME TypeOK, RejectInv, Second PROVE RejectInv'
  OBVIOUS
<1>1. /\ phase = "ambient" /\ UNCHANGED <<graph, pending, entry, visited>>
      /\ phase' \in {"ambient", "accepted", "limit", "unsupported"}
  BY DEF Second, TakeVisitedAmbient, VisitAmbient, RejectAmbient, AmbientOverLimit,
         OverLimit, WalkOverLimit, Reject, Accept, firstVars
<1>2. OnlyFilesFollowed'
  BY <1>1 DEF RejectInv, OnlyFilesFollowed
<1>3. CASE phase' \in {"accepted", "limit"}
  BY <1>2, <1>3, RejectEnds
<1>4. CASE phase' = "unsupported"
  <2>1. PICK n \in pendingAmbient : Missing \in graph.bodies[n] \cup OwnRefs(n)
    BY <1>1, <1>4
    DEF Second, TakeVisitedAmbient, VisitAmbient, RejectAmbient, AmbientOverLimit,
        OverLimit, WalkOverLimit, Reject, Accept
  <2> QED
    BY <1>1, <1>2, <1>4, <2>1, RejectAmbiently
<1>5. CASE phase' = "ambient"
  <2>1. ASSUME NEW A \in SUBSET Nodes, ClosedAmbient(A), AmbientWithin(A)
        PROVE  AmbientWithin(A)'
    <3>1. ASSUME NEW n \in Nodes, TakeVisitedAmbient(n) PROVE AmbientWithin(A)'
      BY <2>1, <3>1 DEF TakeVisitedAmbient, AmbientWithin
    <3>2. ASSUME NEW n \in Nodes, VisitAmbient(n) PROVE AmbientWithin(A)'
      <4>1. Missing \notin graph.bodies[n] \cup OwnRefs(n)
        BY <1>5, <3>2 DEF VisitAmbient, Reject
      <4>2. n \in A /\ graph.bodies[n] \cup OwnRefs(n) \subseteq A
        BY <2>1, <3>2, <4>1 DEF VisitAmbient, ClosedAmbient, AmbientWithin
      <4> QED
        BY <2>1, <3>2, <4>1, <4>2 DEF VisitAmbient, AmbientWithin
    <3> QED
      BY <1>5, <3>1, <3>2
      DEF Second, RejectAmbient, AmbientOverLimit, OverLimit, WalkOverLimit, Reject, Accept
  <2>2. \A A \in SUBSET Nodes : ClosedAmbient(A)' => AmbientWithin(A)'
    <3>1. \A A \in SUBSET Nodes : ClosedAmbient(A)' => ClosedAmbient(A)
      BY <1>1 DEF ClosedAmbient, OwnRefs
    <3> QED
      BY <1>1, <2>1, <3>1 DEF RejectInv
  <2> QED
    BY <1>2, <1>5, <2>2 DEF RejectInv, RejectedIsUnresolved, Traversing
<1> QED
  BY <1>1, <1>3, <1>4, <1>5

LEMMA RejectSelect == RejectInv /\ (Select \/ HostFails) => RejectInv'
<1> SUFFICES ASSUME RejectInv, Select \/ HostFails PROVE RejectInv'
  OBVIOUS
<1>1. UNCHANGED <<graph, firstVars, secondVars>>
  BY DEF Select, ReserveTraversalNode, Selected, HostFails
<1>2. OnlyFilesFollowed'
  BY <1>1 DEF RejectInv, OnlyFilesFollowed, Select, ReserveTraversalNode, Selected, OverLimit,
              HostFails, firstVars
<1>3. CASE phase' \in {"limit", "host-failure"}
  BY <1>2, <1>3, RejectEnds
<1>4. CASE phase' \in {"select", "take"}
  <2>1. phase = "select"
    BY <1>4 DEF Select, ReserveTraversalNode, Selected, HostFails
  <2>2. \A E \in SUBSET SourceFiles, D \in SUBSET Nodes :
            ClosedExports(E, D)' => ExportsWithin(E, D)'
    BY <1>1, <1>4, <2>1
    DEF RejectInv, Traversing, ClosedExports, ExportsWithin, FilesIn, InBody, firstVars
  <2> QED
    BY <1>1, <1>2, <1>4, <2>1, <2>2
    DEF RejectInv, RejectedIsUnresolved, Traversing, secondVars
<1> QED
  BY <1>3, <1>4 DEF Select, ReserveTraversalNode, Selected, OverLimit, HostFails

LEMMA RejectStutter == RejectInv /\ UNCHANGED vars => RejectInv'
<1> SUFFICES ASSUME RejectInv, UNCHANGED vars PROVE RejectInv'
  OBVIOUS
<1>1. UNCHANGED <<graph, phase, pending, entry, visited, expanded, referenced,
                  pendingAmbient, visitedAmbient>>
  BY DEF vars, firstVars, secondVars
<1>2. OnlyFilesFollowed'
  BY <1>1 DEF RejectInv, OnlyFilesFollowed
<1>3. RejectedIsUnresolved'
  BY <1>1 DEF RejectInv, RejectedIsUnresolved, ClosedExports, ResolvedExports, FilesIn,
              ReExportsOf, ClosedAmbient, ResolvedAmbient, OwnRefs
<1>4. \A E, D : ClosedExports(E, D)' = ClosedExports(E, D)
            /\ ExportsWithin(E, D)' = ExportsWithin(E, D)
  BY <1>1 DEF ClosedExports, ExportsWithin, FilesIn, InBody
<1>5. \A A : ClosedAmbient(A)' = ClosedAmbient(A) /\ AmbientWithin(A)' = AmbientWithin(A)
  BY <1>1 DEF ClosedAmbient, AmbientWithin, OwnRefs
<1> QED
  BY <1>1, <1>2, <1>3, <1>4, <1>5 DEF RejectInv, Traversing

LEMMA RejectNext == TypeOK /\ RejectInv /\ [Next]_vars => RejectInv'
<1> SUFFICES ASSUME TypeOK, RejectInv, [Next]_vars PROVE RejectInv'
  OBVIOUS
<1>1. CASE First
  BY <1>1, RejectTake, RejectReferences, RejectBody, RejectFinish DEF First
<1> QED
  BY <1>1, RejectSelect, RejectSecond, RejectStutter DEF Next

\* For any declarations, any budget and any order, a module is rejected only
\* when something that its interface leads to does not resolve.
THEOREM Rejected == Spec => []RejectedIsUnresolved
<1>1. Init => TypeOK /\ RejectInv
  BY InitTyped, RejectInit
<1>2. TypeOK /\ RejectInv /\ [Next]_vars => (TypeOK /\ RejectInv)'
  BY NextTyped, RejectNext
<1>3. RejectInv => RejectedIsUnresolved
  BY DEF RejectInv
<1> QED
  BY <1>1, <1>2, <1>3, PTL DEF Spec

-----------------------------------------------------------------------------
(* Totals of finite sets are numbers, and grow by what is added.            *)

LEMMA IntervalCounts ==
    ASSUME NEW n \in Nat
    PROVE  IsFiniteSet(1 .. n) /\ Cardinality(1 .. n) = n
<1>1. 1 \in Int /\ n \in Int
  OBVIOUS
<1>2. IsFiniteSet(1 .. n)
  BY <1>1, FS_Interval
<1>3. Cardinality(1 .. n) = IF 1 > n THEN 0 ELSE n - 1 + 1
  BY <1>1, FS_Interval
<1>4. (IF 1 > n THEN 0 ELSE n - 1 + 1) = n
  OBVIOUS
<1> QED
  BY <1>2, <1>3, <1>4

\* A total is a number.
LEMMA TotalFinite ==
    ASSUME NEW S, IsFiniteSet(S), NEW cost, \A x \in S : cost[x] \in Nat
    PROVE  /\ IsFiniteSet(UNION {{x} \X (1 .. cost[x]) : x \in S})
           /\ Total(cost, S) \in Nat
<1> DEFINE Paying(x) == {x} \X (1 .. cost[x])
           T == {Paying(x) : x \in S}
           f == [x \in S |-> Paying(x)]
<1>1. f \in Surjection(S, T)
  BY DEF Surjection
<1>2. IsFiniteSet(T)
  BY <1>1, FS_Surjection
<1>3. ASSUME NEW x \in S PROVE IsFiniteSet(Paying(x))
  <2>1. IsFiniteSet({x})
    BY FS_Singleton
  <2>2. 1 \in Int /\ cost[x] \in Int
    OBVIOUS
  <2>3. IsFiniteSet(1 .. cost[x])
    BY <2>2, FS_Interval
  <2> QED
    BY <2>1, <2>3, FS_Product
<1>4. \A t \in T : IsFiniteSet(t)
  BY <1>3
<1>5. IsFiniteSet(UNION T)
  <2> HIDE DEF T
  <2> QED
    BY <1>2, <1>4, FS_UNION
<1> QED
  BY <1>5, FS_CardinalityType DEF Total

\* What is new adds its cost.
LEMMA TotalAdds ==
    ASSUME NEW S, IsFiniteSet(S), NEW cost, NEW y, y \notin S,
           \A x \in S \cup {y} : cost[x] \in Nat
    PROVE  Total(cost, S \cup {y}) = Total(cost, S) + cost[y]
<1> DEFINE Paid1(U) == UNION {{x} \X (1 .. cost[x]) : x \in U}
           P == Paid1(S)
           Q == {y} \X (1 .. cost[y])
<1>1. IsFiniteSet(P) /\ Cardinality(P) \in Nat
  BY TotalFinite DEF Total
<1>2. IsFiniteSet(Q) /\ Cardinality(Q) = cost[y]
  <2>1. IsFiniteSet({y}) /\ Cardinality({y}) = 1
    BY FS_Singleton
  <2>2. 1 \in Int /\ cost[y] \in Int /\ cost[y] \in Nat
    OBVIOUS
  <2>3. IsFiniteSet(1 .. cost[y]) /\ Cardinality(1 .. cost[y]) = cost[y]
    BY ONLY <2>2, IntervalCounts
  <2>4. IsFiniteSet(Q) /\ Cardinality(Q) = 1 * Cardinality(1 .. cost[y])
    BY <2>1, <2>3, FS_Product
  <2> QED
    BY <2>2, <2>3, <2>4
<1>3. P \cap Q = {}
  OBVIOUS
<1>4. Paid1(S \cup {y}) = P \cup Q
  OBVIOUS
<1>5. Cardinality(P \cup Q) = Cardinality(P) + Cardinality(Q) - Cardinality(P \cap Q)
  BY <1>1, <1>2, FS_Union
<1>6. Cardinality(P \cap Q) = 0
  BY <1>3, FS_EmptySet
<1> HIDE DEF P, Q
<1>7. Cardinality(P \cup Q) = Cardinality(P) + cost[y]
  BY <1>1, <1>2, <1>5, <1>6
<1> QED
  BY <1>4, <1>7 DEF Total, P

\* Whether an element is new or not, a total does not shrink when it is added.
LEMMA TotalGrows ==
    ASSUME NEW S, IsFiniteSet(S), NEW cost, NEW y, \A x \in S \cup {y} : cost[x] \in Nat
    PROVE  Total(cost, S \cup {y}) >= Total(cost, S)
<1>1. CASE y \in S
  <2>1. S \cup {y} = S
    BY <1>1
  <2>2. Total(cost, S) \in Nat
    BY TotalFinite
  <2>3. Total(cost, S \cup {y}) = Total(cost, S)
    BY <2>1
  <2> QED
    BY <2>2, <2>3
<1>2. CASE y \notin S
  <2>1. Total(cost, S \cup {y}) = Total(cost, S) + cost[y]
    BY <1>2, TotalAdds
  <2>2. Total(cost, S) \in Nat /\ cost[y] \in Nat
    BY TotalFinite
  <2> QED
    BY <2>1, <2>2
<1> QED
  BY <1>1, <1>2

LEMMA TotalOfNothing == \A cost : Total(cost, {}) = 0
<1>1. \A cost : UNION {{x} \X (1 .. cost[x]) : x \in {}} = {}
  OBVIOUS
<1> QED
  BY <1>1, FS_EmptySet DEF Total

-----------------------------------------------------------------------------
(* The budget.                                                             *)

RefsCost     == [f \in SourceFiles |-> Cardinality(graph.refs[f])]
AmbientCosts == [n \in Nodes |-> AmbientCost(n)]

\* The declaration in hand is recorded as visited before its syntax is walked.
Owed == IF InBody /\ ~Following THEN Size[entry.declaration] ELSE 0

Paid ==
    nodeCount + Owed <= selecting + Total(RefsCost, referenced) + Total(Statements, expanded)
                                  + Total(Size, visited) + Total(AmbientCosts, visitedAmbient)

LEMMA CostsTyped ==
    ASSUME TypeOK
    PROVE  /\ \A f \in SourceFiles : RefsCost[f] = Cardinality(graph.refs[f])
                                     /\ RefsCost[f] \in Nat
           /\ \A f \in SourceFiles : Statements[f] \in Nat
           /\ \A n \in Nodes : Size[n] \in Nat
           /\ \A n \in Nodes : AmbientCosts[n] = AmbientCost(n) /\ AmbientCosts[n] \in Nat
           /\ \A n \in Nodes : BodySize[n] \in Nat /\ BodySize[n] <= AmbientCost(n)
<1>1. \A f \in SourceFiles : Cardinality(graph.refs[f]) \in Nat
  BY RefsCounted
<1>2. \A n \in Nodes : AmbientCost(n) \in Nat
  BY OwnRefsCounted
<1>3. ASSUME NEW n \in Nodes PROVE BodySize[n] \in Nat /\ BodySize[n] <= AmbientCost(n)
  <2>1. BodySize[n] \in Nat
    BY GraphAssumption
  <2>2. Cardinality(OwnRefs(n)) \in Nat
    BY <1>1, FS_EmptySet DEF OwnRefs
  <2> QED
    BY <2>1, <2>2 DEF AmbientCost
<1> QED
  BY <1>1, <1>2, <1>3, GraphAssumption DEF RefsCost, AmbientCosts

LEMMA VisitsFinite ==
    ASSUME TypeOK
    PROVE  /\ IsFiniteSet(referenced) /\ IsFiniteSet(expanded)
           /\ IsFiniteSet(visited) /\ IsFiniteSet(visitedAmbient)
<1>1. /\ referenced \in SUBSET Nodes /\ expanded \in SUBSET Nodes
      /\ visited \in SUBSET Nodes /\ visitedAmbient \in SUBSET Nodes
  BY GraphAssumption DEF TypeOK
<1>2. IsFiniteSet(Nodes)
  BY GraphAssumption
<1>3. \A S \in SUBSET Nodes : IsFiniteSet(S)
  BY <1>2, FS_Subset
<1> QED
  BY <1>1, <1>3

LEMMA TotalsTyped ==
    ASSUME TypeOK
    PROVE  /\ Total(RefsCost, referenced) \in Nat /\ Total(Statements, expanded) \in Nat
           /\ Total(Size, visited) \in Nat /\ Total(AmbientCosts, visitedAmbient) \in Nat
           /\ Owed \in Nat
<1>1. /\ \A x \in referenced : RefsCost[x] \in Nat
      /\ \A x \in expanded : Statements[x] \in Nat
      /\ \A x \in visited : Size[x] \in Nat
      /\ \A x \in visitedAmbient : AmbientCosts[x] \in Nat
  BY CostsTyped DEF TypeOK
<1>2. Total(RefsCost, referenced) \in Nat
  BY <1>1, VisitsFinite, TotalFinite
<1>3. Total(Statements, expanded) \in Nat
  BY <1>1, VisitsFinite, TotalFinite
<1>4. Total(Size, visited) \in Nat
  BY <1>1, VisitsFinite, TotalFinite
<1>5. Total(AmbientCosts, visitedAmbient) \in Nat
  BY <1>1, VisitsFinite, TotalFinite
<1>6. Owed \in Nat
  BY InHand, CostsTyped DEF Owed
<1> QED
  BY <1>2, <1>3, <1>4, <1>5, <1>6

\* Costs are those of the graph, which never changes.
LEMMA CostsFixed ==
    ASSUME graph' = graph
    PROVE  RefsCost' = RefsCost /\ AmbientCosts' = AmbientCosts
<1>1. RefsCost' = RefsCost
  BY DEF RefsCost
<1>2. \A n \in Nodes : AmbientCost(n)' = AmbientCost(n)
  BY DEF AmbientCost, OwnRefs
<1> QED
  BY <1>1, <1>2 DEF AmbientCosts

\* What is added to a total by each of the sets that a step may extend.
LEMMA ReferencedAdds ==
    ASSUME TypeOK, NEW f \in SourceFiles, f \notin referenced
    PROVE  Total(RefsCost, referenced \cup {f})
               = Total(RefsCost, referenced) + Cardinality(graph.refs[f])
<1>1. \A x \in referenced \cup {f} : RefsCost[x] \in Nat
  BY CostsTyped DEF TypeOK
<1>2. Total(RefsCost, referenced \cup {f}) = Total(RefsCost, referenced) + RefsCost[f]
  BY <1>1, VisitsFinite, TotalAdds
<1> QED
  BY <1>2, CostsTyped

LEMMA ExpandedAdds ==
    ASSUME TypeOK, NEW f \in SourceFiles, f \notin expanded
    PROVE  Total(Statements, expanded \cup {f}) = Total(Statements, expanded) + Statements[f]
<1>1. \A x \in expanded \cup {f} : Statements[x] \in Nat
  BY CostsTyped DEF TypeOK
<1> QED
  BY <1>1, VisitsFinite, TotalAdds

LEMMA VisitedAdds ==
    ASSUME TypeOK, NEW n \in Nodes
    PROVE  /\ n \notin visited => Total(Size, visited \cup {n}) = Total(Size, visited) + Size[n]
           /\ Total(Size, visited \cup {n}) >= Total(Size, visited)
<1>1. \A x \in visited \cup {n} : Size[x] \in Nat
  BY CostsTyped DEF TypeOK
<1>2. n \notin visited => Total(Size, visited \cup {n}) = Total(Size, visited) + Size[n]
  BY <1>1, VisitsFinite, TotalAdds
<1>3. Total(Size, visited \cup {n}) >= Total(Size, visited)
  BY <1>1, VisitsFinite, TotalGrows
<1> QED
  BY <1>2, <1>3

LEMMA AmbientAdds ==
    ASSUME TypeOK, NEW n \in Nodes, n \notin visitedAmbient
    PROVE  Total(AmbientCosts, visitedAmbient \cup {n})
               = Total(AmbientCosts, visitedAmbient) + AmbientCost(n)
<1>1. \A x \in visitedAmbient \cup {n} : AmbientCosts[x] \in Nat
  BY CostsTyped DEF TypeOK
<1>2. Total(AmbientCosts, visitedAmbient \cup {n})
          = Total(AmbientCosts, visitedAmbient) + AmbientCosts[n]
  BY <1>1, VisitsFinite, TotalAdds
<1> QED
  BY <1>2, CostsTyped

\* A walk that goes over its limit has paid for no more than the syntax.
LEMMA WalkPays ==
    ASSUME TypeOK, NEW n \in Nat, NEW S, NEW d, WalkOverLimit(n, d \in S),
           phase # "limit"
    PROVE  nodeCount' <= nodeCount + n
  BY GraphAssumption DEF TypeOK, WalkOverLimit, Within

LEMMA OwedNext == ASSUME TypeOK' PROVE Owed' \in Nat
<1>1. entry'.declaration \in Nodes
  BY DEF TypeOK, Entries
<1>2. Size[entry'.declaration] \in Nat
  BY <1>1, GraphAssumption
<1> QED
  BY <1>2 DEF Owed

LEMMA TotalsTypedNext == ASSUME TypeOK' PROVE Total(Size, visited') \in Nat
<1>1. visited' \in SUBSET Nodes
  BY DEF TypeOK
<1>2. IsFiniteSet(Nodes)
  BY GraphAssumption
<1>3. IsFiniteSet(visited')
  BY <1>1, <1>2, FS_Subset
<1>4. \A x \in visited' : Size[x] \in Nat
  BY <1>1, GraphAssumption
<1> QED
  BY <1>3, <1>4, TotalFinite

\* A step that visits nothing and pays no more than it owed.
LEMMA PaidKept ==
    ASSUME TypeOK, TypeOK', Paid, graph' = graph, nodeCount' + Owed' <= nodeCount + Owed,
           UNCHANGED <<selecting, visited, expanded, referenced, visitedAmbient>>
    PROVE  Paid'
<1>1. nodeCount \in Nat /\ nodeCount' \in Nat /\ Owed \in Nat /\ Owed' \in Nat /\ selecting \in Nat
  <2>1. nodeCount \in Nat /\ nodeCount' \in Nat /\ selecting \in Nat
    BY DEF TypeOK
  <2>2. Owed \in Nat
    BY TotalsTyped
  <2>3. Owed' \in Nat
    BY OwedNext
  <2> QED
    BY <2>1, <2>2, <2>3
<1>2. /\ Total(RefsCost, referenced)' = Total(RefsCost, referenced)
      /\ Total(Statements, expanded)' = Total(Statements, expanded)
      /\ Total(Size, visited)' = Total(Size, visited)
      /\ Total(AmbientCosts, visitedAmbient)' = Total(AmbientCosts, visitedAmbient)
      /\ selecting' = selecting
  BY CostsFixed
<1> DEFINE cost == selecting + Total(RefsCost, referenced) + Total(Statements, expanded)
                             + Total(Size, visited) + Total(AmbientCosts, visitedAmbient)
<1>3. cost \in Nat
  BY <1>1, TotalsTyped
<1>4. nodeCount + Owed <= cost /\ cost' = cost
  BY <1>2 DEF Paid
<1>5. nodeCount' + Owed' <= cost'
  <2>1. \A a, b, c, d, p \in Nat : a + b <= c + d /\ c + d <= p => a + b <= p
    OBVIOUS
  <2> HIDE DEF cost
  <2> QED
    BY <1>1, <1>3, <1>4, <2>1, Zenon
<1> QED
  BY <1>5 DEF Paid

LEMMA PaidInit == Init => Paid
<1> SUFFICES ASSUME Init PROVE Paid
  OBVIOUS
<1>1. nodeCount = 0 /\ selecting = 0 /\ Owed = 0
  BY DEF Init, Owed, InBody
<1>2. /\ Total(RefsCost, referenced) = 0 /\ Total(Statements, expanded) = 0
      /\ Total(Size, visited) = 0 /\ Total(AmbientCosts, visitedAmbient) = 0
  BY TotalOfNothing DEF Init
<1> QED
  BY <1>1, <1>2 DEF Paid

LEMMA PaidSelect ==
    ASSUME TypeOK, TypeOK', Paid, Select \/ HostFails \/ FinishSource PROVE Paid'
<1>1. graph' = graph /\ UNCHANGED <<visited, expanded, referenced, visitedAmbient>>
  BY DEF Select, ReserveTraversalNode, Selected, HostFails, FinishSource, firstVars, secondVars
<1>2. Owed' = 0
  BY DEF Select, ReserveTraversalNode, Selected, OverLimit, HostFails, FinishSource, Reject,
         Owed, InBody
<1>3. nodeCount' - nodeCount = selecting' - selecting
  BY DEF TypeOK, Select, ReserveTraversalNode, Selected, OverLimit, Spend, HostFails, FinishSource
<1>4. /\ nodeCount \in Nat /\ nodeCount' \in Nat /\ selecting \in Nat /\ selecting' \in Nat
      /\ Owed \in Nat
  BY TotalsTyped DEF TypeOK
<1> QED
  BY <1>1, <1>2, <1>3, <1>4, CostsFixed, TotalsTyped DEF Paid

\* A declaration that will be walked was not visited before.
LEMMA PaidTake ==
    ASSUME TypeOK, TypeOK', Paid, NEW e \in Entries, TakeVisited(e) \/ TakeEntry(e)
    PROVE  Paid'
<1>1. /\ phase = "take" /\ graph' = graph
      /\ UNCHANGED <<nodeCount, selecting, expanded, referenced, visitedAmbient>>
  BY DEF TakeVisited, TakeEntry, secondVars
<1>2. Owed = 0
  BY <1>1 DEF Owed, InBody
<1>3. CASE TakeVisited(e)
  <2>1. Owed' = 0 /\ visited' = visited
    BY <1>1, <1>3 DEF TakeVisited, Owed, InBody
  <2>2. nodeCount' + Owed' <= nodeCount + Owed
    BY <1>1, <1>2, <2>1 DEF TypeOK
  <2> QED
    BY <1>1, <2>1, <2>2, PaidKept
<1>4. CASE TakeEntry(e)
  <2>1. e.declaration \in Nodes /\ entry' = e /\ visited' = visited \cup {e.declaration}
        /\ phase' = "references"
    BY <1>4 DEF TakeEntry, Entries
  <2>2. Total(Size, visited') >= Total(Size, visited) + Owed'
    <3>1. CASE Following'
      <4>1. Owed' = 0
        BY <3>1 DEF Owed
      <4>2. Total(Size, visited') >= Total(Size, visited)
        BY <2>1, VisitedAdds
      <4>3. Total(Size, visited) \in Nat
        BY TotalsTyped
      <4>4. Total(Size, visited') \in Nat
        BY TotalsTypedNext
      <4> QED
        BY <4>1, <4>2, <4>3, <4>4
    <3>2. CASE ~Following'
      <4>1. Owed' = Size[e.declaration]
        BY <2>1, <3>2 DEF Owed, InBody
      <4>2. e.declaration \notin visited
        BY <1>4, <2>1, <3>2 DEF TakeEntry, AlreadyVisited, Following
      <4>3. Total(Size, visited') = Total(Size, visited) + Size[e.declaration]
        BY <2>1, <4>2, VisitedAdds
      <4>4. Total(Size, visited) \in Nat /\ Size[e.declaration] \in Nat
        BY <2>1, TotalsTyped, CostsTyped
      <4> QED
        BY <4>1, <4>3, <4>4
    <3> QED
      BY <3>1, <3>2
  <2>3. /\ nodeCount \in Nat /\ selecting \in Nat /\ Owed' \in Nat
        /\ Total(Size, visited') \in Nat
    BY OwedNext, TotalsTypedNext DEF TypeOK
  <2> QED
    BY <1>1, <1>2, <2>2, <2>3, CostsFixed, TotalsTyped DEF Paid
<1> QED
  BY <1>3, <1>4

LEMMA PaidReferences ==
    ASSUME TypeOK, TypeOK', Paid, EnqueueReferences \/ ReferencesOverLimit \/ SkipReferences
    PROVE  Paid'
<1>1. /\ phase = "references" /\ graph' = graph
      /\ UNCHANGED <<selecting, entry, visited, expanded, visitedAmbient>>
      /\ phase' \in {"body", "limit", "unsupported"}
  BY DEF EnqueueReferences, ReferencesOverLimit, SkipReferences, OverLimit, Reject,
         firstVars, secondVars
<1>2. Owed' <= Owed /\ Owed' \in Nat /\ Owed \in Nat
  <2>1. Owed' \in {0, Owed}
    BY <1>1 DEF Owed, InBody, Following
  <2> QED
    BY <2>1, TotalsTyped
<1>3. nodeCount \in Nat /\ nodeCount' \in Nat /\ selecting \in Nat
  BY DEF TypeOK
<1>4. CASE SkipReferences
  <2>1. nodeCount' = nodeCount /\ referenced' = referenced
    BY <1>4 DEF SkipReferences, firstVars
  <2>2. \A a, b, c \in Nat : b <= c => a + b <= a + c
    OBVIOUS
  <2>3. nodeCount' + Owed' <= nodeCount + Owed
    BY <1>2, <1>3, <2>1, <2>2, Zenon
  <2> QED
    BY <1>1, <2>1, <2>3, PaidKept
<1>5. CASE EnqueueReferences \/ ReferencesOverLimit
  <2>1. /\ File \notin referenced /\ referenced' = referenced \cup {File}
        /\ nodeCount' = nodeCount + Cardinality(Refs)
    BY <1>5 DEF EnqueueReferences, ReferencesOverLimit, OverLimit, Spend
  <2>2. Total(RefsCost, referenced') = Total(RefsCost, referenced) + Cardinality(Refs)
    BY <2>1, InHand, ReferencedAdds DEF Refs
  <2>3. Cardinality(Refs) \in Nat
    BY InHand
  <2> QED
    BY <1>1, <1>2, <1>3, <2>1, <2>2, <2>3, CostsFixed, TotalsTyped DEF Paid
<1> QED
  BY <1>4, <1>5

LEMMA PaidExpand ==
    ASSUME TypeOK, TypeOK', Paid, ExpandSource \/ ExpandOverLimit \/ SkipExpanded
    PROVE  Paid'
<1>1. /\ Following /\ graph' = graph
      /\ UNCHANGED <<selecting, visited, referenced, visitedAmbient>>
      /\ phase' \in {"take", "limit", "unsupported"}
  BY DEF ExpandSource, ExpandOverLimit, SkipExpanded, OverLimit, Reject, firstVars, secondVars
<1>2. Owed' = 0 /\ Owed = 0
  BY <1>1 DEF Owed, InBody
<1>3. nodeCount \in Nat /\ nodeCount' \in Nat /\ selecting \in Nat
  BY DEF TypeOK
<1>4. CASE SkipExpanded
  <2>1. UNCHANGED <<nodeCount, expanded>>
    BY <1>4 DEF SkipExpanded, firstVars
  <2>2. nodeCount' + Owed' <= nodeCount + Owed
    BY <1>2, <1>3, <2>1
  <2> QED
    BY <1>1, <2>1, <2>2, PaidKept
<1>5. CASE ExpandSource \/ ExpandOverLimit
  <2> DEFINE d == entry.declaration
  <2>1. /\ d \notin expanded /\ expanded' = expanded \cup {d}
        /\ nodeCount' = nodeCount + Statements[d]
    BY <1>5 DEF ExpandSource, ExpandOverLimit, OverLimit, Spend
  <2>2. d \in SourceFiles /\ Statements[d] \in Nat
    BY <1>1, CostsTyped DEF Following
  <2>3. Total(Statements, expanded') = Total(Statements, expanded) + Statements[d]
    BY <2>1, <2>2, ExpandedAdds
  <2> HIDE DEF d
  <2> QED
    BY <1>1, <1>2, <1>3, <2>1, <2>2, <2>3, CostsFixed, TotalsTyped DEF Paid
<1> QED
  BY <1>4, <1>5

LEMMA PaidScan ==
    ASSUME TypeOK, TypeOK', Paid, ScanImportTypes \/ ScanOverLimit PROVE Paid'
<1>1. /\ phase = "body" /\ ~Following /\ graph' = graph
      /\ UNCHANGED <<selecting, visited, expanded, referenced, visitedAmbient>>
      /\ phase' \in {"take", "limit", "unsupported"}
  BY DEF ScanImportTypes, ScanOverLimit, WalkOverLimit, Reject, firstVars, secondVars
<1>2. Owed' = 0 /\ Owed = Size[entry.declaration]
  BY <1>1 DEF Owed, InBody
<1>3. Size[entry.declaration] \in Nat /\ nodeCount \in Nat /\ nodeCount' \in Nat
  BY InHand, CostsTyped DEF TypeOK
<1>4. nodeCount' <= nodeCount + Size[entry.declaration]
  <2>1. CASE ScanImportTypes
    BY <1>3, <2>1 DEF ScanImportTypes, Spend
  <2>2. CASE ScanOverLimit
    BY <1>1, <1>3, <2>2, WalkPays DEF ScanOverLimit
  <2> QED
    BY <2>1, <2>2
<1>5. nodeCount' + Owed' <= nodeCount + Owed
  BY <1>2, <1>3, <1>4
<1> QED
  BY <1>1, <1>5, PaidKept

LEMMA PaidSecond == TypeOK /\ TypeOK' /\ Paid /\ Second => Paid'
<1> SUFFICES ASSUME TypeOK, TypeOK', Paid, Second PROVE Paid'
  OBVIOUS
<1>1. /\ phase = "ambient" /\ graph' = graph
      /\ UNCHANGED <<selecting, visited, expanded, referenced>>
      /\ phase' \in {"ambient", "accepted", "limit", "unsupported"}
  BY DEF Second, TakeVisitedAmbient, VisitAmbient, RejectAmbient, AmbientOverLimit,
         OverLimit, WalkOverLimit, Reject, Accept, firstVars
<1>2. Owed = 0 /\ Owed' = 0
  BY <1>1 DEF Owed, InBody
<1>3. nodeCount \in Nat /\ nodeCount' \in Nat /\ selecting \in Nat
  BY DEF TypeOK
<1>4. CASE UNCHANGED <<nodeCount, visitedAmbient>>
  <2>1. nodeCount' + Owed' <= nodeCount + Owed
    BY <1>2, <1>3, <1>4
  <2> QED
    BY <1>1, <1>4, <2>1, PaidKept
<1>5. ASSUME NEW n \in Nodes, VisitAmbient(n) \/ RejectAmbient(n) \/ AmbientOverLimit(n)
      PROVE  Paid'
  <2>1. n \notin visitedAmbient /\ visitedAmbient' = visitedAmbient \cup {n}
    BY <1>5 DEF VisitAmbient, RejectAmbient, AmbientOverLimit
  <2>2. BodySize[n] \in Nat /\ AmbientCost(n) \in Nat /\ BodySize[n] <= AmbientCost(n)
    BY CostsTyped
  <2>3. nodeCount' <= nodeCount + AmbientCost(n)
    <3>1. CASE WalkOverLimit(BodySize[n], n \in graph.deepBody)
      BY <1>1, <1>3, <2>2, <3>1, WalkPays
    <3>2. CASE Spend(BodySize[n]) \/ Spend(AmbientCost(n))
      BY <1>3, <2>2, <3>2 DEF Spend
    <3> QED
      BY <1>5, <3>1, <3>2 DEF VisitAmbient, RejectAmbient, AmbientOverLimit, OverLimit
  <2>4. Total(AmbientCosts, visitedAmbient')
            = Total(AmbientCosts, visitedAmbient) + AmbientCost(n)
    BY <2>1, AmbientAdds
  <2> QED
    BY <1>1, <1>2, <1>3, <2>2, <2>3, <2>4, CostsFixed, TotalsTyped DEF Paid
<1> QED
  BY <1>4, <1>5 DEF Second, TakeVisitedAmbient, Accept, secondVars

LEMMA PaidNext == TypeOK /\ Paid /\ [Next]_vars => Paid'
<1> SUFFICES ASSUME TypeOK, Paid, [Next]_vars PROVE Paid'
  OBVIOUS
<1>1. TypeOK'
  BY NextTyped
<1>2. CASE First
  BY <1>1, <1>2, PaidSelect, PaidTake, PaidReferences, PaidExpand, PaidScan DEF First
<1>3. CASE UNCHANGED vars
  <2>1. /\ graph' = graph /\ Owed' = Owed
        /\ UNCHANGED <<nodeCount, selecting, visited, expanded, referenced, visitedAmbient>>
    BY <1>3 DEF vars, firstVars, secondVars, Owed, InBody, Following
  <2>2. nodeCount \in Nat /\ Owed \in Nat
    BY TotalsTyped DEF TypeOK
  <2>3. nodeCount' + Owed' <= nodeCount + Owed
    BY <2>1, <2>2
  <2> QED
    BY <1>1, <2>1, <2>3, PaidKept
<1> QED
  BY <1>1, <1>2, <1>3, PaidSelect, PaidSecond DEF Next

\* For any declarations and any order, each traversal pays for the references
\* and the statements of a file and for the syntax of a declaration once.
THEOREM Counted == Spec => []CountedOnce
<1>1. Init => TypeOK /\ Paid
  BY InitTyped, PaidInit
<1>2. TypeOK /\ Paid /\ [Next]_vars => (TypeOK /\ Paid)'
  BY NextTyped, PaidNext
<1>3. TypeOK /\ Paid => CountedOnce
  <2> SUFFICES ASSUME TypeOK, Paid PROVE CountedOnce
    OBVIOUS
  <2>1. nodeCount \in Nat /\ selecting \in Nat
    BY DEF TypeOK
  <2> DEFINE cost == selecting + Total(RefsCost, referenced) + Total(Statements, expanded)
                               + Total(Size, visited) + Total(AmbientCosts, visitedAmbient)
  <2>2. cost \in Nat
    BY <2>1, TotalsTyped
  <2>3. nodeCount + Owed <= cost
    BY DEF Paid
  <2>4. nodeCount <= cost
    <3> HIDE DEF cost
    <3> QED
      BY <2>1, <2>2, <2>3, TotalsTyped
  <2> QED
    BY <2>4 DEF CountedOnce, RefsCost, AmbientCosts
<1> QED
  BY <1>1, <1>2, <1>3, PTL DEF Spec
=============================================================================
