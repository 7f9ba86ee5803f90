--------------------------- MODULE InspectionQueries ---------------------------
(***************************************************************************)
(* What one request asks of the module it selects.                         *)
(*                                                                         *)
(* A request is one query, a plan of several, or a comparison of two       *)
(* overviews.  It is read as a whole; the analysis of a plan selects its   *)
(* module once, takes one snapshot of the exports and one of the public    *)
(* subpaths, answers the queries in order and stops at the first failure.  *)
(* All answers share one budget for their size and one for the members     *)
(* they look at.  A comparison runs two analyses at the same time.         *)
(*                                                                         *)
(* An outcome passes the outcome authority before it is delivered: it must *)
(* answer this request.  The caller may follow the cursors of a paged      *)
(* overview, or the recovery that is offered for a failure.  Packages are  *)
(* updated while all this happens.                                         *)
(*                                                                         *)
(* A name is a natural number and an index is sorted.  Sizes count items:  *)
(* an item costs one unit, an item with documentation two, and so does     *)
(* what an export is described by; every envelope costs one.               *)
(***************************************************************************)
EXTENDS Naturals, Sequences, FiniteSets, SequencesExt, FiniteSetsExt, Totals

CONSTANTS Targets,        \* a specifier and an access style each
          Modules,        \* what a target may be
          Requests,       \* what callers send, unread
          PageSize,       \* EXPORT_PAGE_SIZE
          MaxModuleExports, MaxIndexed, MaxMatches, MaxMemberCandidates, MaxMemberMatches,
          MaxSize,        \* MAX_RESULT_CONSTRUCTION_*
          MaxQueries,     \* MAX_INSPECTION_PLAN_QUERIES
          Named,          \* the names that a search matches
          Documented,     \* the names whose documentation it matches
          Start,          \* the cursor of the first page
          MaxCalls, MaxUpdates, \* bounds on requests and on updates
          None

Sides == {"before", "after"}

\* A query names its intent and selectors; None where it has none.
Query(intent, cursor, name, search, scope) ==
    [intent |-> intent, cursor |-> cursor, name |-> name, search |-> search, scope |-> scope]

Overview(cursor) == Query("overview", cursor, None, None, None)

\* A request as it is sent; some part of it may be malformed.
Request(kind, target, queries) == [kind |-> kind, target |-> target, queries |-> queries]

\* readInspectionPlanQueries, prepareComparisonCandidate: a malformed query, too
\* many of them, or a cursor in a comparison refuses the request as a whole.
IsReadable(r) ==
    /\ r.kind # "malformed"
    /\ Len(r.queries) \in 1..MaxQueries
    /\ \A i \in DOMAIN r.queries : r.queries[i].intent # "malformed"
    /\ r.kind = "comparison" => \A i \in DOMAIN r.queries : r.queries[i].cursor = None

\* What was read of a query has the selectors of its intent and no others.
IsQuery(q) ==
    \/ q = Overview(q.cursor) /\ (q.cursor \in {None, Start} \/ q.cursor.offset \in Nat)
    \/ q = Query("search", None, None, q.search, q.scope)
    \/ q = Query("subpaths", None, None, None, None)
    \/ q = Query("members", None, q.name, q.search, None)
    \/ q.intent \in {"export", "declarations"} /\ q = Query(q.intent, None, q.name, None, None)

\* Only a plan has several queries, and a comparison asks for overviews.
IsRequest(r) ==
    /\ r.kind \in {"query", "plan", "comparison"}
    /\ r.queries \in Seq(ToSet(r.queries)) /\ \A i \in DOMAIN r.queries : IsQuery(r.queries[i])
    /\ r.kind # "plan" => Len(r.queries) = 1
    /\ r.kind = "comparison" => r.queries[1].intent = "overview" /\ r.target \in [Sides -> Targets]
    /\ r.kind # "comparison" => r.target \in Targets

\* The names in order.
Sorted(S) ==
    [i \in 1..Cardinality(S) |-> CHOOSE x \in S : Cardinality({y \in S : y <= x}) = i]

\* inspectModuleExports: the sorted names.
Index(m) == Sorted(m.exports)

\* A cursor has a digest of the target, what it selected and its whole index.
Cursor(scope, index, offset) == [scope |-> scope, index |-> index, offset |-> offset]

ASSUME QueriesAssumption ==
    /\ {PageSize, MaxSize, MaxQueries} \subseteq Nat \ {0}
    /\ {MaxModuleExports, MaxIndexed, MaxMatches, MaxMemberCandidates, MaxMemberMatches} \subseteq Nat
    /\ PageSize <= MaxModuleExports
    /\ \A m \in Modules :
          /\ IsFiniteSet(m.exports) /\ m.exports \subseteq Nat
          /\ \A n \in m.exports : IsFiniteSet(m.members[n])
          /\ IsFiniteSet(m.subpaths)
    /\ \A r \in Requests : IsReadable(r) => IsRequest(r)

\* None is no module, no reason and no cursor, and the cursor of the first page
\* is not one of a later page.
ASSUME NoneAssumption ==
    /\ None \notin Modules
    /\ None \notin {"module-exports", "invalid-request", "search-candidates", "search-matches",
                     "member-matches", "export-not-found", "supporting-types",
                     "member-candidates", "result-construction"}
    /\ \A v, m \in Modules, t \in Targets :
          \A n \in 1..Cardinality(m.exports) : Cursor(<<v.identity, t>>, Index(m), n) \notin {None, Start}

VARIABLES
    installed,   \* what each target is
    updates,     \* how often that changed
    calls,       \* how many requests were sent
    request,     \* the request that was read, None between requests
    analyses,    \* the analyses of the request
    misplaced,   \* an analysis delivers the outcome of another one
    seen,        \* what each target was since the request was sent
    answer,      \* the last request and its outcome
    delivered,   \* the successes of analyses so far
    walk         \* the pages that the caller received by following cursors

vars == <<installed, updates, calls, request, analyses, misplaced, seen, answer, delivered, walk>>

Idle == [pc |-> "idle"]

Init ==
    /\ installed \in [Targets -> Modules \cup {None}]
    /\ updates = 0 /\ calls = 0
    /\ request = None
    /\ analyses = [s \in Sides |-> Idle]
    /\ misplaced = FALSE
    /\ seen = [t \in Targets |-> {installed[t]}]
    /\ answer = None
    /\ delivered = {}
    /\ walk = <<>>

-----------------------------------------------------------------------------
(* Requests and outcomes.                                                  *)

Failure(why) == [status |-> "failure", why |-> why]

\* A comparison asks the same of two targets.
SideTarget(r, s) == IF r.kind = "comparison" THEN r.target[s] ELSE r.target

ActiveSides(r) == IF r.kind = "comparison" THEN Sides ELSE {"before"}

Analysis(r, s) ==
    [pc |-> "select", target |-> SideTarget(r, s), queries |-> r.queries, plan |-> r.kind = "plan",
     identity |-> None, evidence |-> None, subpaths |-> <<>>,
     size |-> 0, members |-> 0, results |-> <<>>, outcome |-> None]

\* protocolRecoveryGuidance.
Recovery(r, outcome) ==
    IF outcome.status # "failure" \/ r.kind # "query" THEN {}
    ELSE LET q == r.queries[1]
         IN  CASE outcome.why = "supporting-types" /\ q.intent = "export" ->
                    {Request("query", r.target, <<[q EXCEPT !.intent = "declarations"]>>)}
               [] outcome.why = "export-not-found" /\ q.intent \in {"export", "declarations", "members"} ->
                    {Request("query", r.target, <<Query("search", None, None, q.name, None)>>)}
               [] OTHER -> {}

-----------------------------------------------------------------------------
(* Pages.                                                                  *)

Offset(cursor) == IF cursor = Start THEN 0 ELSE cursor.offset

\* Mutant of Continues: a cursor is only an offset.
ContinuesAnywhere(cursor, scope, index) ==
    cursor = Start \/ (cursor.offset < Len(index) /\ cursor.offset % PageSize = 0)

Continues(cursor, scope, index) ==
    cursor = Start \/ ( /\ cursor.scope = scope /\ cursor.index = index
                          /\ cursor.offset < Len(index) /\ cursor.offset % PageSize = 0 )

\* paginateExports.
PageNames(cursor, index) == SubSeq(index, Offset(cursor) + 1, Min({Offset(cursor) + PageSize, Len(index)}))

Page(cursor, scope, index) ==
    LET next == Offset(cursor) + Len(PageNames(cursor, index))
    IN  [cursor |-> cursor, total |-> Len(index),
         complete |-> Offset(cursor) = 0 /\ next = Len(index),
         next |-> IF next < Len(index) THEN Cursor(scope, index, next) ELSE None]

\* What is not paged has no cursor.
NoPage == [cursor |-> None, total |-> 0, complete |-> TRUE, next |-> None]

\* isConsistentExportPage, which the outcome authority asks of a page.
IsConsistentPage(page, count) ==
    LET offset == Offset(page.cursor)
        end    == offset + count
    IN  /\ page.cursor # Start => offset < page.total /\ offset % PageSize = 0
        /\ count = Min({PageSize, page.total - offset})
        /\ page.complete = (offset = 0 /\ end = page.total)
        /\ IF end >= page.total THEN page.next = None
           ELSE page.next # None /\ page.next.offset = end
        /\ page.next # None /\ page.cursor # Start =>
              page.next.scope = page.cursor.scope /\ page.next.index = page.cursor.index

-----------------------------------------------------------------------------
(* The answer to one query, on its own.                                    *)

Result(q, target, identity, names, subpaths, page, total) ==
    [intent |-> q.intent, target |-> target, identity |-> identity, name |-> q.name, search |-> q.search,
     scope |-> q.scope, names |-> names, subpaths |-> subpaths, page |-> page, total |-> total]

\* A result or the reason of a failure, what it costs, and whether the public
\* subpaths were read.
Answer(why, result, size, members, reads) ==
    [why |-> why, result |-> result, size |-> size, members |-> members, reads |-> reads]

Refusal(why) == Answer(why, None, 0, 0, FALSE)

AnswerOverview(q, target, identity, e, subpaths) ==
    LET index == Index(e)
        scope == <<identity, target>>
        names == IF q.cursor = None THEN index ELSE PageNames(q.cursor, index)
        page  == IF q.cursor = None THEN NoPage ELSE Page(q.cursor, scope, index)
    IN  IF Len(index) > (IF q.cursor = None THEN MaxModuleExports ELSE MaxIndexed)
        THEN Refusal("module-exports")
        ELSE IF q.cursor # None /\ ~Continues(q.cursor, scope, index) THEN Refusal("invalid-request")
        ELSE Answer(None, Result(q, target, identity, names, subpaths, page, Len(index)),
                    1 + Len(names) + Cardinality(subpaths) + (IF q.cursor = None THEN 0 ELSE 1), 0, TRUE)

\* searchModuleExports.
AnswerSearch(q, target, identity, e) ==
    LET hits == e.exports \cap (Named[q.search] \cup IF q.scope = None THEN {} ELSE Documented[q.search])
        cost == IF q.scope = None THEN 1 ELSE 2
    IN  IF Cardinality(e.exports) > MaxIndexed THEN Refusal("search-candidates")
        ELSE IF Cardinality(hits) > MaxMatches
        THEN Answer("search-matches", None, cost * MaxMatches, 0, FALSE)
        ELSE Answer(None, Result(q, target, identity, Sorted(hits), {}, NoPage, Cardinality(e.exports)),
                    1 + cost * Cardinality(hits), 0, FALSE)

\* discoverPublicMembers: every member looked at is paid for first.
AnswerMembers(q, target, identity, e) ==
    LET all  == e.members[q.name]
        hits == all \cap (IF q.search = None THEN all ELSE Named[q.search])
    IN  IF Cardinality(hits) > MaxMemberMatches
        THEN Answer("member-matches", None, 0, Cardinality(all), FALSE)
        ELSE Answer(None, Result(q, target, identity, Sorted(hits), {}, NoPage, Cardinality(all)),
                    1 + Cardinality(hits), Cardinality(all), FALSE)

\* inspectEvidenceQuery.
AnswerTo(q, target, identity, e, subpaths) ==
    CASE q.intent = "overview" -> AnswerOverview(q, target, identity, e, subpaths)
      [] q.intent = "search" -> AnswerSearch(q, target, identity, e)
      [] q.intent = "subpaths" ->
            Answer(None, Result(q, target, identity, <<>>, subpaths, NoPage, 0), 1 + Cardinality(subpaths), 0, TRUE)
      [] OTHER ->
            IF q.name \notin e.exports THEN Refusal("export-not-found")
            ELSE IF q.intent = "members" THEN AnswerMembers(q, target, identity, e)
            ELSE IF q.intent = "export" /\ q.name \in e.large
            THEN Answer("supporting-types", None, 1, 0, FALSE)
            ELSE Answer(None, Result(q, target, identity, <<q.name>>, {}, NoPage, 0), 3, 0, FALSE)

-----------------------------------------------------------------------------
(* The analysis of one side.                                               *)

Send(r) ==
    /\ calls' = calls + 1
    /\ IF IsReadable(r)
          THEN /\ request' = r
               /\ analyses' = [s \in Sides |-> IF s \in ActiveSides(r) THEN Analysis(r, s) ELSE Idle]
               /\ seen' = [t \in Targets |-> {installed[t]}]
               /\ UNCHANGED answer
          ELSE /\ answer' = [request |-> r, outcome |-> Failure("invalid-request")]
               /\ UNCHANGED <<request, analyses, seen>>
    /\ misplaced' = FALSE
    /\ UNCHANGED <<installed, updates, delivered, walk>>

Between == \A s \in Sides : analyses[s] = Idle

\* The caller sends a request of its own, the next cursor of its walk, or the
\* recovery that was offered for the last failure.
Ask ==
    /\ Between /\ calls < MaxCalls
    /\ \/ \E r \in Requests : Send(r)
       \/ /\ walk # <<>> /\ Last(walk).page.next # None
          /\ Send(Request("query", Last(walk).target, <<Overview(Last(walk).page.next)>>))
       \/ /\ answer # None
          /\ \E r \in Recovery(answer.request, answer.outcome) : Send(r)

Step(s, a) ==
    /\ analyses' = [analyses EXCEPT ![s] = a]
    /\ UNCHANGED <<installed, updates, calls, request, misplaced, seen, answer, delivered, walk>>

Ended(a, outcome) == [a EXCEPT !.pc = "ended", !.outcome = outcome]

\* selectInspectableModule: the request fails when nothing is installed.
Select(s) ==
    LET a == analyses[s] m == installed[a.target]
    IN  /\ a.pc = "select"
        /\ Step(s, IF m = None THEN Ended(a, Failure("specifier-not-found"))
                   ELSE [a EXCEPT !.pc = "prepare", !.identity = m.identity])

\* prepareQueryInspection: a request for public subpaths makes no program.
Prepare(s) ==
    LET a == analyses[s] m == installed[a.target]
        subpathsOnly == \A i \in DOMAIN a.queries : a.queries[i].intent = "subpaths"
    IN  /\ a.pc = "prepare"
        /\ Step(s, IF subpathsOnly THEN [a EXCEPT !.pc = "answer", !.evidence = m, !.subpaths = <<m.subpaths>>]
                   ELSE [a EXCEPT !.pc = "answer", !.evidence = m])

\* The query is answered from the snapshots; subpaths are read on first use.
Reading(a, m) == IF a.subpaths = <<>> THEN m.subpaths ELSE a.subpaths[1]

\* Mutant of EvidenceOf: the exports are looked up again for every query.
EvidenceOfNow(a, m) == m

EvidenceOf(a, m) == a.evidence

\* executeInspectionQueries: the first failure is the outcome.  Members are
\* paid for before they are matched, and what is built before it is kept.
AnswerNext(s) ==
    LET a == analyses[s] m == installed[a.target]
        q == a.queries[Len(a.results) + 1]
        x == AnswerTo(q, a.target, a.identity, EvidenceOf(a, m), Reading(a, m))
        b == [a EXCEPT !.size = @ + x.size, !.members = @ + x.members,
                       !.subpaths = IF x.reads THEN <<Reading(a, m)>> ELSE @]
    IN  /\ a.pc = "answer" /\ Len(a.results) < Len(a.queries)
        /\ Step(s, IF b.members > MaxMemberCandidates THEN Ended(b, Failure("member-candidates"))
                   ELSE IF b.size > MaxSize THEN Ended(b, Failure("result-construction"))
                   ELSE IF x.why # None THEN Ended(b, Failure(x.why))
                   ELSE [b EXCEPT !.results = Append(@, x.result)])

\* A plan has an envelope of its own.
Finish(s) ==
    LET a == analyses[s] size == a.size + (IF a.plan THEN 1 ELSE 0)
    IN  /\ a.pc = "answer" /\ Len(a.results) = Len(a.queries)
        /\ Step(s, Ended([a EXCEPT !.size = size],
                         IF size > MaxSize THEN Failure("result-construction")
                         ELSE [status |-> "success", plan |-> a.plan, results |-> a.results]))

\* What an analysis hands over may be the outcome of another one, kept in the
\* cache under its name.
Misplace(s) ==
    /\ analyses[s].pc = "ended" /\ ~misplaced
    /\ \E other \in delivered :
          analyses' = [analyses EXCEPT ![s].outcome = other]
    /\ misplaced' = TRUE
    /\ UNCHANGED <<installed, updates, calls, request, seen, answer, delivered, walk>>

-----------------------------------------------------------------------------
(* Delivery.                                                               *)

\* inspectionMatchesPlanQuery.
Matches(r, q, target) ==
    /\ r.intent = q.intent /\ r.target = target
    /\ CASE q.intent = "overview" -> r.page.cursor = q.cursor
         [] q.intent = "search" -> r.search = q.search /\ r.scope = q.scope
         [] q.intent = "members" -> r.name = q.name /\ r.search = q.search
         [] q.intent = "subpaths" -> TRUE
         [] OTHER -> r.name = q.name

\* inspectionMatchesIdentity.
SameIdentity(r, expected) == r.identity = expected.identity

IsConsistent(r) == r.page.cursor # None => IsConsistentPage(r.page, Len(r.names))

\* enforceAnalysisRequestOutcome.
Enforce(a) ==
    IF \/ a.outcome.status # "success"
       \/ LET rs == a.outcome.results
          IN  /\ a.outcome.plan = a.plan
              /\ Len(rs) = Len(a.queries)
              /\ \A i \in DOMAIN rs : /\ IsConsistent(rs[i])
                                      /\ SameIdentity(rs[i], rs[1])
                                      /\ Matches(rs[i], a.queries[i], a.target)
    THEN a.outcome ELSE Failure("invalid-result")

\* compareInterfaceOverviews, with a budget of its own.
Compare(before, after) ==
    LET b == ToSet(before.names) a == ToSet(after.names)
        size == 1 + Cardinality(a \ b) + Cardinality(b \ a) + Cardinality(after.subpaths \ before.subpaths)
                  + Cardinality(before.subpaths \ after.subpaths)
    IN  IF size > MaxSize THEN Failure("result-construction")
        ELSE [status |-> "success", before |-> <<before.target, before.identity>>,
              after |-> <<after.target, after.identity>>,
              added |-> a \ b, removed |-> b \ a,
              addedSubpaths |-> after.subpaths \ before.subpaths,
              removedSubpaths |-> before.subpaths \ after.subpaths]

\* Of two failures the first side's is the outcome.
Outcome ==
    LET enforced == [s \in ActiveSides(request) |-> Enforce(analyses[s])]
    IN  IF request.kind # "comparison" \/ enforced["before"].status # "success" THEN enforced["before"]
        ELSE IF enforced["after"].status # "success" THEN enforced["after"]
        ELSE Compare(enforced["before"].results[1], enforced["after"].results[1])

\* The walk of the caller: a first page begins it, the page of its next cursor
\* continues it, and a failure of that cursor ends it.
Walked(outcome) ==
    LET q == request.queries[1]
        continues == walk # <<>> /\ request.target = Last(walk).target /\ q.cursor = Last(walk).page.next
        page == [target |-> request.target, names |-> outcome.results[1].names, page |-> outcome.results[1].page,
                 identity |-> outcome.results[1].identity]
    IN  IF request.kind = "comparison" \/ q.cursor = None THEN walk
        ELSE IF outcome.status # "success" THEN (IF continues THEN <<>> ELSE walk)
        ELSE IF q.cursor = Start THEN <<page>>
        ELSE IF continues THEN Append(walk, page) ELSE walk

\* runBoundedAnalysis, executePublicInterfaceComparison: both sides are awaited.
Deliver ==
    /\ ~Between
    /\ \A s \in ActiveSides(request) : analyses[s].pc = "ended"
    /\ answer' = [request |-> request, outcome |-> Outcome]
    /\ delivered' = IF misplaced THEN delivered
                    ELSE delivered \cup {o \in {analyses[s].outcome : s \in ActiveSides(request)} : o.status = "success"}
    /\ walk' = Walked(Outcome)
    /\ request' = None
    /\ analyses' = [s \in Sides |-> Idle]
    /\ UNCHANGED <<installed, updates, calls, misplaced, seen>>

\* Another process installs or updates a package.
Update ==
    /\ updates < MaxUpdates
    /\ \E t \in Targets, m \in Modules :
          /\ installed[t] # m
          /\ installed' = [installed EXCEPT ![t] = m]
          /\ seen' = [seen EXCEPT ![t] = @ \cup {m}]
    /\ updates' = updates + 1
    /\ UNCHANGED <<calls, request, analyses, misplaced, answer, delivered, walk>>

Next == Ask \/ (\E s \in Sides : Select(s) \/ Prepare(s) \/ AnswerNext(s) \/ Finish(s) \/ Misplace(s)) \/ Deliver \/ Update

Spec == Init /\ [][Next]_vars

-----------------------------------------------------------------------------
(* Properties.                                                             *)

\* What every query says on its own when the target is v as it is selected, e as
\* its program is made and p as its subpaths are listed.
Answers(r, target, v, e, p) ==
    [i \in DOMAIN r.queries |-> AnswerTo(r.queries[i], target, v.identity, e, p.subpaths)]

SizeUpTo(xs, i)    == Total([j \in DOMAIN xs |-> xs[j].size], 1..i)
MembersUpTo(xs, i) == Total([j \in DOMAIN xs |-> xs[j].members], 1..i)

\* Why the i-th query may fail.
Reasons(xs, i) ==
    ({xs[i].why} \ {None})
    \cup (IF SizeUpTo(xs, i) > MaxSize THEN {"result-construction"} ELSE {})
    \cup (IF MembersUpTo(xs, i) > MaxMemberCandidates THEN {"member-candidates"} ELSE {})

\* What an analysis says: what its queries say, if all of it together stays
\* within the budgets, or the failure of the first.
Said(r, target, v, e, p) ==
    LET xs  == Answers(r, target, v, e, p)
        bad == {i \in DOMAIN xs : Reasons(xs, i) # {}}
    IN  IF bad # {} THEN {Failure(why) : why \in Reasons(xs, Min(bad))}
        ELSE IF r.kind = "plan" /\ SizeUpTo(xs, Len(xs)) >= MaxSize THEN {Failure("result-construction")}
        ELSE {[status |-> "success", plan |-> r.kind = "plan", results |-> [i \in DOMAIN xs |-> xs[i].result]]}

\* The outcomes for one side while its target is one of these.
OutcomesOver(r, target, states) ==
    (IF None \in states THEN {Failure("specifier-not-found")} ELSE {})
    \cup UNION {Said(r, target, v, e, p) : v, e, p \in states \ {None}}

\* A failure of the first side, or of the second when the first succeeds, or the
\* difference of two overviews.
ComparisonsOver(r, states) ==
    LET of(s) == OutcomesOver(r, r.target[s], states[r.target[s]])
        failures(s)  == {o \in of(s) : o.status = "failure"}
        successes(s) == of(s) \ failures(s)
    IN  failures("before")
        \cup (IF successes("before") # {} THEN failures("after") ELSE {})
        \cup {Compare(b.results[1], a.results[1]) : b \in successes("before"), a \in successes("after")}

OutcomesFor(r, states) ==
    IF r.kind = "comparison" THEN ComparisonsOver(r, states)
    ELSE OutcomesOver(r, r.target, states[r.target])

\* Whatever is updated meanwhile, a request is answered by what one selection,
\* one program and one list of subpaths say: a plan by what each of its queries
\* would say alone, or by the failure of the first that fails or passes a
\* budget, and a comparison by its two sides.  An outcome that was made for
\* another request is never delivered as the answer to this one
\* (executeInspectionQueries, executePublicInterfaceComparison,
\* enforceAnalysisRequestOutcome).
AnswersAreOfOneSnapshot ==
    Between /\ answer # None /\ IsReadable(answer.request) =>
        \/ answer.outcome \in OutcomesFor(answer.request, seen)
        \/ misplaced /\ \/ answer.outcome = Failure("invalid-result")
                        \/ answer.outcome \in OutcomesFor(answer.request, [t \in Targets |-> Modules \cup {None}])

\* The names of the i-th page of an index.
Block(index, i) == SubSeq(index, (i - 1) * PageSize + 1, Min({i * PageSize, Len(index)}))

\* The pages that a caller gets by following cursors from the first page are
\* the first, the second and so on of one index, up to its end: no name is
\* missing or twice, although the package may be updated between two pages
\* (paginateExports).
WalksAreComplete ==
    walk # <<>> =>
        \E m \in Modules :
           /\ \A i \in DOMAIN walk : /\ walk[i].names = Block(Index(m), i)
                                     /\ walk[i].identity = walk[1].identity
                                     /\ walk[i].page.total = Cardinality(m.exports)
           /\ Last(walk).page.next = None <=> Len(walk) * PageSize >= Cardinality(m.exports)
=============================================================================
