------------------------ MODULE InspectionQueriesProofs ------------------------
(***************************************************************************)
(* Proofs that a request is answered by one selection, one program and one *)
(* list of subpaths whatever is updated meanwhile, and that following      *)
(* cursors gives the pages of one index, for any modules, requests, sizes  *)
(* of pages and budgets.                                                   *)
(***************************************************************************)
EXTENDS InspectionQueries, FiniteSetTheorems, SequenceTheorems, TLAPS

-----------------------------------------------------------------------------
(* Numbers and sorted names.                                               *)

LEMMA LeastIsMin ==
    ASSUME NEW S \in SUBSET Nat, NEW i \in S, \A j \in S : i <= j
    PROVE  Min(S) = i
<1> DEFINE IsLeast(x) == \A y \in S : x <= y
<1>1. IsLeast(i)
  OBVIOUS
<1>2. Min(S) = CHOOSE x \in S : IsLeast(x)
  BY DEF Min
<1>3. Min(S) \in S /\ IsLeast(Min(S))
  BY <1>1, <1>2
<1>4. \A x \in S : IsLeast(x) => x <= i /\ i <= x
  OBVIOUS
<1>5. Min(S) <= i /\ i <= Min(S) /\ Min(S) \in Nat
  BY <1>3, <1>4
<1> QED
  BY <1>5

LEMMA MinOfTwo == \A i, j \in Nat : Min({i, j}) = IF i <= j THEN i ELSE j
<1> SUFFICES ASSUME NEW i \in Nat, NEW j \in Nat PROVE Min({i, j}) = IF i <= j THEN i ELSE j
  OBVIOUS
<1>1. CASE i <= j
  BY <1>1, LeastIsMin
<1>2. CASE ~(i <= j)
  <2>1. \A k \in {i, j} : j <= k
    BY <1>2
  <2> QED
    BY <1>2, <2>1, LeastIsMin
<1> QED
  BY <1>1, <1>2

\* For every finite set of names its index lists each name once and in order.
THEOREM SortedExact ==
    ASSUME NEW S \in SUBSET Nat, IsFiniteSet(S)
    PROVE  /\ Cardinality(S) \in Nat
           /\ Sorted(S) \in Seq(S)
           /\ Len(Sorted(S)) = Cardinality(S)
           /\ \A x \in S : \E i \in 1..Cardinality(S) : Sorted(S)[i] = x
           /\ \A i, j \in 1..Cardinality(S) : i < j => Sorted(S)[i] < Sorted(S)[j]
<1> DEFINE n == Cardinality(S)
           Below(x) == {y \in S : y <= x}
           rank == [x \in S |-> Cardinality(Below(x))]
<1>1. n \in Nat
  BY FS_CardinalityType
<1>2. ASSUME NEW x \in S
      PROVE  IsFiniteSet(Below(x)) /\ Cardinality(Below(x)) \in 1..n
  <2>1. Below(x) \in SUBSET S
    OBVIOUS
  <2>2. IsFiniteSet(Below(x)) /\ Cardinality(Below(x)) <= n
    BY <2>1, FS_Subset
  <2>3. Cardinality(Below(x)) \in Nat
    BY <2>2, FS_CardinalityType
  <2>4. x \in Below(x)
    OBVIOUS
  <2>5. Cardinality(Below(x)) # 0
    BY <2>2, <2>4, FS_EmptySet
  <2> QED
    BY <1>1, <2>2, <2>3, <2>5
<1>3. ASSUME NEW x \in S, NEW y \in S, x < y
      PROVE  rank[x] < rank[y]
  <2>1. Below(x) \in SUBSET Below(y)
    <3>1. \A z \in S : z \in Nat
      OBVIOUS
    <3>2. \A z \in S : z <= x => z <= y
      BY <1>3, <3>1
    <3> QED
      BY <3>2
  <2>2. y \in Below(y) /\ y \notin Below(x)
    BY <1>3
  <2>3. Below(x) # Below(y)
    BY <2>2
  <2>4. Cardinality(Below(x)) <= Cardinality(Below(y))
        /\ Cardinality(Below(x)) # Cardinality(Below(y))
    BY <1>2, <2>1, <2>3, FS_Subset
  <2> QED
    BY <1>2, <2>4
<1>4. rank \in [S -> 1..n]
  BY <1>2
<1>5. rank \in Injection(S, 1..n)
  <2>1. ASSUME NEW x \in S, NEW y \in S, rank[x] = rank[y] PROVE x = y
    <3>1. rank[x] \in Nat /\ rank[y] \in Nat
      BY <1>2
    <3>2. ~(rank[x] < rank[y]) /\ ~(rank[y] < rank[x])
      BY <2>1, <3>1
    <3>3. ~(x < y) /\ ~(y < x)
      BY <1>3, <3>2
    <3>4. x \in Nat /\ y \in Nat
      OBVIOUS
    <3> HIDE DEF rank
    <3> QED
      BY <3>3, <3>4
  <2> QED
    BY <1>4, <2>1 DEF Injection, IsInjective
<1>6. IsFiniteSet(1..n) /\ Cardinality(1..n) = n
  BY <1>1, FS_Interval
<1>7. rank \in Surjection(S, 1..n)
  <2> HIDE DEF rank
  <2> QED
    BY <1>5, <1>6, FS_Injection
<1>8. ASSUME NEW i \in 1..n PROVE Sorted(S)[i] \in S /\ rank[Sorted(S)[i]] = i
  <2>1. \E x \in S : rank[x] = i
    BY <1>7 DEF Surjection
  <2>2. \E x \in S : Cardinality(Below(x)) = i
    BY <2>1
  <2>3. Sorted(S)[i] = CHOOSE x \in S : Cardinality(Below(x)) = i
    BY DEF Sorted
  <2>4. Sorted(S)[i] \in S /\ Cardinality(Below(Sorted(S)[i])) = i
    BY <2>2, <2>3
  <2> QED
    BY <2>4
<1>9. Sorted(S) \in Seq(S) /\ Len(Sorted(S)) = n
  <2>1. Sorted(S) \in [1..n -> S]
    BY <1>8 DEF Sorted
  <2> QED
    BY <1>1, <2>1
<1>10. ASSUME NEW x \in S PROVE \E i \in 1..n : Sorted(S)[i] = x
  <2>1. rank[x] \in 1..n
    BY <1>4
  <2>2. Sorted(S)[rank[x]] \in S /\ rank[Sorted(S)[rank[x]]] = rank[x]
    BY <1>8, <2>1
  <2>3. Sorted(S)[rank[x]] = x
    BY <1>5, <2>2 DEF Injection, IsInjective
  <2> QED
    BY <2>1, <2>3
<1>11. ASSUME NEW i \in 1..n, NEW j \in 1..n, i < j PROVE Sorted(S)[i] < Sorted(S)[j]
  <2> DEFINE x == Sorted(S)[i]
             y == Sorted(S)[j]
  <2>1. x \in S /\ y \in S /\ rank[x] = i /\ rank[y] = j
    BY <1>8
  <2>2. x # y /\ ~(y < x)
    <3>1. y < x => rank[y] < rank[x]
      BY <1>3, <2>1
    <3> HIDE DEF x, y, rank
    <3> QED
      BY <1>11, <2>1, <3>1
  <2>3. x \in Nat /\ y \in Nat
    BY <2>1
  <2> HIDE DEF x, y
  <2>4. x < y
    BY <2>2, <2>3
  <2> QED
    BY <2>4 DEF x, y
<1> QED
  BY <1>1, <1>9, <1>10, <1>11

-----------------------------------------------------------------------------
(* Pages.                                                                  *)

LEMMA IndexTyped ==
    ASSUME NEW m \in Modules
    PROVE  /\ Index(m) \in Seq(Nat) /\ Len(Index(m)) = Cardinality(m.exports)
           /\ Cardinality(m.exports) \in Nat
<1>1. m.exports \in SUBSET Nat /\ IsFiniteSet(m.exports)
  BY QueriesAssumption
<1>2. Index(m) \in Seq(m.exports) /\ Len(Index(m)) = Cardinality(m.exports)
      /\ Cardinality(m.exports) \in Nat
  BY <1>1, SortedExact DEF Index
<1>3. Index(m) \in Seq(Nat)
  BY <1>1, <1>2
<1> QED
  BY <1>2, <1>3

LEMMA PageSizeTyped == PageSize \in Nat /\ PageSize >= 1
  BY QueriesAssumption

\* A cursor that may be sent.
IsCursor(cursor) == cursor = Start \/ cursor.offset \in Nat

\* Where a page begins and ends.
LEMMA PageNamesExact ==
    ASSUME NEW m \in Modules, NEW cursor, IsCursor(cursor), NEW scope,
           Continues(cursor, scope, Index(m))
    PROVE  LET o == Offset(cursor)
               c == Cardinality(m.exports)
               n == Len(PageNames(cursor, Index(m)))
           IN  /\ o \in Nat /\ o <= c /\ (cursor # Start => o < c)
               /\ n \in Nat /\ n = IF PageSize <= c - o THEN PageSize ELSE c - o
<1> DEFINE o == Offset(cursor)
           c == Cardinality(m.exports)
           k == IF o + PageSize <= c THEN o + PageSize ELSE c
           n == Len(PageNames(cursor, Index(m)))
<1>1. o \in Nat /\ o <= c /\ (cursor # Start => o < c) /\ c \in Nat
  <2>1. CASE cursor = Start
    BY <2>1, IndexTyped DEF Offset
  <2>2. CASE cursor # Start
    BY <2>2, IndexTyped DEF Offset, IsCursor, Continues
  <2> QED
    BY <2>1, <2>2
<1>2. Min({o + PageSize, Len(Index(m))}) = k
  BY <1>1, IndexTyped, PageSizeTyped, MinOfTwo
<1>3. PageNames(cursor, Index(m)) = SubSeq(Index(m), o + 1, k)
  BY <1>2 DEF PageNames
<1> HIDE DEF o, c
<1>4. o + 1 \in Int /\ k \in Int /\ k \in Nat /\ k <= c
  BY <1>1, PageSizeTyped
<1>5. \A i \in (o + 1) .. k : Index(m)[i] \in Nat
  BY <1>1, <1>4, IndexTyped DEF c
<1> HIDE DEF k
<1>6. Len(SubSeq(Index(m), o + 1, k)) = IF o + 1 <= k THEN k - (o + 1) + 1 ELSE 0
  BY <1>4, <1>5, SubSeqProperties
<1>7. n = IF PageSize <= c - o THEN PageSize ELSE c - o
  BY <1>1, <1>3, <1>4, <1>6, PageSizeTyped DEF k
<1> QED
  BY <1>1, <1>7, PageSizeTyped DEF o, c

\* What the outcome authority asks of a page holds of every page.
LEMMA PageConsistent ==
    ASSUME NEW v \in Modules, NEW m \in Modules, NEW t \in Targets,
           NEW cursor, IsCursor(cursor), Continues(cursor, <<v.identity, t>>, Index(m))
    PROVE  LET page == Page(cursor, <<v.identity, t>>, Index(m))
               end  == Offset(cursor) + Len(PageNames(cursor, Index(m)))
           IN  /\ IsConsistentPage(page, Len(PageNames(cursor, Index(m))))
               /\ page.cursor = cursor /\ page.total = Cardinality(m.exports)
               /\ page.next = IF end < Cardinality(m.exports)
                              THEN Cursor(<<v.identity, t>>, Index(m), end) ELSE None
<1> DEFINE scope == <<v.identity, t>>
           o == Offset(cursor)
           c == Cardinality(m.exports)
           n == Len(PageNames(cursor, Index(m)))
           page == Page(cursor, scope, Index(m))
<1>1. /\ o \in Nat /\ o <= c /\ (cursor # Start => o < c)
      /\ n \in Nat /\ n = IF PageSize <= c - o THEN PageSize ELSE c - o
  BY PageNamesExact
<1>2. c \in Nat /\ Len(Index(m)) = c
  BY IndexTyped
<1>3. /\ page.cursor = cursor /\ page.total = c
      /\ page.complete = (o = 0 /\ o + n = c)
      /\ page.next = IF o + n < c THEN Cursor(scope, Index(m), o + n) ELSE None
  BY <1>2 DEF Page
<1>4. o + n < c => /\ Cursor(scope, Index(m), o + n) # None
                   /\ Cursor(scope, Index(m), o + n).offset = o + n
                   /\ Cursor(scope, Index(m), o + n).scope = scope
                   /\ Cursor(scope, Index(m), o + n).index = Index(m)
  <2>1. o + n < c => o + n \in 1..c
    BY <1>1, <1>2, PageSizeTyped
  <2>2. \A k \in 1..c : Cursor(scope, Index(m), k) # None
    BY NoneAssumption
  <2> QED
    BY <2>1, <2>2 DEF Cursor
<1>5. cursor # Start => /\ o % PageSize = 0
                        /\ cursor.scope = scope /\ cursor.index = Index(m)
  BY DEF Continues, Offset
<1>6. n = Min({PageSize, c - o})
  <2>1. c - o \in Nat
    BY <1>1, <1>2
  <2> QED
    BY <1>1, <2>1, PageSizeTyped, MinOfTwo
<1> HIDE DEF o, c, n, page, scope
<1>7. o + n < c \/ o + n >= c
  BY <1>1, <1>2
<1>8. o + n < c => ~(o + n >= c)
  BY <1>1, <1>2
<1>9. o + n >= c => o + n = c
  BY <1>1, <1>2, PageSizeTyped
<1>10. IsConsistentPage(page, n)
  <2>1. Offset(page.cursor) = o
    BY <1>3 DEF o
  <2>2. IF o + n >= page.total THEN page.next = None
        ELSE page.next # None /\ page.next.offset = o + n
    BY <1>3, <1>4, <1>7, <1>8
  <2>3. page.next # None /\ page.cursor # Start =>
            page.next.scope = page.cursor.scope /\ page.next.index = page.cursor.index
    BY <1>3, <1>4, <1>5
  <2>4. page.complete = (o = 0 /\ o + n = page.total)
    BY <1>3
  <2> QED
    BY <1>1, <1>3, <1>5, <1>6, <2>1, <2>2, <2>3, <2>4 DEF IsConsistentPage
<1> QED
  BY <1>3, <1>10 DEF o, c, n, page, scope

-----------------------------------------------------------------------------
(* The answer to one query.                                                *)

LEMMA QueryFields ==
    ASSUME NEW q, IsQuery(q)
    PROVE  \/ /\ q.intent = "overview" /\ q.name = None /\ q.search = None /\ q.scope = None
              /\ q.cursor = None \/ IsCursor(q.cursor)
           \/ q.intent = "search" /\ q.cursor = None /\ q.name = None
           \/ /\ q.intent = "subpaths" /\ q.cursor = None /\ q.name = None
              /\ q.search = None /\ q.scope = None
           \/ q.intent = "members" /\ q.cursor = None /\ q.scope = None
           \/ /\ q.intent \in {"export", "declarations"}
              /\ q.cursor = None /\ q.search = None /\ q.scope = None
  BY DEF IsQuery, Overview, Query, IsCursor

LEMMA QueryIsRecord ==
    ASSUME NEW q, IsQuery(q) PROVE q = Query(q.intent, q.cursor, q.name, q.search, q.scope)
  BY DEF IsQuery, Overview, Query

\* Equal fields make equal queries.
LEMMA SameQuery ==
    ASSUME NEW q, IsQuery(q), NEW r, IsQuery(r), q.intent = r.intent, q.cursor = r.cursor,
           q.name = r.name, q.search = r.search, q.scope = r.scope
    PROVE  q = r
  BY QueryIsRecord

LEMMA CountsTyped ==
    ASSUME NEW e \in Modules
    PROVE  /\ \A X : Cardinality(e.exports \cap X) \in Nat
           /\ \A n \in e.exports : Cardinality(e.members[n]) \in Nat
           /\ \A n \in e.exports : \A X : Cardinality(e.members[n] \cap X) \in Nat
           /\ IsFiniteSet(e.subpaths) /\ Cardinality(e.subpaths) \in Nat
<1>1. \A S : IsFiniteSet(S) => Cardinality(S) \in Nat
  BY FS_CardinalityType
<1>2. \A S, X : IsFiniteSet(S) => IsFiniteSet(S \cap X)
  BY FS_Intersection
<1> QED
  BY <1>1, <1>2, QueriesAssumption

\* Every answer has a size and a number of members, and without reading the
\* public subpaths it does not depend on them.
LEMMA AnswerTyped ==
    ASSUME NEW q, IsQuery(q), NEW t \in Targets, NEW v \in Modules, NEW e \in Modules,
           NEW p \in Modules
    PROVE  LET x == AnswerTo(q, t, v.identity, e, p.subpaths)
           IN  x.size \in Nat /\ x.members \in Nat
<1> DEFINE x == AnswerTo(q, t, v.identity, e, p.subpaths)
<1>1. Refusal("module-exports").size \in Nat /\ Refusal("module-exports").members \in Nat
      /\ \A w : Refusal(w).size \in Nat /\ Refusal(w).members \in Nat
  BY DEF Refusal, Answer
<1>2. CASE q.intent = "overview"
  <2>1. x = AnswerOverview(q, t, v.identity, e, p.subpaths)
    BY <1>2 DEF AnswerTo
  <2>2. Cardinality(p.subpaths) \in Nat
    BY CountsTyped
  <2>3. Len(Index(e)) \in Nat
    BY IndexTyped
  <2>4. q.cursor # None /\ Continues(q.cursor, <<v.identity, t>>, Index(e))
            => Len(PageNames(q.cursor, Index(e))) \in Nat
    BY <1>2, QueryFields, PageNamesExact
  <2> QED
    BY <1>1, <2>1, <2>2, <2>3, <2>4 DEF AnswerOverview, Answer
<1>3. CASE q.intent = "search"
  <2> DEFINE hits == e.exports \cap
                         (Named[q.search] \cup IF q.scope = None THEN {} ELSE Documented[q.search])
             cost == IF q.scope = None THEN 1 ELSE 2
             result == Result(q, t, v.identity, Sorted(hits), {}, NoPage, Cardinality(e.exports))
  <2>1. x = AnswerSearch(q, t, v.identity, e)
    BY <1>3 DEF AnswerTo
  <2>2. \A k \in Nat : cost * k \in Nat
    OBVIOUS
  <2>3. MaxMatches \in Nat /\ Cardinality(hits) \in Nat
    BY QueriesAssumption, CountsTyped
  <2>4. \/ x = Refusal("search-candidates")
        \/ x = Answer("search-matches", None, cost * MaxMatches, 0, FALSE)
        \/ x = Answer(None, result, 1 + cost * Cardinality(hits), 0, FALSE)
    BY <2>1 DEF AnswerSearch
  <2> HIDE DEF hits, cost, result, x
  <2>5. x.size \in Nat /\ x.members \in Nat
    BY <1>1, <2>2, <2>3, <2>4 DEF Answer
  <2> QED
    BY <2>5 DEF x
<1>4. CASE q.intent = "subpaths"
  BY <1>4, CountsTyped DEF AnswerTo, Answer
<1>5. CASE q.intent = "members"
  <2>1. q.name \in e.exports => x = AnswerMembers(q, t, v.identity, e)
    BY <1>5 DEF AnswerTo
  <2>2. q.name \notin e.exports => x = Refusal("export-not-found")
    BY <1>5 DEF AnswerTo
  <2> DEFINE all == e.members[q.name]
             hits == all \cap (IF q.search = None THEN all ELSE Named[q.search])
             result == Result(q, t, v.identity, Sorted(hits), {}, NoPage, Cardinality(all))
  <2>3. q.name \in e.exports =>
            \/ x = Answer("member-matches", None, 0, Cardinality(all), FALSE)
            \/ x = Answer(None, result, 1 + Cardinality(hits), Cardinality(all), FALSE)
    BY <2>1 DEF AnswerMembers
  <2>4. q.name \in e.exports => Cardinality(all) \in Nat /\ Cardinality(hits) \in Nat
    BY CountsTyped
  <2> HIDE DEF all, hits, result, x
  <2>5. x.size \in Nat /\ x.members \in Nat
    BY <1>1, <2>2, <2>3, <2>4 DEF Answer
  <2> QED
    BY <2>5 DEF x
<1>6. CASE q.intent \in {"export", "declarations"}
  BY <1>1, <1>6 DEF AnswerTo, Answer
<1> QED
  BY <1>2, <1>3, <1>4, <1>5, <1>6, QueryFields

LEMMA AnswerReads ==
    ASSUME NEW q, IsQuery(q), NEW t, NEW id, NEW e, NEW S1, NEW S2,
           ~AnswerTo(q, t, id, e, S1).reads
    PROVE  AnswerTo(q, t, id, e, S2) = AnswerTo(q, t, id, e, S1)
<1>1. CASE q.intent = "overview"
  <2>1. AnswerTo(q, t, id, e, S1) = AnswerOverview(q, t, id, e, S1)
        /\ AnswerTo(q, t, id, e, S2) = AnswerOverview(q, t, id, e, S2)
    BY <1>1 DEF AnswerTo
  <2> DEFINE index == Index(e)
             tooMany == Len(index) > (IF q.cursor = None THEN MaxModuleExports ELSE MaxIndexed)
             stale == q.cursor # None /\ ~Continues(q.cursor, <<id, t>>, index)
  <2>2. ~tooMany /\ ~stale => AnswerOverview(q, t, id, e, S1).reads
    BY DEF AnswerOverview, Answer
  <2>3. tooMany \/ stale => AnswerOverview(q, t, id, e, S1) = AnswerOverview(q, t, id, e, S2)
    <3>1. ASSUME NEW S, tooMany PROVE AnswerOverview(q, t, id, e, S) = Refusal("module-exports")
      BY <3>1 DEF AnswerOverview
    <3>2. ASSUME NEW S, ~tooMany, stale
          PROVE  AnswerOverview(q, t, id, e, S) = Refusal("invalid-request")
      BY <3>2 DEF AnswerOverview
    <3> HIDE DEF tooMany, stale
    <3> QED
      BY <3>1, <3>2
  <2> HIDE DEF tooMany, stale
  <2> QED
    BY <2>1, <2>2, <2>3
<1>2. CASE q.intent = "subpaths"
  BY <1>2 DEF AnswerTo, Answer
<1>3. CASE q.intent \notin {"overview", "subpaths"}
  BY <1>3 DEF AnswerTo
<1> QED
  BY <1>1, <1>2, <1>3

\* The reasons for which a query alone fails are reasons.
LEMMA ReasonsAreReasons ==
    /\ "module-exports" # None /\ "invalid-request" # None /\ "search-candidates" # None
    /\ "search-matches" # None /\ "member-matches" # None /\ "export-not-found" # None
    /\ "supporting-types" # None
  BY NoneAssumption

LEMMA ResultFields ==
    ASSUME NEW q, NEW t, NEW id, NEW names, NEW subs, NEW page, NEW n
    PROVE  LET r == Result(q, t, id, names, subs, page, n)
           IN  /\ r.intent = q.intent /\ r.target = t /\ r.identity = id
               /\ r.name = q.name /\ r.search = q.search /\ r.scope = q.scope
               /\ r.names = names /\ r.subpaths = subs /\ r.page = page
  BY DEF Result

\* What a result says of the query that it answers.
Echoes(r, q, t, id) ==
    /\ r.intent = q.intent /\ r.target = t /\ r.identity = id
    /\ r.name = q.name /\ r.search = q.search /\ r.scope = q.scope
    /\ r.page.cursor = q.cursor
    /\ IsConsistent(r)

\* A page of an index.
IsPageOf(r, q, t, id, m) ==
    q.intent = "overview" /\ q.cursor # None =>
        /\ Continues(q.cursor, <<id, t>>, Index(m))
        /\ r.names = PageNames(q.cursor, Index(m))
        /\ r.page = Page(q.cursor, <<id, t>>, Index(m))

LEMMA AnswerEchoes ==
    ASSUME NEW q, IsQuery(q), NEW t \in Targets, NEW v \in Modules, NEW e \in Modules, NEW sp,
           AnswerTo(q, t, v.identity, e, sp).why = None
    PROVE  LET r == AnswerTo(q, t, v.identity, e, sp).result
           IN  Echoes(r, q, t, v.identity) /\ IsPageOf(r, q, t, v.identity, e)
<1> DEFINE id == v.identity
           x == AnswerTo(q, t, id, e, sp)
           r == x.result
<1>1. ASSUME NEW names, NEW subs, NEW n, r = Result(q, t, id, names, subs, NoPage, n),
             q.cursor = None
      PROVE  Echoes(r, q, t, id) /\ IsPageOf(r, q, t, id, e)
  BY <1>1, ResultFields DEF Echoes, IsPageOf, NoPage, IsConsistent
<1>2. CASE q.intent = "overview"
  <2> DEFINE index == Index(e)
             scope == <<id, t>>
             names == IF q.cursor = None THEN index ELSE PageNames(q.cursor, index)
             page == IF q.cursor = None THEN NoPage ELSE Page(q.cursor, scope, index)
  <2>1. x = AnswerOverview(q, t, id, e, sp)
    BY <1>2 DEF AnswerTo
  <2> DEFINE result == Result(q, t, id, names, sp, page, Len(index))
             size == 1 + Len(names) + Cardinality(sp) + (IF q.cursor = None THEN 0 ELSE 1)
  <2>2. \/ x = Refusal("module-exports") \/ x = Refusal("invalid-request")
        \/ /\ x = Answer(None, result, size, 0, TRUE)
           /\ q.cursor = None \/ Continues(q.cursor, scope, index)
    BY <2>1 DEF AnswerOverview
  <2>3. /\ r = result
        /\ q.cursor = None \/ Continues(q.cursor, scope, index)
    <3> HIDE DEF result, size, x, id
    <3> QED
      BY <2>2, ReasonsAreReasons DEF id, x, Refusal, Answer
  <2>4. CASE q.cursor = None
    BY <1>1, <2>3, <2>4
  <2>5. CASE q.cursor # None
    <3>1. IsCursor(q.cursor) /\ Continues(q.cursor, scope, index)
      BY <1>2, <2>3, <2>5, QueryFields
    <3>2. /\ IsConsistentPage(page, Len(PageNames(q.cursor, index)))
          /\ page.cursor = q.cursor
      BY <2>5, <3>1, PageConsistent
    <3>3. r.page = page /\ r.names = PageNames(q.cursor, index)
      BY <2>3, <2>5, ResultFields
    <3>4. IsConsistent(r)
      BY <3>2, <3>3 DEF IsConsistent
    <3>5. Echoes(r, q, t, id)
      BY <2>3, <3>2, <3>3, <3>4, ResultFields DEF Echoes
    <3>6. IsPageOf(r, q, t, id, e)
      BY <2>5, <3>1, <3>3 DEF IsPageOf
    <3> QED
      BY <3>5, <3>6
  <2> QED
    BY <2>4, <2>5
<1>3. CASE q.intent = "search"
  <2> DEFINE hits == e.exports \cap
                         (Named[q.search] \cup IF q.scope = None THEN {} ELSE Documented[q.search])
             cost == IF q.scope = None THEN 1 ELSE 2
             result == Result(q, t, id, Sorted(hits), {}, NoPage, Cardinality(e.exports))
  <2>1. x = AnswerSearch(q, t, id, e)
    BY <1>3 DEF AnswerTo
  <2>2. \/ x = Refusal("search-candidates")
        \/ x = Answer("search-matches", None, cost * MaxMatches, 0, FALSE)
        \/ x = Answer(None, result, 1 + cost * Cardinality(hits), 0, FALSE)
    BY <2>1 DEF AnswerSearch
  <2>3. r = result
    <3> HIDE DEF hits, cost, result, x, id
    <3> QED
      BY <2>2, ReasonsAreReasons DEF x, id, Refusal, Answer
  <2> QED
    BY <1>1, <1>3, <2>3, QueryFields
<1>4. CASE q.intent = "subpaths"
  <2>1. x = Answer(None, Result(q, t, id, <<>>, sp, NoPage, 0), 1 + Cardinality(sp), 0, TRUE)
    BY <1>4 DEF AnswerTo
  <2>2. r = Result(q, t, id, <<>>, sp, NoPage, 0)
    BY <2>1 DEF Answer
  <2> QED
    BY <1>1, <1>4, <2>2, QueryFields
<1>5. CASE q.intent = "members"
  <2> DEFINE all == e.members[q.name]
             hits == all \cap (IF q.search = None THEN all ELSE Named[q.search])
             result == Result(q, t, id, Sorted(hits), {}, NoPage, Cardinality(all))
  <2>1. x = Refusal("export-not-found") \/ x = AnswerMembers(q, t, id, e)
    BY <1>5 DEF AnswerTo
  <2>2. x = AnswerMembers(q, t, id, e) =>
            \/ x = Answer("member-matches", None, 0, Cardinality(all), FALSE)
            \/ x = Answer(None, result, 1 + Cardinality(hits), Cardinality(all), FALSE)
    BY DEF AnswerMembers
  <2>3. r = result
    <3> HIDE DEF all, hits, result, x, id
    <3> QED
      BY <2>1, <2>2, ReasonsAreReasons DEF x, id, Refusal, Answer
  <2> QED
    BY <1>1, <1>5, <2>3, QueryFields
<1>6. CASE q.intent \in {"export", "declarations"}
  <2> DEFINE result == Result(q, t, id, <<q.name>>, {}, NoPage, 0)
  <2>1. \/ x = Refusal("export-not-found") \/ x = Answer("supporting-types", None, 1, 0, FALSE)
        \/ x = Answer(None, result, 3, 0, FALSE)
    BY <1>6 DEF AnswerTo
  <2>2. r = result
    <3> HIDE DEF result, x, id
    <3> QED
      BY <2>1, ReasonsAreReasons DEF x, id, Refusal, Answer
  <2> QED
    BY <1>1, <1>6, <2>2, QueryFields
<1> QED
  BY <1>2, <1>3, <1>4, <1>5, <1>6, QueryFields

\* A result that matches a query is the answer to that query and to no other.
LEMMA MatchesExact ==
    ASSUME NEW q, IsQuery(q), NEW p, IsQuery(p), NEW t, NEW u, NEW id, NEW r,
           Echoes(r, p, u, id), Matches(r, q, t)
    PROVE  p = q /\ t = u
<1>1. r.intent = q.intent /\ r.target = t
  BY DEF Matches
<1>2. p.intent = q.intent /\ u = t
  BY <1>1 DEF Echoes
<1>3. p.name = q.name /\ p.search = q.search /\ p.scope = q.scope /\ p.cursor = q.cursor
  <2>1. CASE q.intent = "overview"
    BY <1>2, <2>1, QueryFields DEF Matches, Echoes
  <2>2. CASE q.intent = "search"
    BY <1>2, <2>2, QueryFields DEF Matches, Echoes
  <2>3. CASE q.intent = "subpaths"
    BY <1>2, <2>3, QueryFields DEF Matches, Echoes
  <2>4. CASE q.intent = "members"
    BY <1>2, <2>4, QueryFields DEF Matches, Echoes
  <2>5. CASE q.intent \in {"export", "declarations"}
    BY <1>2, <2>5, QueryFields DEF Matches, Echoes
  <2> QED
    BY <2>1, <2>2, <2>3, <2>4, <2>5, QueryFields
<1> QED
  BY <1>2, <1>3, SameQuery

LEMMA EchoesMatch ==
    ASSUME NEW q, IsQuery(q), NEW t, NEW id, NEW r, Echoes(r, q, t, id)
    PROVE  Matches(r, q, t)
  BY DEF Echoes, Matches

-----------------------------------------------------------------------------
(* Totals of finite sets are numbers, and grow by what is added.            *)

LEMMA IntervalCounts ==
    ASSUME NEW n \in Nat
    PROVE  IsFiniteSet(1 .. n) /\ Cardinality(1 .. n) = n
<1>1. 1 \in Int /\ n \in Int
  OBVIOUS
<1>2. IsFiniteSet(1 .. n)
  BY <1>1, FS_Interval
<1>3. Cardinality(1 .. n) = IF 1 > n THEN 0 ELSE n - 1 + 1
  BY <1>1, FS_Interval
<1>4. (IF 1 > n THEN 0 ELSE n - 1 + 1) = n
  OBVIOUS
<1> QED
  BY <1>2, <1>3, <1>4

\* A total is a number.
LEMMA TotalFinite ==
    ASSUME NEW S, IsFiniteSet(S), NEW cost, \A x \in S : cost[x] \in Nat
    PROVE  /\ IsFiniteSet(UNION {{x} \X (1 .. cost[x]) : x \in S})
           /\ Total(cost, S) \in Nat
<1> DEFINE Paying(x) == {x} \X (1 .. cost[x])
           T == {Paying(x) : x \in S}
           f == [x \in S |-> Paying(x)]
<1>1. f \in Surjection(S, T)
  BY DEF Surjection
<1>2. IsFiniteSet(T)
  BY <1>1, FS_Surjection
<1>3. ASSUME NEW x \in S PROVE IsFiniteSet(Paying(x))
  <2>1. IsFiniteSet({x})
    BY FS_Singleton
  <2>2. 1 \in Int /\ cost[x] \in Int
    OBVIOUS
  <2>3. IsFiniteSet(1 .. cost[x])
    BY <2>2, FS_Interval
  <2> QED
    BY <2>1, <2>3, FS_Product
<1>4. \A t \in T : IsFiniteSet(t)
  BY <1>3
<1>5. IsFiniteSet(UNION T)
  <2> HIDE DEF T
  <2> QED
    BY <1>2, <1>4, FS_UNION
<1> QED
  BY <1>5, FS_CardinalityType DEF Total

\* What is new adds its cost.
LEMMA TotalAdds ==
    ASSUME NEW S, IsFiniteSet(S), NEW cost, NEW y, y \notin S,
           \A x \in S \cup {y} : cost[x] \in Nat
    PROVE  Total(cost, S \cup {y}) = Total(cost, S) + cost[y]
<1> DEFINE Paid1(U) == UNION {{x} \X (1 .. cost[x]) : x \in U}
           P == Paid1(S)
           Q == {y} \X (1 .. cost[y])
<1>1. IsFiniteSet(P) /\ Cardinality(P) \in Nat
  BY TotalFinite DEF Total
<1>2. IsFiniteSet(Q) /\ Cardinality(Q) = cost[y]
  <2>1. IsFiniteSet({y}) /\ Cardinality({y}) = 1
    BY FS_Singleton
  <2>2. 1 \in Int /\ cost[y] \in Int /\ cost[y] \in Nat
    OBVIOUS
  <2>3. IsFiniteSet(1 .. cost[y]) /\ Cardinality(1 .. cost[y]) = cost[y]
    BY ONLY <2>2, IntervalCounts
  <2>4. IsFiniteSet(Q) /\ Cardinality(Q) = 1 * Cardinality(1 .. cost[y])
    BY <2>1, <2>3, FS_Product
  <2> QED
    BY <2>2, <2>3, <2>4
<1>3. P \cap Q = {}
  OBVIOUS
<1>4. Paid1(S \cup {y}) = P \cup Q
  OBVIOUS
<1>5. Cardinality(P \cup Q) = Cardinality(P) + Cardinality(Q) - Cardinality(P \cap Q)
  BY <1>1, <1>2, FS_Union
<1>6. Cardinality(P \cap Q) = 0
  BY <1>3, FS_EmptySet
<1> HIDE DEF P, Q
<1>7. Cardinality(P \cup Q) = Cardinality(P) + cost[y]
  BY <1>1, <1>2, <1>5, <1>6
<1> QED
  BY <1>4, <1>7 DEF Total, P

LEMMA TotalOfNothing == \A cost : Total(cost, {}) = 0
<1>1. \A cost : UNION {{x} \X (1 .. cost[x]) : x \in {}} = {}
  OBVIOUS
<1> QED
  BY <1>1, FS_EmptySet DEF Total

-----------------------------------------------------------------------------
(* What an analysis says.                                                  *)

\* A request that was read.
WasRead(r) == IsRequest(r) /\ IsReadable(r)

LEMMA ReadTyped ==
    ASSUME NEW r, WasRead(r)
    PROVE  /\ r.kind \in {"query", "plan", "comparison"}
           /\ r.queries \in Seq(ToSet(r.queries))
           /\ Len(r.queries) \in Nat /\ Len(r.queries) >= 1
           /\ DOMAIN r.queries = 1..Len(r.queries)
           /\ \A i \in 1..Len(r.queries) : IsQuery(r.queries[i])
           /\ \A s \in ActiveSides(r) : SideTarget(r, s) \in Targets
           /\ "before" \in ActiveSides(r)
           /\ r.kind # "plan" => Len(r.queries) = 1
<1>1. r.queries \in Seq(ToSet(r.queries)) /\ \A i \in DOMAIN r.queries : IsQuery(r.queries[i])
  BY DEF WasRead, IsRequest
<1>2. Len(r.queries) \in Nat /\ DOMAIN r.queries = 1..Len(r.queries)
  BY <1>1, LenProperties
<1>3. Len(r.queries) >= 1
  BY <1>2 DEF WasRead, IsReadable
<1>4. \A s \in ActiveSides(r) : SideTarget(r, s) \in Targets
  BY DEF WasRead, IsRequest, ActiveSides, SideTarget
<1>5. "before" \in ActiveSides(r)
  BY DEF ActiveSides, Sides
<1> QED
  BY <1>1, <1>2, <1>3, <1>4, <1>5 DEF WasRead, IsRequest

LEMMA AnswersTyped ==
    ASSUME NEW r, WasRead(r), NEW t \in Targets, NEW v \in Modules, NEW e \in Modules,
           NEW p \in Modules
    PROVE  LET xs == Answers(r, t, v, e, p)
           IN  /\ DOMAIN xs = 1..Len(r.queries) /\ Len(xs) = Len(r.queries)
               /\ \A i \in 1..Len(r.queries) :
                     /\ xs[i] = AnswerTo(r.queries[i], t, v.identity, e, p.subpaths)
                     /\ xs[i].size \in Nat /\ xs[i].members \in Nat
<1> DEFINE xs == Answers(r, t, v, e, p)
           n == Len(r.queries)
           T == {AnswerTo(r.queries[i], t, v.identity, e, p.subpaths) : i \in 1..n}
<1>1. n \in Nat /\ DOMAIN r.queries = 1..n
  BY ReadTyped
<1>2. xs = [i \in 1..n |-> AnswerTo(r.queries[i], t, v.identity, e, p.subpaths)]
  BY <1>1 DEF Answers
<1>3. xs \in [1..n -> T]
  BY <1>2
<1>4. xs \in Seq(T) /\ Len(xs) = n
  <2> HIDE DEF xs, T, n
  <2> QED
    BY <1>1, <1>3
<1>5. \A i \in 1..n : xs[i] = AnswerTo(r.queries[i], t, v.identity, e, p.subpaths)
  BY <1>2
<1>6. \A i \in 1..n : xs[i].size \in Nat /\ xs[i].members \in Nat
  BY <1>5, AnswerTyped, ReadTyped
<1> QED
  BY <1>2, <1>4, <1>5, <1>6

\* Sums of the first answers.
LEMMA SumStep ==
    ASSUME NEW n \in Nat, NEW cost, \A i \in 1..n : cost[i] \in Nat
    PROVE  /\ Total(cost, 1..0) = 0
           /\ \A k \in 0..n : Total(cost, 1..k) \in Nat
           /\ \A k \in 1..n : Total(cost, 1..k) = Total(cost, 1..(k - 1)) + cost[k]
<1>1. 1..0 = {}
  OBVIOUS
<1>2. \A k \in 0..n : IsFiniteSet(1..k)
  BY FS_Interval
<1>3. ASSUME NEW k \in 0..n PROVE Total(cost, 1..k) \in Nat
  <2>1. \A i \in 1..k : cost[i] \in Nat
    OBVIOUS
  <2> QED
    BY <1>2, <2>1, TotalFinite
<1>4. ASSUME NEW k \in 1..n PROVE Total(cost, 1..k) = Total(cost, 1..(k - 1)) + cost[k]
  <2>1. 1..k = (1..(k - 1)) \cup {k} /\ k \notin 1..(k - 1) /\ k - 1 \in 0..n
    OBVIOUS
  <2>2. \A i \in (1..(k - 1)) \cup {k} : cost[i] \in Nat
    BY <2>1
  <2>3. IsFiniteSet(1..(k - 1))
    BY <1>2, <2>1
  <2>4. Total(cost, (1..(k - 1)) \cup {k}) = Total(cost, 1..(k - 1)) + cost[k]
    BY ZenonT(40), <2>1, <2>2, <2>3, TotalAdds
  <2> QED
    BY <2>1, <2>4
<1> QED
  BY <1>1, <1>3, <1>4, TotalOfNothing

LEMMA SizesTyped ==
    ASSUME NEW r, WasRead(r), NEW t \in Targets, NEW v \in Modules, NEW e \in Modules,
           NEW p \in Modules
    PROVE  LET xs == Answers(r, t, v, e, p)
               n == Len(r.queries)
           IN  /\ SizeUpTo(xs, 0) = 0 /\ MembersUpTo(xs, 0) = 0
               /\ \A k \in 0..n : SizeUpTo(xs, k) \in Nat /\ MembersUpTo(xs, k) \in Nat
               /\ \A k \in 1..n : /\ SizeUpTo(xs, k) = SizeUpTo(xs, k - 1) + xs[k].size
                                  /\ MembersUpTo(xs, k) = MembersUpTo(xs, k - 1) + xs[k].members
<1> DEFINE xs == Answers(r, t, v, e, p)
           n == Len(r.queries)
           sizes == [j \in DOMAIN xs |-> xs[j].size]
           members == [j \in DOMAIN xs |-> xs[j].members]
<1>1. n \in Nat /\ DOMAIN xs = 1..n /\ \A i \in 1..n : xs[i].size \in Nat /\ xs[i].members \in Nat
  BY ReadTyped, AnswersTyped
<1>2. /\ \A i \in 1..n : sizes[i] = xs[i].size /\ sizes[i] \in Nat
      /\ \A i \in 1..n : members[i] = xs[i].members /\ members[i] \in Nat
  <2> HIDE DEF xs
  <2> QED
    BY <1>1
<1>3. \A k : SizeUpTo(xs, k) = Total(sizes, 1..k) /\ MembersUpTo(xs, k) = Total(members, 1..k)
  BY DEF SizeUpTo, MembersUpTo
<1> HIDE DEF xs, n, sizes, members
<1>4. /\ Total(sizes, 1..0) = 0
      /\ \A k \in 0..n : Total(sizes, 1..k) \in Nat
      /\ \A k \in 1..n : Total(sizes, 1..k) = Total(sizes, 1..(k - 1)) + sizes[k]
  BY <1>1, <1>2, SumStep
<1>5. /\ Total(members, 1..0) = 0
      /\ \A k \in 0..n : Total(members, 1..k) \in Nat
      /\ \A k \in 1..n : Total(members, 1..k) = Total(members, 1..(k - 1)) + members[k]
  BY <1>1, <1>2, SumStep
<1>6. /\ SizeUpTo(xs, 0) = 0 /\ MembersUpTo(xs, 0) = 0
      /\ \A k \in 0..n : SizeUpTo(xs, k) \in Nat /\ MembersUpTo(xs, k) \in Nat
      /\ \A k \in 1..n : /\ SizeUpTo(xs, k) = SizeUpTo(xs, k - 1) + xs[k].size
                         /\ MembersUpTo(xs, k) = MembersUpTo(xs, k - 1) + xs[k].members
  BY <1>2, <1>3, <1>4, <1>5
<1> QED
  BY <1>6 DEF xs, n

\* The results so far are those of the first queries, on one module each for
\* the selection, the program and the subpaths, and none of them failed.
Progress(r, a, t, v, e, p) ==
    LET xs == Answers(r, t, v, e, p)
        k  == Len(a.results)
    IN  /\ a.identity = v.identity /\ a.evidence = e
        /\ k \in 0..Len(r.queries)
        /\ a.results = [i \in 1..k |-> xs[i].result]
        /\ \A i \in 1..k : Reasons(xs, i) = {}
        /\ a.size = SizeUpTo(xs, k) /\ a.members = MembersUpTo(xs, k)

\* Why the next answer ends the analysis, if it does.
Failing(x, size, members) ==
    IF members > MaxMemberCandidates THEN "member-candidates"
    ELSE IF size > MaxSize THEN "result-construction" ELSE x.why

LEMMA LimitsTyped == MaxSize \in Nat /\ MaxMemberCandidates \in Nat /\ MaxQueries \in Nat
  BY QueriesAssumption

LEMMA LimitReasons == "member-candidates" # None /\ "result-construction" # None
  BY NoneAssumption

LEMMA ReasonOf ==
    ASSUME NEW r, WasRead(r), NEW t \in Targets, NEW v \in Modules, NEW e \in Modules,
           NEW p \in Modules, NEW k \in 1..Len(r.queries)
    PROVE  LET xs == Answers(r, t, v, e, p)
               w  == Failing(xs[k], SizeUpTo(xs, k), MembersUpTo(xs, k))
           IN  IF w # None THEN w \in Reasons(xs, k)
               ELSE /\ Reasons(xs, k) = {} /\ xs[k].why = None
                    /\ SizeUpTo(xs, k) <= MaxSize /\ MembersUpTo(xs, k) <= MaxMemberCandidates
<1> DEFINE xs == Answers(r, t, v, e, p)
<1>0. k \in 0..Len(r.queries)
  OBVIOUS
<1>1. SizeUpTo(xs, k) \in Nat /\ MembersUpTo(xs, k) \in Nat
  BY <1>0, SizesTyped
<1> DEFINE size == SizeUpTo(xs, k)
           members == MembersUpTo(xs, k)
           w == Failing(xs[k], size, members)
<1>3. /\ members > MaxMemberCandidates => w = "member-candidates"
      /\ ~(members > MaxMemberCandidates) /\ size > MaxSize => w = "result-construction"
      /\ ~(members > MaxMemberCandidates) /\ ~(size > MaxSize) => w = xs[k].why
  BY DEF Failing
<1>4. Reasons(xs, k) = ({xs[k].why} \ {None})
         \cup (IF size > MaxSize THEN {"result-construction"} ELSE {})
         \cup (IF members > MaxMemberCandidates THEN {"member-candidates"} ELSE {})
  BY DEF Reasons
<1>5. ~(members > MaxMemberCandidates) => members <= MaxMemberCandidates
  BY <1>1, LimitsTyped
<1>6. ~(size > MaxSize) => size <= MaxSize
  BY <1>1, LimitsTyped
<1> HIDE DEF xs, size, members, w
<1>2. IF w # None THEN w \in Reasons(xs, k)
      ELSE Reasons(xs, k) = {} /\ xs[k].why = None /\ size <= MaxSize /\ members <= MaxMemberCandidates
  <2>1. CASE members > MaxMemberCandidates
    BY <1>3, <1>4, <2>1, LimitReasons
  <2>2. CASE ~(members > MaxMemberCandidates) /\ size > MaxSize
    BY <1>3, <1>4, <2>2, LimitReasons
  <2>3. CASE ~(members > MaxMemberCandidates) /\ ~(size > MaxSize)
    <3>1. w = xs[k].why /\ Reasons(xs, k) = {xs[k].why} \ {None}
      BY <1>3, <1>4, <2>3
    <3> QED
      BY <1>5, <1>6, <2>3, <3>1
  <2> QED
    BY <2>1, <2>2, <2>3
<1> QED
  BY <1>2 DEF xs, w, size, members

\* The three ways in which an analysis ends, from the answers to its queries.
LEMMA SaidFails ==
    ASSUME NEW r, WasRead(r), NEW t \in Targets, NEW v \in Modules, NEW e \in Modules,
           NEW p \in Modules, NEW k \in 1..Len(r.queries),
           NEW why \in Reasons(Answers(r, t, v, e, p), k),
           \A i \in 1..Len(r.queries) : i < k => Reasons(Answers(r, t, v, e, p), i) = {}
    PROVE  Failure(why) \in Said(r, t, v, e, p)
<1> DEFINE xs == Answers(r, t, v, e, p)
           n == Len(r.queries)
           bad == {i \in DOMAIN xs : Reasons(xs, i) # {}}
<1>1. DOMAIN xs = 1..n /\ n \in Nat
  BY AnswersTyped, ReadTyped
<1>2. bad \in SUBSET Nat /\ k \in bad
  BY <1>1
<1>3. \A i \in bad : k <= i
  BY <1>1
<1>4. Min(bad) = k
  <2> HIDE DEF bad
  <2> QED
    BY <1>2, <1>3, LeastIsMin
<1>5. Said(r, t, v, e, p) = {Failure(w) : w \in Reasons(xs, Min(bad))}
  BY <1>2 DEF Said
<1> QED
  BY <1>4, <1>5

LEMMA SaidEnds ==
    ASSUME NEW r, WasRead(r), NEW t \in Targets, NEW v \in Modules, NEW e \in Modules,
           NEW p \in Modules,
           \A i \in 1..Len(r.queries) : Reasons(Answers(r, t, v, e, p), i) = {}
    PROVE  LET xs == Answers(r, t, v, e, p)
           IN  Said(r, t, v, e, p) =
                   IF r.kind = "plan" /\ SizeUpTo(xs, Len(r.queries)) >= MaxSize
                   THEN {Failure("result-construction")}
                   ELSE {[status |-> "success", plan |-> r.kind = "plan",
                          results |-> [i \in 1..Len(r.queries) |-> xs[i].result]]}
<1> DEFINE xs == Answers(r, t, v, e, p)
           bad == {i \in DOMAIN xs : Reasons(xs, i) # {}}
<1>1. DOMAIN xs = 1..Len(r.queries) /\ Len(xs) = Len(r.queries)
  BY AnswersTyped
<1>2. bad = {}
  BY <1>1
<1> QED
  BY <1>1, <1>2 DEF Said

\* A success has the answer of every query, and none of these is a refusal.
LEMMA SaidOnly ==
    ASSUME NEW r, WasRead(r), NEW t \in Targets, NEW v \in Modules, NEW e \in Modules,
           NEW p \in Modules, NEW o \in Said(r, t, v, e, p)
    PROVE  \/ \E why : o = Failure(why)
           \/ /\ o.status = "success" /\ o.plan = (r.kind = "plan")
              /\ o.results = [i \in 1..Len(r.queries) |-> Answers(r, t, v, e, p)[i].result]
              /\ \A i \in 1..Len(r.queries) : Answers(r, t, v, e, p)[i].why = None
<1> DEFINE xs == Answers(r, t, v, e, p)
           n == Len(r.queries)
           bad == {i \in DOMAIN xs : Reasons(xs, i) # {}}
<1>1. DOMAIN xs = 1..n
  BY AnswersTyped
<1>2. CASE bad # {}
  <2>1. o \in {Failure(w) : w \in Reasons(xs, Min(bad))}
    BY <1>2 DEF Said
  <2> QED
    BY <2>1
<1>3. CASE bad = {}
  <2>1. \A i \in 1..n : Reasons(xs, i) = {}
    BY <1>1, <1>3
  <2>2. \A i \in 1..n : xs[i].why = None
    BY <2>1 DEF Reasons
  <2>3. o \in IF r.kind = "plan" /\ SizeUpTo(xs, n) >= MaxSize
              THEN {Failure("result-construction")}
              ELSE {[status |-> "success", plan |-> r.kind = "plan",
                     results |-> [i \in 1..n |-> xs[i].result]]}
    BY <2>1, SaidEnds
  <2>4. \/ o = Failure("result-construction")
        \/ o = [status |-> "success", plan |-> r.kind = "plan",
                results |-> [i \in 1..n |-> xs[i].result]]
    BY <2>3
  <2> HIDE DEF xs, n
  <2> QED
    BY <2>2, <2>4 DEF xs, n
<1> QED
  BY <1>2, <1>3

LEMMA SaidStatus ==
    ASSUME NEW r, WasRead(r), NEW t \in Targets, NEW v \in Modules, NEW e \in Modules,
           NEW p \in Modules, NEW o \in Said(r, t, v, e, p)
    PROVE  (\E why : o = Failure(why)) \/ o.status = "success"
<1> DEFINE xs == Answers(r, t, v, e, p)
           n == Len(r.queries)
<1>1. \/ \E why : o = Failure(why)
      \/ /\ o.status = "success" /\ o.plan = (r.kind = "plan")
         /\ o.results = [i \in 1..n |-> xs[i].result]
         /\ \A i \in 1..n : xs[i].why = None
  BY SaidOnly
<1> HIDE DEF xs, n
<1> QED
  BY <1>1

-----------------------------------------------------------------------------
(* The steps of an analysis.                                               *)

LEMMA AppendIsFunction ==
    ASSUME NEW S, NEW s \in Seq(S), NEW x
    PROVE  Append(s, x) = [i \in 1..Len(s) + 1 |-> IF i <= Len(s) THEN s[i] ELSE x]
<1> DEFINE T == S \cup {x}
           t == Append(s, x)
<1>1. s \in Seq(T) /\ x \in T
  OBVIOUS
<1> HIDE DEF T
<1>2. /\ t \in Seq(T) /\ Len(t) = Len(s) + 1
      /\ \A i \in 1..Len(s) : t[i] = s[i]
      /\ t[Len(s) + 1] = x
  BY <1>1, AppendProperties
<1> HIDE DEF t
<1>3. t = [i \in 1..Len(t) |-> t[i]]
  BY <1>2
<1>4. \A i \in 1..Len(s) + 1 : t[i] = IF i <= Len(s) THEN s[i] ELSE x
  <2>1. Len(s) \in Nat
    OBVIOUS
  <2>2. \A i \in 1..Len(s) + 1 : i \in 1..Len(s) \/ i = Len(s) + 1
    BY <2>1
  <2> QED BY <1>2, <2>1, <2>2
<1> QED
  BY <1>2, <1>3, <1>4 DEF t

\* The next answer keeps the progress or gives the outcome.
LEMMA ProgressStep ==
    ASSUME NEW r, WasRead(r), NEW t \in Targets, NEW v \in Modules, NEW e \in Modules,
           NEW p \in Modules, NEW a, Progress(r, a, t, v, e, p),
           Len(a.results) < Len(r.queries)
    PROVE  LET k == Len(a.results) + 1
               x == AnswerTo(r.queries[k], t, a.identity, a.evidence, p.subpaths)
               w == Failing(x, a.size + x.size, a.members + x.members)
           IN  /\ x.size \in Nat /\ x.members \in Nat /\ a.size \in Nat /\ a.members \in Nat
               /\ w # None => Failure(w) \in Said(r, t, v, e, p)
               /\ \A b : /\ b.identity = a.identity /\ b.evidence = a.evidence
                          /\ b.results = Append(a.results, x.result)
                          /\ b.size = a.size + x.size /\ b.members = a.members + x.members
                          /\ w = None
                          => Progress(r, b, t, v, e, p)
<1> DEFINE xs == Answers(r, t, v, e, p)
           n == Len(r.queries)
           k == Len(a.results) + 1
           x == AnswerTo(r.queries[k], t, a.identity, a.evidence, p.subpaths)
           w == Failing(x, a.size + x.size, a.members + x.members)
<1>1. /\ a.identity = v.identity /\ a.evidence = e
      /\ Len(a.results) \in 0..n /\ n \in Nat
      /\ a.results = [i \in 1..Len(a.results) |-> xs[i].result]
      /\ \A i \in 1..Len(a.results) : Reasons(xs, i) = {}
      /\ a.size = SizeUpTo(xs, Len(a.results)) /\ a.members = MembersUpTo(xs, Len(a.results))
  BY ReadTyped DEF Progress
<1>2. k \in 1..n /\ k - 1 = Len(a.results) /\ k - 1 \in 0..n /\ k \in 0..n
  BY <1>1
<1>3. xs[k] = x
  BY <1>1, <1>2, AnswersTyped
<1>4. xs[k].size \in Nat /\ xs[k].members \in Nat
  BY <1>2, AnswersTyped
<1>5. /\ SizeUpTo(xs, k - 1) \in Nat /\ MembersUpTo(xs, k - 1) \in Nat
      /\ SizeUpTo(xs, k) = SizeUpTo(xs, k - 1) + xs[k].size
      /\ MembersUpTo(xs, k) = MembersUpTo(xs, k - 1) + xs[k].members
  <2>1. /\ \A j \in 0..n : SizeUpTo(xs, j) \in Nat /\ MembersUpTo(xs, j) \in Nat
        /\ \A j \in 1..n : /\ SizeUpTo(xs, j) = SizeUpTo(xs, j - 1) + xs[j].size
                           /\ MembersUpTo(xs, j) = MembersUpTo(xs, j - 1) + xs[j].members
    BY SizesTyped
  <2> HIDE DEF k, xs
  <2> QED
    BY <1>2, <2>1
<1>6. /\ a.size \in Nat /\ a.members \in Nat
      /\ a.size + x.size = SizeUpTo(xs, k) /\ a.members + x.members = MembersUpTo(xs, k)
  BY <1>1, <1>2, <1>3, <1>5
<1>7. w = Failing(xs[k], SizeUpTo(xs, k), MembersUpTo(xs, k))
  BY <1>3, <1>6
<1>8. IF w # None THEN w \in Reasons(xs, k) ELSE Reasons(xs, k) = {}
  BY <1>2, <1>7, ReasonOf
<1>9. \A i \in 1..n : i < k => Reasons(xs, i) = {}
  BY <1>1
<1>10. w # None => Failure(w) \in Said(r, t, v, e, p)
  <2> SUFFICES ASSUME w # None PROVE Failure(w) \in Said(r, t, v, e, p)
    OBVIOUS
  <2>1. w \in Reasons(xs, k)
    BY <1>8
  <2> HIDE DEF w, k
  <2> QED
    BY <1>2, <1>9, <2>1, SaidFails
<1>11. ASSUME NEW b, b.identity = a.identity, b.evidence = a.evidence,
              b.results = Append(a.results, x.result),
              b.size = a.size + x.size, b.members = a.members + x.members, w = None
       PROVE  Progress(r, b, t, v, e, p)
  <2>1. a.results \in Seq({xs[i].result : i \in 1..Len(a.results)})
    <3> DEFINE T == {xs[i].result : i \in 1..Len(a.results)}
    <3>1. a.results \in [1..Len(a.results) -> T]
      BY <1>1
    <3> HIDE DEF T
    <3>2. a.results \in Seq(T)
      BY <1>1, <3>1
    <3> QED
      BY <3>2 DEF T
  <2>2. Len(b.results) = k
    BY <1>11, <2>1
  <2>3. b.results = [i \in 1..k |-> xs[i].result]
    <3> HIDE DEF xs
    <3>1. b.results = [i \in 1..Len(a.results) + 1 |->
                          IF i <= Len(a.results) THEN a.results[i] ELSE x.result]
      <4> DEFINE y == x.result
      <4>1. b.results = Append(a.results, y)
        BY <1>11
      <4> HIDE DEF x, y
      <4>2. Append(a.results, y) = [i \in 1..Len(a.results) + 1 |->
                                       IF i <= Len(a.results) THEN a.results[i] ELSE y]
        BY <2>1, AppendIsFunction
      <4> QED
        BY <4>1, <4>2 DEF y
    <3>2. \A i \in 1..k : i <= Len(a.results) => a.results[i] = xs[i].result
      BY <1>1
    <3>3. \A i \in 1..k : ~(i <= Len(a.results)) => i = k
      BY <1>1
    <3> HIDE DEF x
    <3> QED
      BY <1>3, <3>1, <3>2, <3>3
  <2>4. \A i \in 1..k : Reasons(xs, i) = {}
    <3>1. Reasons(xs, k) = {}
      BY <1>8, <1>11
    <3>2. \A i \in 1..k : i < k \/ i = k
      BY <1>1
    <3> QED
      BY <1>1, <1>9, <3>1, <3>2
  <2>5. b.size = SizeUpTo(xs, k) /\ b.members = MembersUpTo(xs, k)
    BY <1>6, <1>11
  <2> HIDE DEF xs, k
  <2> QED
    BY <1>1, <1>2, <1>11, <2>2, <2>3, <2>4, <2>5 DEF Progress, xs
<1>12. x.size \in Nat /\ x.members \in Nat
  BY <1>3, <1>4
<1> QED
  BY <1>6, <1>10, <1>11, <1>12

-----------------------------------------------------------------------------
(* The inductive invariant.                                                *)

Fields == {"pc", "target", "queries", "plan", "identity", "evidence", "subpaths",
           "size", "members", "results", "outcome"}

\* The analysis selected v, made the program of e and, once it read them, lists
\* the subpaths of p, all of which its target was since the request was sent.
Answering(r, a, t, S) ==
    \E v, e \in S \ {None} :
       \/ a.subpaths = <<>> /\ \A p \in Modules : Progress(r, a, t, v, e, p)
       \/ \E p \in S \ {None} : a.subpaths = <<p.subpaths>> /\ Progress(r, a, t, v, e, p)

\* What is known of the analysis a of target t for the request r while the
\* target was one of S, and now is m, when outcomes in F may be taken for its.
AnalysisInv(r, a, t, S, m, F) ==
    /\ DOMAIN a = Fields
    /\ a.target = t /\ a.queries = r.queries /\ a.plan = (r.kind = "plan")
    /\ a.pc \in {"select", "prepare", "answer", "ended"}
    /\ a.pc \in {"select", "prepare"} =>
          a.size = 0 /\ a.members = 0 /\ a.results = <<>> /\ a.subpaths = <<>>
    /\ a.pc \in {"prepare", "answer"} => m # None
    /\ a.pc = "prepare" => \E v \in S \ {None} : a.identity = v.identity
    /\ a.pc = "answer" => Answering(r, a, t, S)
    /\ a.pc = "ended" => a.outcome \in OutcomesOver(r, t, S) \cup F

Foreign == IF misplaced THEN delivered ELSE {}

Typed ==
    /\ installed \in [Targets -> Modules \cup {None}]
    /\ seen \in [Targets -> SUBSET (Modules \cup {None})]
    /\ \A t \in Targets : installed[t] \in seen[t]
    /\ misplaced \in BOOLEAN
    /\ analyses = [s \in Sides |-> analyses[s]]

Busy ==
    Between \/ /\ WasRead(request)
               /\ \A s \in Sides \ ActiveSides(request) : analyses[s] = Idle
               /\ \A s \in ActiveSides(request) :
                     LET t == SideTarget(request, s)
                     IN  AnalysisInv(request, analyses[s], t, seen[t], installed[t], Foreign)

\* A success that was delivered is what some request is answered by.
Deliveries ==
    \A o \in delivered :
       \E r : /\ WasRead(r) /\ o.status = "success"
              /\ \E t \in Targets, v, e, p \in Modules : o \in Said(r, t, v, e, p)

AnswerInv ==
    answer # None => IF IsReadable(answer.request) THEN IsRequest(answer.request)
                     ELSE answer.outcome = Failure("invalid-request")

\* The cursor and the contents of the i-th page of a walk.
CursorAt(i, t, v, m) ==
    IF i = 1 THEN Start ELSE Cursor(<<v.identity, t>>, Index(m), (i - 1) * PageSize)

PageOf(cursor, t, v, m) ==
    [target |-> t, names |-> PageNames(cursor, Index(m)),
     page |-> Page(cursor, <<v.identity, t>>, Index(m)), identity |-> v.identity]

IsWalk(w, t, v, m) ==
    /\ Len(w) \in Nat \ {0}
    /\ w = [i \in 1..Len(w) |-> PageOf(CursorAt(i, t, v, m), t, v, m)]
    /\ \A i \in 2..Len(w) : (i - 1) * PageSize \in 1..Cardinality(m.exports)
    /\ Continues(CursorAt(Len(w), t, v, m), <<v.identity, t>>, Index(m))

WalkInv == walk = <<>> \/ \E t \in Targets, v, m \in Modules : IsWalk(walk, t, v, m)

IInv == Typed /\ Busy /\ Deliveries /\ AnswerInv /\ WalkInv /\ AnswersAreOfOneSnapshot

-----------------------------------------------------------------------------
(* Delivery.                                                               *)

\* What a success says of the queries that it answers.
LEMMA SuccessEchoes ==
    ASSUME NEW r, WasRead(r), NEW t \in Targets, NEW v \in Modules, NEW e \in Modules,
           NEW p \in Modules, NEW o \in Said(r, t, v, e, p), o.status = "success"
    PROVE  /\ o.plan = (r.kind = "plan")
           /\ DOMAIN o.results = 1..Len(r.queries) /\ Len(o.results) = Len(r.queries)
           /\ \A i \in 1..Len(r.queries) :
                 /\ Echoes(o.results[i], r.queries[i], t, v.identity)
                 /\ IsPageOf(o.results[i], r.queries[i], t, v.identity, e)
<1> DEFINE xs == Answers(r, t, v, e, p)
           n == Len(r.queries)
           T == {xs[i].result : i \in 1..n}
<1>1. \A why : Failure(why).status # "success"
  BY DEF Failure
<1>2. /\ o.plan = (r.kind = "plan")
      /\ o.results = [i \in 1..n |-> xs[i].result]
      /\ \A i \in 1..n : xs[i].why = None
  <2>1. \/ \E why : o = Failure(why)
        \/ /\ o.status = "success" /\ o.plan = (r.kind = "plan")
           /\ o.results = [i \in 1..n |-> xs[i].result]
           /\ \A i \in 1..n : xs[i].why = None
    BY SaidOnly
  <2> HIDE DEF xs, n
  <2> QED
    BY <1>1, <2>1
<1>3. n \in Nat
  BY ReadTyped
<1>4. \A i \in 1..n : IsQuery(r.queries[i])
                      /\ xs[i] = AnswerTo(r.queries[i], t, v.identity, e, p.subpaths)
  BY ReadTyped, AnswersTyped
<1>5. ASSUME NEW i \in 1..n
      PROVE  /\ Echoes(xs[i].result, r.queries[i], t, v.identity)
             /\ IsPageOf(xs[i].result, r.queries[i], t, v.identity, e)
  <2> DEFINE x == AnswerTo(r.queries[i], t, v.identity, e, p.subpaths)
  <2>1. IsQuery(r.queries[i]) /\ xs[i] = x /\ x.why = None
    BY <1>2, <1>4
  <2>2. /\ Echoes(x.result, r.queries[i], t, v.identity)
        /\ IsPageOf(x.result, r.queries[i], t, v.identity, e)
    BY <2>1, AnswerEchoes
  <2> HIDE DEF x, xs
  <2> QED
    BY <2>1, <2>2
<1>6. o.results \in [1..n -> T] /\ DOMAIN o.results = 1..n
  <2> HIDE DEF xs
  <2> QED
    BY <1>2
<1>7. Len(o.results) = n
  <2> HIDE DEF T, n
  <2> QED
    BY <1>3, <1>6
<1>8. \A i \in 1..n : o.results[i] = xs[i].result
  <2> HIDE DEF xs
  <2> QED
    BY <1>2
<1> HIDE DEF xs
<1> QED
  BY <1>2, <1>5, <1>6, <1>7, <1>8

\* What the analysis a of the request r asks for.
AsksFor(a, r, t) == a.queries = r.queries /\ a.plan = (r.kind = "plan") /\ a.target = t

\* The outcome authority lets the outcome of a request pass.
LEMMA EnforcePasses ==
    ASSUME NEW r, WasRead(r), NEW t \in Targets, NEW a, AsksFor(a, r, t),
           NEW S \in SUBSET (Modules \cup {None}), a.outcome \in OutcomesOver(r, t, S)
    PROVE  Enforce(a) = a.outcome
<1>1. CASE a.outcome.status # "success"
  BY <1>1 DEF Enforce
<1>2. CASE a.outcome.status = "success"
  <2>1. PICK v \in Modules, e \in Modules, p \in Modules : a.outcome \in Said(r, t, v, e, p)
    <3>1. a.outcome # Failure("specifier-not-found")
      BY <1>2 DEF Failure
    <3>2. a.outcome \in UNION {Said(r, t, v, e, p) : v, e, p \in S \ {None}}
      BY <3>1 DEF OutcomesOver
    <3> QED
      BY <3>2
  <2> DEFINE rs == a.outcome.results
  <2>2. /\ a.outcome.plan = a.plan
        /\ DOMAIN rs = 1..Len(r.queries) /\ Len(rs) = Len(a.queries)
        /\ \A i \in 1..Len(r.queries) : Echoes(rs[i], r.queries[i], t, v.identity)
    BY <1>2, <2>1, SuccessEchoes DEF AsksFor
  <2>3. 1 \in 1..Len(r.queries) /\ \A i \in 1..Len(r.queries) : IsQuery(r.queries[i])
    BY ReadTyped
  <2>4. \A i \in 1..Len(r.queries) : Matches(rs[i], r.queries[i], t)
    BY <2>2, <2>3, EchoesMatch
  <2>5. \A i \in 1..Len(r.queries) : IsConsistent(rs[i]) /\ SameIdentity(rs[i], rs[1])
    BY <2>2, <2>3 DEF Echoes, SameIdentity
  <2> QED
    BY <2>2, <2>4, <2>5 DEF Enforce, AsksFor
<1> QED
  BY <1>1, <1>2

\* Two requests of the same queries say the same.
LEMMA SameSaid ==
    ASSUME NEW r, NEW q, q.queries = r.queries, (q.kind = "plan") = (r.kind = "plan"),
           NEW t, NEW v, NEW e, NEW p
    PROVE  Said(q, t, v, e, p) = Said(r, t, v, e, p)
<1>1. Answers(q, t, v, e, p) = Answers(r, t, v, e, p)
  BY DEF Answers
<1>2. q.kind = "plan" <=> r.kind = "plan"
  OBVIOUS
<1> QED
  BY <1>1, <1>2 DEF Said

\* The outcome of another request passes only when it answers this one.
LEMMA EnforceRefuses ==
    ASSUME NEW r, WasRead(r), NEW t \in Targets, NEW a, AsksFor(a, r, t),
           Deliveries, a.outcome \in delivered
    PROVE  \/ Enforce(a) = Failure("invalid-result")
           \/ /\ Enforce(a) = a.outcome
              /\ \E v, e, p \in Modules : a.outcome \in Said(r, t, v, e, p)
<1> DEFINE o == a.outcome
           rs == o.results
           n == Len(r.queries)
<1>1. PICK q : /\ WasRead(q) /\ o.status = "success"
               /\ \E u \in Targets, v, e, p \in Modules : o \in Said(q, u, v, e, p)
  BY DEF Deliveries
<1>2. PICK u \in Targets, v \in Modules, e \in Modules, p \in Modules : o \in Said(q, u, v, e, p)
  BY <1>1
<1>3. /\ o.plan = (q.kind = "plan")
      /\ DOMAIN rs = 1..Len(q.queries) /\ Len(rs) = Len(q.queries)
      /\ \A i \in 1..Len(q.queries) : Echoes(rs[i], q.queries[i], u, v.identity)
  BY SMTT(30), <1>1, <1>2, SuccessEchoes
<1> DEFINE passes == /\ o.plan = a.plan
                     /\ Len(rs) = Len(a.queries)
                     /\ \A i \in DOMAIN rs : /\ IsConsistent(rs[i])
                                             /\ SameIdentity(rs[i], rs[1])
                                             /\ Matches(rs[i], a.queries[i], a.target)
<1>4. Enforce(a) = IF passes THEN o ELSE Failure("invalid-result")
  BY <1>1 DEF Enforce
<1>5. ASSUME passes PROVE o \in Said(r, t, v, e, p)
  <2>1. (q.kind = "plan") = (r.kind = "plan") /\ Len(q.queries) = n
    BY <1>3, <1>5 DEF AsksFor
  <2>2. \A i \in 1..n : Matches(rs[i], r.queries[i], t) /\ Echoes(rs[i], q.queries[i], u, v.identity)
    BY <1>3, <1>5, <2>1 DEF AsksFor
  <2>3. \A i \in 1..n : IsQuery(r.queries[i]) /\ IsQuery(q.queries[i])
    BY <1>1, <2>1, ReadTyped
  <2>4. \A i \in 1..n : q.queries[i] = r.queries[i] /\ u = t
    BY <2>2, <2>3, MatchesExact
  <2>5. u = t
    BY <2>4, ReadTyped
  <2>6. q.queries = r.queries
    <3>1. /\ q.queries \in Seq(ToSet(q.queries)) /\ r.queries \in Seq(ToSet(r.queries))
          /\ Len(q.queries) = n /\ \A i \in 1..n : q.queries[i] = r.queries[i]
      BY <1>1, <2>1, <2>4, ReadTyped
    <3> DEFINE S == ToSet(q.queries) \cup ToSet(r.queries)
    <3>2. Seq(ToSet(q.queries)) \subseteq Seq(S) /\ Seq(ToSet(r.queries)) \subseteq Seq(S)
      BY SeqMonotonic
    <3>3. q.queries \in Seq(S) /\ r.queries \in Seq(S)
      BY <3>1, <3>2
    <3> HIDE DEF S
    <3> QED
      BY <3>1, <3>3, SeqEqual
  <2> QED
    BY <1>2, <2>1, <2>5, <2>6, SameSaid
<1> HIDE DEF passes
<1> QED
  BY <1>4, <1>5

\* More states of the targets leave more outcomes.
LEMMA OutcomesGrow ==
    ASSUME NEW r, NEW t, NEW S, NEW T, S \subseteq T
    PROVE  OutcomesOver(r, t, S) \subseteq OutcomesOver(r, t, T)
<1>1. S \ {None} \subseteq T \ {None}
  OBVIOUS
<1>2. UNION {Said(r, t, v, e, p) : v, e, p \in S \ {None}}
         \subseteq UNION {Said(r, t, v, e, p) : v, e, p \in T \ {None}}
  BY <1>1
<1>3. None \in S => None \in T
  OBVIOUS
<1> QED
  BY <1>2, <1>3 DEF OutcomesOver

\* Every outcome of an analysis is a failure or a success.
LEMMA OutcomeStatus ==
    ASSUME NEW r, WasRead(r), NEW t \in Targets, NEW S \in SUBSET (Modules \cup {None}),
           NEW o \in OutcomesOver(r, t, S)
    PROVE  /\ o.status \in {"failure", "success"}
           /\ o.status = "success" => \E v, e, p \in S \ {None} : o \in Said(r, t, v, e, p)
<1>1. \A why : Failure(why).status = "failure"
  BY DEF Failure
<1>2. CASE o = Failure("specifier-not-found")
  BY <1>1, <1>2
<1>3. CASE \E v, e, p \in S \ {None} : o \in Said(r, t, v, e, p)
  <2>1. PICK v \in S \ {None}, e \in S \ {None}, p \in S \ {None} : o \in Said(r, t, v, e, p)
    BY <1>3
  <2>2. v \in Modules /\ e \in Modules /\ p \in Modules
    OBVIOUS
  <2>3. (\E why : o = Failure(why)) \/ o.status = "success"
    BY <2>1, <2>2, SaidStatus
  <2> QED
    BY <1>1, <1>3, <2>3
<1>4. o = Failure("specifier-not-found") \/ \E v, e, p \in S \ {None} : o \in Said(r, t, v, e, p)
  BY DEF OutcomesOver
<1> QED
  BY <1>2, <1>3, <1>4

LEMMA ComparisonsGrow ==
    ASSUME NEW r, NEW X, NEW Y, \A t \in Targets : X[t] \subseteq Y[t],
           r.target \in [Sides -> Targets]
    PROVE  ComparisonsOver(r, X) \subseteq ComparisonsOver(r, Y)
<1> DEFINE of(Z, s) == OutcomesOver(r, r.target[s], Z[r.target[s]])
           failures(Z, s) == {o \in of(Z, s) : o.status = "failure"}
           successes(Z, s) == of(Z, s) \ failures(Z, s)
<1>1. r.target["before"] \in Targets /\ r.target["after"] \in Targets
  BY DEF Sides
<1>2. of(X, "before") \subseteq of(Y, "before") /\ of(X, "after") \subseteq of(Y, "after")
  BY <1>1, OutcomesGrow
<1>3. \A Z : ComparisonsOver(r, Z) =
          failures(Z, "before")
          \cup (IF successes(Z, "before") # {} THEN failures(Z, "after") ELSE {})
          \cup {Compare(b.results[1], a.results[1]) :
                   b \in successes(Z, "before"), a \in successes(Z, "after")}
  BY DEF ComparisonsOver
<1> HIDE DEF of
<1>4. /\ failures(X, "before") \subseteq failures(Y, "before")
      /\ failures(X, "after") \subseteq failures(Y, "after")
      /\ successes(X, "before") \subseteq successes(Y, "before")
      /\ successes(X, "after") \subseteq successes(Y, "after")
  BY <1>2
<1> HIDE DEF failures, successes
<1> QED
  BY <1>3, <1>4

\* The outcome of a comparison from the outcomes of its sides.
LEMMA ComparisonOf ==
    ASSUME NEW r, WasRead(r), r.kind = "comparison",
           NEW X, \A t \in Targets : X[t] \in SUBSET (Modules \cup {None}),
           NEW b \in OutcomesOver(r, r.target["before"], X[r.target["before"]])
    PROVE  /\ b.status # "success" => b \in ComparisonsOver(r, X)
           /\ b.status = "success" =>
                 \A a \in OutcomesOver(r, r.target["after"], X[r.target["after"]]) :
                    IF a.status # "success" THEN a \in ComparisonsOver(r, X)
                    ELSE Compare(b.results[1], a.results[1]) \in ComparisonsOver(r, X)
<1> DEFINE of(s) == OutcomesOver(r, r.target[s], X[r.target[s]])
           failures(s) == {o \in of(s) : o.status = "failure"}
           successes(s) == of(s) \ failures(s)
<1>1. r.target["before"] \in Targets /\ r.target["after"] \in Targets
  BY DEF WasRead, IsRequest, Sides
<1>2. /\ \A o \in of("before") : o.status \in {"failure", "success"}
      /\ \A o \in of("after") : o.status \in {"failure", "success"}
  BY <1>1, OutcomeStatus
<1>3. ComparisonsOver(r, X) =
          failures("before")
          \cup (IF successes("before") # {} THEN failures("after") ELSE {})
          \cup {Compare(d.results[1], a.results[1]) :
                   d \in successes("before"), a \in successes("after")}
  BY DEF ComparisonsOver
<1>4. b \in of("before")
  OBVIOUS
<1> HIDE DEF of
<1>5. /\ b.status # "success" => b \in failures("before")
      /\ b.status = "success" => b \in successes("before")
      /\ \A a \in of("after") : IF a.status # "success" THEN a \in failures("after")
                                ELSE a \in successes("after")
  BY <1>2, <1>4
<1> HIDE DEF failures, successes
<1>6. b.status # "success" => b \in ComparisonsOver(r, X)
  BY <1>3, <1>5
<1>7. ASSUME b.status = "success", NEW a \in of("after")
      PROVE  IF a.status # "success" THEN a \in ComparisonsOver(r, X)
             ELSE Compare(b.results[1], a.results[1]) \in ComparisonsOver(r, X)
  BY <1>3, <1>5, <1>7
<1> QED
  BY <1>6, <1>7 DEF of

-----------------------------------------------------------------------------
(* The steps of one side.                                                  *)

LEMMA ActiveSide ==
    ASSUME Typed, Busy, NEW s \in Sides, analyses[s].pc # "idle"
    PROVE  LET t == SideTarget(request, s)
           IN  /\ ~Between /\ WasRead(request) /\ s \in ActiveSides(request)
               /\ t \in Targets /\ seen[t] \in SUBSET (Modules \cup {None})
               /\ installed[t] \in seen[t]
               /\ AnalysisInv(request, analyses[s], t, seen[t], installed[t], Foreign)
<1>1. analyses[s] # Idle
  BY DEF Idle
<1>2. ~Between
  BY <1>1 DEF Between
<1>3. /\ WasRead(request) /\ s \in ActiveSides(request)
      /\ LET t == SideTarget(request, s)
         IN  AnalysisInv(request, analyses[s], t, seen[t], installed[t], Foreign)
  BY <1>1, <1>2 DEF Busy
<1>4. SideTarget(request, s) \in Targets
  BY <1>3, ReadTyped
<1> QED
  BY <1>2, <1>3, <1>4 DEF Typed

\* A step of one side leaves the other one alone.
LEMMA StepKeeps ==
    ASSUME IInv, NEW s \in Sides, analyses[s].pc # "idle", NEW b, Step(s, b),
           LET t == SideTarget(request, s)
           IN  AnalysisInv(request, b, t, seen[t], installed[t], Foreign)
    PROVE  IInv'
<1>1. /\ Typed /\ Busy /\ ~Between /\ WasRead(request) /\ s \in ActiveSides(request)
  BY ActiveSide DEF IInv
<1>2. /\ analyses' = [analyses EXCEPT ![s] = b]
      /\ installed' = installed /\ request' = request /\ misplaced' = misplaced /\ seen' = seen
      /\ answer' = answer /\ delivered' = delivered /\ walk' = walk
  BY DEF Step
<1>3. /\ analyses' = [u \in Sides |-> analyses'[u]]
      /\ analyses'[s] = b
      /\ \A u \in Sides \ {s} : analyses'[u] = analyses[u]
  BY <1>1, <1>2 DEF Typed
<1>4. Typed'
  BY <1>1, <1>2, <1>3 DEF Typed
<1>5. b # Idle
  BY DEF AnalysisInv, Idle
<1>6. ~Between'
  BY <1>3, <1>5 DEF Between
<1>7. Foreign' = Foreign
  BY <1>2 DEF Foreign
<1>8. Busy'
  <2>1. WasRead(request')
    BY <1>1, <1>2
  <2>2. \A u \in Sides \ ActiveSides(request) : analyses'[u] = Idle
    BY <1>1, <1>3 DEF Busy
  <2>3. ASSUME NEW u \in ActiveSides(request)
        PROVE  LET t == SideTarget(request, u)
               IN  AnalysisInv(request, analyses'[u], t, seen[t], installed[t], Foreign)
    <3>1. CASE u = s
      BY <1>3, <3>1
    <3>2. CASE u # s
      <4>1. u \in Sides
        BY DEF ActiveSides, Sides
      <4>2. analyses'[u] = analyses[u]
        BY <1>3, <3>2, <4>1
      <4> QED
        BY <1>1, <4>2 DEF Busy
    <3> QED
      BY <3>1, <3>2
  <2> QED
    BY <1>2, <1>7, <2>1, <2>2, <2>3 DEF Busy
<1>9. Deliveries' /\ AnswerInv' /\ WalkInv'
  BY <1>2 DEF IInv, Deliveries, AnswerInv, WalkInv
<1>10. AnswersAreOfOneSnapshot'
  BY <1>6 DEF AnswersAreOfOneSnapshot
<1> QED
  BY <1>4, <1>8, <1>9, <1>10 DEF IInv

LEMMA EndedFields ==
    ASSUME NEW a, DOMAIN a = Fields, NEW o
    PROVE  LET b == Ended(a, o)
           IN  /\ DOMAIN b = Fields /\ b.pc = "ended" /\ b.outcome = o
               /\ b.target = a.target /\ b.queries = a.queries /\ b.plan = a.plan
  BY DEF Ended, Fields

\* An analysis that ends with an outcome of its request.
LEMMA EndedInv ==
    ASSUME NEW r, NEW a, NEW t, NEW S, NEW m, NEW F, AnalysisInv(r, a, t, S, m, F),
           NEW b, DOMAIN b = Fields, b.target = a.target, b.queries = a.queries, b.plan = a.plan,
           NEW o \in OutcomesOver(r, t, S)
    PROVE  AnalysisInv(r, Ended(b, o), t, S, m, F)
  BY EndedFields DEF AnalysisInv

LEMMA SaidOutcome ==
    ASSUME NEW r, NEW t, NEW S, NEW v \in S \ {None}, NEW e \in S \ {None}, NEW p \in S \ {None},
           NEW o \in Said(r, t, v, e, p)
    PROVE  o \in OutcomesOver(r, t, S)
  BY DEF OutcomesOver

LEMMA SelectStep ==
    ASSUME IInv, NEW s \in Sides, Select(s)
    PROVE  IInv'
<1> DEFINE a == analyses[s]
           t == SideTarget(request, s)
           m == installed[a.target]
<1>1. a.pc = "select"
  BY DEF Select
<1>2. /\ WasRead(request) /\ t \in Targets /\ seen[t] \in SUBSET (Modules \cup {None})
      /\ installed[t] \in seen[t]
      /\ AnalysisInv(request, a, t, seen[t], installed[t], Foreign)
  BY <1>1, ActiveSide DEF IInv
<1>3. DOMAIN a = Fields /\ m = installed[t] /\ a.size = 0 /\ a.members = 0
      /\ a.results = <<>> /\ a.subpaths = <<>>
      /\ a.target = t /\ a.queries = request.queries /\ a.plan = (request.kind = "plan")
  BY <1>1, <1>2 DEF AnalysisInv
<1>4. CASE m = None
  <2>1. Step(s, Ended(a, Failure("specifier-not-found")))
    BY <1>4 DEF Select
  <2>2. Failure("specifier-not-found") \in OutcomesOver(request, t, seen[t])
    BY <1>2, <1>3, <1>4 DEF OutcomesOver
  <2>3. AnalysisInv(request, Ended(a, Failure("specifier-not-found")), t, seen[t], installed[t], Foreign)
    <3> HIDE DEF a, t, m
    <3> QED
      BY <1>2, <1>3, <2>2, EndedInv
  <2> QED
    BY <1>1, <2>1, <2>3, StepKeeps
<1>5. CASE m # None
  <2> DEFINE b == [a EXCEPT !.pc = "prepare", !.identity = m.identity]
  <2>1. Step(s, b)
    BY <1>5 DEF Select
  <2>2. /\ DOMAIN b = Fields /\ b.pc = "prepare" /\ b.identity = m.identity
        /\ b.size = 0 /\ b.members = 0 /\ b.results = <<>> /\ b.subpaths = <<>>
        /\ b.target = t /\ b.queries = request.queries /\ b.plan = (request.kind = "plan")
    <3> HIDE DEF a, m, t
    <3> QED
      BY <1>3 DEF Fields
  <2>3. m \in seen[t] \ {None}
    BY <1>2, <1>3, <1>5
  <2>4. AnalysisInv(request, b, t, seen[t], installed[t], Foreign)
    <3> HIDE DEF a, b, t, m
    <3> QED
      BY <1>3, <1>5, <2>2, <2>3 DEF AnalysisInv
  <2> QED
    BY <1>1, <2>1, <2>4, StepKeeps
<1> QED
  BY <1>4, <1>5

\* An analysis that answered nothing yet has the progress of any modules that
\* it selected and made its program of.
LEMMA ProgressBegins ==
    ASSUME NEW r, WasRead(r), NEW t \in Targets, NEW v \in Modules, NEW e \in Modules,
           NEW p \in Modules, NEW a, a.identity = v.identity, a.evidence = e, a.results = <<>>,
           a.size = 0, a.members = 0
    PROVE  Progress(r, a, t, v, e, p)
<1> DEFINE xs == Answers(r, t, v, e, p)
<1>1. Len(a.results) = 0 /\ 0 \in 0..Len(r.queries)
  BY ReadTyped
<1>2. a.size = SizeUpTo(xs, 0) /\ a.members = MembersUpTo(xs, 0)
  BY SizesTyped
<1>3. a.results = [i \in 1..0 |-> xs[i].result]
  <2> HIDE DEF xs
  <2>1. [i \in 1..0 |-> xs[i].result] = <<>>
    OBVIOUS
  <2> QED
    BY <2>1
<1> HIDE DEF xs
<1> QED
  BY <1>1, <1>2, <1>3 DEF Progress, xs

LEMMA PrepareStep ==
    ASSUME IInv, NEW s \in Sides, Prepare(s)
    PROVE  IInv'
<1> DEFINE a == analyses[s]
           t == SideTarget(request, s)
           m == installed[a.target]
           S == seen[t]
           b == [a EXCEPT !.pc = "answer", !.evidence = m]
           c == [a EXCEPT !.pc = "answer", !.evidence = m, !.subpaths = <<m.subpaths>>]
<1>1. a.pc = "prepare"
  BY DEF Prepare
<1>2. /\ WasRead(request) /\ t \in Targets /\ S \in SUBSET (Modules \cup {None})
      /\ installed[t] \in S
      /\ AnalysisInv(request, a, t, S, installed[t], Foreign)
  BY <1>1, ActiveSide DEF IInv
<1>3. DOMAIN a = Fields /\ m = installed[t] /\ a.size = 0 /\ a.members = 0 /\ m # None
      /\ a.results = <<>> /\ a.subpaths = <<>>
      /\ a.target = t /\ a.queries = request.queries /\ a.plan = (request.kind = "plan")
      /\ \E v \in S \ {None} : a.identity = v.identity
  BY <1>1, <1>2 DEF AnalysisInv
<1>4. m \in S \ {None}
  BY <1>2, <1>3
<1>5. PICK v \in S \ {None} : a.identity = v.identity
  BY <1>3
<1>6. v \in Modules /\ m \in Modules
  BY <1>2, <1>4
<1>7. Step(s, b) \/ Step(s, c)
  BY DEF Prepare
<1>8. /\ DOMAIN b = Fields /\ b.pc = "answer" /\ b.identity = a.identity /\ b.evidence = m
      /\ b.size = 0 /\ b.members = 0 /\ b.results = <<>> /\ b.subpaths = <<>>
      /\ b.target = t /\ b.queries = request.queries /\ b.plan = (request.kind = "plan")
  <2> HIDE DEF a, m, t
  <2> QED
    BY <1>3 DEF Fields
<1>9. /\ DOMAIN c = Fields /\ c.pc = "answer" /\ c.identity = a.identity /\ c.evidence = m
      /\ c.size = 0 /\ c.members = 0 /\ c.results = <<>> /\ c.subpaths = <<m.subpaths>>
      /\ c.target = t /\ c.queries = request.queries /\ c.plan = (request.kind = "plan")
  <2> HIDE DEF a, m, t
  <2> QED
    BY <1>3 DEF Fields
<1> HIDE DEF b, c, a, m, S, t
<1>10. \A p \in Modules : Progress(request, b, t, v, m, p)
  BY <1>2, <1>5, <1>6, <1>8, ProgressBegins
<1>11. Progress(request, c, t, v, m, m)
  BY <1>2, <1>5, <1>6, <1>9, ProgressBegins
<1>12. Answering(request, b, t, S) /\ Answering(request, c, t, S)
  BY <1>4, <1>8, <1>9, <1>10, <1>11 DEF Answering
<1>13. AnalysisInv(request, b, t, S, installed[t], Foreign)
  BY <1>3, <1>8, <1>12 DEF AnalysisInv
<1>14. AnalysisInv(request, c, t, S, installed[t], Foreign)
  BY <1>3, <1>9, <1>12 DEF AnalysisInv
<1> QED
  BY <1>1, <1>7, <1>13, <1>14, StepKeeps DEF a, t, S

\* The next answer is of what the target was since the request was sent,
\* whichever of it is read only now.
LEMMA AnswerStep ==
    ASSUME IInv, NEW s \in Sides, AnswerNext(s)
    PROVE  IInv'
<1> DEFINE a == analyses[s]
           t == SideTarget(request, s)
           m == installed[a.target]
           S == seen[t]
           k == Len(a.results) + 1
           sub == Reading(a, m)
           x == AnswerTo(a.queries[k], a.target, a.identity, EvidenceOf(a, m), sub)
           b == [a EXCEPT !.size = a.size + x.size, !.members = a.members + x.members,
                          !.subpaths = IF x.reads THEN <<sub>> ELSE a.subpaths]
           c == [b EXCEPT !.results = Append(b.results, x.result)]
           w == Failing(x, a.size + x.size, a.members + x.members)
<1>1. a.pc = "answer" /\ Len(a.results) < Len(a.queries)
  BY DEF AnswerNext
<1>2. /\ WasRead(request) /\ t \in Targets /\ S \in SUBSET (Modules \cup {None})
      /\ installed[t] \in S
      /\ AnalysisInv(request, a, t, S, installed[t], Foreign)
  BY <1>1, ActiveSide DEF IInv
<1>3. DOMAIN a = Fields /\ m = installed[t] /\ m # None
      /\ a.target = t /\ a.queries = request.queries /\ a.plan = (request.kind = "plan")
      /\ Answering(request, a, t, S)
  BY <1>1, <1>2 DEF AnalysisInv
<1>4. m \in S \ {None} /\ m \in Modules
  BY <1>2, <1>3
<1>5. x = AnswerTo(request.queries[k], t, a.identity, a.evidence, sub)
  BY <1>3 DEF EvidenceOf
<1>6. Step(s, IF b.members > MaxMemberCandidates THEN Ended(b, Failure("member-candidates"))
              ELSE IF b.size > MaxSize THEN Ended(b, Failure("result-construction"))
              ELSE IF x.why # None THEN Ended(b, Failure(x.why)) ELSE c)
  BY DEF AnswerNext
<1>7. /\ DOMAIN b = Fields /\ b.pc = "answer" /\ b.identity = a.identity /\ b.evidence = a.evidence
      /\ b.size = a.size + x.size /\ b.members = a.members + x.members /\ b.results = a.results
      /\ b.subpaths = IF x.reads THEN <<sub>> ELSE a.subpaths
      /\ b.target = t /\ b.queries = request.queries /\ b.plan = (request.kind = "plan")
  <2> HIDE DEF a, m, t, x, sub
  <2> QED
    BY <1>1, <1>3 DEF Fields
<1>8. /\ DOMAIN c = Fields /\ c.pc = "answer" /\ c.identity = a.identity /\ c.evidence = a.evidence
      /\ c.size = a.size + x.size /\ c.members = a.members + x.members
      /\ c.results = Append(a.results, x.result)
      /\ c.subpaths = IF x.reads THEN <<sub>> ELSE a.subpaths
      /\ c.target = t /\ c.queries = request.queries /\ c.plan = (request.kind = "plan")
  <2> HIDE DEF a, m, t, x, sub, b
  <2> QED
    BY <1>7 DEF Fields
<1>9. Step(s, IF w # None THEN Ended(b, Failure(w)) ELSE c)
  <2> HIDE DEF a, b, c, x, t, m, S, sub, k
  <2>1. "member-candidates" # None /\ "result-construction" # None
    BY LimitReasons
  <2>2. CASE b.members > MaxMemberCandidates
    <3>1. w = "member-candidates"
      BY <1>7, <2>2 DEF Failing
    <3> QED
      BY <1>6, <2>1, <2>2, <3>1
  <2>3. CASE ~(b.members > MaxMemberCandidates) /\ b.size > MaxSize
    <3>1. w = "result-construction"
      BY <1>7, <2>3 DEF Failing
    <3> QED
      BY <1>6, <2>1, <2>3, <3>1
  <2>4. CASE ~(b.members > MaxMemberCandidates) /\ ~(b.size > MaxSize)
    <3>1. w = x.why
      BY <1>7, <2>4 DEF Failing
    <3> HIDE DEF w
    <3> QED
      BY <1>6, <2>4, <3>1
  <2> QED
    BY <2>2, <2>3, <2>4
<1> SUFFICES AnalysisInv(request, IF w # None THEN Ended(b, Failure(w)) ELSE c, t, S, installed[t], Foreign)
  <2> HIDE DEF w, b, c
  <2> QED
    BY <1>1, <1>9, StepKeeps
<1> HIDE DEF a, m, S, t
<1>10. PICK v \in S \ {None}, e \in S \ {None} :
          \/ a.subpaths = <<>> /\ \A p \in Modules : Progress(request, a, t, v, e, p)
          \/ \E p \in S \ {None} : a.subpaths = <<p.subpaths>> /\ Progress(request, a, t, v, e, p)
  BY <1>3 DEF Answering
<1>11. v \in Modules /\ e \in Modules
  BY <1>2
\* What a module p makes of the next answer, when that reads its subpaths or none.
<1>12. ASSUME NEW p \in Modules, Progress(request, a, t, v, e, p),
              sub = p.subpaths \/ ~x.reads
       PROVE  /\ w # None => Failure(w) \in Said(request, t, v, e, p)
              /\ w = None => Progress(request, c, t, v, e, p)
  <2>1. IsQuery(request.queries[k])
    <3>1. Len(a.results) \in 0..Len(request.queries)
      BY <1>12 DEF Progress
    <3>2. Len(request.queries) \in Nat
      BY <1>2, ReadTyped
    <3>3. k \in 1..Len(request.queries)
      BY <1>1, <1>3, <3>1, <3>2
    <3> HIDE DEF k
    <3> QED
      BY <1>2, <3>3, ReadTyped
  <2> DEFINE y == AnswerTo(request.queries[k], t, a.identity, a.evidence, p.subpaths)
  <2>2. y = x
    <3> HIDE DEF k, sub, x
    <3>1. CASE sub = p.subpaths
      BY <1>5, <3>1
    <3>2. CASE ~x.reads
      BY <1>5, <2>1, <3>2, AnswerReads
    <3> QED
      BY <1>12, <3>1, <3>2
  <2> DEFINE z == Failing(y, a.size + y.size, a.members + y.members)
  <2>3. /\ z # None => Failure(z) \in Said(request, t, v, e, p)
        /\ \A d : /\ d.identity = a.identity /\ d.evidence = a.evidence
                  /\ d.results = Append(a.results, y.result)
                  /\ d.size = a.size + y.size /\ d.members = a.members + y.members
                  /\ z = None
                  => Progress(request, d, t, v, e, p)
    BY <1>1, <1>2, <1>3, <1>11, <1>12, ProgressStep
  <2> HIDE DEF y, k, x, sub, c
  <2>4. z = w
    BY <2>2
  <2> HIDE DEF z, w
  <2> QED
    BY <1>8, <2>2, <2>3, <2>4
<1>13. ASSUME NEW o \in OutcomesOver(request, t, S)
       PROVE  AnalysisInv(request, Ended(b, o), t, S, installed[t], Foreign)
  <2> HIDE DEF b
  <2> QED
    BY <1>2, <1>3, <1>7, EndedInv
<1> HIDE DEF b, c, w, x, sub, k
<1>14. CASE a.subpaths = <<>> /\ \A p \in Modules : Progress(request, a, t, v, e, p)
  <2>1. sub = m.subpaths
    BY <1>14 DEF Reading, sub
  <2>2. CASE w # None
    <3>1. Failure(w) \in Said(request, t, v, e, m)
      BY <1>4, <1>12, <1>14, <2>1, <2>2
    <3>2. Failure(w) \in OutcomesOver(request, t, S)
      BY <1>4, <3>1, SaidOutcome
    <3> QED
      BY <1>13, <2>2, <3>2
  <2>3. CASE w = None
    <3>1. Progress(request, c, t, v, e, m)
      BY <1>4, <1>12, <1>14, <2>1, <2>3
    <3>2. ~x.reads => \A p \in Modules : Progress(request, c, t, v, e, p)
      BY <1>12, <1>14, <2>3
    <3>3. Answering(request, c, t, S)
      <4>1. CASE x.reads
        BY <1>4, <1>8, <2>1, <3>1, <4>1 DEF Answering
      <4>2. CASE ~x.reads
        BY <1>8, <1>14, <3>2, <4>2 DEF Answering
      <4> QED
        BY <4>1, <4>2
    <3>4. AnalysisInv(request, c, t, S, installed[t], Foreign)
      BY <1>3, <1>8, <3>3 DEF AnalysisInv
    <3> QED
      BY <2>3, <3>4
  <2> QED
    BY <2>2, <2>3
<1>15. CASE \E p \in S \ {None} : a.subpaths = <<p.subpaths>> /\ Progress(request, a, t, v, e, p)
  <2>1. PICK p \in S \ {None} : a.subpaths = <<p.subpaths>> /\ Progress(request, a, t, v, e, p)
    BY <1>15
  <2>2. sub = p.subpaths /\ p \in Modules
    BY <1>2, <2>1 DEF Reading, sub
  <2>3. CASE w # None
    <3>1. Failure(w) \in Said(request, t, v, e, p)
      BY <1>12, <2>1, <2>2, <2>3
    <3>2. Failure(w) \in OutcomesOver(request, t, S)
      BY <3>1, SaidOutcome
    <3> QED
      BY <1>13, <2>3, <3>2
  <2>4. CASE w = None
    <3>1. Progress(request, c, t, v, e, p)
      BY <1>12, <2>1, <2>2, <2>4
    <3>2. c.subpaths = <<p.subpaths>>
      BY <1>8, <2>1, <2>2
    <3>3. Answering(request, c, t, S)
      BY <3>1, <3>2 DEF Answering
    <3>4. AnalysisInv(request, c, t, S, installed[t], Foreign)
      BY <1>3, <1>8, <3>3 DEF AnalysisInv
    <3> QED
      BY <2>4, <3>4
  <2> QED
    BY <2>3, <2>4
<1> QED
  BY <1>10, <1>14, <1>15

\* What the answers to all queries say together.
LEMMA ProgressEnds ==
    ASSUME NEW r, WasRead(r), NEW t \in Targets, NEW v \in Modules, NEW e \in Modules,
           NEW p \in Modules, NEW a, Progress(r, a, t, v, e, p),
           Len(a.results) = Len(r.queries), a.plan = (r.kind = "plan")
    PROVE  (IF a.size + (IF a.plan THEN 1 ELSE 0) > MaxSize THEN Failure("result-construction")
            ELSE [status |-> "success", plan |-> a.plan, results |-> a.results])
               \in Said(r, t, v, e, p)
<1> DEFINE xs == Answers(r, t, v, e, p)
           n == Len(r.queries)
           done == [i \in 1..n |-> xs[i].result]
           all == SizeUpTo(xs, n)
           o == IF a.size + (IF a.plan THEN 1 ELSE 0) > MaxSize THEN Failure("result-construction")
                ELSE [status |-> "success", plan |-> a.plan, results |-> a.results]
<1>1. a.results = done /\ a.size = all /\ \A i \in 1..n : Reasons(xs, i) = {}
  BY DEF Progress
<1>2. n \in 1..n
  BY ReadTyped
<1>3. /\ all \in Nat
      /\ LET w == Failing(xs[n], all, MembersUpTo(xs, n))
         IN  IF w # None THEN w \in Reasons(xs, n) ELSE all <= MaxSize
  <2>1. n \in 0..n
    BY <1>2
  <2>2. \A j \in 0..n : SizeUpTo(xs, j) \in Nat
    BY SizesTyped
  <2>3. \A j \in 1..n : LET w == Failing(xs[j], SizeUpTo(xs, j), MembersUpTo(xs, j))
                        IN  IF w # None THEN w \in Reasons(xs, j) ELSE SizeUpTo(xs, j) <= MaxSize
    BY ReasonOf
  <2> HIDE DEF xs
  <2> QED
    BY <1>2, <2>1, <2>2, <2>3
<1>4. all <= MaxSize
  <2> HIDE DEF xs, all, n
  <2> QED
    BY <1>1, <1>2, <1>3
<1>5. Said(r, t, v, e, p) =
          IF r.kind = "plan" /\ all >= MaxSize THEN {Failure("result-construction")}
          ELSE {[status |-> "success", plan |-> r.kind = "plan", results |-> done]}
  BY <1>1, SaidEnds
<1> HIDE DEF xs, n, done, all
<1>6. CASE r.kind = "plan"
  <2>1. a.plan = TRUE /\ (a.size + 1 > MaxSize <=> all >= MaxSize)
    <3>1. a.plan = TRUE
      BY <1>6
    <3>2. a.size + 1 > MaxSize <=> all >= MaxSize
      BY <1>1, <1>3, LimitsTyped
    <3> QED
      BY <3>1, <3>2
  <2>2. CASE all >= MaxSize
    <3>1. o = Failure("result-construction")
      BY <2>1, <2>2
    <3> HIDE DEF o
    <3> QED
      BY <1>5, <1>6, <2>2, <3>1 DEF o
  <2>3. CASE ~(all >= MaxSize)
    <3>1. o = [status |-> "success", plan |-> TRUE, results |-> done]
      BY <1>1, <2>1, <2>3
    <3>2. Said(r, t, v, e, p) = {[status |-> "success", plan |-> TRUE, results |-> done]}
      BY <1>5, <1>6, <2>3
    <3> HIDE DEF o
    <3> QED
      BY <3>1, <3>2 DEF o
  <2> QED
    BY <2>2, <2>3
<1>7. CASE r.kind # "plan"
  <2>1. a.plan = FALSE /\ ~(a.size + 0 > MaxSize)
    <3>1. a.plan = FALSE
      BY <1>7
    <3>2. ~(a.size + 0 > MaxSize)
      BY <1>1, <1>3, <1>4, LimitsTyped
    <3> QED
      BY <3>1, <3>2
  <2>2. o = [status |-> "success", plan |-> FALSE, results |-> done]
    BY <1>1, <2>1
  <2>3. Said(r, t, v, e, p) = {[status |-> "success", plan |-> FALSE, results |-> done]}
    BY <1>5, <1>7
  <2> HIDE DEF o
  <2> QED
    BY <2>2, <2>3 DEF o
<1> QED
  BY <1>6, <1>7

LEMMA FinishStep ==
    ASSUME IInv, NEW s \in Sides, Finish(s)
    PROVE  IInv'
<1> DEFINE a == analyses[s]
           t == SideTarget(request, s)
           m == installed[a.target]
           S == seen[t]
           size == a.size + (IF a.plan THEN 1 ELSE 0)
           b == [a EXCEPT !.size = size]
           o == IF size > MaxSize THEN Failure("result-construction")
                ELSE [status |-> "success", plan |-> a.plan, results |-> a.results]
<1>1. a.pc = "answer" /\ Len(a.results) = Len(a.queries) /\ Step(s, Ended(b, o))
  BY DEF Finish
<1>2. /\ WasRead(request) /\ t \in Targets /\ S \in SUBSET (Modules \cup {None})
      /\ installed[t] \in S
      /\ AnalysisInv(request, a, t, S, installed[t], Foreign)
  BY <1>1, ActiveSide DEF IInv
<1>3. DOMAIN a = Fields /\ m = installed[t] /\ m # None
      /\ a.target = t /\ a.queries = request.queries /\ a.plan = (request.kind = "plan")
      /\ Answering(request, a, t, S)
  BY <1>1, <1>2 DEF AnalysisInv
<1>4. /\ DOMAIN b = Fields /\ b.target = a.target /\ b.queries = a.queries /\ b.plan = a.plan
  <2> HIDE DEF a, size
  <2> QED
    BY <1>3 DEF Fields
<1>5. PICK v \in S \ {None}, e \in S \ {None}, p \in S \ {None} : Progress(request, a, t, v, e, p)
  <2> HIDE DEF a, t, m
  <2> QED
    BY <1>2, <1>3 DEF Answering
<1>6. v \in Modules /\ e \in Modules /\ p \in Modules
  BY <1>2
<1>7. o \in Said(request, t, v, e, p)
  <2> HIDE DEF a, t
  <2> QED
    BY <1>1, <1>2, <1>3, <1>5, <1>6, ProgressEnds
<1> HIDE DEF a, t, m, S, b, o
<1>8. o \in OutcomesOver(request, t, S)
  BY <1>7, SaidOutcome
<1>9. AnalysisInv(request, Ended(b, o), t, S, installed[t], Foreign)
  BY <1>2, <1>4, <1>8, EndedInv
<1> QED
  BY <1>1, <1>9, StepKeeps DEF a, t, S

LEMMA MisplaceStep ==
    ASSUME IInv, NEW s \in Sides, Misplace(s)
    PROVE  IInv'
<1> DEFINE a == analyses[s]
           t == SideTarget(request, s)
<1>1. PICK other \in delivered : analyses' = [analyses EXCEPT ![s].outcome = other]
  BY DEF Misplace
<1> DEFINE b == [a EXCEPT !.outcome = other]
<1>2. /\ a.pc = "ended" /\ ~misplaced /\ misplaced' = TRUE
      /\ analyses' = [analyses EXCEPT ![s] = b]
      /\ installed' = installed /\ request' = request /\ seen' = seen
      /\ answer' = answer /\ delivered' = delivered /\ walk' = walk
  BY <1>1 DEF Misplace
<1>3. /\ Typed /\ Busy /\ ~Between /\ WasRead(request) /\ s \in ActiveSides(request)
      /\ AnalysisInv(request, a, t, seen[t], installed[t], Foreign)
  BY <1>2, ActiveSide DEF IInv
<1>4. Foreign = {} /\ Foreign' = delivered
  BY <1>2 DEF Foreign
<1>5. /\ DOMAIN b = Fields /\ b.pc = "ended" /\ b.outcome = other
      /\ b.target = a.target /\ b.queries = a.queries /\ b.plan = a.plan
  BY <1>2, <1>3 DEF AnalysisInv, Fields
<1>6. AnalysisInv(request, b, t, seen[t], installed[t], delivered)
  <2> HIDE DEF a, b
  <2> QED
    BY <1>3, <1>5 DEF AnalysisInv
<1>7. /\ analyses' = [u \in Sides |-> analyses'[u]] /\ analyses'[s] = b
      /\ \A u \in Sides \ {s} : analyses'[u] = analyses[u]
  BY <1>2, <1>3 DEF Typed
<1>8. Typed'
  BY <1>2, <1>3, <1>7 DEF Typed
<1>9. ~Between'
  <2>1. b # Idle
    BY <1>5 DEF Idle
  <2> QED
    BY <1>7, <2>1 DEF Between
<1>10. Busy'
  <2>1. \A u \in Sides \ ActiveSides(request) : analyses'[u] = Idle
    BY <1>3, <1>7 DEF Busy
  <2>2. ASSUME NEW u \in ActiveSides(request)
        PROVE  LET d == SideTarget(request, u)
               IN  AnalysisInv(request, analyses'[u], d, seen[d], installed[d], delivered)
    <3>1. CASE u = s
      BY <1>6, <1>7, <3>1
    <3>2. CASE u # s
      <4>1. analyses'[u] = analyses[u]
        BY <1>7, <3>2 DEF ActiveSides, Sides
      <4>2. LET d == SideTarget(request, u)
            IN  AnalysisInv(request, analyses[u], d, seen[d], installed[d], {})
        BY <1>3, <1>4 DEF Busy
      <4> QED
        BY <4>1, <4>2 DEF AnalysisInv
    <3> QED
      BY <3>1, <3>2
  <2> QED
    BY <1>2, <1>3, <1>4, <2>1, <2>2 DEF Busy
<1>11. Deliveries' /\ AnswerInv' /\ WalkInv'
  BY <1>2 DEF IInv, Deliveries, AnswerInv, WalkInv
<1>12. AnswersAreOfOneSnapshot'
  BY <1>9 DEF AnswersAreOfOneSnapshot
<1> QED
  BY <1>8, <1>10, <1>11, <1>12 DEF IInv

-----------------------------------------------------------------------------
(* Walks.                                                                  *)

LEMMA Times ==
    /\ \A n, k \in Nat : n * k \in Nat
    /\ \A n, k \in Nat : n >= 1 => (n - 1) * k + k = n * k
    /\ \A n, k \in Nat : n >= 1 /\ k >= 1 => n * k >= 1
<1>1. \A n, k \in Nat : n * k \in Nat
  OBVIOUS
<1>2. \A n, k \in Nat : n >= 1 => (n - 1) * k + k = n * k
  OBVIOUS
<1>3. ASSUME NEW n \in Nat, NEW k \in Nat, n >= 1, k >= 1 PROVE n * k >= 1
  <2>1. (n - 1) * k \in Nat /\ n - 1 \in Nat
    BY <1>1, <1>3
  <2>2. n * k = (n - 1) * k + k
    BY <1>2, <1>3
  <2> DEFINE a == n * k
             b == (n - 1) * k
  <2>3. b \in Nat /\ a = b + k
    BY <2>1, <2>2
  <2> HIDE DEF a, b
  <2>4. a >= 1
    BY <1>3, <2>3
  <2> QED
    BY <2>4 DEF a
<1> QED
  BY <1>1, <1>2, <1>3

LEMMA CursorAtExact ==
    ASSUME NEW t \in Targets, NEW v \in Modules, NEW m \in Modules, NEW i \in Nat \ {0},
           i = 1 \/ (i - 1) * PageSize \in 1..Cardinality(m.exports)
    PROVE  LET c == CursorAt(i, t, v, m)
           IN  /\ IsCursor(c) /\ Offset(c) = (i - 1) * PageSize
               /\ i # 1 => c \notin {None, Start} /\ c.scope = <<v.identity, t>> /\ c.index = Index(m)
<1>1. CASE i = 1
  <2>1. (1 - 1) * PageSize = 0
    BY PageSizeTyped
  <2> QED
    BY <1>1, <2>1 DEF CursorAt, IsCursor, Offset
<1>2. CASE i # 1
  <2> DEFINE k == (i - 1) * PageSize
             c == Cursor(<<v.identity, t>>, Index(m), k)
  <2>1. k \in 1..Cardinality(m.exports) /\ k \in Nat
    BY <1>2, IndexTyped
  <2>2. c \notin {None, Start}
    <3> HIDE DEF k
    <3> QED
      BY <2>1, NoneAssumption
  <2>3. c.offset = k /\ c.scope = <<v.identity, t>> /\ c.index = Index(m)
    BY DEF Cursor
  <2>4. CursorAt(i, t, v, m) = c
    BY <1>2 DEF CursorAt
  <2> HIDE DEF c, k
  <2>5. IsCursor(c) /\ Offset(c) = k
    BY <2>1, <2>2, <2>3 DEF IsCursor, Offset
  <2> QED
    BY <1>2, <2>2, <2>3, <2>4, <2>5 DEF k
<1> QED
  BY <1>1, <1>2

\* The last page of a walk, and the cursor that follows it.
LEMMA WalkLast ==
    ASSUME NEW t \in Targets, NEW v \in Modules, NEW m \in Modules, NEW w, IsWalk(w, t, v, m)
    PROVE  LET n == Len(w)
               k == n * PageSize
           IN  /\ Last(w).target = t
               /\ Last(w).page.next = IF k < Cardinality(m.exports) THEN CursorAt(n + 1, t, v, m) ELSE None
               /\ k < Cardinality(m.exports) =>
                     ((n + 1) - 1) * PageSize \in 1..Cardinality(m.exports)
<1> DEFINE n == Len(w)
           k == n * PageSize
           C == Cardinality(m.exports)
           cursor == CursorAt(n, t, v, m)
           scope == <<v.identity, t>>
           o == Offset(cursor)
           len == Len(PageNames(cursor, Index(m)))
<1>1. /\ n \in Nat \ {0} /\ Continues(cursor, scope, Index(m))
      /\ n = 1 \/ (n - 1) * PageSize \in 1..C
      /\ w = [i \in 1..n |-> PageOf(CursorAt(i, t, v, m), t, v, m)]
  BY DEF IsWalk
<1>2. IsCursor(cursor) /\ o = (n - 1) * PageSize
  <2> HIDE DEF C
  <2> QED
    BY <1>1, CursorAtExact DEF C
<1>3. C \in Nat /\ PageSize \in Nat /\ PageSize >= 1
  BY IndexTyped, PageSizeTyped
<1>4. o \in Nat /\ o <= C /\ len = IF PageSize <= C - o THEN PageSize ELSE C - o
  <2> HIDE DEF cursor, n
  <2> QED
    BY <1>1, <1>2, PageNamesExact
<1>5. Last(w) = PageOf(cursor, t, v, m)
  BY <1>1 DEF Last
<1>6. Page(cursor, scope, Index(m)).next = IF o + len < C THEN Cursor(scope, Index(m), o + len) ELSE None
  <2> HIDE DEF cursor, n
  <2> QED
    BY <1>1, <1>2, PageConsistent
<1>7. k \in Nat /\ k >= 1 /\ o + PageSize = k
  <2> HIDE DEF cursor, n
  <2> QED
    BY <1>1, <1>2, <1>3, Times DEF n
<1> HIDE DEF k, C, o, len
<1>8. /\ o + len < C <=> k < C
      /\ k < C => o + len = k
  BY <1>3, <1>4, <1>7
<1>9. k < C => k \in 1..C
  BY <1>3, <1>7
<1>10. ((n + 1) - 1) * PageSize = k /\ n + 1 # 1 /\ (n + 1) - 1 = n
  <2>1. (n + 1) - 1 = n /\ n + 1 # 1
    BY <1>1
  <2> QED
    BY <2>1 DEF k
<1>11. CursorAt(n + 1, t, v, m) = Cursor(scope, Index(m), k)
  <2> HIDE DEF n
  <2> QED
    BY <1>10 DEF CursorAt
<1>12. Last(w).page.next = IF k < C THEN CursorAt(n + 1, t, v, m) ELSE None
  <2> HIDE DEF cursor, n, scope
  <2>1. Last(w).page = Page(cursor, scope, Index(m))
    BY <1>5 DEF PageOf, scope
  <2> QED
    BY <1>6, <1>8, <1>11, <2>1
<1>13. Last(w).target = t
  <2> HIDE DEF cursor
  <2> QED
    BY <1>5 DEF PageOf
<1> QED
  BY <1>9, <1>10, <1>12, <1>13 DEF k, C

LEMMA WalkBegins ==
    ASSUME NEW t \in Targets, NEW v \in Modules, NEW m \in Modules
    PROVE  IsWalk(<<PageOf(Start, t, v, m)>>, t, v, m)
<1> DEFINE w == <<PageOf(Start, t, v, m)>>
<1>1. CursorAt(1, t, v, m) = Start
  BY DEF CursorAt
<1>2. Len(w) = 1 /\ w = [i \in 1..1 |-> PageOf(CursorAt(i, t, v, m), t, v, m)]
  BY <1>1
<1>3. Continues(Start, <<v.identity, t>>, Index(m))
  BY DEF Continues
<1>4. \A i \in 2..1 : FALSE
  OBVIOUS
<1> HIDE DEF w
<1> QED
  BY <1>1, <1>2, <1>3, <1>4 DEF IsWalk, w

\* A page of the next cursor is the next page of the same index.
LEMMA WalkGrows ==
    ASSUME NEW t \in Targets, NEW v \in Modules, NEW m \in Modules, NEW w, IsWalk(w, t, v, m),
           NEW u \in Modules, NEW e \in Modules, Last(w).page.next # None,
           Continues(Last(w).page.next, <<u.identity, t>>, Index(e))
    PROVE  IsWalk(Append(w, PageOf(Last(w).page.next, t, u, e)), t, v, m)
<1> DEFINE n == Len(w)
           k == n + 1
           cursor == CursorAt(k, t, v, m)
           page == PageOf(cursor, t, v, m)
           P(i) == PageOf(CursorAt(i, t, v, m), t, v, m)
           C == Cardinality(m.exports)
<1>1. /\ n \in Nat \ {0} /\ w = [i \in 1..n |-> P(i)]
      /\ \A i \in 2..n : (i - 1) * PageSize \in 1..C
  BY DEF IsWalk
<1>2. Last(w).page.next = cursor /\ (k - 1) * PageSize \in 1..C
  BY WalkLast
<1>3. k \in Nat \ {0} /\ k # 1
  BY <1>1
<1>4. cursor \notin {None, Start} /\ cursor.scope = <<v.identity, t>> /\ cursor.index = Index(m)
  <2> HIDE DEF k
  <2> QED
    BY <1>2, <1>3, CursorAtExact
<1> HIDE DEF cursor
<1>5. cursor.scope = <<u.identity, t>> /\ cursor.index = Index(e)
  BY <1>2, <1>4 DEF Continues
<1>6. <<u.identity, t>> = <<v.identity, t>> /\ u.identity = v.identity /\ Index(e) = Index(m)
  BY <1>4, <1>5
<1>7. PageOf(cursor, t, u, e) = page
  BY <1>6 DEF PageOf
<1>8. Continues(cursor, <<v.identity, t>>, Index(m))
  BY <1>2, <1>6
<1> HIDE DEF P
<1>9. /\ Len(Append(w, page)) = k
      /\ Append(w, page) = [i \in 1..k |-> P(i)]
  <2> DEFINE T == {P(i) : i \in 1..k}
  <2>1. w \in [1..n -> T] /\ P(k) \in T
    <3> HIDE DEF n
    <3> QED
      BY <1>1
  <2>2. w \in Seq(T)
    <3> HIDE DEF T
    <3> QED
      BY <1>1, <2>1
  <2>3. page = P(k)
    BY DEF cursor, P
  <2> HIDE DEF T, page
  <2> DEFINE z == Append(w, page)
  <2>4. /\ z \in Seq(T) /\ Len(z) = Len(w) + 1
        /\ \A i \in 1..Len(w) : z[i] = w[i]
        /\ z[Len(w) + 1] = page
    BY <2>1, <2>2, <2>3, AppendProperties
  <2>5. \A i \in 1..k : i <= n => z[i] = P(i)
    BY <1>1, <2>4
  <2>6. \A i \in 1..k : ~(i <= n) => i = k
    BY <1>1
  <2>7. \A i \in 1..k : z[i] = P(i)
    BY <2>3, <2>4, <2>5, <2>6
  <2>8. z = [i \in 1..k |-> z[i]]
    <3> HIDE DEF z
    <3> QED
      BY <2>4
  <2> HIDE DEF z
  <2> QED
    BY <2>4, <2>7, <2>8 DEF z
<1>10. \A i \in 2..k : (i - 1) * PageSize \in 1..C
  <2>1. \A i \in 2..k : i \in 2..n \/ i = k
    BY <1>1
  <2> HIDE DEF k, C
  <2> QED
    BY <1>1, <1>2, <2>1
<1> HIDE DEF k, page, n
<1>11. IsWalk(Append(w, page), t, v, m)
  BY <1>3, <1>8, <1>9, <1>10 DEF IsWalk, P, cursor
<1> QED
  BY <1>2, <1>7, <1>11

-----------------------------------------------------------------------------
(* The outcome of a request.                                               *)

\* What the target may be at all.
Anything == [t \in Targets |-> Modules \cup {None}]

LEMMA EnforcedSide ==
    ASSUME IInv, ~Between, NEW s \in ActiveSides(request), analyses[s].pc = "ended"
    PROVE  LET o == Enforce(analyses[s])
               t == SideTarget(request, s)
           IN  \/ o \in OutcomesOver(request, t, seen[t])
               \/ misplaced /\ \/ o = Failure("invalid-result")
                               \/ o \in OutcomesOver(request, t, Anything[t])
<1> DEFINE a == analyses[s]
           t == SideTarget(request, s)
           S == seen[t]
<1>1. s \in Sides
  BY DEF ActiveSides, Sides
<1>2. /\ WasRead(request) /\ t \in Targets /\ S \in SUBSET (Modules \cup {None})
      /\ AnalysisInv(request, a, t, S, installed[t], Foreign)
  BY <1>1, ActiveSide DEF IInv
<1>3. AsksFor(a, request, t) /\ a.outcome \in OutcomesOver(request, t, S) \cup Foreign
  BY <1>2 DEF AnalysisInv, AsksFor
<1>4. Anything[t] = Modules \cup {None}
  BY <1>2 DEF Anything
<1> HIDE DEF a, t, S
<1>5. CASE a.outcome \in OutcomesOver(request, t, S)
  <2>1. Enforce(a) = a.outcome
    BY <1>2, <1>3, <1>5, EnforcePasses
  <2> QED
    BY <1>5, <2>1 DEF a, t, S
<1>6. CASE a.outcome \in Foreign
  <2>1. misplaced /\ a.outcome \in delivered
    BY <1>6 DEF Foreign
  <2>2. \/ Enforce(a) = Failure("invalid-result")
        \/ /\ Enforce(a) = a.outcome
           /\ \E v, e, p \in Modules : a.outcome \in Said(request, t, v, e, p)
    BY <1>2, <1>3, <2>1, EnforceRefuses DEF IInv
  <2>3. \A v \in Modules : v \in (Modules \cup {None}) \ {None}
    BY NoneAssumption
  <2>4. (\E v, e, p \in Modules : a.outcome \in Said(request, t, v, e, p))
            => a.outcome \in OutcomesOver(request, t, Modules \cup {None})
    BY <2>3, SaidOutcome
  <2> QED
    BY <1>4, <2>1, <2>2, <2>4 DEF a, t
<1> QED
  BY <1>3, <1>5, <1>6

\* The outcome of a request is what its targets as they were say.
LEMMA OutcomeExact ==
    ASSUME IInv, ~Between, \A s \in ActiveSides(request) : analyses[s].pc = "ended"
    PROVE  \/ Outcome \in OutcomesFor(request, seen)
           \/ misplaced /\ \/ Outcome = Failure("invalid-result")
                           \/ Outcome \in OutcomesFor(request, Anything)
<1> DEFINE r == request
           E(s) == Enforce(analyses[s])
           Over(s, X) == OutcomesOver(r, SideTarget(r, s), X[SideTarget(r, s)])
<1>1. WasRead(r)
  BY DEF IInv, Busy
<1>2. \A s \in ActiveSides(r) :
         \/ E(s) \in Over(s, seen)
         \/ misplaced /\ (E(s) = Failure("invalid-result") \/ E(s) \in Over(s, Anything))
  BY EnforcedSide
<1>3. "before" \in ActiveSides(r)
  BY <1>1, ReadTyped
<1>4. CASE r.kind # "comparison"
  <2>1. Outcome = E("before")
    BY <1>3, <1>4 DEF Outcome
  <2>2. \A X : OutcomesFor(r, X) = Over("before", X)
    BY <1>4 DEF OutcomesFor, SideTarget
  <2> HIDE DEF E, Over, r
  <2> QED
    BY <1>2, <1>3, <2>1, <2>2 DEF r
<1>5. CASE r.kind = "comparison"
  <2>1. "after" \in ActiveSides(r)
    BY <1>5 DEF ActiveSides, Sides
  <2>2. Outcome = IF E("before").status # "success" THEN E("before")
                  ELSE IF E("after").status # "success" THEN E("after")
                  ELSE Compare(E("before").results[1], E("after").results[1])
    BY <1>3, <1>5, <2>1 DEF Outcome
  <2>3. \A X : /\ OutcomesFor(r, X) = ComparisonsOver(r, X)
               /\ Over("before", X) = OutcomesOver(r, r.target["before"], X[r.target["before"]])
               /\ Over("after", X) = OutcomesOver(r, r.target["after"], X[r.target["after"]])
    BY <1>5 DEF OutcomesFor, SideTarget
  <2>4. \A X : (\A t \in Targets : X[t] \in SUBSET (Modules \cup {None})) =>
           \A b \in Over("before", X) :
              /\ b.status # "success" => b \in OutcomesFor(r, X)
              /\ b.status = "success" =>
                    \A a \in Over("after", X) :
                       IF a.status # "success" THEN a \in OutcomesFor(r, X)
                       ELSE Compare(b.results[1], a.results[1]) \in OutcomesFor(r, X)
    <3> SUFFICES ASSUME NEW X, \A t \in Targets : X[t] \in SUBSET (Modules \cup {None}),
                        NEW b \in Over("before", X)
                 PROVE  /\ b.status # "success" => b \in OutcomesFor(r, X)
                        /\ b.status = "success" =>
                              \A a \in Over("after", X) :
                                 IF a.status # "success" THEN a \in OutcomesFor(r, X)
                                 ELSE Compare(b.results[1], a.results[1]) \in OutcomesFor(r, X)
      OBVIOUS
    <3>1. b \in OutcomesOver(r, r.target["before"], X[r.target["before"]])
      BY <2>3
    <3>2. /\ b.status # "success" => b \in ComparisonsOver(r, X)
          /\ b.status = "success" =>
                \A a \in OutcomesOver(r, r.target["after"], X[r.target["after"]]) :
                   IF a.status # "success" THEN a \in ComparisonsOver(r, X)
                   ELSE Compare(b.results[1], a.results[1]) \in ComparisonsOver(r, X)
      BY <1>1, <1>5, <3>1, ComparisonOf
    <3> HIDE DEF Over, r
    <3> QED
      BY <2>3, <3>2
  <2>5. /\ \A t \in Targets : seen[t] \in SUBSET (Modules \cup {None})
        /\ \A t \in Targets : Anything[t] \in SUBSET (Modules \cup {None})
        /\ \A t \in Targets : seen[t] \subseteq Anything[t]
    BY DEF IInv, Typed, Anything
  <2>6. Over("before", seen) \subseteq Over("before", Anything)
        /\ Over("after", seen) \subseteq Over("after", Anything)
    BY <1>1, <1>3, <2>1, <2>5, ReadTyped, OutcomesGrow
  <2>7. Failure("invalid-result").status # "success"
    BY DEF Failure
  <2> HIDE DEF E, Over, r
  <2>8. CASE E("before") \in Over("before", seen) /\ E("after") \in Over("after", seen)
    <3>1. Outcome \in OutcomesFor(r, seen)
      BY <2>2, <2>4, <2>5, <2>8
    <3> QED
      BY <3>1 DEF r
  <2>9. CASE misplaced /\ E("before") \in Over("before", Anything) /\ E("after") \in Over("after", Anything)
    <3>1. Outcome \in OutcomesFor(r, Anything)
      BY <2>2, <2>4, <2>5, <2>9
    <3> QED
      BY <2>9, <3>1 DEF r
  <2>10. CASE misplaced /\ E("before") = Failure("invalid-result")
    BY <2>2, <2>7, <2>10
  <2>11. CASE misplaced /\ E("before") \in Over("before", Anything) /\ E("after") = Failure("invalid-result")
    <3>1. CASE E("before").status # "success"
      <4>1. Outcome \in OutcomesFor(r, Anything)
        BY <2>2, <2>4, <2>5, <2>11, <3>1
      <4> QED
        BY <2>11, <4>1 DEF r
    <3>2. CASE E("before").status = "success"
      BY <2>2, <2>7, <2>11, <3>2
    <3> QED
      BY <3>1, <3>2
  <2> QED
    BY <1>2, <1>3, <2>1, <2>6, <2>8, <2>9, <2>10, <2>11
<1> QED
  BY <1>4, <1>5

\* A success of one side is what its target says.
LEMMA SuccessSaid ==
    ASSUME NEW r, WasRead(r), NEW t \in Targets, NEW S \in SUBSET (Modules \cup {None}),
           NEW o \in OutcomesOver(r, t, S), o.status = "success"
    PROVE  \E v, e, p \in Modules : o \in Said(r, t, v, e, p)
<1>1. \E v, e, p \in S \ {None} : o \in Said(r, t, v, e, p)
  BY OutcomeStatus
<1>2. S \ {None} \subseteq Modules
  OBVIOUS
<1> QED
  BY <1>1, <1>2

\* What the caller adds to its walk is a page of an index.
LEMMA WalkedExact ==
    ASSUME IInv, ~Between, \A s \in ActiveSides(request) : analyses[s].pc = "ended"
    PROVE  LET w == Walked(Outcome) IN w = <<>> \/ \E t \in Targets, v, m \in Modules : IsWalk(w, t, v, m)
<1> DEFINE r == request
           q == r.queries[1]
           w == Walked(Outcome)
           result == Outcome.results[1]
           IsNow(x) == x = <<>> \/ \E t \in Targets, v, m \in Modules : IsWalk(x, t, v, m)
           page == [target |-> r.target, names |-> result.names, page |-> result.page,
                    identity |-> result.identity]
           continues == walk # <<>> /\ r.target = Last(walk).target /\ q.cursor = Last(walk).page.next
<1>1. WasRead(r) /\ IsNow(walk)
  BY DEF IInv, Busy, WalkInv
<1>2. \/ w = walk \/ w = <<>>
      \/ /\ r.kind # "comparison" /\ q.cursor # None /\ Outcome.status = "success"
         /\ \/ q.cursor = Start /\ w = <<page>>
            \/ continues /\ w = Append(walk, page)
  BY DEF Walked
<1>3. ASSUME r.kind # "comparison", q.cursor # None, Outcome.status = "success",
             \/ q.cursor = Start /\ w = <<page>>
             \/ continues /\ w = Append(walk, page)
      PROVE  IsNow(w)
  <2> DEFINE t == r.target
  <2>1. t \in Targets
    BY <1>1, <1>3 DEF WasRead, IsRequest
  <2>2. \E S \in SUBSET (Modules \cup {None}) : Outcome \in OutcomesOver(r, t, S)
    <3>1. /\ seen[t] \in SUBSET (Modules \cup {None})
          /\ Anything[t] \in SUBSET (Modules \cup {None})
      BY <2>1 DEF IInv, Typed, Anything
    <3>2. \A X : OutcomesFor(r, X) = OutcomesOver(r, t, X[t])
      BY <1>3 DEF OutcomesFor
    <3>3. Outcome # Failure("invalid-result")
      BY <1>3 DEF Failure
    <3>4. Outcome \in OutcomesFor(r, seen) \/ Outcome \in OutcomesFor(r, Anything)
      BY <3>3, OutcomeExact
    <3> QED
      BY <3>1, <3>2, <3>4
  <2>3. PICK v \in Modules, e \in Modules, p \in Modules : Outcome \in Said(r, t, v, e, p)
    BY <1>1, <1>3, <2>1, <2>2, SuccessSaid
  <2>4. 1 \in 1..Len(r.queries) /\ IsQuery(q)
    BY <1>1, ReadTyped
  <2>5. /\ Echoes(result, q, t, v.identity)
        /\ IsPageOf(result, q, t, v.identity, e)
    BY <1>1, <1>3, <2>1, <2>3, <2>4, SuccessEchoes
  <2>6. q.intent = "overview"
    BY <1>3, <2>4, QueryFields
  <2>7. /\ Continues(q.cursor, <<v.identity, t>>, Index(e))
        /\ page = PageOf(q.cursor, t, v, e)
    BY <1>3, <2>5, <2>6 DEF IsPageOf, Echoes, PageOf
  <2>8. CASE q.cursor = Start /\ w = <<page>>
    <3>1. w = <<PageOf(Start, t, v, e)>>
      BY <2>7, <2>8
    <3>2. IsWalk(w, t, v, e)
      BY <2>1, <3>1, WalkBegins
    <3> QED
      BY <2>1, <3>2
  <2>9. CASE continues /\ w = Append(walk, page)
    <3>1. PICK u \in Targets, i \in Modules, m \in Modules : IsWalk(walk, u, i, m)
      BY <1>1, <2>9
    <3>2. t = u /\ q.cursor = Last(walk).page.next
      BY <2>9, <3>1, WalkLast
    <3>3. w = Append(walk, PageOf(Last(walk).page.next, u, v, e))
      BY <2>7, <2>9, <3>2
    <3>4. /\ Last(walk).page.next # None
          /\ Continues(Last(walk).page.next, <<v.identity, u>>, Index(e))
      BY <1>3, <2>7, <3>2
    <3>5. IsWalk(w, u, i, m)
      <4> HIDE DEF w
      <4> QED
        BY <3>1, <3>3, <3>4, WalkGrows
    <3> QED
      BY <3>5
  <2> QED
    BY <1>3, <2>8, <2>9
<1> HIDE DEF w, page
<1> QED
  BY <1>1, <1>2, <1>3 DEF w

LEMMA DeliverStep ==
    ASSUME IInv, Deliver
    PROVE  IInv'
<1>1. /\ ~Between /\ \A s \in ActiveSides(request) : analyses[s].pc = "ended"
      /\ answer' = [request |-> request, outcome |-> Outcome]
      /\ walk' = Walked(Outcome)
      /\ analyses' = [s \in Sides |-> Idle]
      /\ installed' = installed /\ misplaced' = misplaced /\ seen' = seen
  BY DEF Deliver
<1>2. WasRead(request)
  BY <1>1 DEF IInv, Busy
<1>3. Typed'
  BY <1>1 DEF IInv, Typed
<1>4. Between'
  BY <1>1 DEF Between
<1>5. Busy'
  BY <1>4 DEF Busy
<1>6. Deliveries'
  <2>1. CASE misplaced
    <3>1. delivered' = delivered
      BY <2>1 DEF Deliver
    <3> QED
      BY <3>1 DEF IInv, Deliveries
  <2>2. CASE ~misplaced
    <3> DEFINE new == {o \in {analyses[s].outcome : s \in ActiveSides(request)} : o.status = "success"}
    <3>1. delivered' = delivered \cup new
      BY <2>2 DEF Deliver
    <3>2. ASSUME NEW o \in new
          PROVE  \E r : /\ WasRead(r) /\ o.status = "success"
                        /\ \E t \in Targets, v, e, p \in Modules : o \in Said(r, t, v, e, p)
      <4>1. PICK s \in ActiveSides(request) : o = analyses[s].outcome
        OBVIOUS
      <4>2. o.status = "success"
        OBVIOUS
      <4> DEFINE t == SideTarget(request, s)
      <4>3. /\ t \in Targets /\ seen[t] \in SUBSET (Modules \cup {None})
            /\ AnalysisInv(request, analyses[s], t, seen[t], installed[t], Foreign)
        <5>1. s \in Sides /\ analyses[s].pc # "idle"
          BY <1>1 DEF ActiveSides, Sides
        <5> QED
          BY <5>1, ActiveSide DEF IInv
      <4>4. Foreign = {}
        BY <2>2 DEF Foreign
      <4>5. o \in OutcomesOver(request, t, seen[t])
        BY <1>1, <4>1, <4>3, <4>4 DEF AnalysisInv
      <4>6. \E v, e, p \in Modules : o \in Said(request, t, v, e, p)
        BY <1>2, <4>2, <4>3, <4>5, SuccessSaid
      <4> QED
        BY <1>2, <4>2, <4>3, <4>6
    <3> HIDE DEF new
    <3> QED
      BY <3>1, <3>2 DEF IInv, Deliveries
  <2> QED
    BY <2>1, <2>2
<1>7. AnswerInv'
  BY <1>1, <1>2 DEF AnswerInv, WasRead
<1>8. WalkInv'
  BY <1>1, WalkedExact DEF WalkInv
<1>9. AnswersAreOfOneSnapshot'
  <2>1. answer'.request = request /\ answer'.outcome = Outcome
    BY <1>1
  <2>2. \/ Outcome \in OutcomesFor(request, seen)
        \/ misplaced /\ \/ Outcome = Failure("invalid-result")
                        \/ Outcome \in OutcomesFor(request, [t \in Targets |-> Modules \cup {None}])
    BY <1>1, OutcomeExact DEF Anything
  <2> QED
    BY <1>1, <2>1, <2>2 DEF AnswersAreOfOneSnapshot
<1> QED
  BY <1>3, <1>5, <1>6, <1>7, <1>8, <1>9 DEF IInv

-----------------------------------------------------------------------------
(* Updates and new requests.                                               *)

LEMMA AnalysisInvGrows ==
    ASSUME NEW r, NEW a, NEW t, NEW S, NEW m, NEW F, AnalysisInv(r, a, t, S, m, F),
           NEW T, S \subseteq T, NEW n, m # None => n # None
    PROVE  AnalysisInv(r, a, t, T, n, F)
<1>1. S \ {None} \subseteq T \ {None}
  OBVIOUS
<1>2. OutcomesOver(r, t, S) \subseteq OutcomesOver(r, t, T)
  BY OutcomesGrow
<1>3. Answering(r, a, t, S) => Answering(r, a, t, T)
  BY <1>1 DEF Answering
<1> QED
  BY <1>1, <1>2, <1>3 DEF AnalysisInv

LEMMA UpdateStep ==
    ASSUME IInv, Update
    PROVE  IInv'
<1>1. PICK t \in Targets, m \in Modules : /\ installed' = [installed EXCEPT ![t] = m]
                                          /\ seen' = [seen EXCEPT ![t] = seen[t] \cup {m}]
  BY DEF Update
<1>2. /\ request' = request /\ analyses' = analyses /\ misplaced' = misplaced
      /\ answer' = answer /\ delivered' = delivered /\ walk' = walk
  BY DEF Update
<1>3. Typed /\ Busy /\ AnswersAreOfOneSnapshot /\ AnswerInv
  BY DEF IInv
<1>4. /\ Typed'
      /\ \A u \in Targets : /\ seen[u] \subseteq seen'[u]
                            /\ installed[u] # None => installed'[u] # None
  BY <1>1, <1>2, <1>3, NoneAssumption DEF Typed
<1>5. Foreign' = Foreign /\ Between' = Between
  BY <1>2 DEF Foreign, Between
<1>6. Busy'
  <2>1. CASE Between
    BY <1>5, <2>1 DEF Busy
  <2>2. CASE ~Between
    <3>1. WasRead(request) /\ \A s \in Sides \ ActiveSides(request) : analyses[s] = Idle
      BY <1>3, <2>2 DEF Busy
    <3>2. ASSUME NEW s \in ActiveSides(request)
          PROVE  LET u == SideTarget(request, s)
                 IN  AnalysisInv(request, analyses[s], u, seen'[u], installed'[u], Foreign)
      <4> DEFINE u == SideTarget(request, s)
      <4>1. u \in Targets
        BY <3>1, ReadTyped
      <4>2. AnalysisInv(request, analyses[s], u, seen[u], installed[u], Foreign)
        BY <1>3, <2>2 DEF Busy
      <4> HIDE DEF u
      <4>3. AnalysisInv(request, analyses[s], u, seen'[u], installed'[u], Foreign)
        BY <1>4, <4>1, <4>2, AnalysisInvGrows
      <4> QED
        BY <4>3 DEF u
    <3> QED
      BY <1>2, <1>5, <3>1, <3>2 DEF Busy
  <2> QED
    BY <2>1, <2>2
<1>7. Deliveries' /\ AnswerInv' /\ WalkInv'
  BY <1>2 DEF IInv, Deliveries, AnswerInv, WalkInv
<1>8. AnswersAreOfOneSnapshot'
  <2>1. ASSUME answer # None, IsReadable(answer.request)
        PROVE  OutcomesFor(answer.request, seen) \subseteq OutcomesFor(answer.request, seen')
    <3> DEFINE r == answer.request
    <3>1. IsRequest(r)
      BY <1>3, <2>1 DEF AnswerInv
    <3>2. CASE r.kind = "comparison"
      <4>1. r.target \in [Sides -> Targets]
        BY <3>1, <3>2 DEF IsRequest
      <4>2. ComparisonsOver(r, seen) \subseteq ComparisonsOver(r, seen')
        BY <1>4, <4>1, ComparisonsGrow
      <4> QED
        BY <3>2, <4>2 DEF OutcomesFor
    <3>3. CASE r.kind # "comparison"
      <4>1. r.target \in Targets
        BY <3>1, <3>3 DEF IsRequest
      <4>2. OutcomesOver(r, r.target, seen[r.target]) \subseteq OutcomesOver(r, r.target, seen'[r.target])
        BY <1>4, <4>1, OutcomesGrow
      <4> QED
        BY <3>3, <4>2 DEF OutcomesFor
    <3> QED
      BY <3>2, <3>3
  <2> QED
    BY <1>2, <1>3, <1>5, <2>1 DEF AnswersAreOfOneSnapshot
<1> QED
  BY <1>4, <1>6, <1>7, <1>8 DEF IInv

LEMMA SendStep ==
    ASSUME IInv, Between, NEW r, IsReadable(r) => IsRequest(r), Send(r)
    PROVE  IInv'
<1>1. /\ misplaced' = FALSE /\ installed' = installed /\ delivered' = delivered /\ walk' = walk
  BY DEF Send
<1>2. Typed /\ Deliveries' /\ WalkInv'
  BY <1>1 DEF IInv, Deliveries, WalkInv
<1>3. CASE IsReadable(r)
  <2>1. /\ request' = r /\ answer' = answer
        /\ analyses' = [s \in Sides |-> IF s \in ActiveSides(r) THEN Analysis(r, s) ELSE Idle]
        /\ seen' = [t \in Targets |-> {installed[t]}]
    BY <1>3 DEF Send
  <2>2. WasRead(r)
    BY <1>3 DEF WasRead
  <2>3. Typed'
    BY <1>1, <1>2, <2>1 DEF Typed
  <2>4. ASSUME NEW s \in ActiveSides(r)
        PROVE  LET t == SideTarget(r, s)
               IN  AnalysisInv(r, Analysis(r, s), t, seen'[t], installed'[t], Foreign')
    <3> DEFINE a == Analysis(r, s)
    <3>1. /\ DOMAIN a = Fields /\ a.pc = "select" /\ a.target = SideTarget(r, s)
          /\ a.queries = r.queries /\ a.plan = (r.kind = "plan")
          /\ a.size = 0 /\ a.members = 0 /\ a.results = <<>> /\ a.subpaths = <<>>
      BY DEF Analysis, Fields
    <3> HIDE DEF a
    <3> QED
      BY <3>1 DEF AnalysisInv, a
  <2>5. \A s \in ActiveSides(r) : s \in Sides /\ analyses'[s] = Analysis(r, s)
    BY <2>1 DEF ActiveSides, Sides
  <2>6. \A s \in Sides \ ActiveSides(r) : analyses'[s] = Idle
    BY <2>1
  <2>7. Busy'
    <3>1. \A s \in ActiveSides(r) : LET t == SideTarget(r, s)
             IN  AnalysisInv(r, analyses'[s], t, seen'[t], installed'[t], Foreign')
      BY <2>4, <2>5
    <3> QED
      BY <2>1, <2>2, <2>6, <3>1 DEF Busy
  <2>8. ~Between'
    <3>1. Analysis(r, "before") # Idle
      BY DEF Analysis, Idle
    <3>2. "before" \in ActiveSides(r)
      BY <2>2, ReadTyped
    <3> QED
      BY <2>5, <3>1, <3>2 DEF Between
  <2>9. AnswerInv' /\ AnswersAreOfOneSnapshot'
    BY <2>1, <2>8 DEF IInv, AnswerInv, AnswersAreOfOneSnapshot
  <2> QED
    BY <1>2, <2>3, <2>7, <2>9 DEF IInv
<1>4. CASE ~IsReadable(r)
  <2>1. /\ answer' = [request |-> r, outcome |-> Failure("invalid-request")]
        /\ request' = request /\ analyses' = analyses /\ seen' = seen
    BY <1>4 DEF Send
  <2>2. Typed'
    BY <1>1, <1>2, <2>1 DEF Typed
  <2>3. Busy'
    BY <2>1 DEF Busy, Between
  <2>4. answer'.request = r /\ answer'.outcome = Failure("invalid-request")
    BY <2>1
  <2>5. AnswerInv' /\ AnswersAreOfOneSnapshot'
    BY <1>4, <2>4 DEF AnswerInv, AnswersAreOfOneSnapshot
  <2> QED
    BY <1>2, <2>2, <2>3, <2>5 DEF IInv
<1> QED
  BY <1>3, <1>4

LEMMA SingleIsRequest ==
    ASSUME NEW t \in Targets, NEW x, IsQuery(x)
    PROVE  IsRequest(Request("query", t, <<x>>))
<1> DEFINE r == Request("query", t, <<x>>)
<1>1. r.kind = "query" /\ r.target = t /\ r.queries = <<x>>
  BY DEF Request
<1>2. Len(<<x>>) = 1 /\ \A i \in DOMAIN <<x>> : <<x>>[i] = x
  OBVIOUS
<1>3. x \in ToSet(<<x>>)
  BY DEF ToSet
<1>4. <<x>> \in Seq(ToSet(<<x>>))
  BY <1>3
<1> HIDE DEF r
<1> QED
  BY <1>1, <1>2, <1>4 DEF IsRequest, r

\* The recovery that is offered for a failure is a request that can be read.
LEMMA RecoveryIsRequest ==
    ASSUME NEW q, IsRequest(q), NEW o, NEW r \in Recovery(q, o)
    PROVE  IsRequest(r)
<1>1. q.kind = "query" /\ o.status = "failure"
  BY DEF Recovery
<1> DEFINE p == q.queries[1]
           more == Query("declarations", p.cursor, p.name, p.search, p.scope)
           search == Query("search", None, None, p.name, None)
<1>2. IsQuery(p) /\ q.target \in Targets
  <2>1. q.queries \in Seq(ToSet(q.queries)) /\ Len(q.queries) = 1
    BY <1>1 DEF IsRequest
  <2>2. 1 \in DOMAIN q.queries
    BY <2>1
  <2> QED
    BY <1>1, <2>2 DEF IsRequest
<1>3. \/ r = Request("query", q.target, <<[p EXCEPT !.intent = "declarations"]>>) /\ p.intent = "export"
      \/ r = Request("query", q.target, <<search>>)
  BY <1>1 DEF Recovery
<1>4. p.intent = "export" => [p EXCEPT !.intent = "declarations"] = more
  <2>1. p = Query(p.intent, p.cursor, p.name, p.search, p.scope)
    BY <1>2, QueryIsRecord
  <2> QED
    BY <2>1 DEF Query
<1>5. IsQuery(search)
  BY DEF IsQuery, Query
<1>6. p.intent = "export" => IsQuery(more)
  BY <1>2, QueryFields DEF IsQuery, Query
<1> HIDE DEF p, more, search
<1>7. ASSUME NEW x, IsQuery(x), r = Request("query", q.target, <<x>>) PROVE IsRequest(r)
  BY <1>2, <1>7, SingleIsRequest
<1> QED
  BY <1>3, <1>4, <1>5, <1>6, <1>7

LEMMA AskStep ==
    ASSUME IInv, Ask
    PROVE  IInv'
<1>1. Between
  BY DEF Ask
<1>2. CASE \E r \in Requests : Send(r)
  BY <1>1, <1>2, QueriesAssumption, SendStep
<1>3. CASE /\ walk # <<>> /\ Last(walk).page.next # None
           /\ Send(Request("query", Last(walk).target, <<Overview(Last(walk).page.next)>>))
  <2>1. PICK t \in Targets, v \in Modules, m \in Modules : IsWalk(walk, t, v, m)
    BY <1>3 DEF IInv, WalkInv
  <2> DEFINE n == Len(walk)
             c == Last(walk).page.next
  <2>2. Last(walk).target = t /\ c = CursorAt(n + 1, t, v, m)
        /\ (n + 1 - 1) * PageSize \in 1..Cardinality(m.exports)
    BY <1>3, <2>1, WalkLast
  <2>3. n + 1 \in Nat \ {0} /\ n + 1 # 1
    BY <2>1 DEF IsWalk
  <2>4. IsCursor(CursorAt(n + 1, t, v, m))
    <3> DEFINE k == n + 1
    <3>1. k \in Nat \ {0} /\ (k - 1) * PageSize \in 1..Cardinality(m.exports)
      BY <2>2, <2>3
    <3> HIDE DEF k
    <3>2. IsCursor(CursorAt(k, t, v, m))
      BY <3>1, CursorAtExact
    <3> QED
      BY <3>2 DEF k
  <2>5. IsQuery(Overview(c))
    <3>1. IsCursor(c)
      BY <2>2, <2>4
    <3> HIDE DEF c
    <3> QED
      BY <3>1 DEF IsQuery, IsCursor, Overview, Query
  <2>6. IsRequest(Request("query", t, <<Overview(c)>>))
    <3> HIDE DEF c
    <3> QED
      BY <2>5, SingleIsRequest
  <2>7. Send(Request("query", t, <<Overview(c)>>))
    BY <1>3, <2>2
  <2> HIDE DEF c
  <2> QED
    BY <1>1, <2>6, <2>7, SendStep
<1>4. CASE answer # None /\ \E r \in Recovery(answer.request, answer.outcome) : Send(r)
  <2>1. PICK r \in Recovery(answer.request, answer.outcome) : Send(r)
    BY <1>4
  <2>2. IsReadable(answer.request)
    <3>1. SUFFICES ASSUME ~IsReadable(answer.request) PROVE FALSE
      OBVIOUS
    <3>2. answer.outcome = Failure("invalid-request")
      BY <1>4, <3>1 DEF IInv, AnswerInv
    <3>3. answer.outcome.why = "invalid-request"
      BY <3>2 DEF Failure
    <3> QED
      BY <2>1, <3>3 DEF Recovery
  <2>3. IsRequest(answer.request)
    BY <1>4, <2>2 DEF IInv, AnswerInv
  <2>4. IsRequest(r)
    BY <2>3, RecoveryIsRequest
  <2> QED
    BY <1>1, <2>1, <2>4, SendStep
<1> QED
  BY <1>2, <1>3, <1>4 DEF Ask

-----------------------------------------------------------------------------
(* The theorems.                                                           *)

LEMMA InitInv == Init => IInv
<1> SUFFICES ASSUME Init PROVE IInv
  OBVIOUS
<1>1. Between
  BY DEF Init, Between
<1>2. Typed /\ Busy
  BY <1>1 DEF Init, Typed, Busy
<1>3. Deliveries /\ AnswerInv /\ WalkInv /\ AnswersAreOfOneSnapshot
  BY DEF Init, Deliveries, AnswerInv, WalkInv, AnswersAreOfOneSnapshot
<1> QED
  BY <1>2, <1>3 DEF IInv

LEMMA StutterStep == IInv /\ UNCHANGED vars => IInv'
<1> SUFFICES ASSUME IInv, UNCHANGED vars PROVE IInv'
  OBVIOUS
<1>1. /\ installed' = installed /\ request' = request /\ analyses' = analyses
      /\ misplaced' = misplaced /\ seen' = seen /\ answer' = answer
      /\ delivered' = delivered /\ walk' = walk
  BY DEF vars
<1>2. Typed' /\ Deliveries' /\ AnswerInv' /\ WalkInv'
  BY <1>1 DEF IInv, Typed, Deliveries, AnswerInv, WalkInv
<1>3. Busy' /\ AnswersAreOfOneSnapshot'
  BY <1>1 DEF IInv, Busy, Between, Foreign, AnswersAreOfOneSnapshot
<1> QED
  BY <1>2, <1>3 DEF IInv

LEMMA IInvHolds == Spec => []IInv
<1>1. IInv /\ [Next]_vars => IInv'
  <2> SUFFICES ASSUME IInv, [Next]_vars PROVE IInv'
    OBVIOUS
  <2>1. CASE Ask
    BY <2>1, AskStep
  <2>2. ASSUME NEW s \in Sides,
               Select(s) \/ Prepare(s) \/ AnswerNext(s) \/ Finish(s) \/ Misplace(s)
        PROVE  IInv'
    BY <2>2, SelectStep, PrepareStep, AnswerStep, FinishStep, MisplaceStep
  <2>3. CASE Deliver
    BY <2>3, DeliverStep
  <2>4. CASE Update
    BY <2>4, UpdateStep
  <2>5. CASE UNCHANGED vars
    BY <2>5, StutterStep
  <2> QED
    BY <2>1, <2>2, <2>3, <2>4, <2>5 DEF Next
<1> QED
  BY <1>1, InitInv, PTL DEF Spec

\* Whatever is updated between the steps of an analysis, a request is answered
\* by what one selection, one program and one list of subpaths say, or by the
\* first of its queries that fails, and the outcome of another request is
\* never delivered for it unless it says the same.
THEOREM Answered == Spec => []AnswersAreOfOneSnapshot
<1>1. IInv => AnswersAreOfOneSnapshot
  BY DEF IInv
<1> QED
  BY <1>1, IInvHolds, PTL

\* The i-th page of a walk is the i-th block of one index.
LEMMA WalkPage ==
    ASSUME NEW t \in Targets, NEW v \in Modules, NEW m \in Modules, NEW w, IsWalk(w, t, v, m),
           NEW i \in 1..Len(w)
    PROVE  /\ w[i].names = Block(Index(m), i)
           /\ w[i].identity = v.identity
           /\ w[i].page.total = Cardinality(m.exports)
<1> DEFINE c == CursorAt(i, t, v, m)
<1>1. i \in Nat \ {0} /\ (i = 1 \/ (i - 1) * PageSize \in 1..Cardinality(m.exports))
  BY DEF IsWalk
<1>2. Offset(c) = (i - 1) * PageSize
  BY <1>1, CursorAtExact
<1>3. Offset(c) + PageSize = i * PageSize
  BY <1>1, <1>2, PageSizeTyped, Times
<1>4. w[i] = PageOf(c, t, v, m)
  BY DEF IsWalk
<1> HIDE DEF c
<1>5. /\ w[i].names = PageNames(c, Index(m)) /\ w[i].identity = v.identity
      /\ w[i].page = Page(c, <<v.identity, t>>, Index(m))
  BY <1>4 DEF PageOf
<1>6. w[i].page.total = Cardinality(m.exports)
  BY <1>5, IndexTyped DEF Page
<1>7. PageNames(c, Index(m)) = Block(Index(m), i)
  BY <1>2, <1>3 DEF PageNames, Block
<1> QED
  BY <1>5, <1>6, <1>7

\* The pages that a caller gets by following cursors are the blocks of one
\* index up to its end, although the package may be updated between two pages.
THEOREM Walks == Spec => []WalksAreComplete
<1>1. ASSUME WalkInv, walk # <<>> PROVE WalksAreComplete
  <2>1. PICK t \in Targets, v \in Modules, m \in Modules : IsWalk(walk, t, v, m)
    BY <1>1 DEF WalkInv
  <2>2. Len(walk) \in Nat \ {0} /\ DOMAIN walk = 1..Len(walk) /\ 1 \in 1..Len(walk)
    BY <2>1 DEF IsWalk
  <2>3. \A i \in 1..Len(walk) : /\ walk[i].names = Block(Index(m), i)
                                /\ walk[i].identity = walk[1].identity
                                /\ walk[i].page.total = Cardinality(m.exports)
    BY <2>1, <2>2, WalkPage
  <2>4. Last(walk).page.next = None <=> Len(walk) * PageSize >= Cardinality(m.exports)
    <3> DEFINE n == Len(walk)
               k == n * PageSize
               C == Cardinality(m.exports)
    <3>1. Last(walk).page.next = IF k < C THEN CursorAt(n + 1, t, v, m) ELSE None
      BY <2>1, WalkLast
    <3>2. k < C => CursorAt(n + 1, t, v, m) # None
      <4>1. k < C => (n + 1 - 1) * PageSize \in 1..C
        BY <2>1, WalkLast
      <4> DEFINE j == n + 1
      <4>2. j \in Nat \ {0} /\ j # 1
        BY <2>2
      <4> HIDE DEF j, C
      <4>3. (j - 1) * PageSize \in 1..C => CursorAt(j, t, v, m) # None
        BY <4>2, CursorAtExact DEF C
      <4> QED
        BY <4>1, <4>3 DEF j
    <3>3. k \in Nat /\ C \in Nat
      BY <2>2, IndexTyped, PageSizeTyped, Times
    <3> HIDE DEF k, C
    <3>4. k < C <=> ~(k >= C)
      BY <3>3
    <3> QED
      BY <3>1, <3>2, <3>4 DEF k, C
  <2> QED
    BY <2>2, <2>3, <2>4 DEF WalksAreComplete
<1>2. IInv => WalksAreComplete
  BY <1>1 DEF IInv, WalksAreComplete
<1> QED
  BY <1>2, IInvHolds, PTL
=============================================================================
