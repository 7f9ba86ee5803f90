------------------------ MODULE CompilerLookupsProofs ------------------------
(***************************************************************************)
(* Proofs that a lookup answers exactly its own question, for any          *)
(* installation, any contexts, any limits and any order of lookups.        *)
(*                                                                         *)
(* The invariant says what each thing that is kept may contain: the        *)
(* answers of a host are those of the disk; a resolution, a style and a    *)
(* manifest are the ones a lookup from nothing would find; and a lookup    *)
(* that is under way has refuted what it has passed.  While the compiler   *)
(* runs this holds only until a limit is met in a callback, from where it  *)
(* is given fallbacks: it is the kept error, thrown when the compiler      *)
(* returns, that keeps what was computed from them out of every memo.      *)
(***************************************************************************)
EXTENDS CompilerLookups, FiniteSetTheorems, TLAPS

Typed ==
    /\ disk \in Disks
    /\ limits \in [operations : OperationLimits, bytes : ByteLimits]
    /\ operationCount \in Nat /\ byteCount \in Nat
    /\ pc \in {"idle", "resolve", "native", "settle", "format", "failed"}

WithinBudgets ==
    met = None => operationCount <= limits.operations /\ byteCount <= limits.bytes

\* Outside of the compiler no limit is pending; inside, the kept one is the first.
ErrorsAreKept ==
    /\ pc \in {"idle", "resolve", "settle", "format"} => met = None /\ callbackError = None
    /\ pc = "native" => met = callbackError

HostsAreExact ==
    \A c \in DOMAIN replayHosts :
        /\ DOMAIN replayHosts[c] = Methods
        /\ \A m \in Methods : \A p \in DOMAIN replayHosts[c][m] :
              replayHosts[c][m][p] = Look(m, p).value

\* The files whose canonical path a context may be given.
Given(roots, x) == x # None => \E f \in Files : x = RealFile[f] /\ Authorized(roots, Dir[f], FALSE)

ResolvedIsExact ==
    \A key \in DOMAIN resolved :
        /\ resolved[key] = Resolution(key[1].roots, key[2])
        /\ Given(key[1].roots, resolved[key])

ManifestsAreExact ==
    \A m \in DOMAIN manifests :
        disk[m] # None /\ disk[m].format # "broken" /\ manifests[m] = disk[m]

StyleAround(roots, d) ==
    IF \E m \in NearestManifest(roots, d) : disk[m].format = "module" THEN "import" ELSE "require"

RootsAround(roots, d) == {r \in roots : IsPathWithin(r, d)}

FormatsAreExact ==
    \A c \in Contexts : LET key == <<c.directory, RootsAround(c.roots, c.directory)>> IN
        key \in DOMAIN fileFormats => fileFormats[key] = StyleAround(c.roots, c.directory)

MemosAreExact == HostsAreExact /\ ResolvedIsExact /\ ManifestsAreExact /\ FormatsAreExact

-----------------------------------------------------------------------------
(* A lookup under way.                                                     *)

\* A probe turns to its own package when nothing is found in @types.
ResolvingIsTyped ==
    pc \in {"resolve", "native", "settle"} =>
        /\ lookup \in [kind : {"module", "probe"}, context : Contexts, query : Queries,
                       todo : Seq(Queries)]
        /\ \/ lookup.todo = <<lookup.query>>
              /\ \/ lookup.kind = "module"
                 \/ Types[lookup.query] = lookup.query
                 \/ Resolution(Context.roots, Types[lookup.query]) = None
           \/ lookup.kind = "probe" /\ lookup.todo = <<Types[lookup.query], lookup.query>>

\* The manifests below the directory that is looked at cannot be read.
WalkIsExact ==
    pc = "format" =>
        /\ lookup \in [kind : {"format"}, context : Contexts, source : Sources, at : Dirs]
        /\ Dir[lookup.source] = Context.directory
        /\ lookup.at \in Above[Context.directory]
        /\ \A m \in Manifests :
              Dir[m] \in Above[Context.directory] /\ Readable(Context.roots, m)
              => Dir[m] \in Above[lookup.at]

NativeIsTyped ==
    pc = "native" =>
        /\ Context \in DOMAIN replayHosts
        /\ native \in [ask : Methods \cup {"return"}, path : Files \cup {None}, rest : Seq(Files)]
        /\ native.ask # "return" => native.path \in Files
        /\ native.ask = "text" => native.path \in Manifests

\* What the compiler asks next settles where the candidate f leads to.
Pursues(roots, f) ==
    CASE native.ask = "directory" -> native.path = f
      [] native.ask = "text" -> native.path = f
      [] native.ask = "file" ->
            Lead(roots, f) = IF Readable(roots, native.path) THEN RealFile[native.path] ELSE None
      [] OTHER -> Readable(roots, native.path) /\ Lead(roots, f) = RealFile[native.path]

\* The i-th candidate of s is tried, after those before it led nowhere.
IsTrying(roots, s, i) ==
    /\ \A j \in 1..(i - 1) : Lead(roots, s[j]) = None
    /\ Pursues(roots, s[i])
    /\ Len(native.rest) = Len(s) - i
    /\ \A k \in 1..Len(native.rest) : native.rest[k] = s[i + k]

\* The compiler has the resolution, or its first hit is yet to come.
Advances(roots, query) ==
    IF native.ask = "return"
    THEN native.path = Resolution(roots, query) /\ Given(roots, native.path)
    ELSE \E i \in 1..Len(Candidates[query]) : IsTrying(roots, Candidates[query], i)

NativeIsExact ==
    pc = "native" /\ callbackError = None => Advances(Context.roots, Head(lookup.todo))

SettleIsExact ==
    pc = "settle" =>
        /\ Context \in DOMAIN replayHosts
        /\ native.path = Resolution(Context.roots, Head(lookup.todo))
        /\ Given(Context.roots, native.path)

LookupIsExact ==
    /\ ResolvingIsTyped /\ WalkIsExact
    /\ NativeIsTyped /\ NativeIsExact /\ SettleIsExact

Inv ==
    /\ Typed /\ WithinBudgets /\ ErrorsAreKept
    /\ MemosAreExact /\ LookupIsExact
    /\ AnswersAreExact

-----------------------------------------------------------------------------
(* Directories.                                                            *)

\* A directory is above itself, and what is above it is in Dirs.
LEMMA AboveSelf == \A d \in Dirs : d \in Above[d] /\ Above[d] \subseteq Dirs
  BY DEF Above

\* What is above a directory is closed under Parent.
LEMMA AboveClosed == \A d \in Dirs : \A a \in Above[d] : Parent[a] \in Above[d]
<1> SUFFICES ASSUME NEW d \in Dirs, NEW a \in Above[d] PROVE Parent[a] \in Above[d]
  OBVIOUS
<1>1. a \in Dirs /\ Parent[a] \in Dirs
  BY AboveSelf, LookupsAssumption
<1>2. ASSUME NEW S \in SUBSET Dirs, d \in S, \A x \in S : Parent[x] \in S PROVE Parent[a] \in S
  <2>1. a \in S
    BY <1>2 DEF Above
  <2> QED
    BY <2>1, <1>2
<1> QED
  BY <1>1, <1>2 DEF Above

LEMMA AboveTransitive == \A d \in Dirs : \A a \in Above[d] : Above[a] \subseteq Above[d]
<1> SUFFICES ASSUME NEW d \in Dirs, NEW a \in Above[d], NEW b \in Above[a] PROVE b \in Above[d]
  OBVIOUS
<1>1. Above[d] \in SUBSET Dirs /\ a \in Dirs
  BY AboveSelf
<1>2. \A x \in Above[d] : Parent[x] \in Above[d]
  BY AboveClosed
<1> QED
  BY <1>1, <1>2 DEF Above

\* The walk up: what is above a directory is it and what is above its parent.
LEMMA AboveStep == \A d \in Dirs : Above[d] = {d} \cup Above[Parent[d]]
<1> SUFFICES ASSUME NEW d \in Dirs PROVE Above[d] = {d} \cup Above[Parent[d]]
  OBVIOUS
<1> DEFINE S == {d} \cup Above[Parent[d]]
<1>1. Parent[d] \in Dirs
  BY LookupsAssumption
<1>2. S \in SUBSET Dirs /\ d \in S
  BY <1>1, AboveSelf
<1>3. \A x \in S : Parent[x] \in S
  BY <1>1, AboveSelf, AboveClosed
<1>4. Above[d] \subseteq S
  BY <1>2, <1>3 DEF Above
<1>5. Parent[d] \in Above[d]
  BY AboveSelf, AboveClosed
<1>6. S \subseteq Above[d]
  BY <1>5, AboveSelf, AboveTransitive
<1> QED
  BY <1>4, <1>6

\* A directory that may be read from may also be asked about.
LEMMA AuthorizedWider ==
    ASSUME NEW roots, NEW d, Authorized(roots, d, FALSE)
    PROVE  Authorized(roots, d, TRUE)
  BY DEF Authorized

\* A canonical path may be read when some path that leads there may.
LEMMA AuthorizedReal ==
    ASSUME NEW roots, NEW d \in Dirs, Authorized(roots, d, FALSE)
    PROVE  Authorized(roots, Real[d], FALSE)
<1> DEFINE canonical == {Real[r] : r \in roots}
<1>1. PICK r \in canonical : IsPathWithin(r, Real[d]) /\ ~CrossesNestedPackage(r, Real[d])
  BY DEF Authorized
<1>2. Real[Real[d]] = Real[d]
  BY LookupsAssumption
<1> QED
  BY <1>1, <1>2 DEF Authorized

\* Two contexts of one directory with the same roots around it may read the
\* same of what is above it.
LEMMA AuthorizedAround ==
    ASSUME NEW b \in Contexts, NEW c \in Contexts, b.directory = c.directory,
           RootsAround(b.roots, b.directory) = RootsAround(c.roots, c.directory),
           NEW d \in Above[c.directory], Authorized(b.roots, d, FALSE)
    PROVE  Authorized(c.roots, d, FALSE)
<1>1. c.directory \in Dirs /\ d \in Dirs
  BY LookupsAssumption, AboveSelf
<1>2. Real[d] = d
  BY PathsAssumption
<1>3. PICK q \in b.roots : IsPathWithin(Real[q], d) /\ ~CrossesNestedPackage(Real[q], d)
  BY <1>2 DEF Authorized
<1> DEFINE r == Real[q]
<1>4. r \in Above[c.directory]
  BY <1>1, <1>3, AboveTransitive DEF IsPathWithin
<1>5. r \in c.roots
  <2>1. r \in b.roots
    BY <1>4, PathsAssumption
  <2>2. r \in RootsAround(b.roots, b.directory)
    BY <1>4, <2>1 DEF RootsAround, IsPathWithin
  <2> QED
    BY <2>2 DEF RootsAround
<1>6. r = Real[r]
  BY <1>4, PathsAssumption
<1> QED
  BY <1>2, <1>3, <1>5, <1>6 DEF Authorized

-----------------------------------------------------------------------------
(* Hosts.                                                                  *)

\* What a host should say, whatever it keeps.
Says(roots, m, p) ==
    IF Authorized(roots, IF m = "directory" THEN p ELSE Dir[p], m = "directory")
    THEN Look(m, p).value ELSE Refused(m, p)

Path(m) == IF m = "directory" THEN Dirs ELSE Files

\* A look at a file has a size that fits when it has no error.
LEMMA LookSpends ==
    ASSUME Typed, NEW m \in Methods, NEW p \in Path(m)
    PROVE  /\ Look(m, p).error \in Limits \cup {None}
           /\ Look(m, p).bytes \in Nat
           /\ Look(m, p).error = None /\ byteCount <= limits.bytes =>
                 byteCount + Look(m, p).bytes <= limits.bytes
<1>1. limits.bytes \in Nat /\ byteCount \in Nat /\ MaxManifest \in Nat
  BY LookupsAssumption DEF Typed
<1>2. None \notin Limits
  BY LookupsAssumption DEF Errors
<1>3. CASE m \in {"directory", "file", "real"}
  BY <1>1, <1>3 DEF Look
<1>4. CASE m = "text" /\ disk[p] = None
  BY <1>1, <1>4 DEF Look
<1>5. CASE m = "text" /\ disk[p] # None
  <2>1. disk[p].size \in Nat
    BY <1>5, LookupsAssumption DEF Typed, Path
  <2>2. Look(m, p) = [value |-> disk[p], error |-> TooLarge(disk[p].size), bytes |-> disk[p].size]
    BY <1>5 DEF Look
  <2>3. TooLarge(disk[p].size) \in Limits \cup {None}
    BY DEF TooLarge, Limits
  <2>4. TooLarge(disk[p].size) = None => disk[p].size <= RemainingBytes
    BY <1>2 DEF TooLarge, Limits
  <2>5. byteCount <= limits.bytes => RemainingBytes = limits.bytes - byteCount
    BY <1>1 DEF RemainingBytes
  <2>6. disk[p].size <= limits.bytes - byteCount => byteCount + disk[p].size <= limits.bytes
    BY <1>1, <2>1
  <2> QED
    BY <2>1, <2>2, <2>3, <2>4, <2>5, <2>6
<1> QED
  BY <1>3, <1>4, <1>5 DEF Methods

\* Whatever its host keeps, a callback says what the disk says or meets a limit;
\* it keeps nothing else, and without a limit it stays within the budgets.
LEMMA HostCallExact ==
    ASSUME Typed, HostsAreExact,
           NEW c \in Contexts, c \in DOMAIN replayHosts,
           NEW m \in Methods, NEW p \in Path(m)
    PROVE  LET call == HostCall(c, m, p) IN
           /\ call.error \in Limits \cup {None}
           /\ call.operations \in Nat /\ call.bytes \in Nat
           /\ call.error = None => call.value = Says(c.roots, m, p)
           /\ \A q \in DOMAIN call.keeps : call.keeps[q] = Look(m, q).value
           /\ call.error = None /\ operationCount <= limits.operations
                                /\ byteCount <= limits.bytes =>
                 /\ operationCount + call.operations <= limits.operations
                 /\ byteCount + call.bytes <= limits.bytes
<1> DEFINE call == HostCall(c, m, p)
           kept == replayHosts[c][m]
           seen == Look(m, p)
           none == [value |-> Refused(m, p), error |-> None, operations |-> 0,
                    bytes |-> 0, keeps |-> kept]
           allowed == Authorized(c.roots, IF m = "directory" THEN p ELSE Dir[p], m = "directory")
<1>1. limits.operations \in Nat /\ limits.bytes \in Nat /\ operationCount \in Nat /\ byteCount \in Nat
  BY LookupsAssumption DEF Typed
<1>2. None \notin Limits /\ "work" \in Limits
  BY LookupsAssumption DEF Errors, Limits
<1>3. \A q \in DOMAIN kept : kept[q] = Look(m, q).value
  BY DEF HostsAreExact
<1>4. CASE ~allowed
  <2>1. call = none
    BY <1>4 DEF HostCall
  <2> QED
    BY <2>1, <1>1, <1>3, <1>4 DEF Says
<1>5. CASE allowed /\ operationCount >= limits.operations
  <2>1. call = [none EXCEPT !.error = "work", !.operations = 1]
    BY <1>5 DEF HostCall
  <2> QED
    BY <2>1, <1>2, <1>3
<1>6. CASE allowed /\ ~(operationCount >= limits.operations) /\ p \in DOMAIN kept
  <2>1. call = [none EXCEPT !.value = kept[p], !.operations = 1]
    BY <1>6 DEF HostCall
  <2> QED
    BY <2>1, <1>1, <1>3, <1>6 DEF Says
<1>7. CASE /\ allowed /\ ~(operationCount >= limits.operations) /\ p \notin DOMAIN kept
           /\ seen.error # None
  <2>1. call = [none EXCEPT !.error = seen.error, !.operations = 1]
    BY <1>7 DEF HostCall
  <2> QED
    BY <2>1, <1>3, <1>7, LookSpends
<1>8. CASE /\ allowed /\ ~(operationCount >= limits.operations) /\ p \notin DOMAIN kept
           /\ seen.error = None
  <2>1. call = [value |-> seen.value, error |-> None, operations |-> 1,
                bytes |-> seen.bytes, keeps |-> Remember(kept, p, seen.value)]
    BY <1>8 DEF HostCall
  <2>2. \A q \in DOMAIN call.keeps : call.keeps[q] = Look(m, q).value
    BY <2>1, <1>3 DEF Remember
  <2>3. call.error = None /\ call.operations = 1 /\ call.bytes = seen.bytes /\ call.value = seen.value
    BY <2>1
  <2>4. seen.bytes \in Nat
    BY LookSpends
  <2>5. byteCount <= limits.bytes => byteCount + seen.bytes <= limits.bytes
    BY <1>8, LookSpends
  <2>6. operationCount + 1 <= limits.operations
    BY <1>1, <1>8
  <2> QED
    BY <2>2, <2>3, <2>4, <2>5, <2>6, <1>8 DEF Says
<1> QED
  BY <1>4, <1>5, <1>6, <1>7, <1>8

-----------------------------------------------------------------------------
(* Nothing a lookup should find changes while the files do not.            *)

LEMMA SameFiles ==
    ASSUME disk' = disk
    PROVE  /\ \A m, p : Look(m, p).value' = Look(m, p).value
           /\ \A roots, f : Readable(roots, f)' = Readable(roots, f)
           /\ \A roots, f : Lead(roots, f)' = Lead(roots, f)
           /\ \A roots, q : Resolution(roots, q)' = Resolution(roots, q)
           /\ \A roots, d : StyleAround(roots, d)' = StyleAround(roots, d)
           /\ \A question : Expected(question)' = Expected(question)
<1>1. \A m, p : Look(m, p).value' = Look(m, p).value
  BY DEF Look
<1>2. \A roots, f : Readable(roots, f)' = Readable(roots, f)
  BY DEF Readable
<1>3. \A roots, f : Lead(roots, f)' = Lead(roots, f)
  BY <1>2 DEF Lead
<1>4. \A roots, q : Resolution(roots, q)' = Resolution(roots, q)
  BY <1>3 DEF Resolution
<1>5. \A roots, d : NearestManifest(roots, d)' = NearestManifest(roots, d)
  BY <1>2 DEF NearestManifest
<1>6. \A roots, d : StyleAround(roots, d)' = StyleAround(roots, d)
  BY <1>5 DEF StyleAround
<1>7. \A question : Expected(question)' = Expected(question)
  BY <1>4, <1>5 DEF Expected
<1> QED
  BY <1>1, <1>2, <1>3, <1>4, <1>6, <1>7

-----------------------------------------------------------------------------
(* The candidates of a query.                                              *)

LEMMA FirstOfHit ==
    ASSUME NEW n \in Nat, NEW s, DOMAIN s = 1..n, NEW i \in 1..n, s[i] # None,
           \A j \in 1..(i - 1) : s[j] = None
    PROVE  FirstOf(s) = s[i]
<1> DEFINE hits == {k \in DOMAIN s : s[k] # None}
           First(k) == k \in hits /\ \A j \in hits : k <= j
<1>1. First(i)
  <2> SUFFICES ASSUME NEW j \in hits PROVE i <= j
    OBVIOUS
  <2> QED
    OBVIOUS
<1>2. \A k \in hits : First(k) => k = i
  BY <1>1
<1>3. (CHOOSE k \in hits : \A j \in hits : k <= j) = i
  BY <1>1, <1>2
<1> QED
  BY <1>1, <1>3 DEF FirstOf

LEMMA FirstOfMiss ==
    ASSUME NEW s, \A j \in DOMAIN s : s[j] = None
    PROVE  FirstOf(s) = None
  BY DEF FirstOf

\* The first candidate that leads anywhere is the resolution.
LEMMA ResolutionHit ==
    ASSUME NEW roots, NEW q \in Queries, NEW i \in 1..Len(Candidates[q]),
           Lead(roots, Candidates[q][i]) # None,
           \A j \in 1..(i - 1) : Lead(roots, Candidates[q][j]) = None
    PROVE  Resolution(roots, q) = Lead(roots, Candidates[q][i])
<1> DEFINE s == [k \in DOMAIN Candidates[q] |-> Lead(roots, Candidates[q][k])]
<1>1. Candidates[q] \in Seq(Files)
  BY LookupsAssumption
<1>2. DOMAIN s = 1..Len(Candidates[q]) /\ Len(Candidates[q]) \in Nat
  BY <1>1
<1>3. s[i] # None /\ \A j \in 1..(i - 1) : s[j] = None
  BY <1>2
<1> HIDE DEF s
<1>4. FirstOf(s) = s[i]
  BY <1>2, <1>3, FirstOfHit
<1> QED
  BY <1>2, <1>4 DEF s, Resolution

LEMMA ResolutionMiss ==
    ASSUME NEW roots, NEW q \in Queries,
           \A j \in 1..Len(Candidates[q]) : Lead(roots, Candidates[q][j]) = None
    PROVE  Resolution(roots, q) = None
<1>1. Candidates[q] \in Seq(Files)
  BY LookupsAssumption
<1> QED
  BY <1>1, FirstOfMiss DEF Resolution

LEMMA NoneIsNoFile == None \notin Files /\ \A f \in Files : RealFile[f] \in Files
  BY LookupsAssumption

\* A file that may be read is known by its canonical path.
LEMMA ReadableIsGiven ==
    ASSUME NEW roots, NEW f \in Files, Readable(roots, f)
    PROVE  Given(roots, RealFile[f])
  BY DEF Given, Readable

\* Where a source leads, and where a manifest does.
LEMMA SourceLeads ==
    ASSUME NEW roots, NEW f \in Sources
    PROVE  Lead(roots, f) = IF Readable(roots, f) THEN RealFile[f] ELSE None
<1>1. f # None
  BY NoneIsNoFile DEF Files
<1> QED
  BY <1>1 DEF Lead

LEMMA ManifestLeads ==
    ASSUME NEW roots, NEW f \in Manifests
    PROVE  /\ ~Readable(roots, f) => Lead(roots, f) = None
           /\ disk[f].format = "broken" => Lead(roots, f) = None
           /\ disk[f].target = None => Lead(roots, f) = None
           /\ Readable(roots, f) /\ disk[f].format # "broken" /\ disk[f].target # None =>
                 Lead(roots, f) = IF Readable(roots, disk[f].target)
                                  THEN RealFile[disk[f].target] ELSE None
<1>1. f \notin Sources
  BY LookupsAssumption
<1> QED
  BY <1>1 DEF Lead

\* The compiler turns to the candidates that are left, and gives up after them.
LEMMA TryAdvances ==
    ASSUME disk' = disk, NEW roots, NEW q \in Queries, NEW i \in 0..Len(Candidates[q]),
           NEW rest \in Seq(Files), Len(rest) = Len(Candidates[q]) - i,
           \A k \in 1..Len(rest) : rest[k] = Candidates[q][i + k],
           \A j \in 1..i : Lead(roots, Candidates[q][j]) = None,
           native' = Try(rest)
    PROVE  Advances(roots, q)'
<1> DEFINE C == Candidates[q]
<1>1. C \in Seq(Files) /\ Len(C) \in Nat
  BY LookupsAssumption
<1>2. CASE rest = <<>>
  <2>1. Len(rest) = 0
    BY <1>2
  <2>2. i = Len(C)
    BY <1>1, <2>1
  <2>3. Resolution(roots, q) = None
    BY <2>2, ResolutionMiss
  <2>4. native'.ask = "return" /\ native'.path = None
    BY <1>2 DEF Try
  <2> QED
    BY <2>3, <2>4, SameFiles DEF Advances, Given
<1>3. CASE rest # <<>>
  <2>1. Len(rest) \in Nat \ {0}
    BY <1>3
  <2>2. i + 1 \in 1..Len(C)
    BY <1>1, <2>1
  <2>3. native' = [ask |-> "directory", path |-> Head(rest), rest |-> Tail(rest)]
    BY <1>3 DEF Try
  <2>4. Head(rest) = C[i + 1]
    <3>1. Head(rest) = rest[1] /\ 1 \in 1..Len(rest)
      BY <1>3, <2>1
    <3> QED
      BY <3>1
  <2>5. /\ Len(Tail(rest)) = Len(C) - (i + 1)
        /\ \A k \in 1..Len(Tail(rest)) : Tail(rest)[k] = C[i + 1 + k]
    <3>1. Len(Tail(rest)) = Len(rest) - 1
      BY <1>3
    <3>2. ASSUME NEW k \in 1..Len(Tail(rest)) PROVE Tail(rest)[k] = C[i + 1 + k]
      <4>1. k + 1 \in 1..Len(rest) /\ Tail(rest)[k] = rest[k + 1] /\ i + (k + 1) = i + 1 + k
        BY SMTT(30), <1>3, <3>1
      <4> QED
        BY <4>1
    <3> QED
      BY <1>1, <3>1, <3>2
  <2>6. \A j \in 1..(i + 1 - 1) : Lead(roots, C[j])' = None
    BY SameFiles
  <2>7. IsTrying(roots, C, i + 1)'
    BY <2>3, <2>4, <2>5, <2>6 DEF IsTrying, Pursues
  <2>8. native'.ask # "return"
    BY <2>3
  <2> QED
    BY <2>2, <2>7, <2>8 DEF Advances
<1> QED
  BY <1>2, <1>3

\* What a host says of the path the compiler asks about.
Place == IF native.ask = "directory" THEN Dir[native.path] ELSE native.path

LEMMA SaysDirectory ==
    ASSUME NEW roots, NEW d
    PROVE  Says(roots, "directory", d) = Authorized(roots, d, TRUE)
<1>1. Authorized(roots, d, TRUE) \in BOOLEAN
  BY DEF Authorized
<1> QED
  BY <1>1 DEF Says, Look, Refused

LEMMA SaysText ==
    ASSUME NEW roots, NEW f
    PROVE  Says(roots, "text", f) = IF Readable(roots, f) THEN disk[f] ELSE None
  BY DEF Says, Look, Refused, Readable

LEMMA SaysFile ==
    ASSUME NEW roots, NEW f
    PROVE  Says(roots, "file", f) = Readable(roots, f)
<1>1. Readable(roots, f) \in BOOLEAN
  BY DEF Readable
<1> QED
  BY <1>1 DEF Says, Look, Refused, Readable

LEMMA SaysReal ==
    ASSUME NEW roots, NEW f, Readable(roots, f)
    PROVE  Says(roots, "real", f) = RealFile[f]
  BY DEF Says, Look, Refused, Readable

\* A true answer brings the compiler nearer to the resolution, or refutes the
\* candidate it was trying.
LEMMA ToldAdvances ==
    ASSUME Typed, disk' = disk, pc = "native", NativeIsTyped, native.ask # "return",
           NEW roots, NEW q \in Queries, NEW i \in 1..Len(Candidates[q]),
           IsTrying(roots, Candidates[q], i),
           native' = Told(Says(roots, native.ask, Place))
    PROVE  Advances(roots, q)'
<1> DEFINE C == Candidates[q]
           f == C[i]
           value == Says(roots, native.ask, Place)
<1>1. C \in Seq(Files) /\ Len(C) \in Nat /\ f \in Files /\ i \in Nat
  BY LookupsAssumption
<1>2. /\ native \in [ask : Methods \cup {"return"}, path : Files \cup {None}, rest : Seq(Files)]
      /\ native.path \in Files
      /\ native.ask = "text" => native.path \in Manifests
  BY DEF NativeIsTyped
<1>3. /\ \A j \in 1..(i - 1) : Lead(roots, C[j]) = None
      /\ Pursues(roots, f)
      /\ Len(native.rest) = Len(C) - i
      /\ \A k \in 1..Len(native.rest) : native.rest[k] = C[i + k]
  BY DEF IsTrying
<1>4. ASSUME Lead(roots, f) = None, native' = Try(native.rest) PROVE Advances(roots, q)'
  <2>1. \A j \in 1..i : Lead(roots, C[j]) = None
    BY <1>1, <1>3, <1>4
  <2>2. i \in 0..Len(C) /\ native.rest \in Seq(Files)
    BY <1>1, <1>2
  <2> QED
    BY <1>3, <1>4, <2>1, <2>2, TryAdvances
<1>5. ASSUME native'.rest = native.rest, native'.ask # "return", Pursues(roots, f)'
      PROVE  Advances(roots, q)'
  <2>1. IsTrying(roots, C, i)'
    BY <1>3, <1>5, SameFiles DEF IsTrying
  <2> QED
    BY <1>5, <2>1 DEF Advances
<1>6. CASE native.ask = "directory"
  <2>1. native.path = f /\ value = Authorized(roots, Dir[f], TRUE)
    BY <1>3, <1>6, SaysDirectory DEF Pursues, Place
  <2>2. CASE ~value
    <3>1. ~Authorized(roots, Dir[f], FALSE)
      BY <2>1, <2>2, AuthorizedWider
    <3>2. Lead(roots, f) = None
      BY <3>1 DEF Lead, Readable
    <3>3. native' = Try(native.rest)
      BY <1>6, <2>2 DEF Told
    <3> QED
      BY <1>4, <3>2, <3>3
  <2>3. CASE value
    <3>1. native' = [native EXCEPT !.ask = IF native.path \in Manifests THEN "text" ELSE "file"]
      BY <1>6, <2>3 DEF Told
    <3>2. native'.path = f /\ native'.rest = native.rest /\ native'.ask # "return"
      BY <1>2, <2>1, <3>1
    <3>3. Pursues(roots, f)'
      <4>1. CASE f \in Manifests
        <5>1. native'.ask = "text"
          BY <1>2, <2>1, <3>1, <4>1
        <5> QED
          BY <3>2, <5>1 DEF Pursues
      <4>2. CASE f \in Sources
        <5>1. native'.ask = "file"
          BY <1>2, <2>1, <3>1, <4>2, LookupsAssumption
        <5>2. Lead(roots, f) = IF Readable(roots, f) THEN RealFile[f] ELSE None
          BY <4>2, SourceLeads
        <5> QED
          BY <3>2, <5>1, <5>2, SameFiles DEF Pursues
      <4> QED
        BY <1>1, <4>1, <4>2 DEF Files
    <3> QED
      BY <1>5, <3>2, <3>3
  <2> QED
    BY <2>2, <2>3
<1>7. CASE native.ask = "text"
  <2>1. native.path = f /\ f \in Manifests /\ Place = f
    BY <1>2, <1>3, <1>7 DEF Pursues, Place
  <2>2. value = IF Readable(roots, f) THEN disk[f] ELSE None
    BY <1>7, <2>1, SaysText
  <2>3. CASE value = None \/ value.format = "broken" \/ value.target = None
    <3>1. native' = Try(native.rest)
      BY <1>7, <2>3 DEF Told
    <3>2. Lead(roots, f) = None
      <4>1. CASE Readable(roots, f)
        <5>1. value = disk[f] /\ value # None
          BY <2>2, <4>1 DEF Readable
        <5> QED
          BY <2>1, <2>3, <5>1, ManifestLeads
      <4> QED
        BY <2>1, <4>1, ManifestLeads
    <3> QED
      BY <1>4, <3>1, <3>2
  <2>4. CASE ~(value = None \/ value.format = "broken" \/ value.target = None)
    <3>1. native' = [native EXCEPT !.ask = "file", !.path = value.target]
      BY <1>7, <2>4 DEF Told
    <3>2. native'.ask = "file" /\ native'.path = value.target /\ native'.rest = native.rest
      BY <1>2, <3>1
    <3>3. Readable(roots, f) /\ value = disk[f]
      BY <2>2, <2>4
    <3>4. Lead(roots, f) = IF Readable(roots, value.target) THEN RealFile[value.target] ELSE None
      BY <2>1, <2>4, <3>3, ManifestLeads
    <3>5. Pursues(roots, f)'
      BY <3>2, <3>4, SameFiles DEF Pursues
    <3> QED
      BY <1>5, <3>2, <3>5
  <2> QED
    BY <2>3, <2>4
<1>8. CASE native.ask = "file"
  <2>1. value = Readable(roots, native.path)
    BY <1>8, SaysFile DEF Place
  <2>2. Lead(roots, f) = IF Readable(roots, native.path) THEN RealFile[native.path] ELSE None
    BY <1>3, <1>8 DEF Pursues
  <2>3. CASE ~value
    <3>1. native' = Try(native.rest)
      BY <1>8, <2>3 DEF Told
    <3> QED
      BY <1>4, <2>1, <2>2, <2>3, <3>1
  <2>4. CASE value
    <3>1. native' = [native EXCEPT !.ask = "real"]
      BY <1>8, <2>4 DEF Told
    <3>2. native'.ask = "real" /\ native'.path = native.path /\ native'.rest = native.rest
      BY <1>2, <3>1
    <3>3. Pursues(roots, f)'
      BY <2>1, <2>2, <2>4, <3>2, SameFiles DEF Pursues
    <3> QED
      BY <1>5, <3>2, <3>3
  <2> QED
    BY <2>3, <2>4
<1>9. CASE native.ask = "real"
  <2>1. Readable(roots, native.path) /\ Lead(roots, f) = RealFile[native.path]
    BY <1>3, <1>9 DEF Pursues
  <2>2. value = RealFile[native.path]
    BY <1>9, <2>1, SaysReal DEF Place
  <2>3. native' = [ask |-> "return", path |-> value, rest |-> <<>>]
    BY <1>9 DEF Told
  <2>4. Lead(roots, f) # None
    BY <1>2, <2>1, NoneIsNoFile
  <2>5. Resolution(roots, q) = value
    BY <1>3, <2>1, <2>2, <2>4, ResolutionHit
  <2>6. Given(roots, value)
    BY <1>2, <2>1, <2>2, ReadableIsGiven
  <2>7. native'.ask = "return" /\ native'.path = value
    BY <2>3
  <2> QED
    BY <2>5, <2>6, <2>7, SameFiles DEF Advances, Given
<1> QED
  BY <1>2, <1>6, <1>7, <1>8, <1>9 DEF Methods

\* Even a fallback leaves the compiler with files to ask about.
LEMMA ToldTyped ==
    ASSUME Typed, pc = "native", NativeIsTyped, native.ask # "return", NEW roots, NEW value,
           value = Says(roots, native.ask, Place) \/ value = Refused(native.ask, Place),
           native' = Told(value)
    PROVE  /\ native' \in [ask : Methods \cup {"return"}, path : Files \cup {None}, rest : Seq(Files)]
           /\ native'.ask # "return" => native'.path \in Files
           /\ native'.ask = "text" => native'.path \in Manifests
<1> DEFINE N == [ask : Methods \cup {"return"}, path : Files \cup {None}, rest : Seq(Files)]
           Good == /\ native' \in N
                   /\ native'.ask # "return" => native'.path \in Files
                   /\ native'.ask = "text" => native'.path \in Manifests
<1>1. /\ native \in N /\ native.path \in Files /\ native.rest \in Seq(Files)
      /\ native.ask = "text" => native.path \in Manifests
  BY DEF NativeIsTyped
<1>2. /\ \A f \in Files : RealFile[f] \in Files
      /\ \A f \in Manifests : disk[f] # None => disk[f].target \in Sources \cup {None}
  BY LookupsAssumption DEF Typed, Files
<1>3. ASSUME native' = Try(native.rest) PROVE Good
  <2>1. CASE native.rest = <<>>
    <3>1. native' = [ask |-> "return", path |-> None, rest |-> <<>>]
      BY <1>3, <2>1 DEF Try
    <3>2. <<>> \in Seq(Files)
      OBVIOUS
    <3> QED
      BY <3>1, <3>2
  <2>2. CASE native.rest # <<>>
    <3>1. native' = [ask |-> "directory", path |-> Head(native.rest), rest |-> Tail(native.rest)]
      BY <1>3, <2>2 DEF Try
    <3>2. Head(native.rest) \in Files /\ Tail(native.rest) \in Seq(Files)
      BY <1>1, <2>2
    <3> QED
      BY <3>1, <3>2 DEF Methods
  <2> QED
    BY <2>1, <2>2
<1>4. CASE native.ask = "directory"
  <2>1. CASE ~value
    BY <1>3, <1>4, <2>1 DEF Told
  <2>2. CASE value
    <3>1. native' = [native EXCEPT !.ask = IF native.path \in Manifests THEN "text" ELSE "file"]
      BY <1>4, <2>2 DEF Told
    <3> QED
      BY <1>1, <3>1 DEF Methods
  <2> QED
    BY <2>1, <2>2
<1>5. CASE native.ask = "text"
  <2>1. native.path \in Manifests /\ Place = native.path
    BY <1>1, <1>5 DEF Place
  <2>2. value = None \/ (value = disk[native.path] /\ disk[native.path] # None)
    BY <1>5, <2>1, SaysText DEF Refused, Readable
  <2>3. CASE value = None \/ value.format = "broken" \/ value.target = None
    BY <1>3, <1>5, <2>3 DEF Told
  <2>4. CASE ~(value = None \/ value.format = "broken" \/ value.target = None)
    <3>1. native' = [native EXCEPT !.ask = "file", !.path = value.target]
      BY <1>5, <2>4 DEF Told
    <3>2. value.target \in Sources
      BY <1>2, <2>1, <2>2, <2>4
    <3> QED
      BY <1>1, <3>1, <3>2 DEF Methods, Files
  <2> QED
    BY <2>3, <2>4
<1>6. CASE native.ask = "file"
  <2>1. CASE ~value
    BY <1>3, <1>6, <2>1 DEF Told
  <2>2. CASE value
    <3>1. native' = [native EXCEPT !.ask = "real"]
      BY <1>6, <2>2 DEF Told
    <3> QED
      BY <1>1, <3>1 DEF Methods
  <2> QED
    BY <2>1, <2>2
<1>7. CASE native.ask = "real"
  <2>1. value \in Files
    <3>1. Place = native.path
      BY <1>7 DEF Place
    <3> QED
      BY <1>1, <1>2, <1>7, <3>1 DEF Says, Look, Refused
  <2>2. native' = [ask |-> "return", path |-> value, rest |-> <<>>]
    BY <1>7 DEF Told
  <2>3. <<>> \in Seq(Files)
    OBVIOUS
  <2> QED
    BY <2>1, <2>2, <2>3
<1> QED
  BY <1>1, <1>4, <1>5, <1>6, <1>7 DEF Methods

-----------------------------------------------------------------------------
(* What a step leaves alone.                                               *)

LEMMA SameHosts ==
    ASSUME HostsAreExact, disk' = disk, replayHosts' = replayHosts
    PROVE  HostsAreExact'
  BY SameFiles DEF HostsAreExact

LEMMA SameResolved ==
    ASSUME ResolvedIsExact, disk' = disk, resolved' = resolved
    PROVE  ResolvedIsExact'
  BY SameFiles DEF ResolvedIsExact

LEMMA SameManifests ==
    ASSUME ManifestsAreExact, disk' = disk, manifests' = manifests
    PROVE  ManifestsAreExact'
  BY DEF ManifestsAreExact

LEMMA SameFormats ==
    ASSUME FormatsAreExact, disk' = disk, fileFormats' = fileFormats
    PROVE  FormatsAreExact'
  BY SameFiles DEF FormatsAreExact

LEMMA SameMemos ==
    ASSUME MemosAreExact, disk' = disk, UNCHANGED cacheVars
    PROVE  MemosAreExact'
  BY SameHosts, SameResolved, SameManifests, SameFormats DEF MemosAreExact, cacheVars

\* A question is not under way when it is answered, or has failed.
LEMMA NoLookup ==
    ASSUME pc' \in {"idle", "failed"}
    PROVE  LookupIsExact'
  BY DEF LookupIsExact, ResolvingIsTyped, WalkIsExact, NativeIsTyped, NativeIsExact, SettleIsExact

LEMMA SameAnswer ==
    ASSUME AnswersAreExact, disk' = disk, answer' = answer
    PROVE  AnswersAreExact'
  BY SameFiles DEF AnswersAreExact

-----------------------------------------------------------------------------
(* Questions.                                                              *)

\* A new question has refuted nothing yet, and fails at once when it cannot be
\* paid for.
LEMMA AskKeeps ==
    ASSUME Inv, NEW next \in {"resolve", "format"}, NEW cost \in 0..1, Ask(next, cost)
    PROVE  /\ disk' = disk
           /\ Typed' /\ WithinBudgets' /\ ErrorsAreKept' /\ MemosAreExact' /\ AnswersAreExact'
           /\ pc' \in {next, "failed"}
<1>1. /\ operationCount \in Nat /\ limits.operations \in Nat
      /\ met = None /\ callbackError = None
  BY LookupsAssumption DEF Inv, Typed, ErrorsAreKept, Ask
<1>2. disk' = disk /\ limits' = limits /\ byteCount' = byteCount /\ operationCount' = operationCount + cost
  BY DEF Ask
<1>3. pc' \in {next, "failed"} /\ Typed'
  BY <1>1, <1>2 DEF Inv, Typed, Ask
<1>4. WithinBudgets'
  <2>1. met' = None => ~(operationCount' > limits.operations) /\ byteCount <= limits.bytes
    BY <1>1, LookupsAssumption DEF Ask, Inv, WithinBudgets, Errors, Limits
  <2> QED
    BY <1>1, <1>2, <2>1 DEF WithinBudgets
<1>5. ErrorsAreKept'
  BY <1>1 DEF Ask, ErrorsAreKept
<1>6. MemosAreExact'
  BY <1>2, SameMemos DEF Inv, Ask
<1>7. AnswersAreExact'
  BY DEF Ask, AnswersAreExact
<1> QED
  BY <1>2, <1>3, <1>4, <1>5, <1>6, <1>7

LEMMA AskResolverKeeps ==
    ASSUME Inv, NEW c \in Contexts, NEW q \in Queries, AskResolver(c, q)
    PROVE  Inv'
<1>1. Ask("resolve", 0)
      /\ lookup' = [kind |-> "module", context |-> c, query |-> q, todo |-> <<q>>]
  BY DEF AskResolver
<1>2. /\ Typed' /\ WithinBudgets' /\ ErrorsAreKept' /\ MemosAreExact' /\ AnswersAreExact'
      /\ pc' \in {"resolve", "failed"}
  BY <1>1, AskKeeps
<1>3. ResolvingIsTyped'
  BY <1>1 DEF ResolvingIsTyped
<1> QED
  BY <1>2, <1>3 DEF Inv, LookupIsExact, WalkIsExact, NativeIsTyped, NativeIsExact, SettleIsExact

LEMMA AskProbeKeeps ==
    ASSUME Inv, NEW c \in Contexts, NEW q \in Queries, AskProbe(c, q)
    PROVE  Inv'
<1>1. /\ Ask("resolve", 1)
      /\ lookup' = [kind |-> "probe", context |-> c, query |-> q,
                    todo |-> IF Types[q] = q THEN <<q>> ELSE <<Types[q], q>>]
  BY DEF AskProbe
<1>2. /\ Typed' /\ WithinBudgets' /\ ErrorsAreKept' /\ MemosAreExact' /\ AnswersAreExact'
      /\ pc' \in {"resolve", "failed"}
  BY <1>1, AskKeeps
<1>3. ResolvingIsTyped'
  <2>1. Types[q] \in Queries
    BY LookupsAssumption
  <2>2. CASE Types[q] = q
    BY <1>1, <2>2 DEF ResolvingIsTyped
  <2>3. CASE Types[q] # q
    BY <1>1, <2>1, <2>3 DEF ResolvingIsTyped
  <2> QED
    BY <2>2, <2>3
<1> QED
  BY <1>2, <1>3 DEF Inv, LookupIsExact, WalkIsExact, NativeIsTyped, NativeIsExact, SettleIsExact

LEMMA AskFormatKeeps ==
    ASSUME Inv, NEW c \in Contexts, NEW s \in Sources, AskFormat(c, s)
    PROVE  Inv'
<1>1. /\ Ask("format", 1) /\ Dir[s] = c.directory
      /\ lookup' = [kind |-> "format", context |-> c, source |-> s, at |-> Dir[s]]
  BY DEF AskFormat
<1>2. /\ Typed' /\ WithinBudgets' /\ ErrorsAreKept' /\ MemosAreExact' /\ AnswersAreExact'
      /\ pc' \in {"format", "failed"}
  BY <1>1, AskKeeps
<1>3. WalkIsExact'
  <2>1. c.directory \in Dirs
    BY LookupsAssumption
  <2>2. c.directory \in Above[c.directory]
    BY <2>1, AboveSelf
  <2>3. lookup'.at = c.directory /\ lookup'.context = c /\ lookup'.source = s
    BY <1>1
  <2> QED
    BY <1>1, <2>1, <2>2, <2>3 DEF WalkIsExact, Context
<1> QED
  BY <1>2, <1>3 DEF Inv, LookupIsExact, ResolvingIsTyped, NativeIsTyped, NativeIsExact, SettleIsExact

\* A manifest is kept as it is on the disk, and one that is broken is not kept.
LEMMA ReadManifestKeeps ==
    ASSUME Inv, NEW m \in Manifests, ReadManifest(m)
    PROVE  Inv'
<1> DEFINE error == ReadResolutionFile(m)
           parsed == IF disk[m].format = "broken" THEN None ELSE disk[m]
           Reply(value) == answer' = [question |-> [kind |-> "manifest", manifest |-> m],
                                      value |-> value]
<1>1. /\ operationCount \in Nat /\ byteCount \in Nat /\ limits.operations \in Nat
      /\ limits.bytes \in Nat
      /\ pc = "idle" /\ met = None /\ callbackError = None
      /\ operationCount <= limits.operations /\ byteCount <= limits.bytes
  BY LookupsAssumption DEF Inv, Typed, ErrorsAreKept, WithinBudgets, ReadManifest
<1>2. /\ disk' = disk /\ limits' = limits /\ replayHosts' = replayHosts /\ resolved' = resolved
      /\ fileFormats' = fileFormats /\ callbackError' = callbackError
  BY DEF ReadManifest
<1>3. HostsAreExact' /\ ResolvedIsExact' /\ FormatsAreExact'
  BY <1>2, SameHosts, SameResolved, SameFormats DEF Inv, MemosAreExact
<1>4. None \notin Limits /\ None # "unreadable"
  BY LookupsAssumption DEF Errors
<1>5. ASSUME NEW value, Reply(value), value = parsed PROVE AnswersAreExact'
  BY <1>2, <1>5 DEF AnswersAreExact, Expected
<1>6. CASE /\ m \in DOMAIN manifests /\ Reply(manifests[m])
           /\ UNCHANGED <<pc, lookup, native, budgetVars, met, manifests>>
  <2>1. manifests[m] = parsed
    BY <1>6 DEF Inv, MemosAreExact, ManifestsAreExact
  <2>2. AnswersAreExact'
    BY <1>5, <1>6, <2>1
  <2>3. Typed' /\ WithinBudgets' /\ ErrorsAreKept'
    BY <1>2, <1>6 DEF Inv, Typed, WithinBudgets, ErrorsAreKept, budgetVars
  <2>4. ManifestsAreExact'
    BY <1>2, <1>6, SameManifests DEF Inv, MemosAreExact
  <2> QED
    BY <1>1, <1>3, <1>6, <2>2, <2>3, <2>4, NoLookup DEF Inv, MemosAreExact
<1>7. CASE /\ error # None /\ operationCount' = operationCount + 1 /\ Throw(error)
           /\ UNCHANGED <<byteCount, manifests>>
  <2>1. Typed' /\ ErrorsAreKept'
    BY <1>1, <1>2, <1>7 DEF Inv, Typed, ErrorsAreKept, Throw
  <2>2. WithinBudgets'
    <3>1. error = "work" \/ operationCount < limits.operations
      BY <1>1 DEF ReadResolutionFile
    <3>2. met' = None => error # "work"
      BY <1>1, <1>4, <1>7 DEF Throw, Limits
    <3> QED
      BY <1>1, <1>2, <1>7, <3>1, <3>2 DEF WithinBudgets
  <2>3. ManifestsAreExact'
    BY <1>2, <1>7, SameManifests DEF Inv, MemosAreExact
  <2>4. AnswersAreExact'
    BY <1>2, <1>7, SameAnswer DEF Inv, Throw
  <2> QED
    BY <1>3, <1>7, <2>1, <2>2, <2>3, <2>4, NoLookup DEF Inv, MemosAreExact, Throw
<1>8. CASE /\ error = None
           /\ operationCount' = operationCount + 1
           /\ byteCount' = byteCount + disk[m].size
           /\ manifests' = IF parsed = None THEN manifests ELSE Remember(manifests, m, parsed)
           /\ Reply(parsed)
           /\ UNCHANGED <<pc, lookup, native, met>>
  <2>1. operationCount < limits.operations /\ disk[m] # None /\ TooLarge(disk[m].size) = None
    BY <1>1, <1>4, <1>8 DEF ReadResolutionFile, Limits
  <2>2. disk[m].size \in Nat /\ disk[m].size <= limits.bytes - byteCount
    <3>1. disk[m].size \in Nat
      BY <2>1, LookupsAssumption DEF Inv, Typed, Files
    <3>2. disk[m].size <= RemainingBytes
      BY <1>4, <2>1 DEF TooLarge, Limits
    <3> QED
      BY <1>1, <3>1, <3>2 DEF RemainingBytes
  <2>3. Typed' /\ ErrorsAreKept'
    BY <1>1, <1>2, <1>8, <2>2 DEF Inv, Typed, ErrorsAreKept
  <2>4. WithinBudgets'
    BY <1>1, <1>2, <1>8, <2>1, <2>2 DEF WithinBudgets
  <2>5. ManifestsAreExact'
    <3>1. CASE parsed = None
      BY <1>2, <1>8, <3>1, SameManifests DEF Inv, MemosAreExact
    <3>2. CASE parsed # None
      <4>1. disk[m].format # "broken" /\ parsed = disk[m]
        BY <3>2
      <4>2. manifests' = Remember(manifests, m, disk[m])
        BY <1>8, <3>2, <4>1
      <4> QED
        BY <1>2, <2>1, <4>1, <4>2 DEF Inv, MemosAreExact, ManifestsAreExact, Remember
    <3> QED
      BY <3>1, <3>2
  <2>6. AnswersAreExact'
    BY <1>5, <1>8
  <2> QED
    BY <1>1, <1>3, <1>8, <2>3, <2>4, <2>5, <2>6, NoLookup DEF Inv, MemosAreExact
<1> QED
  BY <1>6, <1>7, <1>8 DEF ReadManifest

-----------------------------------------------------------------------------
(* Resolution.                                                             *)

LEMMA HostCostIsNat ==
    ASSUME Context \in Contexts
    PROVE  HostCost \in Nat
<1>1. Context.roots \in SUBSET Dirs /\ IsFiniteSet(Dirs)
  BY LookupsAssumption
<1>2. IsFiniteSet(Context.roots)
  BY <1>1, FS_Subset
<1>3. Cardinality(Context.roots) \in Nat
  BY <1>2, FS_CardinalityType
<1> QED
  BY <1>3 DEF HostCost

\* A host begins with nothing to say.
LEMMA WithHostKeeps ==
    ASSUME HostsAreExact, disk' = disk, WithHost
    PROVE  HostsAreExact' /\ Context \in DOMAIN replayHosts'
<1>1. DOMAIN Fresh = Methods /\ \A m \in Methods : DOMAIN Fresh[m] = {}
  BY DEF Fresh
<1>2. /\ DOMAIN replayHosts' = DOMAIN replayHosts \cup {Context}
      /\ \A c \in DOMAIN replayHosts' :
            replayHosts'[c] = IF c \in DOMAIN replayHosts THEN replayHosts[c] ELSE Fresh
  BY DEF WithHost, Remember
<1> QED
  BY <1>1, <1>2, SameFiles DEF HostsAreExact

LEMMA ResolvingTyped ==
    ASSUME Inv, pc \in {"resolve", "native", "settle"}
    PROVE  /\ lookup \in [kind : {"module", "probe"}, context : Contexts, query : Queries,
                          todo : Seq(Queries)]
           /\ Context \in Contexts
           /\ Head(lookup.todo) \in Queries
<1>1. ResolvingIsTyped
  BY DEF Inv, LookupIsExact
<1>2. lookup.todo = <<lookup.query>> \/ lookup.todo = <<Types[lookup.query], lookup.query>>
  BY <1>1 DEF ResolvingIsTyped
<1>3. lookup.todo # <<>>
  BY <1>2
<1> QED
  BY <1>1, <1>3 DEF ResolvingIsTyped, Context

LEMMA ResolveModuleKeeps ==
    ASSUME Inv, ResolveModule
    PROVE  Inv'
<1> DEFINE q == Head(lookup.todo)
<1>1. /\ operationCount \in Nat /\ byteCount \in Nat /\ limits.operations \in Nat
      /\ limits.bytes \in Nat
      /\ pc = "resolve" /\ met = None /\ callbackError = None
      /\ operationCount <= limits.operations /\ byteCount <= limits.bytes
  BY LookupsAssumption DEF Inv, Typed, ErrorsAreKept, WithinBudgets, ResolveModule
<1>2. /\ disk' = disk /\ limits' = limits /\ byteCount' = byteCount /\ fileFormats' = fileFormats
      /\ manifests' = manifests /\ callbackError' = callbackError
      /\ lookup' = lookup /\ answer' = answer
  BY DEF ResolveModule, Throw
<1>3. Context \in Contexts /\ q \in Queries
  BY <1>1, ResolvingTyped
<1>4. HostCost \in Nat
  BY <1>3, HostCostIsNat
<1>5. ManifestsAreExact' /\ FormatsAreExact' /\ AnswersAreExact'
  BY <1>2, SameManifests, SameFormats, SameAnswer DEF Inv, MemosAreExact
<1>6. CASE operationCount + 1 + HostCost > limits.operations
  <2>1. /\ Throw("work") /\ operationCount' = limits.operations + 1
        /\ UNCHANGED <<replayHosts, resolved>>
    BY <1>6 DEF ResolveModule
  <2>2. met' = "work" /\ pc' = "failed"
    BY <1>1, <2>1 DEF Throw, Limits
  <2>3. HostsAreExact' /\ ResolvedIsExact'
    BY <1>2, <2>1, SameHosts, SameResolved DEF Inv, MemosAreExact
  <2>4. Typed' /\ ErrorsAreKept' /\ WithinBudgets'
    BY <1>1, <1>2, <2>1, <2>2, LookupsAssumption
    DEF Inv, Typed, ErrorsAreKept, WithinBudgets, Errors, Limits
  <2> QED
    BY <1>5, <2>2, <2>3, <2>4, NoLookup DEF Inv, MemosAreExact
<1>7. CASE ~(operationCount + 1 + HostCost > limits.operations)
  <2>1. /\ operationCount' = operationCount + 1 + HostCost
        /\ WithHost
        /\ resolved' = IF Cardinality(DOMAIN resolved) >= MaxResolved THEN <<>> ELSE resolved
        /\ met' = met
    BY <1>7 DEF ResolveModule
  <2>2. \/ /\ Key \in DOMAIN resolved' /\ pc' = "settle"
           /\ native' = [ask |-> "done", path |-> resolved'[Key], rest |-> <<>>]
        \/ pc' = "native" /\ native' = Try(Candidates[q])
    BY <1>7 DEF ResolveModule
  <2>3. HostsAreExact' /\ Context \in DOMAIN replayHosts'
    BY <1>2, <2>1, WithHostKeeps DEF Inv, MemosAreExact
  <2>4. ResolvedIsExact'
    <3>1. CASE resolved' = resolved
      BY <1>2, <3>1, SameResolved DEF Inv, MemosAreExact
    <3>2. CASE resolved' = <<>>
      BY <3>2 DEF ResolvedIsExact
    <3> QED
      BY <2>1, <3>1, <3>2
  <2>5. Typed' /\ ErrorsAreKept' /\ WithinBudgets'
    BY <1>1, <1>2, <1>4, <1>7, <2>1, <2>2 DEF Inv, Typed, ErrorsAreKept, WithinBudgets
  <2>6. Context' = Context
    BY <1>2 DEF Context
  <2>7. ResolvingIsTyped'
    BY <1>1, <1>2, <2>6, SameFiles DEF Inv, LookupIsExact, ResolvingIsTyped
  <2>8. CASE Key \in DOMAIN resolved' /\ pc' = "settle"
             /\ native' = [ask |-> "done", path |-> resolved'[Key], rest |-> <<>>]
    <3>1. Key[1] = Context /\ Key[2] = q
      BY DEF Key
    <3>2. /\ native'.path = Resolution(Context.roots, q)'
          /\ Given(Context.roots, native.path)'
      BY <2>4, <2>6, <2>8, <3>1, SameFiles, <1>2 DEF ResolvedIsExact, Given
    <3>3. SettleIsExact'
      BY <1>2, <2>3, <2>6, <3>2 DEF SettleIsExact
    <3> QED
      BY <1>5, <2>3, <2>4, <2>5, <2>7, <2>8, <3>3
      DEF Inv, MemosAreExact, LookupIsExact, WalkIsExact, NativeIsTyped, NativeIsExact
  <2>9. CASE pc' = "native" /\ native' = Try(Candidates[q])
    <3>1. Candidates[q] \in Seq(Files) /\ Len(Candidates[q]) \in Nat
      BY <1>3, LookupsAssumption
    <3>2. Advances(Context.roots, q)'
      <4>1. \A roots : Advances(roots, q)'
        <5> TAKE roots
        <5>1. 0 \in 0..Len(Candidates[q]) /\ Len(Candidates[q]) = Len(Candidates[q]) - 0
          BY <3>1
        <5>2. \A k \in 1..Len(Candidates[q]) : Candidates[q][k] = Candidates[q][0 + k]
          BY <3>1
        <5> QED
          BY <1>2, <1>3, <2>9, <3>1, <5>1, <5>2, TryAdvances
      <4> QED
        BY <1>2, <4>1, <2>6
    <3>3. NativeIsTyped'
      <4>1. CASE Candidates[q] = <<>>
        <5>1. native' = [ask |-> "return", path |-> None, rest |-> <<>>] /\ <<>> \in Seq(Files)
          BY <2>9, <4>1 DEF Try
        <5> QED
          BY <2>3, <2>6, <5>1 DEF NativeIsTyped
      <4>2. CASE Candidates[q] # <<>>
        <5>1. native' = [ask |-> "directory", path |-> Head(Candidates[q]), rest |-> Tail(Candidates[q])]
          BY <2>9, <4>2 DEF Try
        <5>2. Head(Candidates[q]) \in Files /\ Tail(Candidates[q]) \in Seq(Files)
          BY <3>1, <4>2
        <5> QED
          BY <2>3, <2>6, <5>1, <5>2 DEF NativeIsTyped, Methods
      <4> QED
        BY <4>1, <4>2
    <3>4. NativeIsExact'
      BY <1>2, <2>6, <3>2 DEF NativeIsExact
    <3> QED
      BY <1>5, <2>3, <2>4, <2>5, <2>7, <2>9, <3>3, <3>4
      DEF Inv, MemosAreExact, LookupIsExact, WalkIsExact, SettleIsExact
  <2> QED
    BY <2>2, <2>8, <2>9
<1> QED
  BY <1>6, <1>7

\* What a callback leaves behind: its host says what the disk says, and without
\* a limit the budgets hold.
LEMMA SpendKeeps ==
    ASSUME Inv, disk' = disk, limits' = limits, pc # "failed",
           NEW m \in Methods, NEW p \in Path(m),
           Context \in Contexts, Context \in DOMAIN replayHosts,
           Spend(HostCall(Context, m, p)),
           replayHosts' = [replayHosts EXCEPT ![Context][m] = HostCall(Context, m, p).keeps]
    PROVE  /\ operationCount' \in Nat /\ byteCount' \in Nat
           /\ WithinBudgets' /\ HostsAreExact'
           /\ DOMAIN replayHosts' = DOMAIN replayHosts
<1> DEFINE call == HostCall(Context, m, p)
<1>1. Typed /\ HostsAreExact /\ WithinBudgets
  BY DEF Inv, MemosAreExact
<1>2. /\ call.error \in Limits \cup {None}
      /\ call.operations \in Nat /\ call.bytes \in Nat
      /\ \A q \in DOMAIN call.keeps : call.keeps[q] = Look(m, q).value
      /\ call.error = None /\ operationCount <= limits.operations
                           /\ byteCount <= limits.bytes =>
            /\ operationCount + call.operations <= limits.operations
            /\ byteCount + call.bytes <= limits.bytes
  BY <1>1, HostCallExact
<1> HIDE DEF call
<1>3. /\ operationCount' = operationCount + call.operations
      /\ byteCount' = byteCount + call.bytes
      /\ met' = IF met = None THEN call.error ELSE met
  BY DEF Spend, call
<1>4. operationCount \in Nat /\ byteCount \in Nat
  BY <1>1 DEF Typed
<1>5. WithinBudgets'
  BY <1>1, <1>2, <1>3 DEF WithinBudgets
<1>6. /\ DOMAIN replayHosts' = DOMAIN replayHosts
      /\ \A c \in DOMAIN replayHosts :
            replayHosts'[c] = IF c = Context THEN [replayHosts[c] EXCEPT ![m] = call.keeps]
                              ELSE replayHosts[c]
  BY DEF call
<1>7. HostsAreExact'
  <2> SUFFICES ASSUME NEW c \in DOMAIN replayHosts
               PROVE  /\ DOMAIN replayHosts'[c] = Methods
                      /\ \A n \in Methods : \A q \in DOMAIN replayHosts'[c][n] :
                            replayHosts'[c][n][q] = Look(n, q).value
    BY <1>6, SameFiles DEF HostsAreExact
  <2>1. /\ DOMAIN replayHosts[c] = Methods
        /\ \A n \in Methods : \A q \in DOMAIN replayHosts[c][n] :
              replayHosts[c][n][q] = Look(n, q).value
    BY <1>1 DEF HostsAreExact
  <2>2. CASE c # Context
    BY <1>6, <2>1, <2>2
  <2>3. CASE c = Context
    <3>1. replayHosts'[c] = [replayHosts[c] EXCEPT ![m] = call.keeps]
      BY <1>6, <2>3
    <3>2. \A n \in Methods : replayHosts'[c][n] = IF n = m THEN call.keeps ELSE replayHosts[c][n]
      BY <2>1, <3>1
    <3> QED
      BY <1>2, <2>1, <3>1, <3>2
  <2> QED
    BY <2>2, <2>3
<1> QED
  BY <1>2, <1>3, <1>4, <1>5, <1>6, <1>7

LEMMA CallbackKeeps ==
    ASSUME Inv, Callback
    PROVE  Inv'
<1> DEFINE call == HostCall(Context, native.ask, Place)
           value == IF call.error = None THEN call.value ELSE Refused(native.ask, Place)
           q == Head(lookup.todo)
<1>1. /\ pc = "native" /\ pc' = pc /\ native.ask # "return"
      /\ disk' = disk /\ limits' = limits /\ resolved' = resolved /\ fileFormats' = fileFormats
      /\ manifests' = manifests /\ lookup' = lookup /\ answer' = answer
  BY DEF Callback
<1>2. /\ Spend(call)
      /\ replayHosts' = [replayHosts EXCEPT ![Context][native.ask] = call.keeps]
      /\ callbackError' = IF callbackError = None THEN call.error ELSE callbackError
      /\ native' = Told(value)
  BY DEF Callback, Place
<1>3. /\ Typed /\ HostsAreExact /\ NativeIsTyped /\ met = callbackError
      /\ Context \in DOMAIN replayHosts
  BY <1>1 DEF Inv, MemosAreExact, LookupIsExact, NativeIsTyped, ErrorsAreKept
<1>4. Context \in Contexts /\ q \in Queries
  BY <1>1, ResolvingTyped
<1>5. native.ask \in Methods /\ Place \in Path(native.ask)
  BY <1>1, <1>3, LookupsAssumption DEF NativeIsTyped, Place, Path
<1>6. call.error = None => call.value = Says(Context.roots, native.ask, Place)
  BY <1>3, <1>4, <1>5, HostCallExact
<1>7. /\ operationCount' \in Nat /\ byteCount' \in Nat /\ WithinBudgets' /\ HostsAreExact'
      /\ DOMAIN replayHosts' = DOMAIN replayHosts
  BY <1>1, <1>2, <1>3, <1>4, <1>5, SpendKeeps
<1>8. Typed' /\ ErrorsAreKept'
  BY <1>1, <1>2, <1>3, <1>7 DEF Typed, ErrorsAreKept, Spend
<1>9. ResolvedIsExact' /\ ManifestsAreExact' /\ FormatsAreExact' /\ AnswersAreExact'
  BY <1>1, SameResolved, SameManifests, SameFormats, SameAnswer DEF Inv, MemosAreExact
<1>10. Context' = Context
  BY <1>1 DEF Context
<1>11. ResolvingIsTyped'
  BY <1>1, <1>10, SameFiles DEF Inv, LookupIsExact, ResolvingIsTyped
<1>12. NativeIsTyped'
  <2>1. \/ value = Says(Context.roots, native.ask, Place)
        \/ value = Refused(native.ask, Place)
    BY <1>6
  <2> HIDE DEF value
  <2>2. /\ native' \in [ask : Methods \cup {"return"}, path : Files \cup {None}, rest : Seq(Files)]
        /\ native'.ask # "return" => native'.path \in Files
        /\ native'.ask = "text" => native'.path \in Manifests
    BY <1>1, <1>2, <1>3, <2>1, ToldTyped
  <2> QED
    BY <1>3, <1>7, <1>10, <2>2 DEF NativeIsTyped
<1>13. NativeIsExact'
  <2> SUFFICES ASSUME callbackError' = None PROVE Advances(Context.roots, q)'
    BY <1>1, <1>10 DEF NativeIsExact
  <2>1. callbackError = None /\ call.error = None
    BY <1>2
  <2>2. native' = Told(Says(Context.roots, native.ask, Place))
    BY <1>2, <1>6, <2>1
  <2>3. PICK i \in 1..Len(Candidates[q]) : IsTrying(Context.roots, Candidates[q], i)
    BY <1>1, <2>1 DEF Inv, LookupIsExact, NativeIsExact, Advances
  <2>4. \A roots : roots = Context.roots => Advances(roots, q)'
    BY <1>1, <1>3, <1>4, <2>2, <2>3, ToldAdvances
  <2> QED
    BY <1>1, <1>10, <2>4
<1> QED
  BY <1>1, <1>7, <1>8, <1>9, <1>11, <1>12, <1>13
  DEF Inv, MemosAreExact, LookupIsExact, WalkIsExact, SettleIsExact

\* When the compiler returns, its result is kept only if nothing was kept from it.
LEMMA ReturnKeeps ==
    ASSUME Inv, Return
    PROVE  Inv'
<1> DEFINE q == Head(lookup.todo)
<1>1. /\ pc = "native" /\ native.ask = "return" /\ callbackError' = None
      /\ disk' = disk /\ limits' = limits /\ replayHosts' = replayHosts
      /\ fileFormats' = fileFormats /\ manifests' = manifests /\ UNCHANGED budgetVars
  BY DEF Return
<1>2. Typed /\ WithinBudgets /\ met = callbackError /\ ResolvedIsExact
  BY <1>1 DEF Inv, ErrorsAreKept, MemosAreExact
<1>3. HostsAreExact' /\ ManifestsAreExact' /\ FormatsAreExact'
  BY <1>1, SameHosts, SameManifests, SameFormats DEF Inv, MemosAreExact
<1>4. CASE callbackError # None
  <2>1. Throw(callbackError) /\ resolved' = resolved
    BY <1>4 DEF Return
  <2>2. pc' = "failed" /\ met' = met /\ answer' = answer
    BY <1>2, <1>4, <2>1 DEF Throw
  <2>3. ResolvedIsExact' /\ AnswersAreExact'
    BY <1>1, <2>1, <2>2, SameResolved, SameAnswer DEF Inv, MemosAreExact
  <2>4. Typed' /\ ErrorsAreKept' /\ WithinBudgets'
    BY <1>1, <1>2, <2>2 DEF Typed, ErrorsAreKept, WithinBudgets, budgetVars
  <2> QED
    BY <1>3, <2>2, <2>3, <2>4, NoLookup DEF Inv, MemosAreExact
<1>5. CASE callbackError = None
  <2>1. /\ pc' = "settle" /\ resolved' = Remember(resolved, Key, native.path)
        /\ native' = [native EXCEPT !.ask = "done"]
        /\ lookup' = lookup /\ met' = met /\ answer' = answer
    BY <1>5 DEF Return
  <2>2. /\ native.path = Resolution(Context.roots, q) /\ Given(Context.roots, native.path)
        /\ Context \in DOMAIN replayHosts /\ native'.path = native.path
    BY <1>1, <1>5, <2>1
    DEF Inv, LookupIsExact, NativeIsExact, NativeIsTyped, Advances
  <2>3. Context' = Context
    BY <2>1 DEF Context
  <2>4. ResolvedIsExact'
    <3>1. Key[1] = Context /\ Key[2] = q
      BY DEF Key
    <3>2. ASSUME NEW key \in DOMAIN resolved'
          PROVE  /\ resolved'[key] = Resolution(key[1].roots, key[2])
                 /\ Given(key[1].roots, resolved'[key])
      BY <1>2, <2>1, <2>2, <3>1 DEF ResolvedIsExact, Remember
    <3> QED
      BY ZenonT(40), <1>1, <3>2, SameFiles DEF ResolvedIsExact, Given
  <2>5. SettleIsExact'
    BY <1>1, <2>1, <2>2, <2>3, SameFiles DEF SettleIsExact, Given
  <2>6. ResolvingIsTyped'
    BY <1>1, <2>1, <2>3, SameFiles DEF Inv, LookupIsExact, ResolvingIsTyped
  <2>7. Typed' /\ ErrorsAreKept' /\ WithinBudgets'
    BY <1>1, <1>2, <1>5, <2>1 DEF Typed, ErrorsAreKept, WithinBudgets, budgetVars
  <2>8. AnswersAreExact'
    BY <1>1, <2>1, SameAnswer DEF Inv
  <2> QED
    BY <1>3, <2>1, <2>4, <2>5, <2>6, <2>7, <2>8
    DEF Inv, MemosAreExact, LookupIsExact, WalkIsExact, NativeIsTyped, NativeIsExact
<1> QED
  BY <1>4, <1>5

LEMMA NativeFailsKeeps ==
    ASSUME Inv, NativeFails
    PROVE  Inv'
<1>1. /\ pc = "native" /\ pc' = "failed" /\ met' = met /\ disk' = disk /\ limits' = limits
      /\ answer' = answer /\ UNCHANGED budgetVars /\ UNCHANGED cacheVars
  BY DEF NativeFails, Throw, Limits
<1>2. Typed' /\ ErrorsAreKept' /\ WithinBudgets'
  BY <1>1 DEF Inv, Typed, ErrorsAreKept, WithinBudgets, budgetVars
<1>3. MemosAreExact' /\ AnswersAreExact'
  BY <1>1, SameMemos, SameAnswer DEF Inv
<1> QED
  BY <1>1, <1>2, <1>3, NoLookup DEF Inv

-----------------------------------------------------------------------------
(* Answers.                                                                *)

LEMMA SettleAnswers ==
    ASSUME disk' = disk, NEW v, Settle(v), v = Expected(lookup)
    PROVE  AnswersAreExact' /\ pc' = "idle"
<1>1. answer' = [question |-> lookup, value |-> v] /\ pc' = "idle"
  BY DEF Settle
<1>2. Expected(lookup) = v
  OBVIOUS
<1>3. \A question : Expected(question)' = Expected(question)
  BY SameFiles
<1>4. answer'.value = v /\ answer'.question = lookup
  BY <1>1
<1>5. Expected(answer'.question) = v
  BY <1>2, <1>4
<1> QED
  BY <1>1, <1>3, <1>4, <1>5 DEF AnswersAreExact

LEMMA FirstOfTwo ==
    ASSUME NEW a, NEW b
    PROVE  FirstOf(<<a, b>>) = IF a # None THEN a ELSE b
<1> DEFINE s == <<a, b>>
<1>1. DOMAIN s = 1..2 /\ s[1] = a /\ s[2] = b
  OBVIOUS
<1> HIDE DEF s
<1>2. CASE a # None
  <2>1. 1 \in 1..2 /\ \A j \in 1..(1 - 1) : s[j] = None
    OBVIOUS
  <2>2. FirstOf(s) = s[1]
    BY <1>1, <1>2, <2>1, FirstOfHit
  <2> QED
    BY <1>1, <1>2, <2>2 DEF s
<1>3. CASE a = None /\ b # None
  <2>1. 2 \in 1..2 /\ \A j \in 1..(2 - 1) : s[j] = None
    BY <1>1, <1>3
  <2>2. FirstOf(s) = s[2]
    BY <1>1, <1>3, <2>1, FirstOfHit
  <2> QED
    BY <1>1, <1>3, <2>2 DEF s
<1>4. CASE a = None /\ b = None
  <2>1. \A j \in DOMAIN s : s[j] = None
    BY <1>1, <1>4
  <2>2. FirstOf(s) = None
    BY <2>1, FirstOfMiss
  <2> QED
    BY <1>4, <2>2 DEF s
<1> QED
  BY <1>2, <1>3, <1>4

LEMMA SettleModuleKeeps ==
    ASSUME Inv, SettleModule
    PROVE  Inv'
<1> DEFINE v == IF native.path \in Inspectable THEN native.path ELSE None
<1>1. /\ pc = "settle" /\ lookup.kind = "module" /\ Settle(v)
      /\ disk' = disk /\ limits' = limits /\ callbackError' = callbackError /\ met' = met
      /\ UNCHANGED budgetVars /\ UNCHANGED cacheVars
  BY DEF SettleModule
<1>2. /\ native.path = Resolution(Context.roots, Head(lookup.todo))
      /\ lookup.todo = <<lookup.query>>
  BY <1>1 DEF Inv, LookupIsExact, SettleIsExact, ResolvingIsTyped
<1>3. v = Expected(lookup)
  BY <1>1, <1>2 DEF Expected, Context
<1>4. AnswersAreExact' /\ pc' = "idle"
  BY <1>1, <1>3, SettleAnswers
<1>5. Typed' /\ ErrorsAreKept' /\ WithinBudgets'
  BY <1>1, <1>4 DEF Inv, Typed, ErrorsAreKept, WithinBudgets, budgetVars
<1>6. MemosAreExact'
  BY <1>1, SameMemos DEF Inv
<1> QED
  BY <1>4, <1>5, <1>6, NoLookup DEF Inv

LEMMA SettleProbeKeeps ==
    ASSUME Inv, SettleProbe
    PROVE  Inv'
<1> DEFINE roots == Context.roots
           q     == lookup.query
           path  == native.path
<1>1. /\ pc = "settle" /\ lookup.kind = "probe"
      /\ disk' = disk /\ limits' = limits /\ resolved' = resolved /\ fileFormats' = fileFormats
      /\ manifests' = manifests /\ callbackError' = callbackError
  BY DEF SettleProbe
<1>2. /\ Typed /\ WithinBudgets /\ HostsAreExact
      /\ met = None /\ callbackError = None
  BY <1>1 DEF Inv, ErrorsAreKept, MemosAreExact
<1>3. /\ lookup \in [kind : {"module", "probe"}, context : Contexts, query : Queries,
                     todo : Seq(Queries)]
      /\ Context \in Contexts
  BY <1>1, ResolvingTyped
<1>4. /\ Context \in DOMAIN replayHosts
      /\ path = Resolution(roots, Head(lookup.todo)) /\ Given(roots, path)
  BY <1>1 DEF Inv, LookupIsExact, SettleIsExact
<1>5. \/ /\ lookup.todo = <<q>>
         /\ Types[q] = q \/ Resolution(roots, Types[q]) = None
      \/ lookup.todo = <<Types[q], q>>
  BY <1>1 DEF Inv, LookupIsExact, ResolvingIsTyped
<1>6. Expected(lookup) = IF Resolution(roots, Types[q]) # None THEN Resolution(roots, Types[q])
                         ELSE Resolution(roots, q)
  BY <1>1, FirstOfTwo DEF Expected, Context
<1>7. ResolvedIsExact' /\ ManifestsAreExact' /\ FormatsAreExact'
  BY <1>1, SameResolved, SameManifests, SameFormats DEF Inv, MemosAreExact
<1>8. CASE path = None /\ Len(lookup.todo) > 1
  <2>1. /\ lookup' = [lookup EXCEPT !.todo = Tail(@)] /\ pc' = "resolve" /\ answer' = answer
        /\ UNCHANGED budgetVars /\ replayHosts' = replayHosts /\ met' = met
    BY <1>8 DEF SettleProbe
  <2>2. lookup.todo = <<Types[q], q>> /\ Resolution(roots, Types[q]) = None
    <3>1. Len(<<q>>) = 1 /\ Head(<<Types[q], q>>) = Types[q]
      OBVIOUS
    <3>2. ASSUME lookup.todo = <<q>> PROVE FALSE
      <4>1. Len(lookup.todo) = 1
        BY <3>1, <3>2
      <4> QED
        BY <1>8, <4>1
    <3>3. lookup.todo = <<Types[q], q>>
      BY <1>5, <3>2
    <3> QED
      BY <1>4, <1>8, <3>1, <3>3
  <2>3. /\ lookup' \in [kind : {"module", "probe"}, context : Contexts, query : Queries,
                        todo : Seq(Queries)]
        /\ lookup'.todo = <<q>> /\ lookup'.query = q /\ Context' = Context
    <3>1. Tail(<<Types[q], q>>) = <<q>> /\ q \in Queries
      BY <1>3
    <3>2. <<q>> \in Seq(Queries)
      BY <3>1
    <3>3. lookup' = [lookup EXCEPT !.todo = <<q>>]
      BY <2>1, <2>2, <3>1
    <3> QED
      BY <1>3, <3>2, <3>3 DEF Context
  <2>4. ResolvingIsTyped'
    BY <1>1, <2>2, <2>3, SameFiles DEF ResolvingIsTyped
  <2>5. Typed' /\ ErrorsAreKept' /\ WithinBudgets'
    BY <1>1, <1>2, <2>1 DEF Typed, ErrorsAreKept, WithinBudgets, budgetVars
  <2>6. HostsAreExact' /\ AnswersAreExact'
    BY <1>1, <1>2, <2>1, SameHosts, SameAnswer DEF Inv
  <2> QED
    BY <1>7, <2>1, <2>4, <2>5, <2>6
    DEF Inv, MemosAreExact, LookupIsExact, WalkIsExact, NativeIsTyped, NativeIsExact, SettleIsExact
<1>9. CASE path = None /\ ~(Len(lookup.todo) > 1)
  <2>1. /\ Settle(None) /\ UNCHANGED budgetVars /\ replayHosts' = replayHosts /\ met' = met
    BY <1>9 DEF SettleProbe
  <2>2. lookup.todo = <<q>>
    BY <1>5, <1>9
  <2>3. Expected(lookup) = None
    BY <1>4, <1>5, <1>6, <1>9, <2>2
  <2>4. AnswersAreExact' /\ pc' = "idle"
    BY <1>1, <2>1, <2>3, SettleAnswers
  <2>5. Typed' /\ ErrorsAreKept' /\ WithinBudgets'
    BY <1>1, <1>2, <2>1, <2>4 DEF Typed, ErrorsAreKept, WithinBudgets, budgetVars
  <2>6. HostsAreExact'
    BY <1>1, <1>2, <2>1, SameHosts
  <2> QED
    BY <1>7, <2>4, <2>5, <2>6, NoLookup DEF Inv, MemosAreExact
<1>10. CASE path # None
  <2> DEFINE call == HostCall(Context, "real", path)
  <2>1. /\ Spend(call)
        /\ replayHosts' = [replayHosts EXCEPT ![Context]["real"] = call.keeps]
        /\ IF call.error # None
           THEN pc' = "failed" /\ UNCHANGED <<lookup, native, answer>>
           ELSE Settle(IF Authorized(roots, Dir[path], FALSE) THEN call.value ELSE None)
    BY <1>10 DEF SettleProbe
  <2>2. PICK f \in Files : path = RealFile[f] /\ Authorized(roots, Dir[f], FALSE)
    BY <1>4, <1>10 DEF Given
  <2>3. /\ path \in Files /\ RealFile[path] = path /\ Dir[path] = Real[Dir[f]] /\ Dir[f] \in Dirs
        /\ "real" \in Methods /\ path \in Path("real")
    BY <2>2, LookupsAssumption DEF Methods, Path
  <2>4. Authorized(roots, Dir[path], FALSE)
    BY <2>2, <2>3, AuthorizedReal
  <2>5. /\ call.error \in Limits \cup {None}
        /\ call.error = None => call.value = Says(roots, "real", path)
    BY <1>2, <1>3, <1>4, <2>3, HostCallExact
  <2>6. Says(roots, "real", path) = path
    BY <2>3, <2>4 DEF Says, Look
  <2>7. /\ operationCount' \in Nat /\ byteCount' \in Nat /\ WithinBudgets' /\ HostsAreExact'
    BY <1>1, <1>3, <1>4, <2>1, <2>3, SpendKeeps
  <2>8. met' = call.error
    BY <1>2, <2>1 DEF Spend
  <2>9. CASE call.error # None
    <3>1. Typed' /\ ErrorsAreKept' /\ pc' = "failed" /\ answer' = answer
      BY <1>1, <1>2, <2>1, <2>7, <2>9 DEF Typed, ErrorsAreKept
    <3>2. AnswersAreExact'
      BY <1>1, <3>1, SameAnswer DEF Inv
    <3> QED
      BY <1>7, <2>7, <3>1, <3>2, NoLookup DEF Inv, MemosAreExact
  <2>10. CASE call.error = None
    <3>1. Settle(path)
      BY <2>1, <2>4, <2>5, <2>6, <2>10
    <3>2. Expected(lookup) = path
      <4>1. CASE lookup.todo = <<q>>
        BY <1>4, <1>5, <1>6, <1>10, <4>1
      <4>2. CASE lookup.todo = <<Types[q], q>>
        BY <1>4, <1>6, <1>10, <4>2
      <4> QED
        BY <1>5, <4>1, <4>2
    <3>3. AnswersAreExact' /\ pc' = "idle"
      BY <1>1, <3>1, <3>2, SettleAnswers
    <3>4. Typed' /\ ErrorsAreKept'
      BY <1>1, <1>2, <2>7, <2>8, <2>10, <3>3 DEF Typed, ErrorsAreKept
    <3> QED
      BY <1>7, <2>7, <3>3, <3>4, NoLookup DEF Inv, MemosAreExact
  <2> QED
    BY <2>9, <2>10
<1> QED
  BY <1>8, <1>9, <1>10

-----------------------------------------------------------------------------
(* Access styles.                                                          *)

\* A style is that of the directory and the roots around it.
LEMMA StyleOfKey ==
    ASSUME NEW b \in Contexts, NEW c \in Contexts, b.directory = c.directory,
           RootsAround(b.roots, b.directory) = RootsAround(c.roots, c.directory)
    PROVE  StyleAround(b.roots, b.directory) = StyleAround(c.roots, c.directory)
<1>1. ASSUME NEW m \in Manifests, Dir[m] \in Above[c.directory]
      PROVE  Readable(b.roots, m) <=> Readable(c.roots, m)
  <2>1. Authorized(b.roots, Dir[m], FALSE) => Authorized(c.roots, Dir[m], FALSE)
    BY <1>1, AuthorizedAround
  <2>2. Authorized(c.roots, Dir[m], FALSE) => Authorized(b.roots, Dir[m], FALSE)
    BY <1>1, AuthorizedAround
  <2> QED
    BY <2>1, <2>2 DEF Readable
<1>2. NearestManifest(b.roots, b.directory) = NearestManifest(c.roots, c.directory)
  BY <1>1 DEF NearestManifest
<1> QED
  BY <1>2 DEF StyleAround

LEMMA FormatKeyIs ==
    ASSUME Dir[lookup.source] = Context.directory
    PROVE  FormatKey = <<Context.directory, RootsAround(Context.roots, Context.directory)>>
  BY DEF FormatKey, RootsAround

\* A style that is right for one question is right for every one it is kept for.
LEMMA RememberStyle ==
    ASSUME FormatsAreExact, disk' = disk, Context \in Contexts,
           Dir[lookup.source] = Context.directory,
           NEW style, style = StyleAround(Context.roots, Context.directory),
           fileFormats' = Remember(fileFormats, FormatKey, style)
    PROVE  FormatsAreExact'
<1> SUFFICES ASSUME NEW c \in Contexts,
                    <<c.directory, RootsAround(c.roots, c.directory)>> \in DOMAIN fileFormats'
             PROVE  fileFormats'[<<c.directory, RootsAround(c.roots, c.directory)>>]
                    = StyleAround(c.roots, c.directory)
  BY SameFiles DEF FormatsAreExact
<1> DEFINE key == <<c.directory, RootsAround(c.roots, c.directory)>>
<1>1. CASE key \in DOMAIN fileFormats
  BY <1>1 DEF FormatsAreExact, Remember
<1>2. CASE key \notin DOMAIN fileFormats
  <2>1. key = FormatKey /\ fileFormats'[key] = style
    BY <1>2 DEF Remember
  <2>2. /\ c.directory = Context.directory
        /\ RootsAround(c.roots, c.directory) = RootsAround(Context.roots, Context.directory)
    BY <2>1, FormatKeyIs
  <2> QED
    BY <2>1, <2>2, StyleOfKey
<1> QED
  BY <1>1, <1>2

LEMMA ManifestOfDirectory ==
    ASSUME NEW d \in Dirs
    PROVE  /\ ManifestOf(d) \in Manifests /\ Dir[ManifestOf(d)] = d
           /\ \A m \in Manifests : Dir[m] = d => m = ManifestOf(d)
<1>1. \E m \in Manifests : Dir[m] = d
  BY LookupsAssumption
<1>2. ManifestOf(d) \in Manifests /\ Dir[ManifestOf(d)] = d
  BY <1>1 DEF ManifestOf
<1> QED
  BY <1>2, LookupsAssumption

\* The walk has found the nearest manifest when it can read one.
LEMMA WalkHit ==
    ASSUME NEW c \in Contexts, NEW d \in Above[c.directory],
           \A m \in Manifests : Dir[m] \in Above[c.directory] /\ Readable(c.roots, m)
                                => Dir[m] \in Above[d],
           Readable(c.roots, ManifestOf(d))
    PROVE  StyleAround(c.roots, c.directory) = StyleOf(disk[ManifestOf(d)])
<1> DEFINE M == ManifestOf(d)
           near == NearestManifest(c.roots, c.directory)
<1>1. c.directory \in Dirs /\ d \in Dirs
  BY LookupsAssumption, AboveSelf
<1>2. M \in Manifests /\ Dir[M] = d /\ \A m \in Manifests : Dir[m] = d => m = M
  BY <1>1, ManifestOfDirectory
<1>3. M \in near
  BY <1>2 DEF NearestManifest
<1>4. ASSUME NEW m \in near PROVE m = M
  <2>1. m \in Manifests /\ Dir[m] \in Above[c.directory] /\ Readable(c.roots, m)
    BY DEF NearestManifest
  <2>2. Dir[m] \in Above[d] /\ d \in Above[Dir[m]]
    BY <1>2, <2>1 DEF NearestManifest
  <2>3. Dir[m] \in Dirs
    BY <1>1, <2>2, AboveSelf
  <2>4. Dir[m] = d
    BY <1>1, <2>2, <2>3, PathsAssumption
  <2> QED
    BY <1>2, <2>1, <2>4
<1>5. near = {M}
  BY <1>3, <1>4
<1> QED
  BY <1>5 DEF StyleAround, StyleOf

\* When it cannot, what can be read is further up.
LEMMA WalkMiss ==
    ASSUME NEW c \in Contexts, NEW d \in Above[c.directory],
           \A m \in Manifests : Dir[m] \in Above[c.directory] /\ Readable(c.roots, m)
                                => Dir[m] \in Above[d],
           ~Readable(c.roots, ManifestOf(d))
    PROVE  /\ Parent[d] \in Above[c.directory] /\ Parent[d] \in Dirs
           /\ Parent[d] # d => \A m \in Manifests :
                 Dir[m] \in Above[c.directory] /\ Readable(c.roots, m) => Dir[m] \in Above[Parent[d]]
           /\ Parent[d] = d => StyleAround(c.roots, c.directory) = "require"
<1>1. c.directory \in Dirs /\ d \in Dirs /\ Above[c.directory] \subseteq Dirs
  BY LookupsAssumption, AboveSelf
<1>2. Parent[d] \in Above[c.directory]
  BY <1>1, AboveClosed
<1>3. \A m \in Manifests : Dir[m] = d => ~Readable(c.roots, m)
  BY <1>1, ManifestOfDirectory
<1>4. Above[d] = {d} \cup Above[Parent[d]]
  BY <1>1, AboveStep
<1>5. ASSUME Parent[d] = d PROVE StyleAround(c.roots, c.directory) = "require"
  <2>1. Above[d] \subseteq {d}
    <3>1. {d} \in SUBSET Dirs /\ d \in {d} /\ \A x \in {d} : Parent[x] \in {d}
      BY <1>1, <1>5
    <3> QED
      BY <1>1, <3>1 DEF Above
  <2>2. NearestManifest(c.roots, c.directory) = {}
    BY <1>3, <2>1 DEF NearestManifest
  <2> QED
    BY <2>2 DEF StyleAround
<1> QED
  BY <1>1, <1>2, <1>3, <1>4, <1>5

LEMMA WalkTyped ==
    ASSUME Inv, pc = "format"
    PROVE  /\ lookup \in [kind : {"format"}, context : Contexts, source : Sources, at : Dirs]
           /\ Context \in Contexts
           /\ Dir[lookup.source] = Context.directory
           /\ lookup.at \in Above[Context.directory]
           /\ \A m \in Manifests :
                 Dir[m] \in Above[Context.directory] /\ Readable(Context.roots, m)
                 => Dir[m] \in Above[lookup.at]
           /\ Expected(lookup) = IF Style[lookup.source] # None THEN Style[lookup.source]
                                 ELSE StyleAround(Context.roots, Context.directory)
<1>1. WalkIsExact
  BY DEF Inv, LookupIsExact
<1>2. /\ lookup \in [kind : {"format"}, context : Contexts, source : Sources, at : Dirs]
      /\ Dir[lookup.source] = Context.directory
  BY <1>1 DEF WalkIsExact
<1>3. Expected(lookup) = IF Style[lookup.source] # None THEN Style[lookup.source]
                         ELSE StyleAround(Context.roots, Context.directory)
  BY <1>2 DEF Expected, StyleAround, Context
<1> QED
  BY <1>1, <1>2, <1>3 DEF WalkIsExact, Context

LEMMA KnownFormatKeeps ==
    ASSUME Inv, KnownFormat
    PROVE  Inv'
<1>1. /\ pc = "format" /\ disk' = disk /\ limits' = limits /\ callbackError' = callbackError
      /\ met' = met /\ UNCHANGED budgetVars /\ UNCHANGED cacheVars
  BY DEF KnownFormat
<1>2. AnswersAreExact' /\ pc' = "idle"
  <2>1. CASE Style[lookup.source] # None /\ Settle(Style[lookup.source])
    BY <1>1, <2>1, WalkTyped, SettleAnswers
  <2>2. CASE /\ Style[lookup.source] = None /\ FormatKey \in DOMAIN fileFormats
             /\ Settle(fileFormats[FormatKey])
    <3>1. fileFormats[FormatKey] = StyleAround(Context.roots, Context.directory)
      BY <1>1, <2>2, WalkTyped, FormatKeyIs DEF Inv, MemosAreExact, FormatsAreExact
    <3> QED
      BY <1>1, <2>2, <3>1, WalkTyped, SettleAnswers
  <2> QED
    BY <2>1, <2>2 DEF KnownFormat
<1>3. Typed' /\ ErrorsAreKept' /\ WithinBudgets'
  BY <1>1, <1>2 DEF Inv, Typed, ErrorsAreKept, WithinBudgets, budgetVars
<1>4. MemosAreExact'
  BY <1>1, SameMemos DEF Inv
<1> QED
  BY <1>2, <1>3, <1>4, NoLookup DEF Inv

LEMMA FormatStepKeeps ==
    ASSUME Inv, FormatStep
    PROVE  Inv'
<1> DEFINE at    == lookup.at
           m     == ManifestOf(at)
           call  == HostCall(Context, "text", m)
           found(style) == /\ fileFormats' = Remember(fileFormats, FormatKey, style)
                           /\ Settle(style)
<1>1. /\ pc = "format" /\ Style[lookup.source] = None
      /\ disk' = disk /\ limits' = limits /\ resolved' = resolved /\ manifests' = manifests
      /\ callbackError' = callbackError
  BY DEF FormatStep
<1>2. /\ Typed /\ WithinBudgets /\ HostsAreExact /\ FormatsAreExact
      /\ met = None /\ callbackError = None
  BY <1>1 DEF Inv, ErrorsAreKept, MemosAreExact
<1>3. /\ lookup \in [kind : {"format"}, context : Contexts, source : Sources, at : Dirs]
      /\ Context \in Contexts /\ at \in Dirs /\ Dir[lookup.source] = Context.directory
      /\ at \in Above[Context.directory]
      /\ \A n \in Manifests : Dir[n] \in Above[Context.directory] /\ Readable(Context.roots, n)
                              => Dir[n] \in Above[at]
      /\ Expected(lookup) = StyleAround(Context.roots, Context.directory)
  BY <1>1, WalkTyped
<1>4. ResolvedIsExact' /\ ManifestsAreExact'
  BY <1>1, SameResolved, SameManifests DEF Inv, MemosAreExact
<1>5. ASSUME NEW style, style = StyleAround(Context.roots, Context.directory), found(style)
      PROVE  FormatsAreExact' /\ AnswersAreExact' /\ pc' = "idle"
  BY <1>1, <1>2, <1>3, <1>5, RememberStyle, SettleAnswers
<1>6. CASE Context \notin DOMAIN replayHosts
  <2>1. /\ WithHost /\ operationCount' = operationCount + HostCost
        /\ IF operationCount' > limits.operations THEN Throw("work")
           ELSE UNCHANGED <<pc, lookup, native, answer, met>>
        /\ UNCHANGED <<byteCount, fileFormats>>
    BY <1>6 DEF FormatStep
  <2>2. HostsAreExact' /\ FormatsAreExact'
    BY <1>1, <1>2, <2>1, WithHostKeeps, SameFormats
  <2>3. AnswersAreExact'
    BY <1>1, <2>1, SameAnswer DEF Inv, Throw
  <2>4. /\ operationCount \in Nat /\ HostCost \in Nat /\ limits.operations \in Nat
    BY <1>2, <1>3, HostCostIsNat, LookupsAssumption DEF Typed
  <2>5. CASE operationCount' > limits.operations
    <3>1. pc' = "failed" /\ met' = "work"
      BY <1>2, <2>1, <2>5 DEF Throw, Limits
    <3>2. Typed' /\ ErrorsAreKept' /\ WithinBudgets'
      BY <1>1, <1>2, <2>1, <2>4, <3>1, LookupsAssumption
      DEF Typed, ErrorsAreKept, WithinBudgets, Errors, Limits
    <3> QED
      BY <1>4, <2>2, <2>3, <3>1, <3>2, NoLookup DEF Inv, MemosAreExact
  <2>6. CASE ~(operationCount' > limits.operations)
    <3>1. pc' = pc /\ lookup' = lookup /\ met' = met
      BY <2>1, <2>6
    <3>2. Typed' /\ ErrorsAreKept' /\ WithinBudgets'
      BY <1>1, <1>2, <2>1, <2>4, <2>6, <3>1 DEF Typed, ErrorsAreKept, WithinBudgets
    <3>3. WalkIsExact'
      BY <1>1, <3>1, SameFiles DEF Inv, LookupIsExact, WalkIsExact, Context
    <3> QED
      BY <1>1, <1>4, <2>2, <2>3, <3>1, <3>2, <3>3
      DEF Inv, MemosAreExact, LookupIsExact, ResolvingIsTyped, NativeIsTyped, NativeIsExact,
          SettleIsExact
  <2> QED
    BY <2>5, <2>6
<1>7. CASE Context \in DOMAIN replayHosts
  <2>1. /\ Spend(call)
        /\ replayHosts' = [replayHosts EXCEPT ![Context]["text"] = call.keeps]
    BY <1>7 DEF FormatStep
  <2>2. m \in Manifests /\ "text" \in Methods /\ m \in Path("text")
    BY <1>3, ManifestOfDirectory DEF Methods, Path, Files
  <2>3. /\ operationCount' \in Nat /\ byteCount' \in Nat /\ WithinBudgets' /\ HostsAreExact'
        /\ DOMAIN replayHosts' = DOMAIN replayHosts
    BY <1>1, <1>3, <1>7, <2>1, <2>2, SpendKeeps
  <2>4. met' = call.error
    BY <1>2, <2>1 DEF Spend
  <2>5. call.error = None => call.value = IF Readable(Context.roots, m) THEN disk[m] ELSE None
    BY <1>2, <1>3, <1>7, <2>2, HostCallExact, SaysText
  <2>6. CASE call.error # None \/ (call.value # None /\ call.value.format = "broken")
    <3>1. pc' = "failed" /\ fileFormats' = fileFormats /\ answer' = answer
      BY <1>7, <2>6 DEF FormatStep
    <3>2. FormatsAreExact' /\ AnswersAreExact'
      BY <1>1, <1>2, <3>1, SameFormats, SameAnswer DEF Inv
    <3>3. Typed' /\ ErrorsAreKept'
      BY <1>1, <1>2, <2>3, <3>1 DEF Typed, ErrorsAreKept
    <3> QED
      BY <1>4, <2>3, <3>1, <3>2, <3>3, NoLookup DEF Inv, MemosAreExact
  <2>7. CASE ~(call.error # None \/ (call.value # None /\ call.value.format = "broken"))
    <3>1. call.error = None /\ call.value = IF Readable(Context.roots, m) THEN disk[m] ELSE None
      BY <2>5, <2>7
    <3>2. ASSUME NEW style, style = StyleAround(Context.roots, Context.directory), found(style)
          PROVE  Inv'
      <4>1. FormatsAreExact' /\ AnswersAreExact' /\ pc' = "idle"
        BY <1>5, <3>2
      <4>2. Typed' /\ ErrorsAreKept'
        BY <1>1, <1>2, <2>3, <2>4, <3>1, <4>1 DEF Typed, ErrorsAreKept
      <4> QED
        BY <1>4, <2>3, <4>1, <4>2, NoLookup DEF Inv, MemosAreExact
    <3>3. CASE call.value # None
      <4>1. found(StyleOf(call.value))
        BY <1>7, <2>7, <3>3 DEF FormatStep
      <4>2. Readable(Context.roots, m) /\ call.value = disk[m]
        BY <3>1, <3>3
      <4>3. StyleOf(call.value) = StyleAround(Context.roots, Context.directory)
        BY <1>3, <4>2, WalkHit
      <4> QED
        BY <3>2, <4>1, <4>3
    <3>4. CASE call.value = None
      <4>1. ~Readable(Context.roots, m)
        BY <3>1, <3>4 DEF Readable
      <4>2. /\ Parent[at] \in Above[Context.directory] /\ Parent[at] \in Dirs
            /\ Parent[at] # at => \A n \in Manifests :
                  Dir[n] \in Above[Context.directory] /\ Readable(Context.roots, n)
                  => Dir[n] \in Above[Parent[at]]
            /\ Parent[at] = at => StyleAround(Context.roots, Context.directory) = "require"
        BY <1>3, <4>1, WalkMiss
      <4>3. CASE Parent[at] = at
        <5>1. found("require")
          BY <1>7, <2>7, <3>4, <4>3 DEF FormatStep
        <5> QED
          BY <3>2, <4>2, <4>3, <5>1
      <4>4. CASE Parent[at] # at
        <5>1. /\ lookup' = [lookup EXCEPT !.at = Parent[@]]
              /\ pc' = pc /\ answer' = answer /\ fileFormats' = fileFormats
          BY <1>7, <2>7, <3>4, <4>4 DEF FormatStep
        <5>2. Context' = Context /\ lookup'.at = Parent[at] /\ lookup'.source = lookup.source
              /\ lookup' \in [kind : {"format"}, context : Contexts, source : Sources, at : Dirs]
          BY <1>3, <4>2, <5>1 DEF Context
        <5>3. WalkIsExact'
          BY <1>3, <4>2, <4>4, <5>2, SameFiles, <1>1 DEF WalkIsExact
        <5>4. FormatsAreExact' /\ AnswersAreExact'
          BY <1>1, <1>2, <5>1, SameFormats, SameAnswer DEF Inv
        <5>5. Typed' /\ ErrorsAreKept'
          BY <1>1, <1>2, <2>3, <2>4, <3>1, <5>1 DEF Typed, ErrorsAreKept
        <5> QED
          BY <1>1, <1>4, <2>3, <5>1, <5>3, <5>4, <5>5
          DEF Inv, MemosAreExact, LookupIsExact, ResolvingIsTyped, NativeIsTyped, NativeIsExact,
              SettleIsExact
      <4> QED
        BY <4>3, <4>4
    <3> QED
      BY <3>3, <3>4
  <2> QED
    BY <2>6, <2>7
<1> QED
  BY <1>6, <1>7

-----------------------------------------------------------------------------
(* Theorems.                                                               *)

LEMMA InitKeeps == Init => Inv
<1> SUFFICES ASSUME Init PROVE Inv
  OBVIOUS
<1>1. Typed /\ ErrorsAreKept
  BY DEF Init, Typed, ErrorsAreKept
<1>2. WithinBudgets
  <2>1. limits.operations \in Nat /\ limits.bytes \in Nat
    BY LookupsAssumption DEF Init
  <2> QED
    BY <2>1 DEF Init, WithinBudgets
<1>3. MemosAreExact
  BY DEF Init, MemosAreExact, HostsAreExact, ResolvedIsExact, ManifestsAreExact, FormatsAreExact
<1>4. LookupIsExact
  BY DEF Init, LookupIsExact, ResolvingIsTyped, WalkIsExact, NativeIsTyped, NativeIsExact,
         SettleIsExact
<1>5. AnswersAreExact
  BY DEF Init, AnswersAreExact
<1> QED
  BY <1>1, <1>2, <1>3, <1>4, <1>5 DEF Inv

LEMMA StutterKeeps ==
    ASSUME Inv, UNCHANGED vars
    PROVE  Inv'
<1>1. /\ disk' = disk /\ limits' = limits /\ pc' = pc /\ lookup' = lookup /\ native' = native
      /\ callbackError' = callbackError /\ met' = met /\ answer' = answer
      /\ UNCHANGED budgetVars /\ UNCHANGED cacheVars
  BY DEF vars
<1>2. Typed' /\ ErrorsAreKept' /\ WithinBudgets'
  BY <1>1 DEF Inv, Typed, ErrorsAreKept, WithinBudgets, budgetVars
<1>3. MemosAreExact' /\ AnswersAreExact'
  BY <1>1, SameMemos, SameAnswer DEF Inv
<1>4. ResolvingIsTyped' /\ WalkIsExact' /\ NativeIsTyped' /\ SettleIsExact'
  BY <1>1, SameFiles
  DEF Inv, LookupIsExact, ResolvingIsTyped, WalkIsExact, NativeIsTyped, SettleIsExact, Context,
      cacheVars, Given
<1>5. NativeIsExact'
  <2>1. ASSUME NEW roots, NEW f, Pursues(roots, f)
        PROVE  Pursues(roots, f)'
    BY <1>1, <2>1, SameFiles DEF Pursues
  <2>2. ASSUME NEW roots, NEW s, NEW i, IsTrying(roots, s, i)
        PROVE  IsTrying(roots, s, i)'
    <3>1. \A j \in 1..(i - 1) : Lead(roots, s[j])' = None
      BY <2>2, SameFiles, <1>1 DEF IsTrying
    <3>2. Pursues(roots, s[i])'
      BY <2>1, <2>2 DEF IsTrying
    <3> QED
      BY <1>1, <2>2, <3>1, <3>2 DEF IsTrying
  <2>3. ASSUME NEW roots, NEW q, Advances(roots, q)
        PROVE  Advances(roots, q)'
    <3>1. CASE native.ask = "return"
      <4>1. native.path = Resolution(roots, q)' /\ Given(roots, native.path)
        BY <1>1, <2>3, <3>1, SameFiles DEF Advances
      <4> QED
        BY <1>1, <3>1, <4>1 DEF Advances, Given
    <3>2. CASE native.ask # "return"
      <4>1. PICK i \in 1..Len(Candidates[q]) : IsTrying(roots, Candidates[q], i)
        BY <2>3, <3>2 DEF Advances
      <4>2. IsTrying(roots, Candidates[q], i)'
        BY <2>2, <4>1
      <4> QED
        BY <1>1, <3>2, <4>2 DEF Advances
    <3> QED
      BY <3>1, <3>2
  <2>4. CASE pc = "native" /\ callbackError = None
    BY <1>1, <2>3, <2>4 DEF Inv, LookupIsExact, NativeIsExact, Context
  <2> QED
    BY <1>1, <2>4 DEF NativeIsExact
<1> QED
  BY <1>2, <1>3, <1>4, <1>5 DEF Inv, LookupIsExact

LEMMA StepKeeps == Inv /\ [Next]_vars => Inv'
<1> SUFFICES ASSUME Inv, [Next]_vars PROVE Inv'
  OBVIOUS
<1>1. CASE \E c \in Contexts, q \in Queries : AskResolver(c, q)
  BY <1>1, AskResolverKeeps
<1>2. CASE \E c \in Contexts, q \in Queries : AskProbe(c, q)
  BY <1>2, AskProbeKeeps
<1>3. CASE \E c \in Contexts, s \in Sources : AskFormat(c, s)
  BY <1>3, AskFormatKeeps
<1>4. CASE \E m \in Manifests : ReadManifest(m)
  BY <1>4, ReadManifestKeeps
<1>5. CASE ResolveModule
  BY <1>5, ResolveModuleKeeps
<1>6. CASE Callback
  BY <1>6, CallbackKeeps
<1>7. CASE Return
  BY <1>7, ReturnKeeps
<1>8. CASE NativeFails
  BY <1>8, NativeFailsKeeps
<1>9. CASE SettleProbe
  BY <1>9, SettleProbeKeeps
<1>10. CASE SettleModule
  BY <1>10, SettleModuleKeeps
<1>11. CASE KnownFormat
  BY <1>11, KnownFormatKeeps
<1>12. CASE FormatStep
  BY <1>12, FormatStepKeeps
<1>13. CASE UNCHANGED vars
  BY <1>13, StutterKeeps
<1> QED
  BY <1>1, <1>2, <1>3, <1>4, <1>5, <1>6, <1>7, <1>8, <1>9, <1>10, <1>11, <1>12, <1>13 DEF Next

\* The invariant of a session's lookups: what hosts and memos keep is what the
\* disk says, and what a lookup has passed is refuted (compiler-work-session.ts).
THEOREM LookupsInvariant == Spec => []Inv
<1>1. Inv /\ [Next]_vars => Inv'
  BY StepKeeps
<1> QED
  BY InitKeeps, <1>1, PTL DEF Spec

\* Whatever was looked up before, in whichever context, and whatever was kept or
\* dropped since, an answer is the one of its own question and roots
\* (resolveModule, resolveEvidenceProbe, readEvidenceFileFormat, readManifest).
THEOREM AnswersExact == Spec => []AnswersAreExact
<1>1. Inv => AnswersAreExact
  BY DEF Inv
<1> QED
  BY <1>1, LookupsInvariant, PTL

\* A limit that a callback met ends its lookup, however the compiler went on,
\* and the session answers only within its budgets (withFileSystem,
\* reserveOperations, reserveBytes).
THEOREM LimitsAlwaysSurface == Spec => []LimitsSurface
<1>1. Inv => LimitsSurface
  BY DEF Inv, ErrorsAreKept, WithinBudgets, LimitsSurface
<1> QED
  BY <1>1, LookupsInvariant, PTL

\* No resolution that was computed from a fallback is kept for later lookups
\* (cachedCompilerLookup inside withFileSystem).
THEOREM KeptAnswersExact == Spec => []KeptAnswersAreExact
<1>1. Inv => KeptAnswersAreExact
  BY DEF Inv, MemosAreExact, ResolvedIsExact, KeptAnswersAreExact
<1> QED
  BY <1>1, LookupsInvariant, PTL
=============================================================================
