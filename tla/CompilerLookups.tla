--------------------------- MODULE CompilerLookups ---------------------------
(***************************************************************************)
(* The lookups of one compiler work session.                               *)
(*                                                                         *)
(* A session answers three questions about an installation: what a         *)
(* specifier resolves to, what access style a source file has, and what a  *)
(* manifest says.  Resolution is done by the native compiler, which asks   *)
(* back through callbacks: whether a directory or a file exists, what a    *)
(* file contains, what its real path is.  A callback answers only for      *)
(* paths inside the roots of the request, keeps its answers, and spends a  *)
(* budget of operations and of bytes that all lookups share.  The compiler *)
(* cannot be interrupted: a limit met in a callback is kept, the compiler  *)
(* is given a fallback, and the limit is thrown when it returns.           *)
(*                                                                         *)
(* A lookup that throws ends the inspection, so nothing follows it.        *)
(* Directories may be links; files are taken to be files of their          *)
(* directory.  Which paths the compiler asks for is external: here it      *)
(* tries the candidates of a query in order, a manifest leading to the     *)
(* file it names.                                                          *)
(***************************************************************************)
EXTENDS Naturals, Sequences, FiniteSets

CONSTANTS Dirs,        \* directories
          Parent,      \* the directory above; the topmost is above itself
          Nested,      \* directories of packages that lie in a node_modules directory
          Real,        \* the canonical path of each directory
          Sources,     \* declaration files, by name and directory
          Manifests,   \* the package.json of each directory
          Dir,         \* the directory of a file
          RealFile,    \* the canonical path of each file
          Style,       \* the access style an extension settles, None for .ts
          Queries,     \* specifiers with their access style
          Candidates,  \* the files the compiler tries for each query
          Types,       \* the query for the same package in @types
          Inspectable, \* the files with a TypeScript extension
          Contexts,    \* containing directories with their allowed roots
          Disks,       \* the contents of files to consider
          OperationLimits, ByteLimits,
          MaxManifest, \* MAX_MANIFEST_BYTES
          MaxResolved, \* the number of resolutions kept
          MaxLookups,  \* bound on the lookups of a behaviour
          None

Files == Sources \cup Manifests

\* A manifest has a size, a "type" and the declaration file it leads to; a
\* source has a size.  A broken manifest is not JSON.
Formats == {"module", "commonjs", "broken"}

\* Limits are met in operations, in bytes, or by one manifest; a manifest cannot
\* be read, or the compiler fails.
Limits == {"work", "bytes", "manifest"}
Errors == Limits \cup {"unreadable", "native"}

\* What a host is asked: directoryExists, fileExists, readFile, canonicalPath.
Methods == {"directory", "file", "text", "real"}

ASSUME LookupsAssumption ==
    /\ IsFiniteSet(Dirs) /\ IsFiniteSet(Files)
    /\ Parent \in [Dirs -> Dirs]
    /\ Nested \subseteq Dirs
    /\ Real \in [Dirs -> Dirs] /\ \A d \in Dirs : Real[Real[d]] = Real[d]
    /\ Sources \cap Manifests = {}
    /\ Dir \in [Files -> Dirs]
    /\ \A d \in Dirs : \E m \in Manifests : Dir[m] = d
    /\ \A m, n \in Manifests : Dir[m] = Dir[n] => m = n
    /\ RealFile \in [Files -> Files]
    /\ \A f \in Files : RealFile[RealFile[f]] = RealFile[f] /\ Dir[RealFile[f]] = Real[Dir[f]]
    /\ Candidates \in [Queries -> Seq(Files)]
    /\ Types \in [Queries -> Queries]
    /\ Inspectable \subseteq Sources
    /\ \A c \in Contexts : /\ c = [directory |-> c.directory, roots |-> c.roots]
                          /\ c.directory \in Dirs /\ c.roots \subseteq Dirs
    /\ \A contents \in Disks, f \in Files : contents[f] # None =>
          /\ contents[f].size \in Nat
          /\ f \in Manifests => /\ contents[f].format \in Formats
                               /\ contents[f].target \in Sources \cup {None}
    /\ OperationLimits \subseteq Nat /\ ByteLimits \subseteq Nat
    /\ None \notin Files \cup Dirs \cup Errors
    /\ MaxManifest \in Nat /\ MaxResolved \in Nat \ {0}

VARIABLES
    disk,            \* what each file contains, None when it is absent
    limits,          \* operations and resolutionBytes
    operationCount,
    byteCount,       \* resolutionByteCount
    replayHosts,     \* the answers kept by the host of each context
    resolved,        \* resolvedModules: answers by context and query
    fileFormats,     \* access styles by directory and the roots around it
    manifests,       \* packageManifestCache
    pc,              \* where the lookup is
    lookup,          \* the question
    native,          \* the compiler's progress through its candidates
    callbackError,   \* the first limit met in a callback
    met,             \* the first limit met by this lookup (history)
    answer,          \* the last question that was answered, and its answer
    asked            \* the number of lookups

budgetVars == <<operationCount, byteCount>>
cacheVars  == <<replayHosts, resolved, fileFormats, manifests>>
vars == <<disk, limits, budgetVars, cacheVars, pc, lookup, native, callbackError, met,
          answer, asked>>

Fresh == [method \in Methods |-> <<>>]

Init ==
    /\ disk \in Disks
    /\ limits \in [operations : OperationLimits, bytes : ByteLimits]
    /\ operationCount = 0
    /\ byteCount = 0
    /\ replayHosts = <<>>
    /\ resolved = <<>>
    /\ fileFormats = <<>>
    /\ manifests = <<>>
    /\ pc = "idle"
    /\ lookup = None
    /\ native = None
    /\ callbackError = None
    /\ met = None
    /\ answer = None
    /\ asked = 0

\* A memo with one more answer: what it has is kept.
Remember(memo, key, value) ==
    [k \in DOMAIN memo \cup {key} |-> IF k \in DOMAIN memo THEN memo[k] ELSE value]

-----------------------------------------------------------------------------
(* What a host may be asked about.                                         *)

\* A directory and those above it: what every set closed under Parent has.
Above ==
    [d \in Dirs |->
        {a \in Dirs : \A S \in SUBSET Dirs :
            d \in S /\ (\A x \in S : Parent[x] \in S) => a \in S}]

\* Directories are a tree.  Files are named by canonical paths, and a root comes
\* with its canonical path, where that can matter to the file.
ASSUME PathsAssumption ==
    /\ \A d, e \in Dirs : d \in Above[e] /\ e \in Above[d] => d = e
    /\ \A c \in Contexts :
          /\ \A d \in Above[c.directory] : Real[d] = d
          /\ \A r \in c.roots : Real[r] \in Above[c.directory] => Real[r] \in c.roots

IsPathWithin(root, d) == root \in Above[d]

CrossesNestedPackage(root, d) == \E p \in Above[d] \cap Nested : root \in Above[p] \ {p}

\* Both the path as it is written and its canonical path must be inside a root.
Authorized(roots, d, allowAncestor) ==
    LET canonical == {Real[r] : r \in roots}
        logical   == roots \cup canonical
    IN  /\ \E r \in logical :
              \/ IsPathWithin(r, d)
              \/ allowAncestor /\ IsPathWithin(d, r)
        /\ \/ \E r \in canonical :
                 \/ IsPathWithin(r, Real[d]) /\ ~CrossesNestedPackage(r, Real[d])
                 \/ allowAncestor /\ IsPathWithin(Real[d], r)
           \/ allowAncestor /\ \E r \in logical : IsPathWithin(d, r)

\* What a question about a path is answered without looking, and what the
\* compiler is given when the answer could not be had.
Refused(method, path) ==
    CASE method \in {"directory", "file"} -> FALSE
      [] method = "text" -> None
      [] OTHER -> path

RemainingBytes == IF byteCount < limits.bytes THEN limits.bytes - byteCount ELSE 0

\* A manifest that does not fit is a limit: its own, or that of the session.
TooLarge(size) ==
    IF size <= RemainingBytes /\ size <= MaxManifest THEN None
    ELSE IF RemainingBytes < MaxManifest THEN "bytes" ELSE "manifest"

Look(method, path) ==
    CASE method = "directory" -> [value |-> TRUE, error |-> None, bytes |-> 0]
      [] method = "file" -> [value |-> disk[path] # None, error |-> None, bytes |-> 0]
      [] method = "real" ->
            [value |-> IF disk[path] = None THEN path ELSE RealFile[path],
             error |-> None, bytes |-> 0]
      [] OTHER ->
            IF disk[path] = None THEN [value |-> None, error |-> None, bytes |-> 0]
            ELSE [value |-> disk[path], error |-> TooLarge(disk[path].size),
                  bytes |-> disk[path].size]

\* What a callback returns or throws, what it spends, and what its host keeps:
\* the operation is spent whether or not the answer was kept before.
HostCall(context, method, path) ==
    LET kept == replayHosts[context][method]
        seen == Look(method, path)
        none == [value |-> Refused(method, path), error |-> None, operations |-> 0,
                 bytes |-> 0, keeps |-> kept]
    IN  IF ~Authorized(context.roots, IF method = "directory" THEN path ELSE Dir[path],
                       method = "directory")
        THEN none
        ELSE IF operationCount >= limits.operations
        THEN [none EXCEPT !.error = "work", !.operations = 1]
        ELSE IF path \in DOMAIN kept
        THEN [none EXCEPT !.value = kept[path], !.operations = 1]
        ELSE IF seen.error # None
        THEN [none EXCEPT !.error = seen.error, !.operations = 1]
        ELSE [value |-> seen.value, error |-> None, operations |-> 1,
              bytes |-> seen.bytes, keeps |-> Remember(kept, path, seen.value)]

Spend(call) ==
    /\ operationCount' = operationCount + call.operations
    /\ byteCount' = byteCount + call.bytes
    /\ met' = IF met = None THEN call.error ELSE met

-----------------------------------------------------------------------------
(* Questions.                                                              *)

Ask(next, cost) ==
    /\ pc = "idle"
    /\ asked < MaxLookups
    /\ asked' = asked + 1
    /\ answer' = None
    /\ operationCount' = operationCount + cost
    /\ IF operationCount' > limits.operations
          THEN pc' = "failed" /\ met' = "work"
          ELSE pc' = next /\ UNCHANGED met
    /\ UNCHANGED <<disk, limits, byteCount, cacheVars, native, callbackError>>

\* createPackageResolver: one specifier, whatever its extension resolves to.
AskResolver(context, query) ==
    /\ lookup' = [kind |-> "module", context |-> context, query |-> query, todo |-> <<query>>]
    /\ Ask("resolve", 0)

\* resolveEvidenceProbe: a type reference is tried in @types first.
AskProbe(context, query) ==
    /\ lookup' = [kind |-> "probe", context |-> context, query |-> query,
                  todo |-> IF Types[query] = query THEN <<query>> ELSE <<Types[query], query>>]
    /\ Ask("resolve", 1)

\* readEvidenceFileFormat: an extension may settle it.
AskFormat(context, source) ==
    /\ Dir[source] = context.directory
    /\ lookup' = [kind |-> "format", context |-> context, source |-> source, at |-> Dir[source]]
    /\ Ask("format", 1)

Settle(value) ==
    /\ pc' = "idle"
    /\ answer' = [question |-> lookup, value |-> value]
    /\ lookup' = None
    /\ native' = None

Throw(error) ==
    /\ pc' = "failed"
    /\ met' = IF met = None /\ error \in Limits THEN error ELSE met
    /\ UNCHANGED <<lookup, native, answer>>

\* A manifest that is not there, or does not fit, is an error here.
ReadResolutionFile(manifest) ==
    IF operationCount >= limits.operations THEN "work"
    ELSE IF disk[manifest] = None THEN "unreadable"
    ELSE TooLarge(disk[manifest].size)

\* readManifest: what was parsed is kept, and what is broken is read again.
ReadManifest(manifest) ==
    LET error  == ReadResolutionFile(manifest)
        parsed == IF disk[manifest].format = "broken" THEN None ELSE disk[manifest]
        reply(value) == answer' = [question |-> [kind |-> "manifest", manifest |-> manifest],
                                   value |-> value]
    IN  /\ pc = "idle"
        /\ asked < MaxLookups
        /\ asked' = asked + 1
        /\ \/ /\ manifest \in DOMAIN manifests
              /\ reply(manifests[manifest])
              /\ UNCHANGED <<pc, lookup, native, budgetVars, met, manifests>>
           \/ /\ manifest \notin DOMAIN manifests
              /\ error # None
              /\ operationCount' = operationCount + 1
              /\ Throw(error)
              /\ UNCHANGED <<byteCount, manifests>>
           \/ /\ manifest \notin DOMAIN manifests
              /\ error = None
              /\ operationCount' = operationCount + 1
              /\ byteCount' = byteCount + disk[manifest].size
              /\ manifests' = IF parsed = None THEN manifests
                              ELSE Remember(manifests, manifest, parsed)
              /\ reply(parsed)
              /\ UNCHANGED <<pc, lookup, native, met>>
        /\ UNCHANGED <<disk, limits, replayHosts, resolved, fileFormats, callbackError>>

-----------------------------------------------------------------------------
(* Resolution by the compiler.                                             *)

Context == lookup.context

\* The host of a context is made once, for an operation per root.
HostCost == IF Context \in DOMAIN replayHosts THEN 0 ELSE Cardinality(Context.roots)

WithHost ==
    replayHosts' = Remember(replayHosts, Context, Fresh)

\* Mutant of Key: the memo is shared by requests with different roots.
KeyWithoutRoots == <<[Context EXCEPT !.roots = {}], Head(lookup.todo)>>

Key == <<Context, Head(lookup.todo)>>

Try(candidates) ==
    IF candidates = <<>> THEN [ask |-> "return", path |-> None, rest |-> <<>>]
    ELSE [ask |-> "directory", path |-> Head(candidates), rest |-> Tail(candidates)]

\* resolveModule: kept misses count as answers, and a full memo starts anew.
ResolveModule ==
    /\ pc = "resolve"
    /\ IF operationCount + 1 + HostCost > limits.operations
          THEN /\ Throw("work")
               /\ operationCount' = limits.operations + 1
               /\ UNCHANGED <<replayHosts, resolved>>
          ELSE /\ operationCount' = operationCount + 1 + HostCost
               /\ WithHost
               /\ resolved' = IF Cardinality(DOMAIN resolved) >= MaxResolved THEN <<>> ELSE resolved
               /\ IF Key \in DOMAIN resolved'
                     THEN /\ pc' = "settle"
                          /\ native' = [ask |-> "done", path |-> resolved'[Key], rest |-> <<>>]
                     ELSE /\ pc' = "native"
                          /\ native' = Try(Candidates[Head(lookup.todo)])
               /\ UNCHANGED <<lookup, met, answer>>
    /\ UNCHANGED <<disk, limits, byteCount, fileFormats, manifests, callbackError, asked>>

\* What the compiler does with what it is told.
Told(value) ==
    LET ask == native.ask IN
    CASE ask = "directory" ->
            IF ~value THEN Try(native.rest)
            ELSE [native EXCEPT !.ask = IF native.path \in Manifests THEN "text" ELSE "file"]
      [] ask = "text" ->
            IF value = None \/ value.format = "broken" \/ value.target = None
            THEN Try(native.rest)
            ELSE [native EXCEPT !.ask = "file", !.path = value.target]
      [] ask = "file" -> IF value THEN [native EXCEPT !.ask = "real"] ELSE Try(native.rest)
      [] OTHER -> [ask |-> "return", path |-> value, rest |-> <<>>]

\* A callback of the compiler, guarded: its error is kept if it is the first.
Callback ==
    LET path == IF native.ask = "directory" THEN Dir[native.path] ELSE native.path
        call == HostCall(Context, native.ask, path)
    IN  /\ pc = "native"
        /\ native.ask # "return"
        /\ Spend(call)
        /\ replayHosts' = [replayHosts EXCEPT ![Context][native.ask] = call.keeps]
        /\ callbackError' = IF callbackError = None THEN call.error ELSE callbackError
        /\ native' = Told(IF call.error = None THEN call.value
                          ELSE Refused(native.ask, path))
        /\ UNCHANGED <<disk, limits, resolved, fileFormats, manifests, pc, lookup, answer,
                       asked>>

\* Mutant of Return: the error of a callback is dropped.
ReturnUnchecked ==
    /\ pc = "native"
    /\ native.ask = "return"
    /\ pc' = "settle"
    /\ resolved' = Remember(resolved, Key, native.path)
    /\ native' = [native EXCEPT !.ask = "done"]
    /\ callbackError' = None
    /\ UNCHANGED <<disk, limits, budgetVars, replayHosts, fileFormats, manifests, asked, lookup,
                   met, answer>>

\* Mutant of Return: the result is kept before the error is thrown.
ReturnKeeping ==
    /\ pc = "native"
    /\ native.ask = "return"
    /\ IF callbackError # None
          THEN Throw(callbackError)
          ELSE /\ pc' = "settle"
               /\ native' = [native EXCEPT !.ask = "done"]
               /\ UNCHANGED <<lookup, met, answer>>
    /\ resolved' = Remember(resolved, Key, native.path)
    /\ callbackError' = None
    /\ UNCHANGED <<disk, limits, budgetVars, replayHosts, fileFormats, manifests, asked>>

\* withFileSystem, when the compiler returns: an error that was kept is thrown
\* before the result can be returned or kept.
Return ==
    /\ pc = "native"
    /\ native.ask = "return"
    /\ IF callbackError # None
          THEN Throw(callbackError) /\ UNCHANGED resolved
          ELSE /\ pc' = "settle"
               /\ resolved' = Remember(resolved, Key, native.path)
               /\ native' = [native EXCEPT !.ask = "done"]
               /\ UNCHANGED <<lookup, met, answer>>
    /\ callbackError' = None
    /\ UNCHANGED <<disk, limits, budgetVars, replayHosts, fileFormats, manifests, asked>>

\* The compiler itself may fail; the error of a callback is then forgotten.
NativeFails ==
    /\ pc = "native"
    /\ Throw("native")
    /\ callbackError' = None
    /\ UNCHANGED <<disk, limits, budgetVars, cacheVars, asked>>

\* resolveProbe: the next candidate, or the canonical path of the first found.
SettleProbe ==
    /\ pc = "settle"
    /\ lookup.kind = "probe"
    /\ IF native.path = None
          THEN /\ IF Len(lookup.todo) > 1
                     THEN /\ lookup' = [lookup EXCEPT !.todo = Tail(@)]
                          /\ pc' = "resolve"
                          /\ UNCHANGED <<native, answer>>
                     ELSE Settle(None)
               /\ UNCHANGED <<budgetVars, replayHosts, met>>
          ELSE LET call == HostCall(Context, "real", native.path) IN
               /\ Spend(call)
               /\ replayHosts' = [replayHosts EXCEPT ![Context]["real"] = call.keeps]
               /\ IF call.error # None
                     THEN pc' = "failed" /\ UNCHANGED <<lookup, native, answer>>
                     ELSE Settle(IF Authorized(Context.roots, Dir[native.path], FALSE)
                                 THEN call.value ELSE None)
    /\ UNCHANGED <<disk, limits, resolved, fileFormats, manifests, callbackError, asked>>

\* A package resolver answers with files of an inspectable extension only.
SettleModule ==
    /\ pc = "settle"
    /\ lookup.kind = "module"
    /\ Settle(IF native.path \in Inspectable THEN native.path ELSE None)
    /\ UNCHANGED <<disk, limits, budgetVars, cacheVars, callbackError, met, asked>>

-----------------------------------------------------------------------------
(* The access style of a source file.                                      *)

\* Only the roots around the file can have a manifest that counts for it.
FormatKey == <<Dir[lookup.source], {r \in Context.roots : IsPathWithin(r, Dir[lookup.source])}>>

StyleOf(contents) == IF contents.format = "module" THEN "import" ELSE "require"

ManifestOf(d) == CHOOSE m \in Manifests : Dir[m] = d

\* The extension, or a style that was found before, settles it at once.
KnownFormat ==
    /\ pc = "format"
    /\ lookup.at = Dir[lookup.source]
    /\ \/ Style[lookup.source] # None /\ Settle(Style[lookup.source])
       \/ /\ Style[lookup.source] = None
          /\ FormatKey \in DOMAIN fileFormats
          /\ Settle(fileFormats[FormatKey])
    /\ UNCHANGED <<disk, limits, budgetVars, cacheVars, callbackError, met, asked>>

\* Otherwise the nearest manifest that may be read does; beyond the topmost
\* directory it is CommonJS.  A manifest that is not JSON throws.
FormatStep ==
    LET first == HostCost
        host  == Context \in DOMAIN replayHosts
        call  == HostCall(Context, "text", ManifestOf(lookup.at))
        found(style) == /\ fileFormats' = Remember(fileFormats, FormatKey, style)
                        /\ Settle(style)
    IN  /\ pc = "format"
        /\ Style[lookup.source] = None
        /\ lookup.at = Dir[lookup.source] => FormatKey \notin DOMAIN fileFormats
        /\ IF ~host
              THEN /\ WithHost
                   /\ operationCount' = operationCount + first
                   /\ IF operationCount' > limits.operations THEN Throw("work")
                      ELSE UNCHANGED <<pc, lookup, native, answer, met>>
                   /\ UNCHANGED <<byteCount, fileFormats>>
              ELSE /\ Spend(call)
                   /\ replayHosts' = [replayHosts EXCEPT ![Context]["text"] = call.keeps]
                   /\ IF call.error # None \/ (call.value # None /\ call.value.format = "broken")
                      THEN pc' = "failed" /\ UNCHANGED <<lookup, native, answer, fileFormats>>
                      ELSE IF call.value # None THEN found(StyleOf(call.value))
                      ELSE IF Parent[lookup.at] = lookup.at THEN found("require")
                      ELSE /\ lookup' = [lookup EXCEPT !.at = Parent[@]]
                           /\ UNCHANGED <<pc, native, answer, fileFormats>>
        /\ UNCHANGED <<disk, limits, resolved, manifests, callbackError, asked>>

-----------------------------------------------------------------------------
Next ==
    \/ \E context \in Contexts :
          \/ \E query \in Queries : AskResolver(context, query) \/ AskProbe(context, query)
          \/ \E source \in Sources : AskFormat(context, source)
    \/ \E manifest \in Manifests : ReadManifest(manifest)
    \/ ResolveModule
    \/ Callback
    \/ Return
    \/ NativeFails
    \/ SettleProbe
    \/ SettleModule
    \/ KnownFormat
    \/ FormatStep

Spec == Init /\ [][Next]_vars

-----------------------------------------------------------------------------
(* What a lookup should find, said without hosts, memos, limits or steps.  *)

Readable(roots, f) == disk[f] # None /\ Authorized(roots, Dir[f], FALSE)

\* The file a candidate leads to when everything may be asked.
Lead(roots, f) ==
    LET named == IF f \in Sources THEN f
                 ELSE IF disk[f].format = "broken" THEN None ELSE disk[f].target
    IN  IF Readable(roots, f) /\ named # None /\ Readable(roots, named)
        THEN RealFile[named] ELSE None

FirstOf(s) ==
    LET hits == {i \in DOMAIN s : s[i] # None}
    IN  IF hits = {} THEN None ELSE s[CHOOSE i \in hits : \A j \in hits : i <= j]

Resolution(roots, query) ==
    FirstOf([i \in DOMAIN Candidates[query] |-> Lead(roots, Candidates[query][i])])

NearestManifest(roots, d) ==
    {m \in Manifests :
        /\ Dir[m] \in Above[d] /\ Readable(roots, m)
        /\ \A n \in Manifests :
              Dir[n] \in Above[d] /\ Readable(roots, n) => Dir[n] \in Above[Dir[m]]}

Expected(question) ==
    CASE question.kind = "module" ->
            LET found == Resolution(question.context.roots, question.query)
            IN  IF found \in Inspectable THEN found ELSE None
      [] question.kind = "probe" ->
            FirstOf(<<Resolution(question.context.roots, Types[question.query]),
                      Resolution(question.context.roots, question.query)>>)
      [] question.kind = "format" ->
            IF Style[question.source] # None THEN Style[question.source]
            ELSE IF \E m \in NearestManifest(question.context.roots, Dir[question.source]) :
                       disk[m].format = "module"
            THEN "import" ELSE "require"
      [] OTHER ->
            IF disk[question.manifest].format = "broken" THEN None
            ELSE disk[question.manifest]

-----------------------------------------------------------------------------
(* Properties.                                                             *)

\* Whatever was looked up before, in whichever context, and whatever was kept
\* or dropped since, an answer is the one of its own question and roots
\* (resolveModule, resolveEvidenceProbe, readEvidenceFileFormat, readManifest).
AnswersAreExact == answer # None => answer.value = Expected(answer.question)

\* A limit met anywhere in a lookup, also in a callback whose error the compiler
\* never saw, ends it: it does not answer, and the budgets hold for as long as
\* the session answers (withFileSystem, reserveOperations, reserveBytes).
LimitsSurface ==
    pc = "idle" =>
        /\ met = None
        /\ operationCount <= limits.operations
        /\ byteCount <= limits.bytes

\* What is kept for later lookups was computed without a fallback
\* (cachedCompilerLookup inside withFileSystem).
KeptAnswersAreExact ==
    \A key \in DOMAIN resolved : resolved[key] = Resolution(key[1].roots, key[2])
=============================================================================
