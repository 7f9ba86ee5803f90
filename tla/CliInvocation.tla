----------------------------- MODULE CliInvocation -----------------------------
(***************************************************************************)
(* One invocation of the command line.                                     *)
(*                                                                         *)
(* The words of the invocation name a command, options and specifiers;     *)
(* common options may stand before the command, and without a command the  *)
(* overview is meant.  For each specifier the workspace that consumes it   *)
(* is the one that an option names; or the current directory; or, at the   *)
(* root of a workspace repository that does not declare the package, the   *)
(* only workspace that does.  Discovery goes up to the directory that has  *)
(* workspace patterns and traverses what they could name, within bounds.   *)
(*                                                                         *)
(* The request is inspected, its outcome written, and the exit code set.   *)
(* The protocol and capabilities commands are not among the commands here. *)
(***************************************************************************)
EXTENDS WorkspaceRepository, FiniteSets, FiniteSetsExt

CONSTANTS Repositories,    \* what may lie around the current directory
          Invocations,     \* the words of an invocation
          Directories,     \* where it is run
          Builtins,        \* specifiers of platform modules
          PackageOf,       \* the package that a specifier names, None if it names none
          Resolve,         \* the directory that the value of a workspace option names
          MaxAncestors, MaxWorkspaces, MaxDepth, MaxOperations,
          None

CommonWidth == [json |-> 1, pretty |-> 1, access |-> 2, workspace |-> 2]

\* Width and arguments of each option and command that are told apart.
Width == [json |-> 1, pretty |-> 1, access |-> 2, workspace |-> 2, subpaths |-> 1, beforeWorkspace |-> 2, afterWorkspace |-> 2]

Arguments == [overview |-> 1, search |-> 2, compare |-> 2]

InspectionCommands == DOMAIN Arguments

Takes ==
    LET target == {"json", "pretty", "access", "workspace"}
    IN  [overview |-> target \cup {"subpaths"}, search |-> target,
         compare |-> {"json", "pretty", "beforeWorkspace", "afterWorkspace"}]

ASSUME CliAssumption ==
    /\ {MaxAncestors, MaxWorkspaces, MaxDepth, MaxOperations} \subseteq Nat \ {0}
    /\ \A r \in Repositories :
          /\ <<>> \in r.dirs /\ \A d \in r.dirs \ {<<>>} : Front(d) \in r.dirs
          /\ DOMAIN r.manifests \cup DOMAIN r.yaml \cup r.closed \subseteq r.dirs

VARIABLES
    repo,        \* the directories above and below
    cwd,         \* currentDirectory
    inputs,      \* rawInputs
    pc,
    parsed,      \* the command, its options and arguments
    contexts,    \* the resolution contexts selected so far
    at, depth,   \* findWorkspaceLayout: the directory that is read, and how far up
    layout,      \* the root of the repository and its patterns
    pending,     \* directories to visit
    operations,
    found,       \* the directories that are workspaces
    request,     \* what was sent to the core
    outcome,
    exit,        \* the exit code
    written      \* what was written to standard output and standard error

vars == <<repo, cwd, inputs, pc, parsed, contexts, at, depth, layout, pending, operations, found,
          request, outcome, exit, written>>

Init ==
    /\ repo \in Repositories
    /\ cwd \in Directories \cap repo.dirs
    /\ inputs \in Invocations
    /\ pc = "start"
    /\ parsed = None /\ contexts = <<>>
    /\ at = None /\ depth = 0 /\ layout = None
    /\ pending = {} /\ operations = 0 /\ found = {}
    /\ request = None /\ outcome = None /\ exit = None /\ written = {}

-----------------------------------------------------------------------------
(* Words.  An option is a word of its own kind; its name is its value.     *)

Option(name) == [option |-> TRUE, value |-> name]
Word(value) == [option |-> FALSE, value |-> value]

\* The word after which nothing is an option.
Dashes == [option |-> TRUE, value |-> "--"]

\* requestsFlag.
RequestsFlag(words, name) ==
    \E i \in DOMAIN words : words[i] = Option(name) /\ \A j \in 1..i : words[j] # Dashes

\* Mutant of LeadingCommonOptionsEnd: the value of an option is taken for a command.
LeadingOptionsEnd(words) ==
    CHOOSE n \in 0..Len(words) : /\ \A i \in 1..n : words[i].option /\ words[i].value \in DOMAIN CommonWidth
                                 /\ n < Len(words) => ~(words[n + 1].option /\ words[n + 1].value \in DOMAIN CommonWidth)

LeadingCommonOptionsEnd(words) ==
    LET end[i \in 0..Len(words)] ==
            IF i = Len(words) \/ ~words[i + 1].option \/ words[i + 1].value \notin DOMAIN CommonWidth THEN i
            ELSE IF i + CommonWidth[words[i + 1].value] > Len(words) THEN 0
            ELSE end[i + CommonWidth[words[i + 1].value]]
    IN  end[0]

IsCommand(word) == ~word.option /\ word.value \in InspectionCommands

\* normalizeCommonOptionPlacement, cliInputs: the command comes first.
CliInputs(words) ==
    LET n == LeadingCommonOptionsEnd(words)
        placed == IF n > 0 /\ n < Len(words) /\ IsCommand(words[n + 1])
                  THEN <<words[n + 1]>> \o SubSeq(words, 1, n) \o SubSeq(words, n + 2, Len(words))
                  ELSE words
    IN  IF placed # <<>> /\ IsCommand(placed[1]) THEN placed ELSE <<Word("overview")>> \o placed

\* Where a word is the value of the option before it, where words are arguments,
\* and which option has which value.  After the dashes nothing is an option.
End(words) == Min({i \in DOMAIN words : words[i] = Dashes} \cup {Len(words) + 1})

OptionsOf(words) == {i \in 1..(End(words) - 1) : words[i].option}

WideOf(words) == {i \in OptionsOf(words) : Width[words[i].value] = 2}

ArgumentsOf(words) ==
    LET plain == SetToSortSeq({i \in DOMAIN words : i \notin OptionsOf(words) \cup {End(words)} /\ i - 1 \notin WideOf(words)}, <)
    IN  [k \in DOMAIN plain |-> words[plain[k]].value]

ValuesOf(words) ==
    [o \in {words[i].value : i \in OptionsOf(words)} |->
        LET i == Max({i \in OptionsOf(words) : words[i].value = o})
        IN  IF Width[o] = 1 THEN TRUE ELSE words[i + 1].value]

\* What options and arguments mean to a command; None if it does not take them.
Invocation(command, words, arguments) ==
    IF \/ \E i \in OptionsOf(words) : words[i].value \notin Takes[command]
       \/ \E i \in WideOf(words) : i + 1 >= End(words) \/ words[i + 1].option
       \/ Len(arguments) # Arguments[command]
    THEN None
    ELSE [command |-> command, options |-> ValuesOf(words), arguments |-> arguments]

\* The command line library reads the words from the command on.
Parse(words) == Invocation(words[1].value, Tail(words), ArgumentsOf(Tail(words)))

Has(option) == option \in DOMAIN parsed.options

\* overviewJsonOptionError: an option of human output does not go with --json.
JsonOptionError(p) == {"json", "subpaths"} \subseteq DOMAIN p.options

-----------------------------------------------------------------------------
(* The end of an invocation.                                               *)

given   == <<repo, cwd, inputs>>
search  == <<at, depth, layout, pending, operations, found>>
results == <<request, outcome, exit, written>>

\* failureExitCode: an invalid invocation, a failed inspection, a defect.
FailureExitCode(why) ==
    CASE why \in {"invalid", "ambiguous", "bound"} -> 2
      [] why \in {"failure", "too long"} -> 1
      [] OTHER -> 70

\* writeCapturedDiagnostic: as JSON on standard output where the words ask for it.
Diagnostic ==
    IF RequestsFlag(inputs, "json") THEN "json diagnostic on stdout" ELSE "diagnostic on stderr"

\* reportCliCause.
Fail(why) ==
    /\ pc' = "exit" /\ exit' = FailureExitCode(why) /\ outcome' = why
    /\ written' = {Diagnostic}

\* createCliRunner, overviewJsonOptionError.
Start ==
    /\ pc = "start"
    /\ LET p == Parse(CliInputs(inputs))
       IN  \/ /\ RequestsFlag(inputs, "pretty") /\ ~RequestsFlag(inputs, "json")
              /\ Fail("invalid") /\ UNCHANGED parsed
           \/ /\ RequestsFlag(inputs, "pretty") => RequestsFlag(inputs, "json")
              /\ p = None
              /\ Fail("invalid") /\ UNCHANGED parsed
           \/ /\ RequestsFlag(inputs, "pretty") => RequestsFlag(inputs, "json")
              /\ p # None
              /\ parsed' = p
              /\ IF JsonOptionError(p) THEN Fail("invalid")
                 ELSE pc' = "select" /\ UNCHANGED <<outcome, exit, written>>
    /\ UNCHANGED <<given, contexts, search, request>>

-----------------------------------------------------------------------------
(* The resolution context of each specifier.                               *)

Specifiers == IF parsed.command = "compare" THEN parsed.arguments ELSE <<parsed.arguments[1]>>

Specifier == Specifiers[Len(contexts) + 1]

WorkspaceOption ==
    IF parsed.command = "compare" THEN <<"beforeWorkspace", "afterWorkspace">>[Len(contexts) + 1] ELSE "workspace"

\* workspacePackageName.
WorkspacePackageName(specifier) == IF specifier \in Builtins THEN None ELSE PackageOf[specifier]

\* selectBoundedRepositoryWorkspace: a discovery that passes a bound is refused.
RefuseBound == Fail("bound")

Choose(context) ==
    /\ contexts' = Append(contexts, context)
    /\ pc' = IF Len(contexts) + 1 = Len(Specifiers) THEN "invoke" ELSE "select"
    /\ UNCHANGED <<outcome, exit, written>>

\* selectCliWorkspace.
Select ==
    /\ pc = "select"
    /\ \/ /\ Has(WorkspaceOption)
          /\ Choose(Resolve[parsed.options[WorkspaceOption]])
          /\ UNCHANGED search
       \/ /\ ~Has(WorkspaceOption)
          /\ WorkspacePackageName(Specifier) = None
          /\ Choose(cwd)
          /\ UNCHANGED search
       \/ /\ ~Has(WorkspaceOption)
          /\ WorkspacePackageName(Specifier) # None
          /\ pc' = "ascend" /\ at' = cwd /\ depth' = 0
          /\ UNCHANGED <<contexts, layout, pending, operations, found, outcome, exit, written>>
    /\ UNCHANGED <<given, parsed, request>>

\* findWorkspaceLayout.
Ascend ==
    /\ pc = "ascend"
    /\ LET patterns == WorkspacePatterns(repo, at)
       IN  \/ /\ depth = MaxAncestors \/ IsTooLarge(repo, at)
              /\ RefuseBound
              /\ UNCHANGED <<contexts, search>>
           \/ /\ depth < MaxAncestors /\ ~IsTooLarge(repo, at)
              /\ patterns # <<>>
              /\ pc' = "own" /\ layout' = [root |-> at, patterns |-> patterns]
              /\ UNCHANGED <<contexts, at, depth, pending, operations, found, outcome, exit, written>>
           \/ /\ depth < MaxAncestors /\ ~IsTooLarge(repo, at)
              /\ patterns = <<>> /\ at = <<>>
              /\ Choose(cwd)
              /\ UNCHANGED search
           \/ /\ depth < MaxAncestors /\ ~IsTooLarge(repo, at)
              /\ patterns = <<>> /\ at # <<>>
              /\ at' = Front(at) /\ depth' = depth + 1
              /\ UNCHANGED <<pc, contexts, layout, pending, operations, found, outcome, exit, written>>
    /\ UNCHANGED <<given, parsed, request>>

UsesCurrentResolutionContext == layout.root # cwd \/ Declares(repo, cwd, PackageOf[Specifier])

\* selectRepositoryWorkspace, once the root of the repository is known.
KeepOrDiscover ==
    /\ pc = "own"
    /\ \/ /\ UsesCurrentResolutionContext
          /\ Choose(cwd)
          /\ UNCHANGED search
       \/ /\ ~UsesCurrentResolutionContext
          /\ pc' = "discover"
          /\ pending' = {[dir |-> cwd, depth |-> 0]} /\ operations' = 0 /\ found' = {}
          /\ UNCHANGED <<contexts, at, depth, layout, outcome, exit, written>>
    /\ UNCHANGED <<given, parsed, request>>

Include == NormalizedPatterns(layout.patterns, FALSE)
Exclude == NormalizedPatterns(layout.patterns, TRUE)

Relative(dir) == SubSeq(dir, Len(layout.root) + 1, Len(dir))

Children(dir) == {d \in repo.dirs : d # <<>> /\ Front(d) = dir}

Traversable(dir) == {d \in Children(dir) : Last(d) \notin {".git", "node_modules"}}

HasManifest(dir) == dir \in DOMAIN repo.manifests

\* Opening a directory is an operation, and so is every entry that is read.
Operations(dir) ==
    IF dir \in repo.closed THEN 1
    ELSE 1 + Cardinality(Children(dir)) + Cardinality({dir} \cap DOMAIN repo.manifests) + Cardinality({dir} \cap DOMAIN repo.yaml)

\* enforceDiscoveryDepth, consumeDiscoveryOperation.
PassesDiscoveryBound(dirDepth, spent) == dirDepth > MaxDepth \/ spent > MaxOperations

\* recordWorkspaceDirectory.
TooManyWorkspaces(workspaces) == Cardinality(workspaces) > MaxWorkspaces

\* visitWorkspaceDirectory, in whatever order directories are listed.
Visit ==
    /\ pc = "discover"
    /\ \E p \in pending :
          LET children == IF p.dir \in repo.closed THEN {}
                          ELSE {d \in Traversable(p.dir) : CouldContainWorkspace(Relative(d), Include)}
              selected == p.dir \notin repo.closed
                          /\ IsSelected(Relative(p.dir), HasManifest(p.dir), Include, Exclude)
          IN  /\ operations' = operations + Operations(p.dir)
              /\ found' = IF selected THEN found \cup {p.dir} ELSE found
              /\ pending' = (pending \ {p}) \cup {[dir |-> d, depth |-> p.depth + 1] : d \in children}
              /\ IF PassesDiscoveryBound(p.depth, operations') \/ TooManyWorkspaces(found')
                 THEN RefuseBound ELSE UNCHANGED <<pc, outcome, exit, written>>
    /\ UNCHANGED <<given, parsed, contexts, at, depth, layout, request>>

\* findWorkspaceRepository: its consumingWorkspaces.
ConsumingWorkspaces(package) == {d \in found : Declares(repo, d, package)}

\* selectDeclaredWorkspace: several candidates are refused.
SelectDeclared ==
    LET candidates == ConsumingWorkspaces(PackageOf[Specifier])
    IN  /\ pc = "discover" /\ pending = {}
        /\ \/ /\ \E d \in found : repo.manifests[d].large
              /\ RefuseBound /\ UNCHANGED contexts
           \/ /\ \A d \in found : ~repo.manifests[d].large
              /\ Cardinality(candidates) > 1
              /\ Fail("ambiguous") /\ UNCHANGED contexts
           \/ /\ \A d \in found : ~repo.manifests[d].large
              /\ Cardinality(candidates) <= 1
              /\ Choose(IF candidates = {} THEN cwd ELSE CHOOSE d \in candidates : TRUE)
        /\ UNCHANGED <<given, parsed, search, request>>

-----------------------------------------------------------------------------
(* The request and its outcome.                                            *)

\* What the command asks of the core, in the contexts that were selected.
Request ==
    [command |-> parsed.command, specifiers |-> Specifiers, contexts |-> contexts,
     arguments |-> parsed.arguments]

\* invokeCliInspection: an outcome that is too long cannot be written, and an
\* unexpected error is a defect.
Invoke ==
    /\ pc = "invoke" /\ outcome = None
    /\ request' = Request
    /\ outcome' \in {"success", "failure", "too long", "defect"}
    /\ UNCHANGED <<given, pc, parsed, contexts, search, exit, written>>

\* writeCliOutcome.
Write ==
    /\ pc = "invoke" /\ outcome # None
    /\ \/ /\ outcome = "defect" /\ Fail(outcome)
       \/ /\ outcome # "defect" /\ Has("json")
          /\ pc' = "exit" /\ exit' = (IF outcome = "success" THEN 0 ELSE 1)
          /\ written' = {"json outcome on stdout"}
          /\ UNCHANGED outcome
       \/ /\ outcome = "success" /\ ~Has("json")
          /\ pc' = "exit" /\ exit' = 0
          /\ written' = {"text on stdout"}
          /\ UNCHANGED outcome
       \/ /\ outcome \in {"failure", "too long"} /\ ~Has("json")
          /\ Fail(outcome)
    /\ UNCHANGED <<given, parsed, contexts, search, request>>

\* A signal ends the command while it awaits the analysis; nothing is written.
Interrupt ==
    /\ pc = "invoke" /\ outcome = None
    /\ pc' = "exit" /\ exit' = 130 /\ outcome' = "interrupted"
    /\ UNCHANGED <<given, parsed, contexts, search, request, written>>

Next == Start \/ Select \/ Ascend \/ KeepOrDiscover \/ Visit \/ SelectDeclared \/ Invoke \/ Write \/ Interrupt

Spec == Init /\ [][Next]_vars

-----------------------------------------------------------------------------
(* Properties.                                                             *)

\* The directories above the current one with patterns, and the nearest.
Above == {SubSeq(cwd, 1, n) : n \in 0..Len(cwd)}

Roots == {d \in Above : WorkspacePatterns(repo, d) # <<>>}

Root == CHOOSE d \in Roots : \A e \in Roots : Len(e) <= Len(d)

\* Every directory below that can be reached at all, and the workspaces.
Below(root) ==
    {d \in repo.dirs : /\ IsStrictPrefix(root, d)
                       /\ \A n \in (Len(root) + 1)..Len(d) :
                             /\ d[n] \notin {".git", "node_modules"}
                             /\ SubSeq(d, 1, n - 1) \notin repo.closed}

Workspaces(root) ==
    LET patterns(exclude) == NormalizedPatterns(WorkspacePatterns(repo, root), exclude)
        path(d) == SubSeq(d, Len(root) + 1, Len(d))
    IN  {d \in (Below(root) \ repo.closed) \cap DOMAIN repo.manifests :
            MatchesAny(path(d), patterns(FALSE)) /\ ~MatchesAny(path(d), patterns(TRUE))}

Consumers(root, package) == {d \in Workspaces(root) : package \in repo.manifests[d].declares}

\* The current directory stands for the specifier.
Stays(package) ==
    \/ Roots = {} \/ Root # cwd
    \/ Declares(repo, cwd, package)
    \/ Consumers(cwd, package) = {}

\* Some bound of the discovery is passed, even by a traversal without pruning.
PassesABound ==
    \/ Roots = {} /\ Len(cwd) >= MaxAncestors
    \/ Roots # {} /\ Len(cwd) - Len(Root) >= MaxAncestors
    \/ \E d \in Above : (Roots = {} \/ IsPrefix(Root, d)) /\ IsTooLarge(repo, d)
    \/ /\ Roots # {} /\ Root = cwd
       /\ \/ \E d \in Below(cwd) : Len(d) - Len(cwd) > MaxDepth
          \/ \E d \in Workspaces(cwd) : repo.manifests[d].large
          \/ Cardinality(Workspaces(cwd)) > MaxWorkspaces
          \/ MapThenSumSet(Operations, Below(cwd) \cup {cwd}) > MaxOperations

\* Without a workspace option a specifier is resolved in the current directory,
\* or at the root of a repository that does not declare its package in the only
\* workspace that does.  No workspace is lost by what is not traversed, none is
\* chosen among several, and the invocation is refused only for those reasons
\* (findWorkspaceRepository, selectCliWorkspace).
SelectsTheOnlyConsumer ==
    /\ \A k \in DOMAIN contexts :
          LET option  == IF parsed.command = "compare" THEN <<"beforeWorkspace", "afterWorkspace">>[k] ELSE "workspace"
              package == PackageOf[Specifiers[k]]
          IN  IF Has(option) THEN contexts[k] = Resolve[parsed.options[option]]
              ELSE IF Specifiers[k] \in Builtins \/ package = None \/ Stays(package) THEN contexts[k] = cwd
              ELSE Consumers(cwd, package) = {contexts[k]}
    /\ outcome = "ambiguous" => Cardinality(Consumers(cwd, PackageOf[Specifier])) > 1
    /\ outcome = "bound" => PassesABound

\* What the words mean wherever the common options stand: the first argument is
\* the command if it is one.
Meaning(words) ==
    LET arguments == ArgumentsOf(words)
        named     == ArgumentsOf(SubSeq(words, 1, End(words) - 1)) # <<>> /\ Head(arguments) \in InspectionCommands
    IN  IF named THEN Invocation(Head(arguments), words, Tail(arguments))
        ELSE Invocation("overview", words, arguments)

\* Only common options stand before the first argument.
StartsWithCommonOptions(words) ==
    \A i \in OptionsOf(words) :
        words[i].value \notin DOMAIN CommonWidth => ArgumentsOf(SubSeq(words, 1, i - 1)) # <<>>

\* The exit code tells what became of the request that the words mean: 0 that it
\* succeeded and its result was written, 1 that it failed or was too long, 2 that
\* nothing was asked; with --json one JSON text is written to standard output and
\* nothing else, and without it none (createCliRunner, writeCliOutcome).
ExitTellsTheOutcome ==
    pc = "exit" =>
        LET meant == Meaning(inputs)
        IN  /\ exit = 0 <=> outcome = "success"
            /\ exit = 1 <=> outcome \in {"failure", "too long"}
            /\ exit = 2 <=> outcome \in {"invalid", "ambiguous", "bound"}
            /\ exit \in {0, 1} => /\ request.command = meant.command
                                  /\ request.arguments = meant.arguments
            /\ StartsWithCommonOptions(inputs) /\ outcome = "invalid" =>
                  \/ meant = None
                  \/ RequestsFlag(inputs, "pretty") /\ ~RequestsFlag(inputs, "json")
                  \/ {"json", "subpaths"} \subseteq DOMAIN meant.options
            /\ outcome # "interrupted" =>
                  /\ Cardinality(written) = 1
                  /\ RequestsFlag(inputs, "json") <=> written \subseteq {"json outcome on stdout", "json diagnostic on stdout"}
=============================================================================
