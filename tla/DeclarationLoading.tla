------------------------- MODULE DeclarationLoading --------------------------
(***************************************************************************)
(* How the declarations of an installed package become compiler programs.  *)
(*                                                                         *)
(* A loader reads declaration files, scans each for what it references,    *)
(* and goes on until nothing is pending.  A bare import or a type          *)
(* reference may bring in another package, whose root is then allowed; no  *)
(* other source may be read.  One inspection makes up to three programs    *)
(* from one loader: the first, one with the standard library, and one with *)
(* the Node declaration provider.  Texts and scanned dependencies are kept *)
(* from one program to the next, and the compiler's snapshot receives only *)
(* the texts that are new.                                                 *)
(*                                                                         *)
(* Files may meanwhile appear, disappear or become links that lead out of  *)
(* their package.  The order in which pending files are taken is left      *)
(* open: the code takes the last one pushed.                               *)
(***************************************************************************)
EXTENDS Naturals, FiniteSets

CONSTANTS Packages,    \* installed packages
          Root,        \* the package of the declaration authority
          Provider,    \* the Node declaration provider, None if not visible
          Files,       \* declaration files of packages
          Libraries,   \* declaration files of the compiler's distribution
          StandardLibrary,  \* INSPECTION_STANDARD_LIBRARY
          Owner,       \* the package a file belongs to: that of its nearest manifest
          Within,      \* the packages whose root it lies in: nested packages lie in two
          Entry,       \* the declaration entrypoint of each package
          Declares,    \* visible packages whose use a package declares
          Text,        \* what each file references, by kind
          Unstable,    \* files that change on disk
          MaxFiles,    \* declarationSourceFiles
          None

AllFiles == Files \cup Libraries

References == [paths : SUBSET Files, types : SUBSET Packages,
               relative : SUBSET Files, bare : SUBSET Packages,
               libs : SUBSET Libraries]

\* The distribution's files reference only one another.
ASSUME LoadingAssumption ==
    /\ IsFiniteSet(AllFiles) /\ IsFiniteSet(Packages)
    /\ Files \cap Libraries = {}
    /\ None \notin AllFiles \cup Packages
    /\ Root \in Packages
    /\ Provider \in Packages \cup {None}
    /\ StandardLibrary \in Libraries
    /\ Owner \in [Files -> Packages]
    /\ Within \in [Files -> SUBSET Packages] /\ \A f \in Files : Owner[f] \in Within[f]
    /\ Entry \in [Packages -> Files] /\ \A p \in Packages : Owner[Entry[p]] = p
    /\ Declares \in [Packages -> SUBSET Packages]
    /\ Text \in [AllFiles -> References]
    /\ \A l \in Libraries :
          Text[l].paths \cup Text[l].relative = {} /\ Text[l].types \cup Text[l].bare = {}
    /\ Unstable \subseteq Files
    /\ MaxFiles \in Nat

VARIABLES
    disk,          \* where each file leads: nowhere, inside or outside its package
    phase,         \* "choose" a program, "take" a file, "scan" it, or the end
    libraries,     \* this program has the standard library
    roots,         \* the files the program was asked for
    pending,       \* files to take
    scanned,       \* <<libraries, file>> pairs that were taken
    texts,         \* the files read
    pendingTexts,  \* those the snapshot has not received
    dependencies,  \* what a scanned file led to, None before
    allowed,       \* the packages whose source may be read
    granted,       \* the packages allowed by the inspection itself
    scanning,      \* the file being scanned
    todo,          \* its references that are not resolved yet
    found,         \* the files its references led to
    snapshot,      \* the texts in the compiler's snapshot
    programs       \* the programs made, by their roots and library mode

scanVars    == <<scanning, todo, found>>
requestVars == <<libraries, roots>>
sourceVars  == <<texts, pendingTexts, dependencies>>
resultVars  == <<snapshot, programs>>
vars == <<disk, phase, requestVars, pending, scanned, sourceVars, allowed, granted,
          scanVars, resultVars>>

Places == {"absent", "inside", "outside"}

NoReferences == [paths |-> {}, types |-> {}, relative |-> {}, bare |-> {}, libs |-> {}]

Init ==
    /\ disk \in {d \in [AllFiles -> Places] : \A f \in AllFiles \ Unstable : d[f] = "inside"}
    /\ phase = "choose"
    /\ libraries = FALSE
    /\ roots = {}
    /\ pending = {}
    /\ scanned = {}
    /\ texts = {}
    /\ pendingTexts = {}
    /\ dependencies = [f \in AllFiles |-> None]
    /\ allowed = {Root}
    /\ granted = {Root}
    /\ scanning = None
    /\ todo = NoReferences
    /\ found = {}
    /\ snapshot = {}
    /\ programs = {}

-----------------------------------------------------------------------------
(* Programs.                                                               *)

Request(rs, lib) ==
    /\ phase = "choose"
    /\ phase' = "take"
    /\ libraries' = lib
    /\ roots' = rs
    /\ pending' = rs \cup (IF lib THEN {StandardLibrary} ELSE {})
    /\ UNCHANGED <<disk, scanned, sourceVars, scanVars, resultVars>>

InitialProgram ==
    /\ programs = {}
    /\ \E needsStandardLibrary \in BOOLEAN : Request({Entry[Root]}, needsStandardLibrary)
    /\ UNCHANGED <<allowed, granted>>

\* A focused export needs the standard library after all.
LibraryProgram ==
    /\ programs # {} /\ ~libraries /\ granted = {Root}
    /\ Request({Entry[Root]}, TRUE)
    /\ UNCHANGED <<allowed, granted>>

\* The Node provider joins in, once, in the mode of the program before.
ProviderProgram ==
    /\ programs # {} /\ Provider # None /\ granted = {Root}
    /\ Request({Entry[Root], Entry[Provider]}, libraries)
    /\ allowed' = allowed \cup {Provider}
    /\ granted' = granted \cup {Provider}

\* Everything discovered is handed to the compiler: all texts to a new snapshot,
\* the new ones to an existing one.
MakeProgram ==
    /\ phase = "take" /\ pending = {}
    /\ phase' = "choose"
    /\ snapshot' = IF programs = {} THEN texts ELSE snapshot \cup pendingTexts
    /\ pendingTexts' = {}
    /\ programs' = programs \cup {[roots |-> roots, libraries |-> libraries]}
    /\ UNCHANGED <<disk, requestVars, pending, scanned, texts, dependencies, allowed,
                   granted, scanVars>>

-----------------------------------------------------------------------------
(* Taking a pending file.                                                  *)

Key(f) == <<libraries, f>>

\* Libraries are followed only by a program that has the standard library.
Following(d) == d.declarations \cup (IF libraries THEN d.libraries ELSE {})

\* Mutant of TakeScanned: a file scanned for one mode counts for the other.
TakeScannedInAnyMode(f) ==
    /\ phase = "take" /\ f \in pending
    /\ Key(f) \in scanned \/ dependencies[f] # None
    /\ pending' = pending \ {f}
    /\ UNCHANGED <<disk, phase, requestVars, scanned, sourceVars, allowed, granted,
                   scanVars, resultVars>>

TakeScanned(f) ==
    /\ phase = "take" /\ f \in pending
    /\ Key(f) \in scanned
    /\ pending' = pending \ {f}
    /\ UNCHANGED <<disk, phase, requestVars, scanned, sourceVars, allowed, granted,
                   scanVars, resultVars>>

\* Mutant of TakeKnown: the visit is not recorded.
TakeKnownAgain(f) ==
    /\ phase = "take" /\ f \in pending
    /\ Key(f) \notin scanned /\ dependencies[f] # None
    /\ pending' = (pending \ {f}) \cup Following(dependencies[f])
    /\ UNCHANGED <<disk, phase, requestVars, scanned, sourceVars, allowed, granted,
                   scanVars, resultVars>>

\* A file scanned for an earlier program: its dependencies are known.
TakeKnown(f) ==
    /\ phase = "take" /\ f \in pending
    /\ Key(f) \notin scanned /\ dependencies[f] # None
    /\ scanned' = scanned \cup {Key(f)}
    /\ pending' = (pending \ {f}) \cup Following(dependencies[f])
    /\ UNCHANGED <<disk, phase, requestVars, sourceVars, allowed, granted, scanVars,
                   resultVars>>

TakeAbsent(f) ==
    /\ phase = "take" /\ f \in pending
    /\ Key(f) \notin scanned /\ dependencies[f] = None
    /\ disk[f] = "absent"
    /\ scanned' = scanned \cup {Key(f)}
    /\ pending' = pending \ {f}
    /\ UNCHANGED <<disk, phase, requestVars, sourceVars, allowed, granted, scanVars,
                   resultVars>>

\* Some allowed package's root contains the path.
IsAllowed(f) == Within[f] \cap allowed # {}

\* The path and what it leads to lie in an allowed package.
IsAuthorized(f) ==
    f \in Libraries \/ (f \in Files /\ IsAllowed(f) /\ disk[f] = "inside")

\* Mutant of ReadSource: the text is meant for the snapshot, but not kept.
ReadSourceUnkept(f) ==
    /\ phase = "take" /\ f \in pending
    /\ Key(f) \notin scanned /\ dependencies[f] = None
    /\ IsAuthorized(f) /\ Cardinality(texts) < MaxFiles
    /\ scanned' = scanned \cup {Key(f)}
    /\ pending' = pending \ {f}
    /\ pendingTexts' = pendingTexts \cup {f}
    /\ phase' = "scan"
    /\ scanning' = f
    /\ todo' = Text[f]
    /\ found' = {}
    /\ UNCHANGED <<disk, requestVars, dependencies, texts, allowed, granted, resultVars>>

ReadSource(f) ==
    /\ phase = "take" /\ f \in pending
    /\ Key(f) \notin scanned /\ dependencies[f] = None
    /\ IsAuthorized(f) /\ Cardinality(texts) < MaxFiles
    /\ scanned' = scanned \cup {Key(f)}
    /\ pending' = pending \ {f}
    /\ texts' = texts \cup {f}
    /\ pendingTexts' = pendingTexts \cup {f}
    /\ phase' = "scan"
    /\ scanning' = f
    /\ todo' = Text[f]
    /\ found' = {}
    /\ UNCHANGED <<disk, requestVars, dependencies, allowed, granted, resultVars>>

Fail(reason) ==
    /\ phase' = reason
    /\ UNCHANGED <<disk, requestVars, pending, scanned, sourceVars, allowed, granted,
                   scanVars, resultVars>>

\* What was inside its package when it was found is not any more.
ReadOutside(f) ==
    /\ phase = "take" /\ f \in pending
    /\ Key(f) \notin scanned /\ dependencies[f] = None
    /\ disk[f] # "absent" /\ ~IsAuthorized(f)
    /\ Fail("static-boundary")

ReadTooMany(f) ==
    /\ phase = "take" /\ f \in pending
    /\ Key(f) \notin scanned /\ dependencies[f] = None
    /\ IsAuthorized(f) /\ Cardinality(texts) >= MaxFiles
    /\ Fail("limit-exceeded")

\* Bytes, host operations, resolution bytes: budgets this module does not count.
OtherLimit ==
    /\ phase \in {"take", "scan"}
    /\ Fail("limit-exceeded")

-----------------------------------------------------------------------------
(* Scanning it: paths, then type references, then imports.                 *)

Package == Owner[scanning]

\* What the scan resolves next leaves the kind's set, and may lead to a file.
Resolve(kind, reference, leads) ==
    /\ todo' = [todo EXCEPT ![kind] = @ \ {reference}]
    /\ found' = found \cup leads
    /\ UNCHANGED <<disk, phase, requestVars, pending, scanned, sourceVars, granted,
                   scanning, resultVars>>

\* A path may lead into any package whose source is allowed by now.
ScanPath(f) ==
    /\ phase = "scan" /\ f \in todo.paths
    /\ IsAllowed(f) /\ disk[f] # "outside"
    /\ Resolve("paths", f, {f})
    /\ UNCHANGED allowed

ScanPathOutside(f) ==
    /\ phase = "scan" /\ f \in todo.paths
    /\ ~IsAllowed(f) \/ disk[f] = "outside"
    /\ Fail("static-boundary")

PathsScanned == phase = "scan" /\ todo.paths = {}

\* The resolver sees only what lies inside the roots it is given.
Visible(f) == IF disk[f] = "inside" THEN {f} ELSE {}

\* A type reference is followed when its package is allowed already, or when
\* the containing package declares it; the latter allows it.
ScanType(p) ==
    /\ PathsScanned /\ p \in todo.types
    /\ LET declared == p \in Declares[Package]
           leads    == IF declared \/ p \in allowed THEN Visible(Entry[p]) ELSE {}
       IN  /\ Resolve("types", p, leads)
           /\ allowed' = IF leads # {} THEN allowed \cup {p} ELSE allowed

ReferencesScanned == PathsScanned /\ todo.types = {}

\* A relative import stays within an allowed root that contains the file.
StaysWithin(f) == Within[f] \cap Within[scanning] \cap allowed # {}

\* What a specifier without an extension leads to is seen by the resolver only,
\* which takes an escaping link for a missing file.
ScanRelative(f) ==
    /\ ReferencesScanned /\ f \in todo.relative
    /\ StaysWithin(f)
    /\ Resolve("relative", f, Visible(f))
    /\ UNCHANGED allowed

ScanRelativeOutside(f) ==
    /\ ReferencesScanned /\ f \in todo.relative
    /\ ~StaysWithin(f) \/ disk[f] = "outside"
    /\ Fail("static-boundary")

\* Mutant of ScanBare: whatever is installed resolves.
ScanBareInstalled(p) ==
    /\ ReferencesScanned /\ p \in todo.bare
    /\ Resolve("bare", p, Visible(Entry[p]))
    /\ allowed' = IF Visible(Entry[p]) # {} THEN allowed \cup {p} ELSE allowed

\* An import is followed only into a package its own package declares.
ScanBare(p) ==
    /\ ReferencesScanned /\ p \in todo.bare
    /\ LET leads == IF p \in Declares[Package] THEN Visible(Entry[p]) ELSE {}
       IN  /\ Resolve("bare", p, leads)
           /\ allowed' = IF leads # {} THEN allowed \cup {p} ELSE allowed

FinishScan ==
    /\ ReferencesScanned /\ todo.relative = {} /\ todo.bare = {}
    /\ LET d == [declarations |-> found, libraries |-> todo.libs]
       IN  /\ dependencies' = [dependencies EXCEPT ![scanning] = d]
           /\ pending' = pending \cup Following(d)
    /\ phase' = "take"
    /\ scanning' = None
    /\ todo' = NoReferences
    /\ found' = {}
    /\ UNCHANGED <<disk, requestVars, scanned, texts, pendingTexts, allowed, granted,
                   resultVars>>

\* Someone installs, removes or redirects a file.
Edit(f, place) ==
    /\ disk' = [disk EXCEPT ![f] = place]
    /\ UNCHANGED <<phase, requestVars, pending, scanned, sourceVars, allowed, granted,
                   scanVars, resultVars>>

-----------------------------------------------------------------------------
Choose == InitialProgram \/ LibraryProgram \/ ProviderProgram

Take ==
    \E f \in AllFiles :
        \/ TakeScanned(f) \/ TakeKnown(f) \/ TakeAbsent(f)
        \/ ReadSource(f) \/ ReadOutside(f) \/ ReadTooMany(f)

Scan ==
    \/ \E f \in Files : \/ ScanPath(f) \/ ScanPathOutside(f)
                        \/ ScanRelative(f) \/ ScanRelativeOutside(f)
    \/ \E p \in Packages : ScanType(p) \/ ScanBare(p)
    \/ FinishScan

Next ==
    \/ Choose \/ Take \/ Scan \/ MakeProgram \/ OtherLimit
    \/ \E f \in Unstable, place \in Places : Edit(f, place)

Spec == Init /\ [][Next]_vars

-----------------------------------------------------------------------------
(* What holds.                                                             *)

\* The shape of the state.
TypeOK ==
    /\ disk \in [AllFiles -> Places]
    /\ phase \in {"choose", "take", "scan", "static-boundary", "limit-exceeded"}
    /\ libraries \in BOOLEAN
    /\ roots \subseteq AllFiles /\ pending \subseteq AllFiles
    /\ scanned \subseteq BOOLEAN \X AllFiles
    /\ texts \subseteq AllFiles /\ pendingTexts \subseteq texts
    /\ dependencies \in [AllFiles -> [declarations : SUBSET Files,
                                      libraries : SUBSET Libraries] \cup {None}]
    /\ allowed \subseteq Packages /\ granted \subseteq Packages
    /\ scanning \in AllFiles \cup {None}
    /\ todo \in References /\ found \subseteq Files
    /\ snapshot \subseteq texts
    /\ programs \subseteq [roots : SUBSET AllFiles, libraries : BOOLEAN]

\* With a package come those it declares and those installed within its root.
DeclarationClosed(P) ==
    \A p \in P : /\ Declares[p] \subseteq P
                 /\ \A f \in Files : p \in Within[f] => Owner[f] \in P

\* Nothing is read outside the authority of the inspection: every text is the
\* compiler's own or belongs to a package that chains of declared dependencies
\* and of nesting lead to from the packages the inspection was granted, in
\* whatever order references are met and files change.
AuthorityIsDeclared ==
    \A P \in SUBSET Packages :
        granted \subseteq P /\ DeclarationClosed(P) =>
            \A f \in texts \ Libraries : Owner[f] \in P

\* Everything a file led to, in the mode of the program.
LeadsTo(f, lib) ==
    IF dependencies[f] = None THEN {}
    ELSE dependencies[f].declarations
           \cup (IF lib THEN dependencies[f].libraries ELSE {})

\* A program is closed: from its roots, no chain of what the scans found leads
\* to a file that was read and that the compiler's snapshot does not hold,
\* whichever programs before it read, scanned and handed over.
LatestProgramIsClosed ==
    phase = "choose" /\ programs # {} =>
        \E S \in SUBSET AllFiles :
            /\ roots \subseteq S
            /\ libraries => StandardLibrary \in S
            /\ \A f \in S : LeadsTo(f, libraries) \subseteq S
            /\ \A f \in S : Key(f) \in scanned
            /\ S \cap texts \subseteq snapshot

-----------------------------------------------------------------------------
(* Progress.  Loading is one synchronous loop.                             *)

FairSpec == Spec /\ WF_vars(Take \/ Scan \/ MakeProgram)

\* Loading ends on cyclic references too, by what was visited and not by any
\* limit, while files change all the time.
LoadingEnds == phase = "take" ~> phase \notin {"take", "scan"}
=============================================================================
