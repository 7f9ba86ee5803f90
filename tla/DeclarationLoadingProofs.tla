----------------------- MODULE DeclarationLoadingProofs ----------------------
(***************************************************************************)
(* Proofs that loading never reads outside its authority and that every    *)
(* program is closed, for any installation, any references and any limit.  *)
(*                                                                         *)
(* The invariant has two halves.  Authority: whatever is allowed lies in   *)
(* every set of packages that holds the granted ones and is closed under   *)
(* declared dependencies, and what was read is allowed.  Closure: in the   *)
(* mode of the current program, what a taken file led to is taken or       *)
(* pending, and so are the roots; when nothing is pending the taken files  *)
(* are the closed set.  Modes matter because scans are kept: the mode only *)
(* ever changes from without to with the standard library, before which    *)
(* nothing was taken in the latter.                                        *)
(***************************************************************************)
EXTENDS DeclarationLoading, TLAPS

\* Whatever is allowed is granted, or declared on the way from what is granted.
AllowedIsDeclared ==
    \A P \in SUBSET Packages : granted \subseteq P /\ DeclarationClosed(P) => allowed \subseteq P

ReadIsAllowed == \A f \in texts \ Libraries : IsAllowed(f)

ScanningIsRead ==
    phase = "scan" =>
        /\ scanning \in texts
        /\ scanning \in Libraries => /\ todo.paths = {} /\ todo.relative = {}
                                     /\ todo.types = {} /\ todo.bare = {}

AuthorityInv == AllowedIsDeclared /\ ReadIsAllowed /\ ScanningIsRead

\* The files taken in the mode of the current program.
Taken == {f \in AllFiles : Key(f) \in scanned}

Reached == Taken \cup pending

LayersCover == texts = snapshot \cup pendingTexts

Resting == phase = "choose" => pending = {} /\ pendingTexts = {}

Fresh == phase = "choose" /\ programs = {} => scanned = {} /\ ~libraries

LibrariesLater == ~libraries => \A f \in AllFiles : <<TRUE, f>> \notin scanned

TakenLeadsOn == \A f \in Taken : LeadsTo(f, libraries) \subseteq Reached

ScanningIsTaken == phase = "scan" => scanning \in Taken

RootsReached ==
    phase # "choose" \/ programs # {} =>
        roots \subseteq Reached /\ (libraries => StandardLibrary \in Reached)

ClosureInv ==
    /\ LayersCover /\ Resting /\ Fresh /\ LibrariesLater
    /\ TakenLeadsOn /\ ScanningIsTaken /\ RootsReached

Inv == TypeOK /\ AuthorityInv /\ ClosureInv

-----------------------------------------------------------------------------
(* Types.                                                                  *)

LEMMA InitTyped == Init => TypeOK
<1> SUFFICES ASSUME Init PROVE TypeOK
  OBVIOUS
<1>1. disk \in [AllFiles -> Places] /\ dependencies = [f \in AllFiles |-> None]
  BY DEF Init
<1>2. todo \in References
  BY DEF Init, References, NoReferences
<1>3. allowed \subseteq Packages /\ granted \subseteq Packages
  BY LoadingAssumption DEF Init
<1> QED
  BY <1>1, <1>2, <1>3 DEF Init, TypeOK

LEMMA RequestTyped ==
    ASSUME TypeOK, NEW rs \in SUBSET AllFiles, NEW lib \in BOOLEAN, Request(rs, lib)
    PROVE  /\ phase' = "take" /\ libraries' \in BOOLEAN
           /\ roots' \subseteq AllFiles /\ pending' \subseteq AllFiles
  BY LoadingAssumption DEF TypeOK, Request, AllFiles

LEMMA ChooseTyped == TypeOK /\ Choose => TypeOK'
<1> SUFFICES ASSUME TypeOK, Choose PROVE TypeOK'
  OBVIOUS
<1> USE LoadingAssumption
<1>1. {Entry[Root]} \in SUBSET AllFiles
  BY DEF AllFiles
<1>2. CASE InitialProgram
  BY ZenonT(40), <1>1, <1>2, RequestTyped DEF InitialProgram, TypeOK, Request, sourceVars, scanVars, resultVars
<1>3. CASE LibraryProgram
  BY <1>1, <1>3, RequestTyped DEF LibraryProgram, TypeOK, Request, sourceVars, scanVars, resultVars
<1>4. CASE ProviderProgram
  <2>1. Provider \in Packages
    BY <1>4 DEF ProviderProgram
  <2>2. {Entry[Root], Entry[Provider]} \in SUBSET AllFiles
    BY <2>1 DEF AllFiles
  <2>3. libraries \in BOOLEAN
    BY DEF TypeOK
  <2> QED
    BY <1>4, <2>1, <2>2, <2>3, RequestTyped
    DEF ProviderProgram, TypeOK, Request, sourceVars, scanVars, resultVars
<1> QED
  BY <1>2, <1>3, <1>4 DEF Choose

Dependencies == [declarations : SUBSET Files, libraries : SUBSET Libraries]

LEMMA FollowingTyped ==
    ASSUME NEW d \in Dependencies PROVE Following(d) \subseteq AllFiles
  BY DEF Following, Dependencies, AllFiles

LEMMA TakeTyped == TypeOK /\ Take => TypeOK'
<1> SUFFICES ASSUME TypeOK, Take PROVE TypeOK'
  OBVIOUS
<1> USE DEF TypeOK, requestVars, sourceVars, scanVars, resultVars
<1> PICK f \in AllFiles : \/ TakeScanned(f) \/ TakeKnown(f) \/ TakeAbsent(f)
                          \/ ReadSource(f) \/ ReadOutside(f) \/ ReadTooMany(f)
  BY DEF Take
<1>0. Key(f) \in BOOLEAN \X AllFiles
  BY DEF Key
<1>1. CASE TakeScanned(f)
  BY <1>1 DEF TakeScanned
<1>2. CASE TakeKnown(f)
  <2>1. dependencies[f] \in Dependencies
    BY <1>2 DEF TakeKnown, Dependencies
  <2> QED
    BY <1>0, <1>2, <2>1, FollowingTyped DEF TakeKnown
<1>3. CASE TakeAbsent(f)
  BY <1>0, <1>3 DEF TakeAbsent
<1>4. CASE ReadSource(f)
  <2>1. Text[f] \in References
    BY LoadingAssumption
  <2> QED
    BY <1>0, <1>4, <2>1 DEF ReadSource
<1>5. CASE ReadOutside(f) \/ ReadTooMany(f)
  BY <1>5 DEF ReadOutside, ReadTooMany, Fail
<1> QED
  BY <1>1, <1>2, <1>3, <1>4, <1>5

\* What is left to resolve stays a record of references.
LEMMA TodoShrinks ==
    ASSUME todo \in References,
           NEW k \in {"paths", "types", "relative", "bare"}, NEW x
    PROVE  /\ [todo EXCEPT ![k] = @ \ {x}] \in References
           /\ [todo EXCEPT ![k] = @ \ {x}].libs = todo.libs
           /\ \A j \in {"paths", "types", "relative", "bare"} :
                 [todo EXCEPT ![k] = @ \ {x}][j] \subseteq todo[j]
  BY DEF References

LEMMA ResolveTyped ==
    ASSUME TypeOK, NEW k \in {"paths", "types", "relative", "bare"}, NEW x,
           NEW leads \in SUBSET Files, Resolve(k, x, leads), allowed' \subseteq Packages
    PROVE  TypeOK'
  BY TodoShrinks DEF Resolve, TypeOK, requestVars, sourceVars, resultVars

LEMMA ScanTyped == TypeOK /\ Scan => TypeOK'
<1> SUFFICES ASSUME TypeOK, Scan PROVE TypeOK'
  OBVIOUS
<1> USE LoadingAssumption
<1>1. ASSUME NEW p \in Packages PROVE Visible(Entry[p]) \in SUBSET Files
  BY DEF Visible
<1>2. allowed \subseteq Packages
  BY DEF TypeOK
<1>3. ASSUME NEW f \in Files, ScanPath(f) PROVE TypeOK'
  BY <1>2, <1>3, ResolveTyped DEF ScanPath
<1>4. ASSUME NEW f \in Files, ScanPathOutside(f) \/ ScanRelativeOutside(f) PROVE TypeOK'
  BY <1>4 DEF ScanPathOutside, ScanRelativeOutside, Fail, TypeOK, requestVars, sourceVars,
              scanVars, resultVars
<1>5. ASSUME NEW f \in Files, ScanRelative(f) PROVE TypeOK'
  BY <1>2, <1>5, ResolveTyped DEF ScanRelative, Visible
<1>6. ASSUME NEW p \in Packages, ScanType(p) PROVE TypeOK'
  BY <1>1, <1>2, <1>6, ResolveTyped DEF ScanType
<1>7. ASSUME NEW p \in Packages, ScanBare(p) PROVE TypeOK'
  BY <1>1, <1>2, <1>7, ResolveTyped DEF ScanBare
<1>8. CASE FinishScan
  <2>1. [declarations |-> found, libraries |-> todo.libs] \in Dependencies
    BY DEF TypeOK, References, Dependencies
  <2>2. NoReferences \in References
    BY DEF References, NoReferences
  <2> QED
    BY <1>8, <2>1, <2>2, FollowingTyped
    DEF FinishScan, TypeOK, Dependencies, requestVars, resultVars
<1> QED
  BY <1>3, <1>4, <1>5, <1>6, <1>7, <1>8 DEF Scan

LEMMA StepTyped == TypeOK /\ [Next]_vars => TypeOK'
<1> SUFFICES ASSUME TypeOK, [Next]_vars PROVE TypeOK'
  OBVIOUS
<1>1. CASE Choose
  BY <1>1, ChooseTyped
<1>2. CASE Take
  BY <1>2, TakeTyped
<1>3. CASE Scan
  BY <1>3, ScanTyped
<1>4. CASE MakeProgram
  BY <1>4 DEF MakeProgram, TypeOK, requestVars, scanVars
<1>5. CASE OtherLimit
  BY <1>5 DEF OtherLimit, Fail, TypeOK, requestVars, sourceVars, scanVars, resultVars
<1>6. ASSUME NEW f \in Unstable, NEW place \in Places, Edit(f, place) PROVE TypeOK'
  BY <1>6, LoadingAssumption
  DEF Edit, TypeOK, requestVars, sourceVars, scanVars, resultVars, AllFiles
<1>7. CASE UNCHANGED vars
  BY <1>7 DEF vars, TypeOK, requestVars, sourceVars, scanVars, resultVars
<1> QED
  BY <1>1, <1>2, <1>3, <1>4, <1>5, <1>6, <1>7 DEF Next

-----------------------------------------------------------------------------
(* Authority.                                                              *)

\* Only ProviderProgram grants, and it allows what it grants.
LEMMA AllowedKept ==
    ASSUME AllowedIsDeclared, granted' = granted, allowed' = allowed
    PROVE  AllowedIsDeclared'
  BY DEF AllowedIsDeclared, DeclarationClosed

\* A package may be allowed that the owner of an allowed file declares.
LEMMA DeclaredAllowed ==
    ASSUME AllowedIsDeclared, NEW f \in Files, IsAllowed(f), NEW p \in Declares[Owner[f]],
           granted' = granted, allowed' \subseteq allowed \cup {p}
    PROVE  AllowedIsDeclared'
<1> SUFFICES ASSUME NEW P \in SUBSET Packages, granted \subseteq P, DeclarationClosed(P)
             PROVE  allowed' \subseteq P
  BY DEF AllowedIsDeclared, DeclarationClosed
<1>1. PICK q \in allowed : q \in Within[f]
  BY DEF IsAllowed
<1>2. q \in P
  BY <1>1 DEF AllowedIsDeclared
<1>3. Owner[f] \in P
  BY <1>1, <1>2 DEF DeclarationClosed
<1>4. p \in P
  BY <1>3 DEF DeclarationClosed
<1> QED
  BY <1>4 DEF AllowedIsDeclared

LEMMA ChooseAuthority == TypeOK /\ AuthorityInv /\ Choose => AuthorityInv'
<1> SUFFICES ASSUME TypeOK, AuthorityInv, Choose PROVE AuthorityInv'
  OBVIOUS
<1>1. /\ texts' = texts /\ phase' = "take" /\ allowed \subseteq allowed'
  BY DEF Choose, InitialProgram, LibraryProgram, ProviderProgram, Request, sourceVars
<1>2. ReadIsAllowed' /\ ScanningIsRead'
  BY <1>1 DEF AuthorityInv, ReadIsAllowed, IsAllowed, ScanningIsRead
<1>3. CASE InitialProgram \/ LibraryProgram
  BY <1>2, <1>3, AllowedKept DEF AuthorityInv, InitialProgram, LibraryProgram
<1>4. CASE ProviderProgram
  BY <1>2, <1>4 DEF AuthorityInv, ProviderProgram, AllowedIsDeclared, DeclarationClosed
<1> QED
  BY <1>3, <1>4 DEF Choose

LEMMA TakeAuthority == TypeOK /\ AuthorityInv /\ Take => AuthorityInv'
<1> SUFFICES ASSUME TypeOK, AuthorityInv, Take PROVE AuthorityInv'
  OBVIOUS
<1> USE DEF AuthorityInv, requestVars, sourceVars, scanVars, resultVars
<1> PICK f \in AllFiles : \/ TakeScanned(f) \/ TakeKnown(f) \/ TakeAbsent(f)
                          \/ ReadSource(f) \/ ReadOutside(f) \/ ReadTooMany(f)
  BY DEF Take
<1>1. granted' = granted /\ allowed' = allowed
  BY DEF TakeScanned, TakeKnown, TakeAbsent, ReadSource, ReadOutside, ReadTooMany, Fail
<1>2. AllowedIsDeclared'
  BY <1>1, AllowedKept
<1>3. CASE ReadSource(f)
  <2>1. f \in Libraries \/ IsAllowed(f)
    BY <1>3 DEF ReadSource, IsAuthorized
  <2>2. texts' = texts \cup {f} /\ scanning' = f /\ todo' = Text[f]
    BY <1>3 DEF ReadSource
  <2>3. ReadIsAllowed'
    BY <1>1, <2>1, <2>2 DEF ReadIsAllowed, IsAllowed
  <2>4. ScanningIsRead'
    BY <2>2, LoadingAssumption DEF ScanningIsRead
  <2> QED
    BY <1>2, <2>3, <2>4
<1>4. CASE ~ReadSource(f)
  <2>1. texts' = texts /\ phase' # "scan"
    BY <1>4 DEF TakeScanned, TakeKnown, TakeAbsent, ReadOutside, ReadTooMany, Fail
  <2> QED
    BY <1>1, <1>2, <2>1 DEF ReadIsAllowed, IsAllowed, ScanningIsRead
<1> QED
  BY <1>3, <1>4

\* The file being scanned lies within an allowed package as soon as it names one.
LEMMA ScannerAllowed ==
    ASSUME TypeOK, AuthorityInv, phase = "scan", todo.types \cup todo.bare # {}
    PROVE  scanning \in Files /\ IsAllowed(scanning)
  BY DEF TypeOK, AuthorityInv, ReadIsAllowed, ScanningIsRead, AllFiles

LEMMA ScanAuthority == TypeOK /\ AuthorityInv /\ Scan => AuthorityInv'
<1> SUFFICES ASSUME TypeOK, AuthorityInv, Scan PROVE AuthorityInv'
  OBVIOUS
<1> USE DEF requestVars, sourceVars, scanVars, resultVars
<1>1. granted' = granted /\ texts' = texts /\ allowed \subseteq allowed'
  BY DEF Scan, ScanPath, ScanPathOutside, ScanRelative, ScanRelativeOutside, ScanType,
         ScanBare, FinishScan, Resolve, Fail
<1>2. ReadIsAllowed'
  BY <1>1 DEF AuthorityInv, ReadIsAllowed, IsAllowed
<1>3. phase' = "scan" => phase = "scan" /\ scanning' = scanning
  BY DEF Scan, ScanPath, ScanPathOutside, ScanRelative, ScanRelativeOutside, ScanType,
         ScanBare, FinishScan, Resolve, Fail
<1>4. todo \in References
  BY DEF TypeOK
<1>5. ASSUME phase' = "scan"
      PROVE  \A j \in {"paths", "types", "relative", "bare"} : todo'[j] \subseteq todo[j]
  <2>1. PICK k \in {"paths", "types", "relative", "bare"} :
             \E x : todo' = [todo EXCEPT ![k] = @ \ {x}]
    BY <1>5 DEF Scan, ScanPath, ScanPathOutside, ScanRelative, ScanRelativeOutside, ScanType,
                ScanBare, FinishScan, Resolve, Fail
  <2> QED
    BY <1>4, <2>1, TodoShrinks
<1>6. ScanningIsRead'
  BY <1>1, <1>3, <1>5 DEF AuthorityInv, ScanningIsRead
<1>7. AllowedIsDeclared'
  <2>1. CASE \E p \in Packages : ScanType(p)
    <3>1. PICK p \in Packages : ScanType(p)
      BY <2>1
    <3>2. scanning \in Files /\ IsAllowed(scanning)
      BY <3>1, ScannerAllowed DEF ScanType, PathsScanned
    <3>3. CASE p \in Declares[Package]
      BY <1>1, <3>1, <3>2, <3>3, DeclaredAllowed DEF AuthorityInv, ScanType, Package
    <3>4. CASE p \notin Declares[Package]
      BY <1>1, <3>1, <3>4, AllowedKept DEF AuthorityInv, ScanType
    <3> QED
      BY <3>3, <3>4
  <2>2. CASE \E p \in Packages : ScanBare(p)
    <3>1. PICK p \in Packages : ScanBare(p)
      BY <2>2
    <3>2. scanning \in Files /\ IsAllowed(scanning)
      BY <3>1, ScannerAllowed DEF ScanBare, ReferencesScanned, PathsScanned
    <3>3. CASE p \in Declares[Package]
      BY <1>1, <3>1, <3>2, <3>3, DeclaredAllowed DEF AuthorityInv, ScanBare, Package
    <3>4. CASE p \notin Declares[Package]
      BY <1>1, <3>1, <3>4, AllowedKept DEF AuthorityInv, ScanBare
    <3> QED
      BY <3>3, <3>4
  <2>3. CASE ~ \E p \in Packages : ScanType(p) \/ ScanBare(p)
    <3>1. allowed' = allowed
      BY <2>3 DEF Scan, ScanPath, ScanPathOutside, ScanRelative, ScanRelativeOutside,
                  FinishScan, Fail
    <3> QED
      BY <1>1, <3>1, AllowedKept DEF AuthorityInv
  <2> QED
    BY <2>1, <2>2, <2>3
<1> QED
  BY <1>2, <1>6, <1>7 DEF AuthorityInv

LEMMA StepAuthority == TypeOK /\ AuthorityInv /\ [Next]_vars => AuthorityInv'
<1> SUFFICES ASSUME TypeOK, AuthorityInv, [Next]_vars PROVE AuthorityInv'
  OBVIOUS
<1>1. CASE Choose
  BY <1>1, ChooseAuthority
<1>2. CASE Take
  BY <1>2, TakeAuthority
<1>3. CASE Scan
  BY <1>3, ScanAuthority
<1>4. CASE MakeProgram \/ OtherLimit \/ (\E f \in Unstable, place \in Places : Edit(f, place))
           \/ UNCHANGED vars
  <2>1. /\ granted' = granted /\ allowed' = allowed /\ texts' = texts
        /\ phase' = "scan" => phase = "scan" /\ scanning' = scanning /\ todo' = todo
    BY <1>4 DEF MakeProgram, OtherLimit, Fail, Edit, vars, requestVars, sourceVars, scanVars,
                resultVars
  <2>2. AllowedIsDeclared'
    BY <2>1, AllowedKept DEF AuthorityInv
  <2> QED
    BY <2>1, <2>2 DEF AuthorityInv, ReadIsAllowed, IsAllowed, ScanningIsRead
<1> QED
  BY <1>1, <1>2, <1>3, <1>4 DEF Next

-----------------------------------------------------------------------------
(* Closure.                                                                *)

\* What an unfinished, failed or kept state leaves alone.
SameSearch ==
    /\ libraries' = libraries /\ roots' = roots /\ pending' = pending
    /\ scanned' = scanned /\ texts' = texts /\ pendingTexts' = pendingTexts
    /\ dependencies' = dependencies /\ snapshot' = snapshot /\ programs' = programs

LEMMA SearchKept ==
    ASSUME ClosureInv, SameSearch, scanning' = scanning,
           phase' = phase \/ (phase' \notin {"choose", "scan"} /\ phase # "choose")
    PROVE  ClosureInv'
  BY DEF ClosureInv, SameSearch, LayersCover, Resting, Fresh, LibrariesLater, TakenLeadsOn,
         ScanningIsTaken, RootsReached, Reached, Taken, LeadsTo, Key

\* A new search begins where the last one of its mode ended, or from nothing.
LEMMA ChooseClosure == TypeOK /\ ClosureInv /\ Choose => ClosureInv'
<1> SUFFICES ASSUME TypeOK, ClosureInv, Choose PROVE ClosureInv'
  OBVIOUS
<1>1. PICK rs \in SUBSET AllFiles, lib \in BOOLEAN :
          /\ Request(rs, lib)
          /\ libraries => lib
          /\ programs = {} \/ lib = libraries \/ ~libraries
  <2>1. {Entry[Root]} \in SUBSET AllFiles
    BY LoadingAssumption DEF AllFiles
  <2>2. CASE InitialProgram
    BY <2>1, <2>2 DEF InitialProgram, Request, ClosureInv, Fresh
  <2>3. CASE LibraryProgram
    BY <2>1, <2>3 DEF LibraryProgram
  <2>4. CASE ProviderProgram
    <3>1. {Entry[Root], Entry[Provider]} \in SUBSET AllFiles /\ libraries \in BOOLEAN
      BY <2>4, LoadingAssumption DEF ProviderProgram, AllFiles, TypeOK
    <3> QED
      BY <2>4, <3>1 DEF ProviderProgram
  <2> QED
    BY <2>2, <2>3, <2>4 DEF Choose
<1> USE DEF Request, sourceVars, scanVars, resultVars
<1>2. /\ phase = "choose" /\ phase' = "take" /\ libraries' = lib /\ roots' = rs
      /\ pending' = rs \cup (IF lib THEN {StandardLibrary} ELSE {})
      /\ scanned' = scanned /\ dependencies' = dependencies
  BY <1>1
<1>3. LayersCover' /\ Resting' /\ Fresh' /\ ScanningIsTaken'
  BY <1>1 DEF ClosureInv, LayersCover, Resting, Fresh, ScanningIsTaken
<1>4. LibrariesLater'
  <2>1. libraries => lib
    BY <1>1
  <2>2. ~libraries' => ~libraries
    BY <1>2, <2>1
  <2> QED
    BY <1>2, <2>2 DEF ClosureInv, LibrariesLater
<1>5. RootsReached'
  BY <1>2 DEF RootsReached, Reached
<1>6. TakenLeadsOn'
  <2>1. CASE lib = libraries
    BY <1>2, <2>1 DEF ClosureInv, Resting, TakenLeadsOn, Reached, Taken, LeadsTo, Key
  <2>2. CASE lib # libraries
    <3>1. lib = TRUE /\ ~libraries
      BY <1>1, <2>2 DEF TypeOK
    <3>2. Taken' = {}
      BY <1>2, <3>1 DEF ClosureInv, LibrariesLater, Taken, Key
    <3> QED
      BY <3>2 DEF TakenLeadsOn
  <2> QED
    BY <2>1, <2>2
<1> QED
  BY <1>3, <1>4, <1>5, <1>6 DEF ClosureInv

LEMMA TakeClosure == TypeOK /\ ClosureInv /\ Take => ClosureInv'
<1> SUFFICES ASSUME TypeOK, ClosureInv, Take PROVE ClosureInv'
  OBVIOUS
<1> USE DEF requestVars, sourceVars, scanVars, resultVars
<1> PICK f \in AllFiles : \/ TakeScanned(f) \/ TakeKnown(f) \/ TakeAbsent(f)
                          \/ ReadSource(f) \/ ReadOutside(f) \/ ReadTooMany(f)
  BY DEF Take
<1>1. CASE ReadOutside(f) \/ ReadTooMany(f)
  BY <1>1, SearchKept DEF ReadOutside, ReadTooMany, Fail, SameSearch
<1>2. CASE TakeScanned(f) \/ TakeKnown(f) \/ TakeAbsent(f) \/ ReadSource(f)
  <2>1. /\ phase = "take" /\ phase' \in {"take", "scan"}
        /\ libraries' = libraries /\ roots' = roots /\ dependencies' = dependencies
        /\ scanned' = scanned \cup {Key(f)}
        /\ snapshot' = snapshot /\ programs' = programs
    BY <1>2 DEF TakeScanned, TakeKnown, TakeAbsent, ReadSource
  <2>2. Taken' = Taken \cup {f}
    BY <2>1 DEF Taken, Key
  <2>3. pending \ {f} \subseteq pending'
    BY <1>2 DEF TakeScanned, TakeKnown, TakeAbsent, ReadSource
  <2>4. Reached \subseteq Reached'
    BY <2>2, <2>3 DEF Reached
  <2>5. LeadsTo(f, libraries) \subseteq Reached'
    <3>1. CASE TakeScanned(f)
      BY <2>4, <3>1 DEF TakeScanned, ClosureInv, TakenLeadsOn, Taken
    <3>2. CASE TakeKnown(f)
      BY <3>2 DEF TakeKnown, Following, LeadsTo, Reached
    <3>3. CASE TakeAbsent(f) \/ ReadSource(f)
      BY <3>3 DEF TakeAbsent, ReadSource, LeadsTo
    <3> QED
      BY <1>2, <3>1, <3>2, <3>3
  <2>6. TakenLeadsOn'
    BY <2>1, <2>2, <2>4, <2>5 DEF ClosureInv, TakenLeadsOn, LeadsTo
  <2>7. RootsReached'
    BY <2>1, <2>4 DEF ClosureInv, RootsReached
  <2>8. LayersCover'
    BY <1>2 DEF ClosureInv, LayersCover, TakeScanned, TakeKnown, TakeAbsent, ReadSource
  <2>9. ScanningIsTaken'
    <3>1. CASE ReadSource(f)
      BY <2>2, <3>1 DEF ReadSource, ScanningIsTaken
    <3>2. CASE ~ReadSource(f)
      BY <1>2, <2>1, <3>2 DEF TakeScanned, TakeKnown, TakeAbsent, ScanningIsTaken
    <3> QED
      BY <3>1, <3>2
  <2>10. LibrariesLater'
    BY <2>1 DEF ClosureInv, LibrariesLater, Key
  <2> QED
    BY <2>1, <2>6, <2>7, <2>8, <2>9, <2>10 DEF ClosureInv, Resting, Fresh
<1> QED
  BY <1>1, <1>2

LEMMA ScanClosure == TypeOK /\ ClosureInv /\ Scan => ClosureInv'
<1> SUFFICES ASSUME TypeOK, ClosureInv, Scan PROVE ClosureInv'
  OBVIOUS
<1> USE DEF requestVars, sourceVars, scanVars, resultVars
<1>1. CASE ~FinishScan
  <2>1. /\ SameSearch /\ scanning' = scanning
        /\ phase = "scan" /\ phase' \in {"scan", "static-boundary"}
    BY <1>1 DEF Scan, ScanPath, ScanPathOutside, ScanRelative, ScanRelativeOutside, ScanType,
                ScanBare, Resolve, Fail, SameSearch, PathsScanned, ReferencesScanned
  <2> QED
    BY <2>1, SearchKept
<1>2. CASE FinishScan
  <2> DEFINE d == [declarations |-> found, libraries |-> todo.libs]
  <2>1. /\ phase = "scan" /\ phase' = "take" /\ libraries' = libraries /\ roots' = roots
        /\ scanned' = scanned /\ texts' = texts /\ pendingTexts' = pendingTexts
        /\ snapshot' = snapshot /\ programs' = programs
        /\ pending' = pending \cup Following(d)
        /\ dependencies' = [dependencies EXCEPT ![scanning] = d]
    BY <1>2 DEF FinishScan, ReferencesScanned, PathsScanned
  <2>2. scanning \in Taken
    BY <2>1 DEF ClosureInv, ScanningIsTaken
  <2>3. dependencies' = [f \in AllFiles |-> IF f = scanning THEN d ELSE dependencies[f]]
    BY <2>1 DEF TypeOK
  <2>4. Taken' = Taken
    BY <2>1 DEF Taken, Key
  <2>5. Reached' = Reached \cup Following(d)
    BY <2>1, <2>4 DEF Reached
  <2>6. ASSUME NEW f \in Taken PROVE LeadsTo(f, libraries)' \subseteq Reached'
    <3>0. f \in AllFiles
      BY DEF Taken
    <3>1. CASE f = scanning
      <4>1. LeadsTo(f, libraries)' \subseteq Following(d)
        BY <2>1, <2>3, <3>0, <3>1 DEF LeadsTo, Following
      <4> QED
        BY <2>5, <4>1
    <3>2. CASE f # scanning
      BY <2>1, <2>3, <2>5, <3>0, <3>2 DEF ClosureInv, TakenLeadsOn, LeadsTo
    <3> QED
      BY <3>1, <3>2
  <2>7. TakenLeadsOn'
    BY <2>1, <2>4, <2>6 DEF TakenLeadsOn, LeadsTo
  <2> QED
    BY <2>1, <2>5, <2>7 DEF ClosureInv, LayersCover, Resting, Fresh, LibrariesLater,
                            ScanningIsTaken, RootsReached
<1> QED
  BY <1>1, <1>2

LEMMA StepClosure == TypeOK /\ ClosureInv /\ [Next]_vars => ClosureInv'
<1> SUFFICES ASSUME TypeOK, ClosureInv, [Next]_vars PROVE ClosureInv'
  OBVIOUS
<1> USE DEF requestVars, sourceVars, scanVars, resultVars
<1>1. CASE Choose
  BY <1>1, ChooseClosure
<1>2. CASE Take
  BY <1>2, TakeClosure
<1>3. CASE Scan
  BY <1>3, ScanClosure
<1>4. CASE MakeProgram
  <2>1. programs' # {}
    BY <1>4 DEF MakeProgram
  <2>2. snapshot' = texts
    BY <1>4 DEF MakeProgram, ClosureInv, LayersCover
  <2> QED
    BY ZenonT(40), <1>4, <2>1, <2>2
    DEF MakeProgram, ClosureInv, LayersCover, Resting, Fresh, LibrariesLater, TakenLeadsOn,
        ScanningIsTaken, RootsReached, Reached, Taken, LeadsTo, Key
<1>5. CASE OtherLimit
  BY <1>5, SearchKept DEF OtherLimit, Fail, SameSearch
<1>6. CASE (\E f \in Unstable, place \in Places : Edit(f, place)) \/ UNCHANGED vars
  BY <1>6, SearchKept DEF Edit, vars, SameSearch
<1> QED
  BY <1>1, <1>2, <1>3, <1>4, <1>5, <1>6 DEF Next

-----------------------------------------------------------------------------
LEMMA InitInv == Init => Inv
<1> SUFFICES ASSUME Init PROVE Inv
  OBVIOUS
<1>1. TypeOK
  BY InitTyped
<1>2. AuthorityInv
  BY DEF Init, AuthorityInv, AllowedIsDeclared, ReadIsAllowed, ScanningIsRead
<1>3. ClosureInv
  BY DEF Init, ClosureInv, LayersCover, Resting, Fresh, LibrariesLater, TakenLeadsOn,
         ScanningIsTaken, RootsReached, Taken, Reached, LeadsTo
<1> QED
  BY <1>1, <1>2, <1>3 DEF Inv

LEMMA StepInv == Inv /\ [Next]_vars => Inv'
  BY StepTyped, StepAuthority, StepClosure DEF Inv

THEOREM Invariant == Spec => []Inv
  BY InitInv, StepInv, PTL DEF Spec

\* For any installation and any references, loading keeps its types.
THEOREM TypeCorrect == Spec => []TypeOK
  BY Invariant, PTL DEF Inv

\* Whatever files refer to, in whatever order they are met and however they
\* change meanwhile, nothing is read that no chain of declared dependencies
\* and of nesting leads to from what the inspection was granted.
THEOREM Authority == Spec => []AuthorityIsDeclared
<1>1. Inv => AuthorityIsDeclared
  <2> SUFFICES ASSUME Inv, NEW P \in SUBSET Packages, granted \subseteq P,
                      DeclarationClosed(P), NEW f \in texts \ Libraries
               PROVE  Owner[f] \in P
    BY DEF AuthorityIsDeclared
  <2>1. f \in Files /\ IsAllowed(f)
    BY DEF Inv, TypeOK, AllFiles, AuthorityInv, ReadIsAllowed
  <2>2. PICK q \in allowed : q \in Within[f]
    BY <2>1 DEF IsAllowed
  <2>3. q \in P
    BY <2>2 DEF Inv, AuthorityInv, AllowedIsDeclared
  <2> QED
    BY <2>1, <2>2, <2>3 DEF DeclarationClosed
<1> QED
  BY <1>1, Invariant, PTL

\* For any sequence of programs, modes and references, a program that was made
\* holds every file its roots lead to, of those that could be read.
THEOREM Closed == Spec => []LatestProgramIsClosed
<1>1. Inv => LatestProgramIsClosed
  <2> SUFFICES ASSUME Inv, phase = "choose", programs # {}
               PROVE  \E S \in SUBSET AllFiles :
                          /\ roots \subseteq S
                          /\ libraries => StandardLibrary \in S
                          /\ \A f \in S : LeadsTo(f, libraries) \subseteq S
                          /\ \A f \in S : Key(f) \in scanned
                          /\ S \cap texts \subseteq snapshot
    BY DEF LatestProgramIsClosed
  <2>1. Reached = Taken
    BY DEF Inv, ClosureInv, Resting, Reached
  <2>2. texts = snapshot
    BY DEF Inv, ClosureInv, LayersCover, Resting
  <2>3. Taken \in SUBSET AllFiles
    BY DEF Taken
  <2>4. roots \subseteq Taken /\ (libraries => StandardLibrary \in Taken)
    BY <2>1 DEF Inv, ClosureInv, RootsReached
  <2>5. \A f \in Taken : LeadsTo(f, libraries) \subseteq Taken
    BY <2>1 DEF Inv, ClosureInv, TakenLeadsOn
  <2>6. \A f \in Taken : Key(f) \in scanned
    BY DEF Taken
  <2> QED
    BY <2>2, <2>3, <2>4, <2>5, <2>6
<1> QED
  BY <1>1, Invariant, PTL
=============================================================================
