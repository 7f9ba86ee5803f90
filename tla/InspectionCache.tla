--------------------------- MODULE InspectionCache ---------------------------
(***************************************************************************)
(* The persistent inspection cache as several inspections use it at once.  *)
(*                                                                         *)
(* An inspection is a parent (the CLI process) and a worker.  The worker   *)
(* selects the module, looks the request up in the cache, replays the      *)
(* proof of the entry it finds against the installation, and otherwise     *)
(* analyzes, recording what it reads.  The parent validates the worker's   *)
(* answer, retries once without the cache when a hit fails validation, and *)
(* publishes the entry through a lock file, an integrity key and a rename. *)
(* Inspections run in separate processes, so every file-system call is a   *)
(* step of its own; the installation changes between any two steps.        *)
(***************************************************************************)
EXTENDS InspectionOutcomes, Naturals, FiniteSets

CONSTANTS MaxDirectoryEntries,  \* MAX_CACHE_DIRECTORY_ENTRIES
          MaxWipes,             \* how often the directory may be deleted
          Crashes,              \* whether a parent may be killed
          StorageFaults         \* whether writes fail and files are damaged

ASSUME CacheAssumption ==
    /\ MaxDirectoryEntries \in Nat /\ MaxDirectoryEntries >= 3
    /\ MaxWipes \in Nat
    /\ Crashes \in BOOLEAN /\ StorageFaults \in BOOLEAN
    /\ IsFiniteSet(Inspections) /\ IsFiniteSet(Requests)
    /\ None \notin Inspections

VARIABLES
    evidence,    \* the installation: the version of every item
    asked,       \* the request of each inspection
    seen,        \* history: versions each item had while the inspection ran
    pc,          \* where the parent or its worker is
    bypass,      \* the worker was started with TYPEPEEK_CACHE_BYPASS=1
    view,        \* what the worker read last, the input of its analysis
    recorder,    \* the first fingerprint the recorder took of each item
    cacheable,   \* the recorder has met no contradiction and no limit
    candidate,   \* the entry the worker read from the cache
    replayed,    \* the items of the candidate's proof found unchanged
    reply,       \* the worker's answer: an outcome and a cache message
    sealKey,     \* the integrity key the parent holds while it publishes
    dir,         \* the cache directory
    lock,        \* who created the .write-lock file, None if there is none
    keyFile,     \* the .integrity-key file
    entries,     \* the entry file of each identity, None if there is none
    tmps,        \* inspections whose temporary file is in the directory
    keysMade,    \* integrity keys generated so far, so that each is fresh
    wipes        \* how often the directory was deleted

workerVars  == <<view, recorder, cacheable, candidate, replayed>>
runVars     == <<asked, seen, pc, bypass, reply, sealKey>>
storageVars == <<dir, lock, keyFile, entries, tmps, keysMade>>
vars == <<evidence, runVars, workerVars, storageVars, wipes>>

Selections == {Selection[m] : m \in [Manifests -> Versions]} \ {None}
Identities == [request : Requests, selection : Selections]
Readings   == [Items -> Versions \cup {None}]
Entries    == [sealedBy : Nat, identity : Identities, outcome : Outcomes,
               proof : Readings]

NoMessage            == [kind |-> "none"]
HitNotice            == [kind |-> "inspection-cache-hit"]
WriteReceipt(i, p)   == [kind |-> "inspection-cache-write", identity |-> i, proof |-> p]
Messages == {NoMessage, HitNotice}
              \cup {WriteReceipt(i, p) : i \in Identities, p \in Readings}

Unread    == [f \in Items |-> None]
NoKeyFile == [state |-> "absent", id |-> 0]
NoReply   == [outcome |-> None, message |-> NoMessage]
Nothing   == [f \in Items |-> {}]

SelectPhase  == {"select", "lookup", "authenticate", "replay", "analyze"}
WorkerPhase  == SelectPhase \cup {"reply"}
PublishPhase == {"capacity", "key", "keywrite", "keyread", "temporary",
                 "rename", "unlock"}

ASSUME IdentityAssumption == None \notin Identities \cup Entries

-----------------------------------------------------------------------------
(* The worker's and the parent's checks.                                   *)

IdentityOf(r) ==
    [request |-> asked[r], selection |-> Selection[ManifestView(recorder[r])]]

\* A success whose package identity is the one the cache identity names.
OutcomeMatchesIdentity(o, i) ==
    /\ o.status = "success"
    /\ o.request = i.request
    /\ Selection[ManifestView(o.view)] = i.selection

\* The manifests read by this selection are fingerprinted alike in the proof.
CurrentManifestsMatch(proof, r) ==
    \A m \in Manifests : recorder[r][m] # None => proof[m] = recorder[r][m]

\* HMAC over the payload, then identity and outcome, before any replay.
AcceptsCandidate(e, r) ==
    /\ keyFile.state = "whole" /\ e.sealedBy = keyFile.id
    /\ e.identity = IdentityOf(r)
    /\ OutcomeMatchesIdentity(e.outcome, e.identity)
    /\ CurrentManifestsMatch(e.proof, r)

\* What the parent demands of a worker's answer before it writes an entry.
AcceptsReceipt(r) ==
    LET message == reply[r].message
    IN  /\ reply[r].outcome.status = "success"
        /\ message.kind = "inspection-cache-write"
        /\ message.identity.request = asked[r]
        /\ OutcomeMatchesIdentity(reply[r].outcome, message.identity)

\* Everything in the directory counts: entries, lock, key, temporary files.
DirectoryEntries ==
    Cardinality({i \in Identities : entries[i] # None}) + Cardinality(tmps)
      + (IF lock # None THEN 1 ELSE 0)
      + (IF keyFile.state # "absent" THEN 1 ELSE 0)

-----------------------------------------------------------------------------
Init ==
    /\ evidence \in Views
    /\ asked = [r \in Inspections |-> None]
    /\ seen = [r \in Inspections |-> Nothing]
    /\ pc = [r \in Inspections |-> "idle"]
    /\ bypass = [r \in Inspections |-> FALSE]
    /\ view = [r \in Inspections |-> Unread]
    /\ recorder = [r \in Inspections |-> Unread]
    /\ cacheable = [r \in Inspections |-> TRUE]
    /\ candidate = [r \in Inspections |-> None]
    /\ replayed = [r \in Inspections |-> {}]
    /\ reply = [r \in Inspections |-> NoReply]
    /\ sealKey = [r \in Inspections |-> 0]
    /\ dir \in {"absent", "foreign"}
    /\ lock = None
    /\ keyFile = NoKeyFile
    /\ entries = [i \in Identities |-> None]
    /\ tmps = {}
    /\ keysMade = 0
    /\ wipes = 0

GoTo(r, phase) == pc' = [pc EXCEPT ![r] = phase]

\* A worker starts with a recorder of its own and nothing read.
FreshWorker(r) ==
    /\ view' = [view EXCEPT ![r] = Unread]
    /\ recorder' = [recorder EXCEPT ![r] = Unread]
    /\ cacheable' = [cacheable EXCEPT ![r] = TRUE]
    /\ candidate' = [candidate EXCEPT ![r] = None]
    /\ replayed' = [replayed EXCEPT ![r] = {}]

Begin(r, q) ==
    /\ pc[r] = "idle"
    /\ asked' = [asked EXCEPT ![r] = q]
    /\ seen' = [seen EXCEPT ![r] = [f \in Items |-> {evidence[f]}]]
    /\ GoTo(r, "select")
    /\ UNCHANGED <<evidence, bypass, reply, sealKey, workerVars, storageVars, wipes>>

\* The parent hands its caller the outcome and forgets the worker.
Conclude(r, o) ==
    /\ GoTo(r, "done")
    /\ reply' = [reply EXCEPT ![r] = [outcome |-> o, message |-> NoMessage]]
    /\ seen' = [seen EXCEPT ![r] = Nothing]
    /\ FreshWorker(r)
    /\ bypass' = [bypass EXCEPT ![r] = FALSE]
    /\ sealKey' = [sealKey EXCEPT ![r] = 0]
    /\ UNCHANGED <<evidence, asked, wipes>>

-----------------------------------------------------------------------------
(* The worker.                                                             *)

\* Mutant of ReadItem: a contradictory second reading is not noticed.
ReadItemOverwrites(r, f) ==
    /\ view' = [view EXCEPT ![r][f] = evidence[f]]
    /\ recorder' = [recorder EXCEPT ![r][f] = IF @ = None THEN evidence[f] ELSE @]
    /\ \E withinLimits \in BOOLEAN :
          cacheable' = [cacheable EXCEPT ![r] = @ /\ withinLimits]

\* One observation: the analysis uses the last reading, the proof the first,
\* and the recorder gives up when they differ or a limit is met.  (Of a resolution
\* that differs the proof has both, and never replays.)
ReadItem(r, f) ==
    LET first == recorder[r][f]
    IN  /\ view' = [view EXCEPT ![r][f] = evidence[f]]
        /\ recorder' = [recorder EXCEPT ![r][f] = IF first = None THEN evidence[f]
                                                  ELSE first]
        /\ \E withinLimits \in BOOLEAN :
              cacheable' = [cacheable EXCEPT ![r] =
                              @ /\ withinLimits /\ first \in {None, evidence[f]}]

ReadManifest(r, m) ==
    /\ pc[r] = "select"
    /\ view[r][m] = None
    /\ ReadItem(r, m)
    /\ UNCHANGED <<evidence, runVars, candidate, replayed, storageVars, wipes>>

Answered(r, outcome, message) ==
    /\ reply' = [reply EXCEPT ![r] = [outcome |-> outcome, message |-> message]]
    /\ GoTo(r, "reply")
    /\ UNCHANGED <<evidence, asked, seen, bypass, sealKey, workerVars, storageVars, wipes>>

SelectedNothing(r) ==
    /\ pc[r] = "select"
    /\ \A m \in Manifests : view[r][m] # None
    /\ Selection[ManifestView(view[r])] = None
    /\ Answered(r, NotFound, NoMessage)

SelectModule(r) ==
    /\ pc[r] = "select"
    /\ \A m \in Manifests : view[r][m] # None
    /\ Selection[ManifestView(view[r])] # None
    /\ GoTo(r, IF ~bypass[r] /\ cacheable[r] THEN "lookup" ELSE "analyze")
    /\ UNCHANGED <<evidence, asked, seen, bypass, reply, sealKey, workerVars,
                   storageVars, wipes>>

LookUp(r) ==
    /\ pc[r] = "lookup"
    /\ LET found == IF dir = "private" THEN entries[IdentityOf(r)] ELSE None
       IN  /\ candidate' = [candidate EXCEPT ![r] = found]
           /\ GoTo(r, IF found = None THEN "analyze" ELSE "authenticate")
    /\ UNCHANGED <<evidence, asked, seen, bypass, reply, sealKey, view, recorder,
                   cacheable, replayed, storageVars, wipes>>

Authenticate(r) ==
    /\ pc[r] = "authenticate"
    /\ AcceptsCandidate(candidate[r], r)
    /\ GoTo(r, "replay")
    /\ UNCHANGED <<evidence, asked, seen, bypass, reply, sealKey, workerVars,
                   storageVars, wipes>>

\* Fingerprints and lookups are repeated one at a time against the disk.
ReplayItem(r, f) ==
    /\ pc[r] = "replay"
    /\ f \notin replayed[r]
    /\ evidence[f] = candidate[r].proof[f]
    /\ replayed' = [replayed EXCEPT ![r] = @ \cup {f}]
    /\ UNCHANGED <<evidence, runVars, view, recorder, cacheable, candidate,
                   storageVars, wipes>>

\* A failed check, a changed fingerprint or an exhausted replay budget.
CacheMiss(r) ==
    /\ \/ pc[r] = "authenticate" /\ ~AcceptsCandidate(candidate[r], r)
       \/ pc[r] = "replay"
    /\ candidate' = [candidate EXCEPT ![r] = None]
    /\ replayed' = [replayed EXCEPT ![r] = {}]
    /\ GoTo(r, "analyze")
    /\ UNCHANGED <<evidence, asked, seen, bypass, reply, sealKey, view, recorder,
                   cacheable, storageVars, wipes>>

\* Mutant of CacheHit: the replay stops after the manifests.
CacheHitUnreplayed(r) ==
    /\ pc[r] = "replay"
    /\ Manifests \subseteq replayed[r]
    /\ Answered(r, candidate[r].outcome, HitNotice)

CacheHit(r) ==
    /\ pc[r] = "replay"
    /\ replayed[r] = Items
    /\ Answered(r, candidate[r].outcome, HitNotice)

AnalyzeItem(r, f) ==
    /\ pc[r] = "analyze"
    /\ ReadItem(r, f)
    /\ UNCHANGED <<evidence, runVars, candidate, replayed, storageVars, wipes>>

\* Mutant of FinishAnalysis: it answers before it has read everything.
FinishAnalysisEarly(r) ==
    /\ pc[r] = "analyze"
    /\ Answered(r, Success(asked[r], view[r]),
                IF cacheable[r] THEN WriteReceipt(IdentityOf(r), recorder[r])
                                ELSE NoMessage)

FinishAnalysis(r) ==
    /\ pc[r] = "analyze"
    /\ \A f \in Items : view[r][f] # None
    /\ Answered(r, Success(asked[r], view[r]),
                IF cacheable[r] THEN WriteReceipt(IdentityOf(r), recorder[r])
                                ELSE NoMessage)

\* Analysis ends in a typed failure: no receipt.
AnalysisFails(r) ==
    /\ pc[r] \in {"select", "analyze"}
    /\ Answered(r, Failure, NoMessage)

-----------------------------------------------------------------------------
(* The parent.                                                             *)

\* Deadline, heap, output limit, signal, exit status, unparseable answer.
WorkerFails(r) ==
    /\ pc[r] \in WorkerPhase
    /\ Conclude(r, Failure)
    /\ UNCHANGED storageVars

RemoveEntry(i) ==
    entries' = IF dir = "private" THEN [entries EXCEPT ![i] = None] ELSE entries

\* A hit the parent cannot validate is deleted and the inspection repeated once.
RetryWithoutCache(r) ==
    /\ pc[r] = "reply"
    /\ reply[r].message = HitNotice
    /\ ~bypass[r]
    /\ RemoveEntry(IdentityOf(r))
    /\ bypass' = [bypass EXCEPT ![r] = TRUE]
    /\ reply' = [reply EXCEPT ![r] = NoReply]
    /\ FreshWorker(r)
    /\ GoTo(r, "select")
    /\ UNCHANGED <<evidence, asked, seen, sealKey, dir, lock, keyFile, tmps,
                   keysMade, wipes>>

\* An answer that is no JSON, or that is invalid and is not a hit to be retried.
RejectAnswer(r) ==
    /\ pc[r] = "reply"
    /\ Conclude(r, Rejected)
    /\ UNCHANGED storageVars

AcceptAnswer(r) ==
    /\ pc[r] = "reply"
    /\ IF AcceptsReceipt(r)
       THEN /\ GoTo(r, "prepare")
            /\ UNCHANGED <<evidence, asked, seen, bypass, reply, sealKey, workerVars, wipes>>
       ELSE Conclude(r, reply[r].outcome)
    /\ UNCHANGED storageVars

-----------------------------------------------------------------------------
(* The parent publishes.  Any failure skips the rest: the outcome stands.   *)

Publishing(r, from, to) ==
    /\ pc[r] = from
    /\ GoTo(r, to)
    /\ UNCHANGED <<evidence, asked, seen, bypass, reply, workerVars, wipes>>

PrepareDirectory(r) ==
    /\ dir # "foreign"
    /\ Publishing(r, "prepare", "lock")
    /\ dir' = "private"
    /\ UNCHANGED <<sealKey, lock, keyFile, entries, tmps, keysMade>>

\* Mutant of AcquireLock: the lock file is not opened exclusively.
AcquireLockShared(r) ==
    /\ dir = "private"
    /\ Publishing(r, "lock", "capacity")
    /\ lock' = r
    /\ UNCHANGED <<sealKey, dir, keyFile, entries, tmps, keysMade>>

AcquireLock(r) ==
    /\ dir = "private" /\ lock = None
    /\ Publishing(r, "lock", "capacity")
    /\ lock' = r
    /\ UNCHANGED <<sealKey, dir, keyFile, entries, tmps, keysMade>>

\* Mutant of SkipPublishing: a writer waits for a lock file that exists.
SkipPublishingWaits(r) ==
    /\ \/ pc[r] = "prepare" /\ dir = "foreign"
       \/ pc[r] = "lock" /\ dir # "private"
    /\ Conclude(r, reply[r].outcome)
    /\ UNCHANGED storageVars

\* No directory of one's own, or a lock file that exists already.
SkipPublishing(r) ==
    /\ \/ pc[r] = "prepare" /\ dir = "foreign"
       \/ pc[r] = "lock" /\ (dir # "private" \/ lock # None)
    /\ Conclude(r, reply[r].outcome)
    /\ UNCHANGED storageVars

\* The lock file was created but the process id could not be written into it:
\* the writer gives up and leaves the file behind.
LockWriteFails(r) ==
    /\ StorageFaults
    /\ pc[r] = "lock" /\ dir = "private" /\ lock = None
    /\ lock' = r
    /\ Conclude(r, reply[r].outcome)
    /\ UNCHANGED <<dir, keyFile, entries, tmps, keysMade>>

\* Mutant of CheckCapacity: the limit itself is still taken for room.
CheckCapacityOffByOne(r) ==
    /\ Publishing(r, "capacity",
                  IF \/ entries[IdentityOf(r)] # None
                     \/ dir = "private" /\ DirectoryEntries <= MaxDirectoryEntries
                  THEN "key" ELSE "unlock")
    /\ UNCHANGED <<sealKey, storageVars>>

CheckCapacity(r) ==
    /\ Publishing(r, "capacity",
                  IF \/ entries[IdentityOf(r)] # None
                     \/ dir = "private" /\ DirectoryEntries < MaxDirectoryEntries
                  THEN "key" ELSE "unlock")
    /\ UNCHANGED <<sealKey, storageVars>>

\* Mutant of CreateKeyFile: the key file is not opened exclusively.
CreateKeyFileAnew(r) ==
    /\ dir = "private"
    /\ Publishing(r, "key", "keywrite")
    /\ keysMade' = keysMade + 1
    /\ keyFile' = [state |-> "torn", id |-> keysMade + 1]
    /\ sealKey' = [sealKey EXCEPT ![r] = keysMade + 1]
    /\ UNCHANGED <<dir, lock, entries, tmps>>

\* The exclusive open makes an empty key file; writing it is another step.
CreateKeyFile(r) ==
    /\ dir = "private" /\ keyFile.state = "absent"
    /\ Publishing(r, "key", "keywrite")
    /\ keysMade' = keysMade + 1
    /\ keyFile' = [state |-> "torn", id |-> keysMade + 1]
    /\ sealKey' = [sealKey EXCEPT ![r] = keysMade + 1]
    /\ UNCHANGED <<dir, lock, entries, tmps>>

KeepKeyFile(r) ==
    /\ dir # "private" \/ keyFile.state # "absent"
    /\ Publishing(r, "key", "keyread")
    /\ UNCHANGED <<sealKey, storageVars>>

\* The write reaches the file this process opened, if it is still there.
WriteKeyFile(r) ==
    /\ Publishing(r, "keywrite", "keyread")
    /\ \/ keyFile' = IF keyFile = [state |-> "torn", id |-> sealKey[r]]
                     THEN [keyFile EXCEPT !.state = "whole"] ELSE keyFile
       \/ StorageFaults /\ UNCHANGED keyFile
    /\ UNCHANGED <<sealKey, dir, lock, entries, tmps, keysMade>>

\* Mutant of ReadKeyFile: the early return skips the unlink of the lock file.
ReadKeyFileReturns(r) ==
    \/ /\ Publishing(r, "keyread", "temporary")
       /\ keyFile.state = "whole"
       /\ sealKey' = [sealKey EXCEPT ![r] = keyFile.id]
       /\ UNCHANGED storageVars
    \/ /\ pc[r] = "keyread"
       /\ Conclude(r, reply[r].outcome)
       /\ UNCHANGED storageVars

\* A key that is not whole, or an entry over its byte limit, ends the publication.
ReadKeyFile(r) ==
    \E fits \in BOOLEAN :
        LET usable == fits /\ keyFile.state = "whole"
        IN  /\ Publishing(r, "keyread", IF usable THEN "temporary" ELSE "unlock")
            /\ sealKey' = [sealKey EXCEPT ![r] = IF usable THEN keyFile.id ELSE 0]
            /\ UNCHANGED storageVars

WriteTemporary(r) ==
    /\ dir = "private"
    /\ Publishing(r, "temporary", "rename")
    /\ tmps' = tmps \cup {r}
    /\ UNCHANGED <<sealKey, dir, lock, keyFile, entries, keysMade>>

\* A failed write removes its temporary file.
TemporaryFails(r) ==
    /\ dir # "private" \/ StorageFaults
    /\ Publishing(r, "temporary", "unlock")
    /\ UNCHANGED <<sealKey, storageVars>>

SealedEntry(r) ==
    [sealedBy |-> sealKey[r], identity |-> reply[r].message.identity,
     outcome |-> reply[r].outcome, proof |-> reply[r].message.proof]

RenameEntry(r) ==
    /\ r \in tmps
    /\ Publishing(r, "rename", "unlock")
    /\ entries' = [entries EXCEPT ![reply[r].message.identity] = SealedEntry(r)]
    /\ tmps' = tmps \ {r}
    /\ UNCHANGED <<sealKey, dir, lock, keyFile, keysMade>>

RenameFails(r) ==
    /\ r \notin tmps \/ StorageFaults
    /\ Publishing(r, "rename", "unlock")
    /\ \/ tmps' = tmps \ {r}
       \/ StorageFaults /\ UNCHANGED tmps
    /\ UNCHANGED <<sealKey, dir, lock, keyFile, entries, keysMade>>

\* The lock file is unlinked by name: whoever made it.
Unlock(r) ==
    /\ pc[r] = "unlock"
    /\ \/ lock' = None
       \/ StorageFaults /\ UNCHANGED lock
    /\ Conclude(r, reply[r].outcome)
    /\ UNCHANGED <<dir, keyFile, entries, tmps, keysMade>>

-----------------------------------------------------------------------------
(* The environment.                                                        *)

\* The parent is killed: its files stay as they are.
Kill(r) ==
    /\ Crashes
    /\ pc[r] \notin {"idle", "done", "dead"}
    /\ GoTo(r, "dead")
    /\ seen' = [seen EXCEPT ![r] = Nothing]
    /\ reply' = [reply EXCEPT ![r] = NoReply]
    /\ FreshWorker(r)
    /\ bypass' = [bypass EXCEPT ![r] = FALSE]
    /\ sealKey' = [sealKey EXCEPT ![r] = 0]
    /\ UNCHANGED <<evidence, asked, storageVars, wipes>>

Edit(f, v) ==
    /\ v # evidence[f]
    /\ evidence' = [evidence EXCEPT ![f] = v]
    /\ seen' = [r \in Inspections |->
                  IF seen[r] # Nothing THEN [seen[r] EXCEPT ![f] = @ \cup {v}]
                                       ELSE seen[r]]
    /\ UNCHANGED <<asked, pc, bypass, reply, sealKey, workerVars, storageVars, wipes>>

\* Someone deletes the cache directory and everything in it.
WipeDirectory ==
    /\ dir = "private" /\ wipes < MaxWipes
    /\ wipes' = wipes + 1
    /\ dir' = "absent"
    /\ lock' = None
    /\ keyFile' = NoKeyFile
    /\ entries' = [i \in Identities |-> None]
    /\ tmps' = {}
    /\ UNCHANGED <<evidence, runVars, workerVars, keysMade>>

\* An entry file is damaged: no integrity key (they start at 1) matches it.
DamageEntry(i) ==
    /\ StorageFaults
    /\ entries[i] # None
    /\ entries' = [entries EXCEPT ![i].sealedBy = 0]
    /\ UNCHANGED <<evidence, runVars, workerVars, dir, lock, keyFile, tmps, keysMade, wipes>>

\* An entry file turns up under another name.
MisplaceEntry(i, j) ==
    /\ StorageFaults
    /\ entries[i] # None
    /\ entries[j] # entries[i]
    /\ entries' = [entries EXCEPT ![j] = entries[i]]
    /\ UNCHANGED <<evidence, runVars, workerVars, dir, lock, keyFile, tmps, keysMade, wipes>>

-----------------------------------------------------------------------------
Worker(r) ==
    \/ \E m \in Manifests : ReadManifest(r, m)
    \/ SelectedNothing(r) \/ SelectModule(r)
    \/ LookUp(r) \/ Authenticate(r) \/ CacheMiss(r) \/ CacheHit(r)
    \/ \E f \in Items : ReplayItem(r, f) \/ AnalyzeItem(r, f)
    \/ FinishAnalysis(r) \/ AnalysisFails(r)

Parent(r) ==
    \/ WorkerFails(r) \/ RetryWithoutCache(r) \/ RejectAnswer(r) \/ AcceptAnswer(r)

Publisher(r) ==
    \/ PrepareDirectory(r) \/ AcquireLock(r) \/ SkipPublishing(r) \/ LockWriteFails(r)
    \/ CheckCapacity(r) \/ CreateKeyFile(r) \/ KeepKeyFile(r) \/ WriteKeyFile(r)
    \/ ReadKeyFile(r) \/ WriteTemporary(r) \/ TemporaryFails(r)
    \/ RenameEntry(r) \/ RenameFails(r) \/ Unlock(r)

Environment ==
    \/ \E f \in Items, v \in Versions : Edit(f, v)
    \/ WipeDirectory
    \/ \E i \in Identities : DamageEntry(i)
    \/ \E i, j \in Identities : MisplaceEntry(i, j)

Next ==
    \/ \E r \in Inspections :
          \/ \E q \in Requests : Begin(r, q)
          \/ Worker(r) \/ Parent(r) \/ Publisher(r) \/ Kill(r)
    \/ Environment

Spec == Init /\ [][Next]_vars
-----------------------------------------------------------------------------
(* What holds.                                                             *)

Phases == {"idle", "prepare", "lock", "done", "dead"} \cup WorkerPhase \cup PublishPhase

Active == Phases \ {"idle", "done", "dead"}

RunsTypeOK ==
    /\ asked \in [Inspections -> Requests \cup {None}]
    /\ seen \in [Inspections -> [Items -> SUBSET Versions]]
    /\ pc \in [Inspections -> Phases]
    /\ bypass \in [Inspections -> BOOLEAN]
    /\ view \in [Inspections -> Readings]
    /\ recorder \in [Inspections -> Readings]
    /\ cacheable \in [Inspections -> BOOLEAN]
    /\ candidate \in [Inspections -> Entries \cup {None}]
    /\ replayed \in [Inspections -> SUBSET Items]
    /\ reply \in [Inspections -> [outcome : Outcomes \cup {None}, message : Messages]]
    /\ sealKey \in [Inspections -> Nat]

StorageTypeOK ==
    /\ dir \in {"absent", "foreign", "private"}
    /\ lock \in Inspections \cup {None}
    /\ keyFile \in [state : {"absent", "torn", "whole"}, id : Nat]
    /\ entries \in [Identities -> Entries \cup {None}]
    /\ tmps \subseteq Inspections
    /\ keysMade \in Nat

\* The shape of the state: one record of control per inspection, one directory.
TypeOK == evidence \in Views /\ RunsTypeOK /\ StorageTypeOK /\ wipes \in 0 .. MaxWipes

\* The outcome is the analysis of exactly the evidence the proof fingerprints,
\* and that evidence selects the package the entry is filed under.
FaithfulEntry(e) ==
    /\ e.proof \in Views
    /\ e.outcome = Success(e.identity.request, e.proof)
    /\ Selection[ManifestView(e.proof)] = e.identity.selection

\* An entry whose seal can still match a key says what its proof entails.
EntriesFaithful ==
    \A i \in Identities :
        (entries[i] # None /\ entries[i].sealedBy # 0) => FaithfulEntry(entries[i])

\* The lock file excludes: while nobody deletes the directory, at most one
\* inspection is between creating the lock file and unlinking it, and that one
\* made the lock file that is there.
WriterExclusion ==
    wipes = 0 => \A r \in Inspections : pc[r] \in PublishPhase => lock = r

\* The directory stays bounded, orphaned temporary files included, although the
\* count is taken before the key file and the temporary file are made: one file
\* beyond the limit, while an entry is replaced.
CapacityBound == wipes = 0 => DirectoryEntries <= MaxDirectoryEntries + 1

\* While nobody deletes the directory, an undamaged entry is sealed by the key
\* that is in it: no publication is wasted on a key that was replaced.
EntriesReadable ==
    wipes = 0 =>
        \A i \in Identities :
            (entries[i] # None /\ entries[i].sealedBy # 0) =>
                keyFile = [state |-> "whole", id |-> entries[i].sealedBy]

\* What the caller has been told.
Delivered == [r \in Inspections |-> IF pc[r] = "done" THEN reply[r].outcome ELSE None]

Authority == INSTANCE InspectionAuthority WITH delivered <- Delivered

\* The cache can reduce reuse but cannot change an inspection's outcome.
CacheIsInvisible == Authority!AuthoritySpec

-----------------------------------------------------------------------------
(* Progress.  The parent's timer and process events are handled, and the   *)
(* synchronous file-system calls of a publication return.  Nothing is      *)
(* assumed of the worker: it may loop for ever.                            *)

Fairness == \A r \in Inspections : WF_vars(Parent(r)) /\ WF_vars(Publisher(r))

FairSpec == Spec /\ Fairness

\* Every inspection that begins ends, whatever its worker does and whoever
\* holds the lock file.
EveryInspectionEnds ==
    \A r \in Inspections : pc[r] = "select" ~> pc[r] \in {"done", "dead"}

\* A writer that is not killed and whose unlink succeeds gives the lock back.
LockReleased ==
    \A r \in Inspections :
        pc[r] \in PublishPhase ~> (lock # r \/ pc[r] = "dead")
=============================================================================
