----------------------- MODULE InspectionCacheProofs -----------------------
(***************************************************************************)
(* InspectionCache keeps its entries faithful and implements               *)
(* InspectionAuthority, for any number of inspections, requests, evidence  *)
(* items and versions.                                                     *)
(*                                                                         *)
(* The argument is one inductive invariant, Inv.  Its heart is RunOK: the  *)
(* readings of a worker, the replayed part of a candidate's proof and the  *)
(* answer in the parent's hands are all drawn from the evidence that the   *)
(* inspection lived through, and the recorder agrees with the analysis for *)
(* as long as it calls itself cacheable.                                   *)
(***************************************************************************)
EXTENDS InspectionCache, FiniteSetTheorems, TLAPS

AnsweredPhase == {"reply", "prepare", "lock"} \cup PublishPhase

\* The history of an inspection in progress holds what is installed now.
HistoryOK(r) ==
    /\ pc[r] \in Active => \A f \in Items : evidence[f] \in seen[r][f]
    /\ pc[r] \notin Active => seen[r] = Nothing

AskedOK(r) == IF pc[r] = "idle" THEN asked[r] = None ELSE asked[r] \in Requests

\* Every reading was current during the inspection; a cacheable recorder agrees
\* with what the analysis has read.
ReadingsOK(r) ==
    /\ \A f \in Items : view[r][f] # None => view[r][f] \in seen[r][f]
    /\ \A f \in Items : recorder[r][f] # None => recorder[r][f] \in seen[r][f]
    /\ cacheable[r] => recorder[r] = view[r]

\* After selection the cache identity of the inspection is determined.
SelectedOK(r) ==
    /\ (pc[r] \in {"lookup", "authenticate", "replay", "analyze"} /\ cacheable[r])
          => /\ \A m \in Manifests : recorder[r][m] # None
             /\ Selection[ManifestView(recorder[r])] # None
    /\ pc[r] \in {"lookup", "authenticate", "replay"} => cacheable[r]

\* The candidate is faithful, and what was replayed of it was seen.
CandidateOK(r) ==
    /\ pc[r] \in {"authenticate", "replay"} => candidate[r] # None
    /\ (candidate[r] # None /\ candidate[r].sealedBy # 0) => FaithfulEntry(candidate[r])
    /\ pc[r] \in {"idle", "select", "lookup", "authenticate"} => replayed[r] = {}
    /\ pc[r] = "replay" =>
          /\ candidate[r].sealedBy # 0
          /\ candidate[r].identity.request = asked[r]
          /\ \A f \in replayed[r] : candidate[r].proof[f] \in seen[r][f]

FaithfulReceipt(message, outcome, q) ==
    \E i \in Identities, p \in Views :
        /\ message = WriteReceipt(i, p)
        /\ outcome = Success(q, p)
        /\ i.request = q
        /\ Selection[ManifestView(p)] = i.selection

\* The answer in the parent's hands may be given, and its receipt is faithful.
ReplyOK(r) ==
    pc[r] \in AnsweredPhase =>
        /\ reply[r].outcome \in Outcomes
        /\ Authority!Authoritative(reply[r].outcome, asked[r], seen[r])
        /\ reply[r].message.kind = "inspection-cache-write"
              => FaithfulReceipt(reply[r].message, reply[r].outcome, asked[r])
        /\ pc[r] # "reply" => reply[r].message.kind = "inspection-cache-write"

RunOK(r) ==
    /\ HistoryOK(r)
    /\ AskedOK(r)
    /\ ReadingsOK(r)
    /\ SelectedOK(r)
    /\ CandidateOK(r)
    /\ ReplyOK(r)

KeyOK == keyFile.state # "absent" => keyFile.id # 0

Inv ==
    /\ TypeOK
    /\ \A r \in Inspections : RunOK(r)
    /\ EntriesFaithful
    /\ KeyOK

-----------------------------------------------------------------------------
(* Lemmas about one inspection.                                            *)

\* What a step leaves alone of an inspection keeps that inspection's invariant.
SameRun(s) ==
    /\ pc'[s] = pc[s] /\ asked'[s] = asked[s] /\ seen'[s] = seen[s]
    /\ view'[s] = view[s] /\ recorder'[s] = recorder[s]
    /\ cacheable'[s] = cacheable[s] /\ candidate'[s] = candidate[s]
    /\ replayed'[s] = replayed[s] /\ reply'[s] = reply[s]

LEMMA Frame ==
    ASSUME NEW s \in Inspections, RunOK(s), SameRun(s), UNCHANGED evidence
    PROVE  RunOK(s)'
<1>1. HistoryOK(s)' /\ AskedOK(s)' /\ ReadingsOK(s)' /\ CandidateOK(s)'
  BY DEF RunOK, SameRun, HistoryOK, AskedOK, ReadingsOK, CandidateOK
<1>2. SelectedOK(s)'
  BY DEF RunOK, SameRun, SelectedOK, ManifestView
<1>3. ReplyOK(s)'
  BY DEF RunOK, SameRun, ReplyOK
<1> QED BY <1>1, <1>2, <1>3 DEF RunOK

\* Handing over an outcome leaves nothing of the inspection but its answer.
LEMMA ConcludeKeeps ==
    ASSUME Inv, NEW r \in Inspections, NEW o \in Outcomes, asked[r] \in Requests,
           Conclude(r, o)
    PROVE  RunsTypeOK' /\ evidence' \in Views /\ (\A s \in Inspections : RunOK(s)')
<1>1. RunsTypeOK' /\ evidence' \in Views
  BY DEF Inv, TypeOK, RunsTypeOK, Conclude, FreshWorker, GoTo, Phases, Readings,
         Unread, Nothing, Messages
<1>2. ASSUME NEW s \in Inspections, s # r PROVE RunOK(s)'
  <2>1. RunOK(s) BY DEF Inv
  <2>2. SameRun(s)
    BY <1>2 DEF Inv, TypeOK, RunsTypeOK, Conclude, FreshWorker, GoTo, SameRun
  <2> QED BY <2>1, <2>2, Frame DEF Conclude
<1>3. RunOK(r)'
  <2>1. /\ pc'[r] = "done" /\ seen'[r] = Nothing /\ asked'[r] = asked[r]
        /\ view'[r] = Unread /\ recorder'[r] = Unread
        /\ candidate'[r] = None /\ replayed'[r] = {}
    BY DEF Inv, TypeOK, RunsTypeOK, Conclude, FreshWorker, GoTo
  <2>2. HistoryOK(r)' /\ AskedOK(r)' BY <2>1 DEF HistoryOK, AskedOK, Active
  <2>3. ReadingsOK(r)' BY <2>1 DEF ReadingsOK, Unread
  <2>4. SelectedOK(r)' /\ CandidateOK(r)' BY <2>1 DEF SelectedOK, CandidateOK
  <2>5. ReplyOK(r)' BY <2>1 DEF ReplyOK, AnsweredPhase, PublishPhase
  <2> QED BY <2>2, <2>3, <2>4, <2>5 DEF RunOK
<1> QED BY <1>1, <1>2, <1>3

\* A step of a publication moves on and keeps the answer.
LEMMA PublishingKeeps ==
    ASSUME Inv, NEW r \in Inspections,
           NEW from \in {"prepare", "lock"} \cup PublishPhase,
           NEW to \in {"lock"} \cup PublishPhase,
           Publishing(r, from, to), sealKey' \in [Inspections -> Nat]
    PROVE  RunsTypeOK' /\ (\A s \in Inspections : RunOK(s)')
<1>1. RunsTypeOK'
  BY DEF Inv, TypeOK, RunsTypeOK, Publishing, GoTo, Phases, workerVars
<1>2. ASSUME NEW s \in Inspections, s # r PROVE RunOK(s)'
  <2>1. RunOK(s) BY DEF Inv
  <2>2. SameRun(s)
    BY <1>2 DEF Inv, TypeOK, RunsTypeOK, Publishing, GoTo, SameRun, workerVars
  <2> QED BY <2>1, <2>2, Frame DEF Publishing
<1>3. RunOK(r)'
  <2>1. /\ pc[r] = from /\ pc'[r] = to
        /\ UNCHANGED <<evidence, asked, seen, reply, view, recorder, cacheable,
                       candidate, replayed>>
    BY DEF Inv, TypeOK, RunsTypeOK, Publishing, GoTo, workerVars
  <2>2. RunOK(r) BY DEF Inv
  <2>3. HistoryOK(r)' /\ AskedOK(r)'
    BY <2>1, <2>2 DEF RunOK, HistoryOK, AskedOK, Active, Phases, PublishPhase
  <2>4. ReadingsOK(r)' BY <2>1, <2>2 DEF RunOK, ReadingsOK
  <2>5. SelectedOK(r)' BY <2>1 DEF SelectedOK, PublishPhase
  <2>6. CandidateOK(r)'
    BY <2>1, <2>2 DEF RunOK, CandidateOK, PublishPhase
  <2>7. ReplyOK(r)'
    BY <2>1, <2>2 DEF RunOK, ReplyOK, AnsweredPhase, PublishPhase
  <2> QED BY <2>3, <2>4, <2>5, <2>6, <2>7 DEF RunOK
<1> QED BY <1>1, <1>2, <1>3

\* A worker's answer keeps the invariant when it may be given and its receipt,
\* if it has one, is faithful.
LEMMA AnsweredKeeps ==
    ASSUME Inv, NEW r \in Inspections, pc[r] \in SelectPhase,
           NEW o \in Outcomes, NEW message \in Messages,
           Authority!Authoritative(o, asked[r], seen[r]),
           message.kind = "inspection-cache-write"
              => FaithfulReceipt(message, o, asked[r]),
           Answered(r, o, message)
    PROVE  RunsTypeOK' /\ evidence' \in Views /\ (\A s \in Inspections : RunOK(s)')
<1>1. RunsTypeOK' /\ evidence' \in Views
  BY DEF Inv, TypeOK, RunsTypeOK, Answered, GoTo, Phases, WorkerPhase, workerVars
<1>2. ASSUME NEW s \in Inspections, s # r PROVE RunOK(s)'
  <2>1. RunOK(s) BY DEF Inv
  <2>2. SameRun(s)
    BY <1>2 DEF Inv, TypeOK, RunsTypeOK, Answered, GoTo, SameRun, workerVars
  <2> QED BY <2>1, <2>2, Frame DEF Answered
<1>3. RunOK(r)'
  <2>1. /\ pc'[r] = "reply" /\ reply'[r] = [outcome |-> o, message |-> message]
        /\ UNCHANGED <<evidence, asked, seen, view, recorder, cacheable,
                       candidate, replayed>>
    BY DEF Inv, TypeOK, RunsTypeOK, Answered, GoTo, workerVars
  <2>2. RunOK(r) BY DEF Inv
  <2>3. HistoryOK(r)' /\ AskedOK(r)'
    BY <2>1, <2>2 DEF RunOK, HistoryOK, AskedOK, Active, Phases, WorkerPhase, SelectPhase
  <2>4. ReadingsOK(r)' BY <2>1, <2>2 DEF RunOK, ReadingsOK
  <2>5. SelectedOK(r)' BY <2>1 DEF SelectedOK
  <2>6. CandidateOK(r)' BY <2>1, <2>2 DEF RunOK, CandidateOK
  <2>7. ReplyOK(r)' BY <2>1, <2>2 DEF ReplyOK
  <2> QED BY <2>3, <2>4, <2>5, <2>6, <2>7 DEF RunOK
<1> QED BY <1>1, <1>2, <1>3

\* One observation of the worker.
LEMMA ReadItemKeeps ==
    ASSUME Inv, NEW r \in Inspections, NEW f \in Items,
           pc[r] \in {"select", "analyze"}, ReadItem(r, f),
           UNCHANGED <<evidence, runVars, candidate, replayed>>
    PROVE  RunsTypeOK' /\ (\A s \in Inspections : RunOK(s)')
<1>0. evidence[f] \in Versions /\ evidence[f] # None
  BY OutcomeAssumption DEF Inv, TypeOK, Views
<1>1. /\ view' = [view EXCEPT ![r][f] = evidence[f]]
      /\ recorder' = [recorder EXCEPT ![r][f] =
                        IF recorder[r][f] = None THEN evidence[f] ELSE recorder[r][f]]
  BY DEF ReadItem
<1>2. PICK withinLimits \in BOOLEAN :
        cacheable' = [cacheable EXCEPT ![r] =
           cacheable[r] /\ withinLimits /\ recorder[r][f] \in {None, evidence[f]}]
  BY DEF ReadItem
<1>3. RunsTypeOK'
  <2>1. view' \in [Inspections -> Readings] /\ recorder' \in [Inspections -> Readings]
    BY <1>0, <1>1 DEF Inv, TypeOK, RunsTypeOK, Readings
  <2>2. cacheable' \in [Inspections -> BOOLEAN]
    BY <1>2 DEF Inv, TypeOK, RunsTypeOK
  <2> QED BY <2>1, <2>2 DEF Inv, TypeOK, RunsTypeOK, runVars
<1>4. ASSUME NEW s \in Inspections, s # r PROVE RunOK(s)'
  <2>1. RunOK(s) BY DEF Inv
  <2>2. SameRun(s)
    BY <1>1, <1>2, <1>4 DEF Inv, TypeOK, RunsTypeOK, SameRun, runVars
  <2> QED BY <2>1, <2>2, Frame
<1>5. RunOK(r)'
  <2>1. RunOK(r) /\ UNCHANGED <<evidence, asked, seen, pc, reply, candidate, replayed>>
    BY DEF Inv, runVars
  <2>2. evidence[f] \in seen[r][f]
    BY <2>1 DEF RunOK, HistoryOK, Active, Phases, WorkerPhase, SelectPhase
  <2>3. HistoryOK(r)' /\ AskedOK(r)' BY <2>1 DEF RunOK, HistoryOK, AskedOK
  <2>4. ReadingsOK(r)'
    <3>1. \A g \in Items : view'[r][g] # None => view'[r][g] \in seen[r][g]
      BY <1>1, <2>1, <2>2 DEF RunOK, ReadingsOK, Inv, TypeOK, RunsTypeOK, Readings
    <3>2. \A g \in Items : recorder'[r][g] # None => recorder'[r][g] \in seen[r][g]
      BY <1>1, <2>1, <2>2 DEF RunOK, ReadingsOK, Inv, TypeOK, RunsTypeOK, Readings
    <3>3. cacheable'[r] => recorder'[r] = view'[r]
      <4>1. SUFFICES ASSUME cacheable'[r] PROVE recorder'[r] = view'[r]
        OBVIOUS
      <4>2. cacheable[r] /\ recorder[r][f] \in {None, evidence[f]}
        BY <1>2, <4>1 DEF Inv, TypeOK, RunsTypeOK
      <4>3. recorder[r] = view[r] BY <2>1, <4>2 DEF RunOK, ReadingsOK
      <4> QED BY <1>1, <4>2, <4>3 DEF Inv, TypeOK, RunsTypeOK, Readings
    <3> QED BY <2>1, <3>1, <3>2, <3>3 DEF ReadingsOK
  <2>5. SelectedOK(r)'
    <3>1. SUFFICES ASSUME pc[r] = "analyze", cacheable'[r]
                   PROVE  /\ \A m \in Manifests : recorder'[r][m] # None
                          /\ Selection[ManifestView(recorder'[r])] # None
      BY <2>1 DEF SelectedOK
    <3>2. cacheable[r] /\ recorder[r][f] \in {None, evidence[f]}
      BY <1>2, <3>1 DEF Inv, TypeOK, RunsTypeOK
    <3>3. /\ \A m \in Manifests : recorder[r][m] # None
          /\ Selection[ManifestView(recorder[r])] # None
      BY <2>1, <3>1, <3>2 DEF RunOK, SelectedOK
    <3>4. \A m \in Manifests : recorder'[r][m] = recorder[r][m]
      BY <1>1, <3>2, <3>3, OutcomeAssumption DEF Inv, TypeOK, RunsTypeOK, Readings
    <3>5. ManifestView(recorder'[r]) = ManifestView(recorder[r])
      BY <3>4 DEF ManifestView
    <3> QED BY <3>3, <3>4, <3>5
  <2>6. CandidateOK(r)' BY <2>1 DEF RunOK, CandidateOK
  <2>7. ReplyOK(r)' BY <2>1 DEF RunOK, ReplyOK
  <2> QED BY <2>3, <2>4, <2>5, <2>6, <2>7 DEF RunOK
<1> QED BY <1>3, <1>4, <1>5

-----------------------------------------------------------------------------
(* The steps of one inspection.                                            *)

\* The invariant of the inspections, with the type of their variables.
RunsOK == evidence \in Views /\ RunsTypeOK /\ \A r \in Inspections : RunOK(r)

LEMMA BeginKeeps ==
    ASSUME Inv, NEW r \in Inspections, NEW q \in Requests, Begin(r, q)
    PROVE  RunsOK'
<1>1. RunsTypeOK' /\ evidence' \in Views
  BY DEF Inv, TypeOK, RunsTypeOK, Begin, GoTo, Phases, WorkerPhase, SelectPhase,
         workerVars, Views
<1>2. ASSUME NEW s \in Inspections, s # r PROVE RunOK(s)'
  <2>1. RunOK(s) BY DEF Inv
  <2>2. SameRun(s)
    BY <1>2 DEF Inv, TypeOK, RunsTypeOK, Begin, GoTo, SameRun, workerVars
  <2> QED BY <2>1, <2>2, Frame DEF Begin
<1>3. RunOK(r)'
  <2>1. /\ pc'[r] = "select" /\ asked'[r] = q
        /\ seen'[r] = [f \in Items |-> {evidence[f]}]
        /\ UNCHANGED <<evidence, view, recorder, cacheable, candidate, replayed>>
    BY DEF Inv, TypeOK, RunsTypeOK, Begin, GoTo, workerVars
  <2>2. RunOK(r) /\ pc[r] = "idle" BY DEF Inv, Begin
  <2>3. HistoryOK(r)' /\ AskedOK(r)'
    BY <2>1 DEF HistoryOK, AskedOK, Active, Phases, WorkerPhase, SelectPhase
  <2>4. ReadingsOK(r)'
    <3>1. \A f \in Items : seen[r][f] = {}
      BY <2>2 DEF RunOK, HistoryOK, Active, Nothing
    <3> QED BY <2>1, <2>2, <3>1 DEF RunOK, ReadingsOK
  <2>5. SelectedOK(r)' BY <2>1 DEF SelectedOK
  <2>6. CandidateOK(r)' BY <2>1, <2>2 DEF RunOK, CandidateOK
  <2>7. ReplyOK(r)' BY <2>1 DEF ReplyOK, AnsweredPhase, PublishPhase
  <2> QED BY <2>3, <2>4, <2>5, <2>6, <2>7 DEF RunOK
<1> QED BY <1>1, <1>2, <1>3 DEF RunsOK

LEMMA SelectModuleKeeps ==
    ASSUME Inv, NEW r \in Inspections, SelectModule(r)
    PROVE  RunsOK'
<1>1. RunsTypeOK' /\ evidence' \in Views
  BY DEF Inv, TypeOK, RunsTypeOK, SelectModule, GoTo, Phases, WorkerPhase,
         SelectPhase, workerVars, Views
<1>2. ASSUME NEW s \in Inspections, s # r PROVE RunOK(s)'
  <2>1. RunOK(s) BY DEF Inv
  <2>2. SameRun(s)
    BY <1>2 DEF Inv, TypeOK, RunsTypeOK, SelectModule, GoTo, SameRun, workerVars
  <2> QED BY <2>1, <2>2, Frame DEF SelectModule
<1>3. RunOK(r)'
  <2>1. /\ pc'[r] \in {"lookup", "analyze"} /\ (pc'[r] = "lookup" => cacheable[r])
        /\ UNCHANGED <<evidence, asked, seen, view, recorder, cacheable,
                       candidate, replayed>>
    BY DEF Inv, TypeOK, RunsTypeOK, SelectModule, GoTo, workerVars
  <2>2. RunOK(r) /\ pc[r] = "select" BY DEF Inv, SelectModule
  <2>3. HistoryOK(r)' /\ AskedOK(r)'
    BY <2>1, <2>2 DEF RunOK, HistoryOK, AskedOK, Active, Phases, WorkerPhase, SelectPhase
  <2>4. ReadingsOK(r)' BY <2>1, <2>2 DEF RunOK, ReadingsOK
  <2>5. SelectedOK(r)'
    BY <2>1, <2>2 DEF RunOK, ReadingsOK, SelectedOK, SelectModule
  <2>6. CandidateOK(r)' BY <2>1, <2>2 DEF RunOK, CandidateOK
  <2>7. ReplyOK(r)' BY <2>1 DEF ReplyOK, AnsweredPhase, PublishPhase
  <2> QED BY <2>3, <2>4, <2>5, <2>6, <2>7 DEF RunOK
<1> QED BY <1>1, <1>2, <1>3 DEF RunsOK

\* The identity of a cacheable inspection after selection.
LEMMA IdentityTyped ==
    ASSUME Inv, NEW r \in Inspections, cacheable[r],
           pc[r] \in {"lookup", "authenticate", "replay", "analyze"}
    PROVE  IdentityOf(r) \in Identities /\ IdentityOf(r).request = asked[r]
<1>1. RunOK(r) /\ asked[r] \in Requests BY DEF Inv, RunOK, AskedOK
<1>2. ManifestView(recorder[r]) \in [Manifests -> Versions]
  BY <1>1, OutcomeAssumption
  DEF Inv, TypeOK, RunsTypeOK, RunOK, SelectedOK, ManifestView, Readings
<1>3. Selection[ManifestView(recorder[r])] # None
  BY <1>1 DEF RunOK, SelectedOK
<1> QED BY <1>1, <1>2, <1>3 DEF IdentityOf, Identities, Selections

LEMMA LookUpKeeps ==
    ASSUME Inv, NEW r \in Inspections, LookUp(r)
    PROVE  RunsOK'
<1>0. cacheable[r] /\ RunOK(r) /\ pc[r] = "lookup"
  BY DEF Inv, RunOK, SelectedOK, LookUp
<1>1. PICK found \in Entries \cup {None} :
        /\ found # None /\ found.sealedBy # 0 => FaithfulEntry(found)
        /\ candidate' = [candidate EXCEPT ![r] = found]
        /\ GoTo(r, IF found = None THEN "analyze" ELSE "authenticate")
  <2>1. IdentityOf(r) \in Identities BY <1>0, IdentityTyped
  <2> QED BY <2>1 DEF Inv, TypeOK, StorageTypeOK, EntriesFaithful, LookUp
<1>2. RunsTypeOK' /\ evidence' \in Views
  BY <1>1 DEF Inv, TypeOK, RunsTypeOK, LookUp, GoTo, Phases, WorkerPhase, SelectPhase
<1>3. ASSUME NEW s \in Inspections, s # r PROVE RunOK(s)'
  <2>1. RunOK(s) BY DEF Inv
  <2>2. SameRun(s)
    BY <1>1, <1>3 DEF Inv, TypeOK, RunsTypeOK, LookUp, GoTo, SameRun
  <2> QED BY <2>1, <2>2, Frame DEF LookUp
<1>4. RunOK(r)'
  <2>1. /\ pc'[r] \in {"analyze", "authenticate"}
        /\ pc'[r] = "authenticate" => candidate'[r] # None
        /\ (candidate'[r] # None /\ candidate'[r].sealedBy # 0)
              => FaithfulEntry(candidate'[r])
        /\ UNCHANGED <<evidence, asked, seen, view, recorder, cacheable, replayed>>
    BY <1>1 DEF Inv, TypeOK, RunsTypeOK, LookUp, GoTo
  <2>3. HistoryOK(r)' /\ AskedOK(r)'
    BY <2>1, <1>0 DEF RunOK, HistoryOK, AskedOK, Active, Phases, WorkerPhase, SelectPhase
  <2>4. ReadingsOK(r)' BY <2>1, <1>0 DEF RunOK, ReadingsOK
  <2>5. SelectedOK(r)' BY <2>1, <1>0 DEF RunOK, SelectedOK
  <2>6. CandidateOK(r)' BY <2>1, <1>0 DEF RunOK, CandidateOK, FaithfulEntry
  <2>7. ReplyOK(r)' BY <2>1 DEF ReplyOK, AnsweredPhase, PublishPhase
  <2> QED BY <2>3, <2>4, <2>5, <2>6, <2>7 DEF RunOK
<1> QED BY <1>2, <1>3, <1>4 DEF RunsOK

\* The steps that only move a worker about between selection and its answer.
LEMMA WorkerMoveKeeps ==
    ASSUME Inv, NEW r \in Inspections,
           Authenticate(r) \/ CacheMiss(r) \/ (\E f \in Items : ReplayItem(r, f))
    PROVE  RunsOK'
<1>1. RunsTypeOK' /\ evidence' \in Views
  <2>1. CASE Authenticate(r)
    BY <2>1 DEF Inv, TypeOK, RunsTypeOK, Authenticate, GoTo, Phases, WorkerPhase,
                SelectPhase, workerVars
  <2>2. CASE CacheMiss(r)
    BY <2>2 DEF Inv, TypeOK, RunsTypeOK, CacheMiss, GoTo, Phases, WorkerPhase, SelectPhase
  <2>3. ASSUME NEW f \in Items, ReplayItem(r, f) PROVE RunsTypeOK' /\ evidence' \in Views
    BY <2>3 DEF Inv, TypeOK, RunsTypeOK, ReplayItem, runVars
  <2> QED BY <2>1, <2>2, <2>3
<1>2. ASSUME NEW s \in Inspections, s # r PROVE RunOK(s)'
  <2>1. RunOK(s) BY DEF Inv
  <2>2. SameRun(s) /\ UNCHANGED evidence
    BY <1>2 DEF Inv, TypeOK, RunsTypeOK, Authenticate, CacheMiss, ReplayItem, GoTo,
                SameRun, workerVars, runVars
  <2> QED BY <2>1, <2>2, Frame
<1>3. RunOK(r)'
  <2>0. RunOK(r) BY DEF Inv
  <2>1. /\ pc[r] \in {"authenticate", "replay"} /\ pc'[r] \in {"replay", "analyze"}
        /\ UNCHANGED <<evidence, asked, seen, view, recorder, cacheable>>
    BY DEF Inv, TypeOK, RunsTypeOK, Authenticate, CacheMiss, ReplayItem, GoTo,
           workerVars, runVars
  <2>2. HistoryOK(r)' /\ AskedOK(r)'
    BY <2>0, <2>1 DEF RunOK, HistoryOK, AskedOK, Active, Phases, WorkerPhase, SelectPhase
  <2>3. ReadingsOK(r)' BY <2>0, <2>1 DEF RunOK, ReadingsOK
  <2>4. SelectedOK(r)' BY <2>0, <2>1 DEF RunOK, SelectedOK
  <2>5. ReplyOK(r)' BY <2>1 DEF ReplyOK, AnsweredPhase, PublishPhase
  <2>6. CandidateOK(r)'
    <3>1. CASE Authenticate(r)
      <4>1. /\ pc[r] = "authenticate" /\ pc'[r] = "replay" /\ replayed[r] = {}
            /\ UNCHANGED <<asked, seen, candidate, replayed>>
        BY <2>0, <3>1 DEF Inv, TypeOK, RunsTypeOK, RunOK, CandidateOK, Authenticate,
                          GoTo, workerVars
      <4>2. candidate[r].sealedBy # 0 /\ candidate[r].identity.request = asked[r]
        BY <3>1 DEF Inv, KeyOK, Authenticate, AcceptsCandidate, IdentityOf
      <4> QED BY <2>0, <4>1, <4>2 DEF RunOK, CandidateOK
    <3>2. CASE CacheMiss(r)
      BY <3>2 DEF Inv, TypeOK, RunsTypeOK, CandidateOK, CacheMiss, GoTo
    <3>3. ASSUME NEW f \in Items, ReplayItem(r, f) PROVE CandidateOK(r)'
      <4>1. /\ pc[r] = "replay" /\ pc'[r] = "replay"
            /\ replayed'[r] = replayed[r] \cup {f}
            /\ candidate[r].proof[f] = evidence[f]
            /\ UNCHANGED <<asked, seen, candidate>>
        BY <3>3 DEF Inv, TypeOK, RunsTypeOK, ReplayItem, runVars
      <4>2. evidence[f] \in seen[r][f]
        BY <2>0, <4>1 DEF RunOK, HistoryOK, Active, Phases, WorkerPhase, SelectPhase
      <4> QED BY <2>0, <4>1, <4>2 DEF RunOK, CandidateOK
    <3> QED BY <3>1, <3>2, <3>3
  <2> QED BY <2>2, <2>3, <2>4, <2>5, <2>6 DEF RunOK
<1> QED BY <1>1, <1>2, <1>3 DEF RunsOK

LEMMA FailureAuthoritative ==
    ASSUME NEW q, NEW history, NEW o \in {Failure, Rejected}
    PROVE  Authority!Authoritative(o, q, history) /\ o \in Outcomes
BY DEF Authority!Authoritative, Authority!Failure, Authority!Rejected, Outcomes,
       Failure, Rejected

LEMMA SuccessAuthoritative ==
    ASSUME NEW q \in Requests, NEW v \in Views, NEW history,
           \A f \in Items : v[f] \in history[f]
    PROVE  /\ Authority!Authoritative(Success(q, v), q, history)
           /\ Success(q, v) \in Outcomes
<1>1. Success(q, v) \in Outcomes BY DEF Outcomes
<1>2. v \in Authority!Views /\ Authority!Witnessed(v, history)
  BY DEF Authority!Views, Views, Authority!Witnessed
<1>3. Success(q, v) = Authority!Success(q, v) BY DEF Success, Authority!Success
<1> QED BY <1>1, <1>2, <1>3 DEF Authority!Authoritative

\* A hit returns what the replayed proof entails.
LEMMA CacheHitKeeps ==
    ASSUME Inv, NEW r \in Inspections, CacheHit(r)
    PROVE  RunsOK'
<1>1. /\ RunOK(r) /\ pc[r] = "replay" /\ replayed[r] = Items
      /\ Answered(r, candidate[r].outcome, HitNotice)
  BY DEF Inv, CacheHit
<1>2. /\ FaithfulEntry(candidate[r]) /\ candidate[r].identity.request = asked[r]
      /\ \A f \in Items : candidate[r].proof[f] \in seen[r][f]
  BY <1>1 DEF RunOK, CandidateOK
<1>3. asked[r] \in Requests BY <1>1 DEF RunOK, AskedOK
<1>4. /\ Authority!Authoritative(candidate[r].outcome, asked[r], seen[r])
      /\ candidate[r].outcome \in Outcomes
  BY <1>2, <1>3, SuccessAuthoritative DEF FaithfulEntry
<1>5. HitNotice \in Messages /\ HitNotice.kind # "inspection-cache-write"
  BY DEF Messages, HitNotice
<1>6. pc[r] \in SelectPhase BY <1>1 DEF SelectPhase
<1> QED BY <1>1, <1>4, <1>5, <1>6, AnsweredKeeps DEF RunsOK

LEMMA FinishAnalysisKeeps ==
    ASSUME Inv, NEW r \in Inspections, FinishAnalysis(r)
    PROVE  RunsOK'
<1> DEFINE message == IF cacheable[r] THEN WriteReceipt(IdentityOf(r), recorder[r])
                                      ELSE NoMessage
<1>1. /\ RunOK(r) /\ pc[r] = "analyze" /\ Answered(r, Success(asked[r], view[r]), message)
      /\ \A f \in Items : view[r][f] # None
  BY DEF Inv, FinishAnalysis
<1>2. view[r] \in Views
  BY <1>1 DEF Inv, TypeOK, RunsTypeOK, Readings, Views
<1>3. asked[r] \in Requests BY <1>1 DEF RunOK, AskedOK
<1>4. /\ Authority!Authoritative(Success(asked[r], view[r]), asked[r], seen[r])
      /\ Success(asked[r], view[r]) \in Outcomes
  BY <1>1, <1>2, <1>3, SuccessAuthoritative DEF RunOK, ReadingsOK
<1>5. ASSUME cacheable[r]
      PROVE  /\ message \in Messages
             /\ FaithfulReceipt(message, Success(asked[r], view[r]), asked[r])
  <2>1. recorder[r] = view[r] BY <1>1, <1>5 DEF RunOK, ReadingsOK
  <2>2. IdentityOf(r) \in Identities /\ IdentityOf(r).request = asked[r]
    BY <1>1, <1>5, IdentityTyped
  <2>3. recorder[r] \in Readings BY DEF Inv, TypeOK, RunsTypeOK
  <2>4. Selection[ManifestView(recorder[r])] = IdentityOf(r).selection BY DEF IdentityOf
  <2>5. message = WriteReceipt(IdentityOf(r), recorder[r]) BY <1>5
  <2>6. message \in Messages BY <2>2, <2>3, <2>5 DEF Messages
  <2>7. FaithfulReceipt(message, Success(asked[r], view[r]), asked[r])
    BY <1>2, <2>1, <2>2, <2>4, <2>5 DEF FaithfulReceipt
  <2> QED BY <2>6, <2>7
<1>6. ~cacheable[r] => message \in Messages /\ message.kind # "inspection-cache-write"
  BY DEF Messages, NoMessage
<1>7. pc[r] \in SelectPhase BY <1>1 DEF SelectPhase
<1> HIDE DEF message
<1> QED BY <1>1, <1>4, <1>5, <1>6, <1>7, AnsweredKeeps DEF RunsOK

LEMMA TypedFailureKeeps ==
    ASSUME Inv, NEW r \in Inspections, SelectedNothing(r) \/ AnalysisFails(r)
    PROVE  RunsOK'
<1>0. NoMessage \in Messages /\ NoMessage.kind # "inspection-cache-write"
  BY DEF Messages, NoMessage
<1>1. CASE AnalysisFails(r)
  <2>1. pc[r] \in SelectPhase /\ Answered(r, Failure, NoMessage)
    BY <1>1 DEF AnalysisFails, SelectPhase
  <2> QED BY <1>0, <2>1, FailureAuthoritative, AnsweredKeeps DEF RunsOK
<1>2. CASE SelectedNothing(r)
  <2>1. /\ pc[r] \in SelectPhase /\ Answered(r, NotFound, NoMessage)
        /\ \A m \in Manifests : view[r][m] # None
        /\ Selection[ManifestView(view[r])] = None
    BY <1>2 DEF SelectedNothing, SelectPhase
  <2>2. RunOK(r) BY DEF Inv
  <2>3. PICK v \in Views : /\ \A f \in Items : v[f] \in seen[r][f]
                           /\ \A m \in Manifests : v[m] = view[r][m]
    <3> DEFINE filled == [f \in Items |-> IF view[r][f] = None THEN evidence[f] ELSE view[r][f]]
    <3>1. \A f \in Items : evidence[f] \in seen[r][f]
      BY <2>2, <2>1 DEF RunOK, HistoryOK, Active, Phases, WorkerPhase, SelectPhase
    <3>2. filled \in Views
      BY DEF Inv, TypeOK, RunsTypeOK, Views, Readings
    <3>3. \A f \in Items : filled[f] \in seen[r][f]
      BY <3>1, <2>2 DEF RunOK, ReadingsOK
    <3>4. \A m \in Manifests : filled[m] = view[r][m]
      BY <2>1, OutcomeAssumption
    <3> QED BY <3>2, <3>3, <3>4
  <2>4. ManifestView(v) = ManifestView(view[r]) BY <2>3 DEF ManifestView
  <2>5. ManifestView(v) = Authority!ManifestView(v)
    BY DEF ManifestView, Authority!ManifestView
  <2>6. v \in Authority!Views /\ Authority!Witnessed(v, seen[r])
    BY <2>3 DEF Authority!Views, Views, Authority!Witnessed
  <2>7. Authority!Authoritative(NotFound, asked[r], seen[r])
    BY <2>1, <2>4, <2>5, <2>6 DEF Authority!Authoritative, NotFound, Authority!NotFound
  <2>8. NotFound \in Outcomes BY DEF Outcomes
  <2> QED BY <1>0, <2>1, <2>7, <2>8, AnsweredKeeps DEF RunsOK
<1> QED BY <1>1, <1>2

\* The parent starts a second worker, without the cache.
LEMMA RetryKeeps ==
    ASSUME Inv, NEW r \in Inspections, RetryWithoutCache(r)
    PROVE  RunsOK'
<1>1. RunsTypeOK' /\ evidence' \in Views
  BY DEF Inv, TypeOK, RunsTypeOK, RetryWithoutCache, FreshWorker, GoTo, Phases,
         WorkerPhase, SelectPhase, Readings, Unread, NoReply, Messages
<1>2. ASSUME NEW s \in Inspections, s # r PROVE RunOK(s)'
  <2>1. RunOK(s) BY DEF Inv
  <2>2. SameRun(s)
    BY <1>2 DEF Inv, TypeOK, RunsTypeOK, RetryWithoutCache, FreshWorker, GoTo, SameRun
  <2> QED BY <2>1, <2>2, Frame DEF RetryWithoutCache
<1>3. RunOK(r)'
  <2>0. RunOK(r) BY DEF Inv
  <2>1. /\ pc[r] = "reply" /\ pc'[r] = "select"
        /\ view'[r] = Unread /\ recorder'[r] = Unread
        /\ candidate'[r] = None /\ replayed'[r] = {}
        /\ UNCHANGED <<evidence, asked, seen>>
    BY DEF Inv, TypeOK, RunsTypeOK, RetryWithoutCache, FreshWorker, GoTo
  <2>2. HistoryOK(r)' /\ AskedOK(r)'
    BY <2>0, <2>1 DEF RunOK, HistoryOK, AskedOK, Active, Phases, WorkerPhase, SelectPhase
  <2>3. ReadingsOK(r)' BY <2>1 DEF ReadingsOK, Unread
  <2>4. SelectedOK(r)' /\ CandidateOK(r)' BY <2>1 DEF SelectedOK, CandidateOK
  <2>5. ReplyOK(r)' BY <2>1 DEF ReplyOK, AnsweredPhase, PublishPhase
  <2> QED BY <2>2, <2>3, <2>4, <2>5 DEF RunOK
<1> QED BY <1>1, <1>2, <1>3 DEF RunsOK

\* The parent goes on to publish.
LEMMA PublishKeeps ==
    ASSUME Inv, NEW r \in Inspections, pc[r] = "reply", AcceptsReceipt(r),
           GoTo(r, "prepare"),
           UNCHANGED <<evidence, asked, seen, bypass, reply, sealKey, workerVars>>
    PROVE  RunsOK'
<1>1. RunsTypeOK' /\ evidence' \in Views
  BY DEF Inv, TypeOK, RunsTypeOK, GoTo, Phases, workerVars
<1>2. ASSUME NEW s \in Inspections, s # r PROVE RunOK(s)'
  <2>1. RunOK(s) BY DEF Inv
  <2>2. SameRun(s) BY <1>2 DEF Inv, TypeOK, RunsTypeOK, GoTo, SameRun, workerVars
  <2> QED BY <2>1, <2>2, Frame
<1>3. RunOK(r)'
  <2>0. RunOK(r) BY DEF Inv
  <2>1. /\ pc'[r] = "prepare" /\ reply[r].message.kind = "inspection-cache-write"
        /\ UNCHANGED <<evidence, asked, seen, reply, view, recorder, cacheable,
                       candidate, replayed>>
    BY DEF Inv, TypeOK, RunsTypeOK, GoTo, workerVars, AcceptsReceipt
  <2>2. HistoryOK(r)' /\ AskedOK(r)'
    BY <2>0, <2>1 DEF RunOK, HistoryOK, AskedOK, Active, Phases, WorkerPhase
  <2>3. ReadingsOK(r)' BY <2>0, <2>1 DEF RunOK, ReadingsOK
  <2>4. SelectedOK(r)' BY <2>1 DEF SelectedOK
  <2>5. CandidateOK(r)' BY <2>0, <2>1 DEF RunOK, CandidateOK
  <2>6. ReplyOK(r)' BY <2>0, <2>1 DEF RunOK, ReplyOK, AnsweredPhase
  <2> QED BY <2>2, <2>3, <2>4, <2>5, <2>6 DEF RunOK
<1> QED BY <1>1, <1>2, <1>3 DEF RunsOK

LEMMA KillKeeps ==
    ASSUME Inv, NEW r \in Inspections, Kill(r)
    PROVE  RunsOK'
<1>1. RunsTypeOK' /\ evidence' \in Views
  BY DEF Inv, TypeOK, RunsTypeOK, Kill, FreshWorker, GoTo, Phases, Readings,
         Unread, Nothing, NoReply, Messages
<1>2. ASSUME NEW s \in Inspections, s # r PROVE RunOK(s)'
  <2>1. RunOK(s) BY DEF Inv
  <2>2. SameRun(s)
    BY <1>2 DEF Inv, TypeOK, RunsTypeOK, Kill, FreshWorker, GoTo, SameRun
  <2> QED BY <2>1, <2>2, Frame DEF Kill
<1>3. RunOK(r)'
  <2>0. RunOK(r) /\ pc[r] # "idle" BY DEF Inv, Kill
  <2>1. /\ pc'[r] = "dead" /\ seen'[r] = Nothing /\ asked'[r] = asked[r]
        /\ view'[r] = Unread /\ recorder'[r] = Unread
        /\ candidate'[r] = None /\ replayed'[r] = {}
    BY DEF Inv, TypeOK, RunsTypeOK, Kill, FreshWorker, GoTo
  <2>2. HistoryOK(r)' /\ AskedOK(r)' BY <2>0, <2>1 DEF RunOK, HistoryOK, AskedOK, Active
  <2>3. ReadingsOK(r)' BY <2>1 DEF ReadingsOK, Unread
  <2>4. SelectedOK(r)' /\ CandidateOK(r)' BY <2>1 DEF SelectedOK, CandidateOK
  <2>5. ReplyOK(r)' BY <2>1 DEF ReplyOK, AnsweredPhase, PublishPhase
  <2> QED BY <2>2, <2>3, <2>4, <2>5 DEF RunOK
<1> QED BY <1>1, <1>2, <1>3 DEF RunsOK

\* An edit adds to what every inspection in progress has lived through.
LEMMA EditKeeps ==
    ASSUME Inv, NEW g \in Items, NEW v \in Versions, Edit(g, v)
    PROVE  RunsOK'
<1>1. evidence' \in Views BY DEF Inv, TypeOK, Views, Edit
<1>2. RunsTypeOK'
  <2>1. seen' \in [Inspections -> [Items -> SUBSET Versions]]
    BY DEF Inv, TypeOK, RunsTypeOK, Edit
  <2> QED BY <2>1 DEF Inv, TypeOK, RunsTypeOK, Edit, workerVars
<1>3. ASSUME NEW r \in Inspections PROVE RunOK(r)'
  <2>0. RunOK(r) BY DEF Inv
  <2>1. UNCHANGED <<asked, pc, reply, view, recorder, cacheable, candidate, replayed>>
    BY DEF Edit, workerVars
  <2>2. \A f \in Items : seen[r][f] \subseteq seen'[r][f]
    BY DEF Inv, TypeOK, RunsTypeOK, Edit
  <2>3. HistoryOK(r)'
    <3>1. pc[r] \notin Active => seen'[r] = Nothing
      BY <2>0 DEF RunOK, HistoryOK, Inv, TypeOK, RunsTypeOK, Edit
    <3>2. pc[r] \in Active => \A f \in Items : evidence'[f] \in seen'[r][f]
      <4>1. SUFFICES ASSUME pc[r] \in Active, NEW f \in Items
                     PROVE  evidence'[f] \in seen'[r][f]
        OBVIOUS
      <4>2. \A h \in Items : evidence[h] \in seen[r][h]
        BY <2>0, <4>1 DEF RunOK, HistoryOK
      <4>3. seen[r] # Nothing BY <4>2, OutcomeAssumption DEF Nothing
      <4>4. seen'[r] = [seen[r] EXCEPT ![g] = @ \cup {v}] BY <4>3 DEF Edit
      <4> QED BY <4>2, <4>4 DEF Edit, Inv, TypeOK, RunsTypeOK, Views
    <3> QED BY <2>1, <3>1, <3>2 DEF HistoryOK
  <2>4. AskedOK(r)' /\ SelectedOK(r)'
    BY <2>0, <2>1 DEF RunOK, AskedOK, SelectedOK, ManifestView
  <2>5. ReadingsOK(r)' BY <2>0, <2>1, <2>2 DEF RunOK, ReadingsOK
  <2>6. CandidateOK(r)'
    BY <2>0, <2>1, <2>2 DEF RunOK, CandidateOK, Inv, TypeOK, RunsTypeOK
  <2>7. Authority!Authoritative(reply[r].outcome, asked[r], seen[r])
           => Authority!Authoritative(reply[r].outcome, asked[r], seen'[r])
    BY <2>2 DEF Authority!Authoritative, Authority!Witnessed
  <2>8. ReplyOK(r)' BY <2>0, <2>1, <2>7 DEF RunOK, ReplyOK
  <2> QED BY <2>3, <2>4, <2>5, <2>6, <2>8 DEF RunOK
<1> QED BY <1>1, <1>2, <1>3 DEF RunsOK

LEMMA ConcludingKeeps ==
    ASSUME Inv, NEW r \in Inspections, NEW o,
           \/ pc[r] \in WorkerPhase /\ o \in {Failure, Rejected}
           \/ pc[r] \in AnsweredPhase /\ o = reply[r].outcome,
           Conclude(r, o)
    PROVE  RunsOK'
<1>1. asked[r] \in Requests
  BY DEF Inv, RunOK, AskedOK, WorkerPhase, SelectPhase, AnsweredPhase, PublishPhase
<1>2. o \in Outcomes
  BY DEF Inv, RunOK, ReplyOK, Outcomes
<1> QED BY <1>1, <1>2, ConcludeKeeps DEF RunsOK

-----------------------------------------------------------------------------
(* The directory.                                                          *)

StorageOK == StorageTypeOK /\ EntriesFaithful /\ KeyOK

LEMMA StorageUnchanged ==
    ASSUME Inv, UNCHANGED storageVars
    PROVE  StorageOK'
BY DEF Inv, TypeOK, StorageTypeOK, EntriesFaithful, KeyOK, storageVars, StorageOK

\* Removing entries keeps the others as they are.
LEMMA RemoveKeeps ==
    ASSUME Inv, NEW i, RemoveEntry(i), UNCHANGED <<dir, lock, keyFile, tmps, keysMade>>
    PROVE  StorageOK'
<1>1. entries' \in [Identities -> Entries \cup {None}]
  BY DEF Inv, TypeOK, StorageTypeOK, RemoveEntry
<1>2. \A j \in Identities : entries'[j] = entries[j] \/ entries'[j] = None
  BY DEF Inv, TypeOK, StorageTypeOK, RemoveEntry
<1>3. EntriesFaithful' BY <1>2 DEF Inv, EntriesFaithful, FaithfulEntry
<1> QED BY <1>1, <1>3 DEF Inv, TypeOK, StorageTypeOK, KeyOK, StorageOK

\* What a publisher seals is faithful.
LEMMA RenameKeeps ==
    ASSUME Inv, NEW r \in Inspections, RenameEntry(r)
    PROVE  StorageOK'
<1>1. pc[r] = "rename" /\ RunOK(r) BY DEF Inv, RenameEntry, Publishing
<1>2. FaithfulReceipt(reply[r].message, reply[r].outcome, asked[r])
  BY <1>1 DEF RunOK, ReplyOK, AnsweredPhase, PublishPhase
<1>3. PICK i \in Identities, p \in Views :
        /\ reply[r].message = WriteReceipt(i, p)
        /\ reply[r].outcome = Success(asked[r], p)
        /\ i.request = asked[r]
        /\ Selection[ManifestView(p)] = i.selection
  BY <1>2 DEF FaithfulReceipt
<1>4. reply[r].message.identity = i /\ reply[r].message.proof = p
  BY <1>3 DEF WriteReceipt
<1>5. SealedEntry(r) = [sealedBy |-> sealKey[r], identity |-> i,
                        outcome |-> reply[r].outcome, proof |-> p]
  BY <1>4 DEF SealedEntry
<1>6. FaithfulEntry(SealedEntry(r)) BY <1>3, <1>5 DEF FaithfulEntry
<1>7. SealedEntry(r) \in Entries
  <2>1. p \in Readings BY DEF Views, Readings
  <2>2. sealKey[r] \in Nat BY DEF Inv, TypeOK, RunsTypeOK
  <2>3. reply[r].outcome \in Outcomes
    BY <1>1 DEF RunOK, ReplyOK, AnsweredPhase, PublishPhase
  <2> QED BY <1>5, <2>1, <2>2, <2>3 DEF Entries
<1>8. entries' = [entries EXCEPT ![i] = SealedEntry(r)]
  BY <1>4 DEF RenameEntry
<1>9. entries' \in [Identities -> Entries \cup {None}] /\ tmps' \subseteq Inspections
  BY <1>7, <1>8 DEF Inv, TypeOK, StorageTypeOK, RenameEntry
<1>10. EntriesFaithful'
  <2>1. \A j \in Identities : entries'[j] = entries[j] \/ entries'[j] = SealedEntry(r)
    BY <1>8 DEF Inv, TypeOK, StorageTypeOK
  <2>2. ASSUME NEW j \in Identities, entries'[j] # None, entries'[j].sealedBy # 0
        PROVE  FaithfulEntry(entries'[j])
    BY <2>1, <2>2, <1>6 DEF Inv, EntriesFaithful
  <2> QED BY <2>2 DEF EntriesFaithful, FaithfulEntry
<1> QED BY <1>9, <1>10 DEF Inv, TypeOK, StorageTypeOK, KeyOK, StorageOK, RenameEntry

\* Damage and displacement leave no entry that is sealed and unfaithful.
LEMMA FaultsKeep ==
    ASSUME Inv, \/ \E i \in Identities : DamageEntry(i)
                \/ \E i, j \in Identities : MisplaceEntry(i, j)
    PROVE  StorageOK'
<1>1. CASE \E i \in Identities : DamageEntry(i)
  <2>1. PICK i \in Identities : DamageEntry(i) BY <1>1
  <2>2. entries[i] \in Entries BY <2>1 DEF DamageEntry, Inv, TypeOK, StorageTypeOK
  <2>3. [entries[i] EXCEPT !.sealedBy = 0] \in Entries BY <2>2 DEF Entries
  <2>4. entries' = [entries EXCEPT ![i] = [entries[i] EXCEPT !.sealedBy = 0]]
    BY <2>1 DEF DamageEntry
  <2>5. entries' \in [Identities -> Entries \cup {None}]
    BY <2>3, <2>4 DEF Inv, TypeOK, StorageTypeOK
  <2>6. entries'[i].sealedBy = 0
    BY <2>2, <2>4 DEF Inv, TypeOK, StorageTypeOK, Entries
  <2>7. \A j \in Identities : j # i => entries'[j] = entries[j]
    BY <2>4 DEF Inv, TypeOK, StorageTypeOK
  <2>8. EntriesFaithful' BY <2>6, <2>7 DEF Inv, EntriesFaithful, FaithfulEntry
  <2> QED BY <2>1, <2>5, <2>8
          DEF DamageEntry, Inv, TypeOK, StorageTypeOK, KeyOK, StorageOK
<1>2. CASE \E i, j \in Identities : MisplaceEntry(i, j)
  <2>1. PICK i \in Identities, j \in Identities : MisplaceEntry(i, j) BY <1>2
  <2>2. \A k \in Identities : \E l \in Identities : entries'[k] = entries[l]
    BY <2>1 DEF MisplaceEntry, Inv, TypeOK, StorageTypeOK
  <2>3. entries' \in [Identities -> Entries \cup {None}]
    BY <2>1 DEF MisplaceEntry, Inv, TypeOK, StorageTypeOK
  <2>4. EntriesFaithful'
    BY <2>2 DEF Inv, EntriesFaithful, FaithfulEntry
  <2> QED BY <2>1, <2>3, <2>4
          DEF MisplaceEntry, Inv, TypeOK, StorageTypeOK, KeyOK, StorageOK
<1> QED BY <1>1, <1>2

LEMMA WipeKeeps ==
    ASSUME Inv, WipeDirectory
    PROVE  StorageOK' /\ RunsOK' /\ wipes' \in 0 .. MaxWipes
<1>1. StorageOK'
  BY DEF WipeDirectory, NoKeyFile, StorageOK, StorageTypeOK, EntriesFaithful, KeyOK,
         Inv, TypeOK
<1>2. wipes' \in 0 .. MaxWipes
  BY CacheAssumption DEF WipeDirectory, Inv, TypeOK
<1>3. RunsTypeOK' /\ evidence' \in Views
  BY DEF WipeDirectory, Inv, TypeOK, RunsTypeOK, runVars, workerVars
<1>4. ASSUME NEW s \in Inspections PROVE RunOK(s)'
  <2>1. RunOK(s) /\ SameRun(s) BY DEF Inv, SameRun, WipeDirectory, runVars, workerVars
  <2> QED BY <2>1, Frame DEF WipeDirectory
<1> QED BY <1>1, <1>2, <1>3, <1>4 DEF RunsOK

-----------------------------------------------------------------------------
(* Every step.                                                             *)

LEMMA PublisherKeeps ==
    ASSUME Inv, NEW r \in Inspections, Publisher(r)
    PROVE  Inv'
<1> DEFINE Phase == {"prepare", "lock"} \cup PublishPhase
           Later == {"lock"} \cup PublishPhase
<1>0. ASSUME NEW from \in Phase, NEW to \in Later, Publishing(r, from, to),
             sealKey' \in [Inspections -> Nat], StorageOK'
      PROVE  Inv'
  <2>1. RunsTypeOK' /\ (\A s \in Inspections : RunOK(s)') BY <1>0, PublishingKeeps
  <2>2. evidence' \in Views /\ wipes' \in 0 .. MaxWipes
    BY <1>0 DEF Publishing, Inv, TypeOK
  <2> QED BY <2>1, <2>2, <1>0 DEF Inv, TypeOK, StorageOK
<1>1. ASSUME Conclude(r, reply[r].outcome), pc[r] \in Phase, StorageOK' PROVE Inv'
  <2>1. RunsOK' BY <1>1, ConcludingKeeps DEF AnsweredPhase
  <2> QED BY <2>1, <1>1 DEF Inv, TypeOK, StorageOK, RunsOK, Conclude
<1>2. sealKey \in [Inspections -> Nat] BY DEF Inv, TypeOK, RunsTypeOK
<1>3. CASE PrepareDirectory(r)
  <2>1. StorageOK'
    BY <1>3 DEF PrepareDirectory, Inv, TypeOK, StorageTypeOK, EntriesFaithful, KeyOK, StorageOK
  <2> QED BY <1>0, <1>2, <1>3, <2>1 DEF PrepareDirectory, Phase, Later
<1>4. CASE AcquireLock(r)
  <2>1. StorageOK'
    BY <1>4 DEF AcquireLock, Inv, TypeOK, StorageTypeOK, EntriesFaithful, KeyOK, StorageOK
  <2> QED BY <1>0, <1>2, <1>4, <2>1 DEF AcquireLock, Phase, Later, PublishPhase
<1>5. CASE SkipPublishing(r)
  BY <1>1, <1>5, StorageUnchanged DEF SkipPublishing, Phase
<1>6. CASE LockWriteFails(r)
  <2>1. StorageOK'
    BY <1>6 DEF LockWriteFails, Inv, TypeOK, StorageTypeOK, EntriesFaithful, KeyOK, StorageOK
  <2> QED BY <1>1, <1>6, <2>1 DEF LockWriteFails, Phase
<1>7. CASE CheckCapacity(r)
  BY <1>0, <1>2, <1>7, StorageUnchanged DEF CheckCapacity, Phase, Later, PublishPhase
<1>8. CASE CreateKeyFile(r)
  <2>1. sealKey' \in [Inspections -> Nat]
    BY <1>8 DEF CreateKeyFile, Inv, TypeOK, RunsTypeOK, StorageTypeOK
  <2>2. StorageOK'
    BY <1>8 DEF CreateKeyFile, Inv, TypeOK, StorageTypeOK, EntriesFaithful, KeyOK, StorageOK
  <2> QED BY <1>0, <1>8, <2>1, <2>2 DEF CreateKeyFile, Phase, Later, PublishPhase
<1>9. CASE KeepKeyFile(r)
  BY <1>0, <1>2, <1>9, StorageUnchanged DEF KeepKeyFile, Phase, Later, PublishPhase
<1>10. CASE WriteKeyFile(r)
  <2>1. keyFile' \in [state : {"absent", "torn", "whole"}, id : Nat] /\ KeyOK'
    <3>1. \/ keyFile' = keyFile
          \/ /\ keyFile.state = "torn"
             /\ keyFile' = [keyFile EXCEPT !.state = "whole"]
      BY <1>10 DEF WriteKeyFile
    <3> QED BY <3>1 DEF Inv, TypeOK, StorageTypeOK, KeyOK
  <2>2. StorageOK'
    BY <1>10, <2>1 DEF WriteKeyFile, Inv, TypeOK, StorageTypeOK, EntriesFaithful, StorageOK
  <2> QED BY <1>0, <1>2, <1>10, <2>2 DEF WriteKeyFile, Phase, Later, PublishPhase
<1>11. CASE ReadKeyFile(r)
  <2>1. PICK fits \in BOOLEAN :
          LET usable == fits /\ keyFile.state = "whole"
          IN  /\ Publishing(r, "keyread", IF usable THEN "temporary" ELSE "unlock")
              /\ sealKey' = [sealKey EXCEPT ![r] = IF usable THEN keyFile.id ELSE 0]
              /\ UNCHANGED storageVars
    BY <1>11 DEF ReadKeyFile
  <2>2. sealKey' \in [Inspections -> Nat]
    BY <2>1 DEF Inv, TypeOK, RunsTypeOK, StorageTypeOK
  <2>3. PICK to \in {"temporary", "unlock"} : Publishing(r, "keyread", to)
    BY <2>1
  <2>4. StorageOK' BY <2>1, StorageUnchanged
  <2> QED BY <1>0, <2>2, <2>3, <2>4 DEF Phase, Later, PublishPhase
<1>12. CASE WriteTemporary(r)
  <2>1. StorageOK'
    BY <1>12 DEF WriteTemporary, Inv, TypeOK, StorageTypeOK, EntriesFaithful, KeyOK, StorageOK
  <2> QED BY <1>0, <1>2, <1>12, <2>1 DEF WriteTemporary, Phase, Later, PublishPhase
<1>13. CASE TemporaryFails(r)
  BY <1>0, <1>2, <1>13, StorageUnchanged DEF TemporaryFails, Phase, Later, PublishPhase
<1>14. CASE RenameEntry(r)
  BY <1>0, <1>2, <1>14, RenameKeeps DEF RenameEntry, Phase, Later, PublishPhase
<1>15. CASE RenameFails(r)
  <2>1. StorageOK'
    BY <1>15 DEF RenameFails, Inv, TypeOK, StorageTypeOK, EntriesFaithful, KeyOK, StorageOK
  <2> QED BY <1>0, <1>2, <1>15, <2>1 DEF RenameFails, Phase, Later, PublishPhase
<1>16. CASE Unlock(r)
  <2>1. StorageOK'
    BY <1>16 DEF Unlock, Inv, TypeOK, StorageTypeOK, EntriesFaithful, KeyOK, StorageOK
  <2> QED BY <1>1, <1>16, <2>1 DEF Unlock, Phase, PublishPhase
<1> QED BY <1>3, <1>4, <1>5, <1>6, <1>7, <1>8, <1>9, <1>10, <1>11, <1>12, <1>13,
           <1>14, <1>15, <1>16 DEF Publisher

LEMMA WorkerKeeps ==
    ASSUME Inv, NEW r \in Inspections, Worker(r)
    PROVE  Inv'
<1>1. UNCHANGED storageVars /\ UNCHANGED wipes
  BY DEF Worker, ReadManifest, SelectedNothing, SelectModule, LookUp, Authenticate,
         CacheMiss, CacheHit, ReplayItem, AnalyzeItem, FinishAnalysis, AnalysisFails,
         Answered
<1>2. RunsOK'
  <2>1. ASSUME NEW f \in Items, AnalyzeItem(r, f) \/ (f \in Manifests /\ ReadManifest(r, f))
        PROVE  RunsOK'
    <3>1. /\ pc[r] \in {"select", "analyze"} /\ ReadItem(r, f)
          /\ UNCHANGED <<evidence, runVars, candidate, replayed>>
      BY <2>1 DEF AnalyzeItem, ReadManifest
    <3> QED BY <3>1, ReadItemKeeps DEF RunsOK, Inv, TypeOK
  <2> QED BY <2>1, OutcomeAssumption, TypedFailureKeeps, SelectModuleKeeps, LookUpKeeps,
             WorkerMoveKeeps, CacheHitKeeps, FinishAnalysisKeeps
          DEF Worker
<1>3. StorageOK' BY <1>1, StorageUnchanged
<1> QED BY <1>1, <1>2, <1>3 DEF Inv, TypeOK, StorageOK, RunsOK

LEMMA ParentKeeps ==
    ASSUME Inv, NEW r \in Inspections, Parent(r)
    PROVE  Inv'
<1>1. CASE WorkerFails(r)
  <2>1. RunsOK' BY <1>1, ConcludingKeeps DEF WorkerFails
  <2>2. StorageOK' BY <1>1, StorageUnchanged DEF WorkerFails
  <2> QED BY <1>1, <2>1, <2>2 DEF WorkerFails, Conclude, Inv, TypeOK, StorageOK, RunsOK
<1>2. CASE RejectAnswer(r)
  <2>1. RunsOK' BY <1>2, ConcludingKeeps DEF RejectAnswer, WorkerPhase
  <2>2. StorageOK' BY <1>2, StorageUnchanged DEF RejectAnswer
  <2> QED BY <1>2, <2>1, <2>2 DEF RejectAnswer, Conclude, Inv, TypeOK, StorageOK, RunsOK
<1>3. CASE RetryWithoutCache(r)
  <2>1. RunsOK' BY <1>3, RetryKeeps
  <2>2. StorageOK' BY <1>3, RemoveKeeps DEF RetryWithoutCache
  <2> QED BY <1>3, <2>1, <2>2 DEF RetryWithoutCache, Inv, TypeOK, StorageOK, RunsOK
<1>4. CASE AcceptAnswer(r)
  <2>1. StorageOK' BY <1>4, StorageUnchanged DEF AcceptAnswer
  <2>2. RunsOK' /\ UNCHANGED wipes
    <3>1. CASE AcceptsReceipt(r)
      BY <1>4, <3>1, PublishKeeps DEF AcceptAnswer
    <3>2. CASE ~AcceptsReceipt(r)
      BY <1>4, <3>2, ConcludingKeeps DEF AcceptAnswer, AnsweredPhase, Conclude
    <3> QED BY <3>1, <3>2
  <2> QED BY <2>1, <2>2 DEF Inv, TypeOK, StorageOK, RunsOK
<1> QED BY <1>1, <1>2, <1>3, <1>4 DEF Parent

LEMMA OthersKeep ==
    ASSUME Inv,
           \/ Environment
           \/ \E r \in Inspections : Kill(r) \/ (\E q \in Requests : Begin(r, q))
    PROVE  Inv'
<1>1. ASSUME NEW r \in Inspections, Kill(r) \/ (\E q \in Requests : Begin(r, q))
      PROVE  Inv'
  <2>1. RunsOK' BY <1>1, KillKeeps, BeginKeeps
  <2>2. UNCHANGED storageVars /\ UNCHANGED wipes BY <1>1 DEF Kill, Begin
  <2>3. StorageOK' BY <2>2, StorageUnchanged
  <2> QED BY <2>1, <2>2, <2>3 DEF Inv, TypeOK, StorageOK, RunsOK
<1>2. ASSUME NEW f \in Items, NEW v \in Versions, Edit(f, v) PROVE Inv'
  <2>1. RunsOK' BY <1>2, EditKeeps
  <2>2. StorageOK' BY <1>2, StorageUnchanged DEF Edit
  <2> QED BY <1>2, <2>1, <2>2 DEF Edit, Inv, TypeOK, StorageOK, RunsOK
<1>3. CASE WipeDirectory
  BY <1>3, WipeKeeps DEF Inv, TypeOK, StorageOK, RunsOK
<1>4. CASE \/ \E i \in Identities : DamageEntry(i)
           \/ \E i, j \in Identities : MisplaceEntry(i, j)
  <2>1. StorageOK' BY <1>4, FaultsKeep
  <2>2. UNCHANGED <<evidence, runVars, workerVars, wipes>>
    BY <1>4 DEF DamageEntry, MisplaceEntry
  <2>3. ASSUME NEW s \in Inspections PROVE RunOK(s)'
    <3>1. RunOK(s) /\ SameRun(s) BY <2>2 DEF Inv, SameRun, runVars, workerVars
    <3> QED BY <2>2, <3>1, Frame
  <2> QED BY <2>1, <2>2, <2>3
          DEF Inv, TypeOK, RunsTypeOK, StorageOK, runVars, workerVars
<1> QED BY <1>1, <1>2, <1>3, <1>4 DEF Environment

LEMMA InitInv == Init => Inv
<1> SUFFICES ASSUME Init PROVE Inv
  OBVIOUS
<1>1. RunsTypeOK /\ evidence \in Views
  BY DEF Init, RunsTypeOK, Nothing, Phases, Unread, Readings, NoReply, Messages
<1>2. StorageTypeOK /\ wipes \in 0 .. MaxWipes
  BY CacheAssumption DEF Init, StorageTypeOK, NoKeyFile
<1>3. ASSUME NEW r \in Inspections PROVE RunOK(r)
  <2>1. HistoryOK(r) /\ AskedOK(r) BY DEF Init, HistoryOK, AskedOK, Active
  <2>2. ReadingsOK(r) BY DEF Init, ReadingsOK, Unread
  <2>3. SelectedOK(r) /\ CandidateOK(r) BY DEF Init, SelectedOK, CandidateOK
  <2>4. ReplyOK(r) BY DEF Init, ReplyOK, AnsweredPhase, PublishPhase
  <2> QED BY <2>1, <2>2, <2>3, <2>4 DEF RunOK
<1>4. EntriesFaithful /\ KeyOK BY DEF Init, EntriesFaithful, KeyOK, NoKeyFile
<1> QED BY <1>1, <1>2, <1>3, <1>4 DEF Inv, TypeOK

LEMMA StutterKeeps ==
    ASSUME Inv, UNCHANGED vars
    PROVE  Inv'
<1>1. StorageOK' BY StorageUnchanged DEF vars
<1>2. ASSUME NEW s \in Inspections PROVE RunOK(s)'
  <2>1. RunOK(s) /\ SameRun(s) /\ UNCHANGED evidence
    BY DEF Inv, SameRun, vars, runVars, workerVars
  <2> QED BY <2>1, Frame
<1> QED BY <1>1, <1>2 DEF Inv, TypeOK, RunsTypeOK, StorageOK, vars, runVars, workerVars

LEMMA StepInv ==
    ASSUME Inv, [Next]_vars
    PROVE  Inv'
BY StutterKeeps, WorkerKeeps, ParentKeeps, PublisherKeeps, OthersKeep DEF Next

\* The inductive invariant holds throughout.
THEOREM Invariant == Spec => []Inv
BY InitInv, StepInv, PTL DEF Spec

\* The state keeps its shape: the type invariant of every run.
THEOREM TypeCorrect == Spec => []TypeOK
<1>1. Inv => TypeOK BY DEF Inv
<1> QED BY <1>1, Invariant, PTL

\* Whatever the interleaving of writers, readers, edits and faults, an entry that
\* can still be authenticated says what the evidence in its proof entails.
THEOREM Faithful == Spec => []EntriesFaithful
<1>1. Inv => EntriesFaithful BY DEF Inv
<1> QED BY <1>1, Invariant, PTL

-----------------------------------------------------------------------------
(* The refinement.                                                         *)

Quiet == UNCHANGED <<evidence, asked, seen>> /\ Delivered' = Delivered

\* A step that leaves the done inspections alone tells no caller anything.
LEMMA NothingDelivered ==
    ASSUME Inv, NEW r \in Inspections, pc[r] # "done", pc'[r] # "done",
           \A s \in Inspections : s # r => pc'[s] = pc[s] /\ reply'[s] = reply[s]
    PROVE  Delivered' = Delivered
BY DEF Delivered

\* Every conclusion is an answer of the abstract specification.
LEMMA ConcludeAnswers ==
    ASSUME Inv, NEW r \in Inspections, NEW o,
           \/ pc[r] \in WorkerPhase /\ o \in {Failure, Rejected}
           \/ pc[r] \in AnsweredPhase /\ o = reply[r].outcome,
           Conclude(r, o)
    PROVE  Authority!AuthorityNext
<1>1. RunOK(r) /\ pc[r] \in Active
  BY DEF Inv, Active, Phases, WorkerPhase, SelectPhase, AnsweredPhase, PublishPhase
<1>2. seen[r] # Authority!Nothing
  BY <1>1, OutcomeAssumption DEF RunOK, HistoryOK, Authority!Nothing
<1>3. Authority!Authoritative(o, asked[r], seen[r])
  BY <1>1, FailureAuthoritative DEF RunOK, ReplyOK
<1>4. o \in Authority!Outcomes
  <2>1. o \in Outcomes BY <1>1, FailureAuthoritative DEF RunOK, ReplyOK
  <2> QED BY <2>1 DEF Outcomes, Authority!Outcomes, Success, Authority!Success, Failure,
          Authority!Failure, NotFound, Authority!NotFound, Rejected, Authority!Rejected,
          Views, Authority!Views
<1>5. seen' = [seen EXCEPT ![r] = Authority!Nothing]
  BY DEF Conclude, Nothing, Authority!Nothing
<1>6. Delivered' = [Delivered EXCEPT ![r] = o]
  BY DEF Conclude, GoTo, Delivered, Inv, TypeOK, RunsTypeOK
<1>7. Authority!Answer(r, o)
  BY <1>2, <1>3, <1>5, <1>6 DEF Authority!Answer, Authority!InProgress, Conclude
<1> QED BY <1>4, <1>7 DEF Authority!AuthorityNext

LEMMA WorkerQuiet ==
    ASSUME Inv, NEW r \in Inspections, Worker(r)
    PROVE  Quiet
<1>1. /\ UNCHANGED <<evidence, asked, seen>>
      /\ pc[r] # "done" /\ pc'[r] # "done"
      /\ \A s \in Inspections : s # r => pc'[s] = pc[s] /\ reply'[s] = reply[s]
  BY DEF Worker, ReadManifest, SelectedNothing, SelectModule, LookUp, Authenticate,
         CacheMiss, CacheHit, ReplayItem, AnalyzeItem, FinishAnalysis, AnalysisFails,
         Answered, GoTo, runVars, Inv, TypeOK, RunsTypeOK
<1> QED BY <1>1, NothingDelivered DEF Quiet

LEMMA ParentAnswers ==
    ASSUME Inv, NEW r \in Inspections, Parent(r)
    PROVE  Authority!AuthorityNext \/ Quiet
<1>1. CASE WorkerFails(r) BY <1>1, ConcludeAnswers DEF WorkerFails
<1>2. CASE RejectAnswer(r) BY <1>2, ConcludeAnswers DEF RejectAnswer, WorkerPhase
<1>3. CASE RetryWithoutCache(r)
  <2>1. /\ UNCHANGED <<evidence, asked, seen>>
        /\ pc[r] # "done" /\ pc'[r] # "done"
        /\ \A s \in Inspections : s # r => pc'[s] = pc[s] /\ reply'[s] = reply[s]
    BY <1>3 DEF RetryWithoutCache, GoTo, Inv, TypeOK, RunsTypeOK
  <2> QED BY <2>1, NothingDelivered DEF Quiet
<1>4. CASE AcceptAnswer(r)
  <2>1. CASE AcceptsReceipt(r)
    <3>1. /\ UNCHANGED <<evidence, asked, seen>>
          /\ pc[r] # "done" /\ pc'[r] # "done"
          /\ \A s \in Inspections : s # r => pc'[s] = pc[s] /\ reply'[s] = reply[s]
      BY <1>4, <2>1 DEF AcceptAnswer, GoTo, Inv, TypeOK, RunsTypeOK
    <3> QED BY <3>1, NothingDelivered DEF Quiet
  <2>2. CASE ~AcceptsReceipt(r)
    BY <1>4, <2>2, ConcludeAnswers DEF AcceptAnswer, AnsweredPhase
  <2> QED BY <2>1, <2>2
<1> QED BY <1>1, <1>2, <1>3, <1>4 DEF Parent

LEMMA PublisherAnswers ==
    ASSUME Inv, NEW r \in Inspections, Publisher(r)
    PROVE  Authority!AuthorityNext \/ Quiet
<1>1. CASE SkipPublishing(r) \/ LockWriteFails(r) \/ Unlock(r)
  BY <1>1, ConcludeAnswers
  DEF SkipPublishing, LockWriteFails, Unlock, AnsweredPhase, PublishPhase
<1>2. ASSUME NEW from \in {"prepare", "lock"} \cup PublishPhase,
             NEW to \in {"lock"} \cup PublishPhase, Publishing(r, from, to)
      PROVE  Quiet
  <2>1. /\ UNCHANGED <<evidence, asked, seen>>
        /\ pc[r] # "done" /\ pc'[r] # "done"
        /\ \A s \in Inspections : s # r => pc'[s] = pc[s] /\ reply'[s] = reply[s]
    BY <1>2 DEF Publishing, GoTo, Inv, TypeOK, RunsTypeOK, PublishPhase
  <2> QED BY <2>1, NothingDelivered DEF Quiet
<1>3. ASSUME ~(SkipPublishing(r) \/ LockWriteFails(r) \/ Unlock(r))
      PROVE  \E from \in {"prepare", "lock"} \cup PublishPhase,
                to \in {"lock"} \cup PublishPhase : Publishing(r, from, to)
  BY <1>3
  DEF Publisher, PrepareDirectory, AcquireLock, CheckCapacity, CreateKeyFile,
      KeepKeyFile, WriteKeyFile, ReadKeyFile, WriteTemporary, TemporaryFails,
      RenameEntry, RenameFails, PublishPhase
<1> QED BY <1>1, <1>2, <1>3

LEMMA OthersAnswer ==
    ASSUME Inv,
           \/ Environment
           \/ \E r \in Inspections : Kill(r) \/ (\E q \in Requests : Begin(r, q))
    PROVE  Authority!AuthorityNext \/ Quiet
<1>1. ASSUME NEW r \in Inspections, NEW q \in Requests, Begin(r, q)
      PROVE  Authority!AuthorityNext
  <2>1. asked[r] = None BY <1>1 DEF Begin, Inv, RunOK, AskedOK
  <2>2. seen' = [seen EXCEPT ![r] = Authority!Now] BY <1>1 DEF Begin, Authority!Now
  <2>3. Delivered' = Delivered
    BY <1>1 DEF Begin, GoTo, Delivered, Inv, TypeOK, RunsTypeOK
  <2>4. Authority!Ask(r, q) BY <1>1, <2>1, <2>2, <2>3 DEF Authority!Ask, Begin
  <2> QED BY <2>4 DEF Authority!AuthorityNext
<1>2. ASSUME NEW r \in Inspections, Kill(r) PROVE Authority!AuthorityNext
  <2>1. RunOK(r) /\ pc[r] \in Active BY <1>2 DEF Inv, Kill, Active, TypeOK, RunsTypeOK
  <2>2. seen[r] # Authority!Nothing
    BY <2>1, OutcomeAssumption DEF RunOK, HistoryOK, Authority!Nothing
  <2>3. seen' = [seen EXCEPT ![r] = Authority!Nothing]
    BY <1>2 DEF Kill, Nothing, Authority!Nothing
  <2>4. Delivered' = Delivered
    BY <1>2 DEF Kill, GoTo, Delivered, Inv, TypeOK, RunsTypeOK
  <2>5. Authority!Abandon(r)
    BY <1>2, <2>2, <2>3, <2>4 DEF Authority!Abandon, Authority!InProgress, Kill
  <2> QED BY <2>5 DEF Authority!AuthorityNext
<1>3. ASSUME NEW f \in Items, NEW v \in Versions, Edit(f, v)
      PROVE  Authority!AuthorityNext
  <2>1. Delivered' = Delivered BY <1>3 DEF Edit, Delivered
  <2>2. Authority!Edit(f, v)
    BY <1>3, <2>1 DEF Authority!Edit, Edit, Authority!InProgress, Nothing,
                      Authority!Nothing
  <2> QED BY <2>2 DEF Authority!AuthorityNext
<1>4. ASSUME \/ WipeDirectory \/ \E i \in Identities : DamageEntry(i)
             \/ \E i, j \in Identities : MisplaceEntry(i, j)
      PROVE  Quiet
  BY <1>4 DEF WipeDirectory, DamageEntry, MisplaceEntry, Quiet, Delivered, runVars
<1> QED BY <1>1, <1>2, <1>3, <1>4 DEF Environment

LEMMA StepAuthority ==
    ASSUME Inv, [Next]_vars
    PROVE  [Authority!AuthorityNext]_Authority!authorityVars
<1>1. Authority!AuthorityNext \/ Quiet
  <2>1. CASE Next
    BY <2>1, WorkerQuiet, ParentAnswers, PublisherAnswers, OthersAnswer DEF Next
  <2>2. CASE UNCHANGED vars
    BY <2>2 DEF vars, runVars, Quiet, Delivered
  <2> QED BY <2>1, <2>2
<1> QED BY <1>1 DEF Quiet, Authority!authorityVars

\* The cache is invisible: every behaviour of the inspections and their shared
\* cache is a behaviour of inspections without one.
THEOREM Invisible == Spec => CacheIsInvisible
<1>1. Init => Authority!AuthorityInit
  BY DEF Init, Authority!AuthorityInit, Views, Authority!Views, Nothing,
         Authority!Nothing, Delivered
<1> QED BY <1>1, Invariant, StepAuthority, PTL
        DEF Spec, CacheIsInvisible, Authority!AuthoritySpec

-----------------------------------------------------------------------------
(***************************************************************************)
(* What the lock file and the integrity key guarantee between inspections, *)
(* for any number of them, while nobody deletes the cache directory: one   *)
(* writer at a time, and no entry sealed by a key that was replaced.       *)
(***************************************************************************)


\* Who may touch what: the step of one inspection leaves the others where they are.
LEMMA OneMoves ==
    ASSUME Inv, NEW r \in Inspections,
           \/ Worker(r) \/ Parent(r) \/ Publisher(r) \/ Kill(r)
           \/ \E q \in Requests : Begin(r, q)
    PROVE  \A s \in Inspections : s # r => pc'[s] = pc[s] /\ sealKey'[s] = sealKey[s]
<1>0. /\ pc \in [Inspections -> Phases] /\ sealKey \in [Inspections -> Nat]
  BY DEF Inv, TypeOK, RunsTypeOK
<1>1. CASE Worker(r)
  BY <1>0, <1>1
  DEF Worker, ReadManifest, SelectedNothing, SelectModule, LookUp, Authenticate,
      CacheMiss, CacheHit, ReplayItem, AnalyzeItem, FinishAnalysis, AnalysisFails,
      Answered, GoTo, runVars
<1>2. CASE Parent(r)
  BY <1>0, <1>2
  DEF Parent, WorkerFails, RetryWithoutCache, RejectAnswer, AcceptAnswer, Conclude, GoTo
<1>3. CASE Publisher(r)
  BY <1>0, <1>3
  DEF Publisher, PrepareDirectory, AcquireLock, SkipPublishing, LockWriteFails,
      CheckCapacity, CreateKeyFile, KeepKeyFile, WriteKeyFile, ReadKeyFile,
      WriteTemporary, TemporaryFails, RenameEntry, RenameFails, Unlock, Conclude,
      Publishing, GoTo
<1>4. CASE Kill(r) \/ \E q \in Requests : Begin(r, q)
  BY <1>0, <1>4 DEF Kill, Begin, GoTo
<1> QED BY <1>1, <1>2, <1>3, <1>4

\* A directory that was never deleted was not deleted before.
LEMMA NoWipe ==
    ASSUME Inv, [Next]_vars, wipes' = 0
    PROVE  wipes = 0 /\ ~WipeDirectory
<1>1. ~WipeDirectory BY CacheAssumption DEF WipeDirectory, Inv, TypeOK
<1>2. WipeDirectory \/ wipes' = wipes
  BY DEF Next, Worker, Parent, Publisher, Environment, Kill, Begin, ReadManifest,
      SelectedNothing, SelectModule, LookUp, Authenticate, CacheMiss, CacheHit,
      ReplayItem, AnalyzeItem, FinishAnalysis, AnalysisFails, Answered, WorkerFails,
      RetryWithoutCache, RejectAnswer, AcceptAnswer, PrepareDirectory, AcquireLock,
      SkipPublishing, LockWriteFails, CheckCapacity, CreateKeyFile, KeepKeyFile,
      WriteKeyFile, ReadKeyFile, WriteTemporary, TemporaryFails, RenameEntry,
      RenameFails, Unlock, Conclude, Publishing, Edit, WipeDirectory, DamageEntry,
      MisplaceEntry, vars
<1> QED BY <1>1, <1>2

\* Steps outside the directory's files: the lock, the key and the entries stay,
\* except that a retry removes an entry.
LEMMA FilesStay ==
    ASSUME Inv, NEW r \in Inspections,
           \/ Worker(r) \/ Parent(r) \/ Kill(r) \/ \E q \in Requests : Begin(r, q)
    PROVE  /\ UNCHANGED <<lock, keyFile, wipes>>
           /\ \A i \in Identities : entries'[i] \in {entries[i], None}
           /\ pc'[r] \notin PublishPhase
<1>0. /\ pc \in [Inspections -> Phases] /\ entries \in [Identities -> Entries \cup {None}]
  BY DEF Inv, TypeOK, RunsTypeOK, StorageTypeOK
<1>1. CASE Worker(r)
  BY <1>0, <1>1
  DEF Worker, ReadManifest, SelectedNothing, SelectModule, LookUp, Authenticate,
      CacheMiss, CacheHit, ReplayItem, AnalyzeItem, FinishAnalysis, AnalysisFails,
      Answered, GoTo, runVars, storageVars, PublishPhase
<1>2. CASE RetryWithoutCache(r)
  BY <1>0, <1>2 DEF RetryWithoutCache, RemoveEntry, GoTo, PublishPhase
<1>3. CASE WorkerFails(r) \/ RejectAnswer(r) \/ AcceptAnswer(r)
  BY <1>0, <1>3
  DEF WorkerFails, RejectAnswer, AcceptAnswer, Conclude, GoTo, storageVars, PublishPhase
<1>4. CASE Kill(r) \/ \E q \in Requests : Begin(r, q)
  BY <1>0, <1>4 DEF Kill, Begin, GoTo, storageVars, PublishPhase
<1> QED BY <1>1, <1>2, <1>3, <1>4 DEF Parent

LEMMA EnvironmentStays ==
    ASSUME Environment, ~WipeDirectory
    PROVE  UNCHANGED <<lock, keyFile, wipes, pc, sealKey>>
BY DEF Environment, Edit, DamageEntry, MisplaceEntry, runVars, storageVars

-----------------------------------------------------------------------------
LEMMA ExclusionStep ==
    ASSUME Inv, WriterExclusion, [Next]_vars
    PROVE  WriterExclusion'
<1> SUFFICES ASSUME wipes' = 0, NEW s \in Inspections, pc'[s] \in PublishPhase
             PROVE  lock' = s
  BY DEF WriterExclusion
<1>0. wipes \in Nat /\ pc \in [Inspections -> Phases] /\ None \notin Inspections
  BY CacheAssumption DEF Inv, TypeOK, RunsTypeOK
<1>1. ASSUME NEW r \in Inspections, Publisher(r) PROVE lock' = s
  <2>1. wipes = 0 BY <1>1, NoWipe
  <2>2. \A t \in Inspections : pc[t] \in PublishPhase => lock = t
    BY <2>1 DEF WriterExclusion
  <2>3. s # r => pc'[s] = pc[s] BY <1>1, OneMoves
  <2>4. CASE AcquireLock(r)
    BY <1>0, <2>2, <2>3, <2>4 DEF AcquireLock
  <2>5. CASE LockWriteFails(r)
    BY <1>0, <2>2, <2>3, <2>5 DEF LockWriteFails, Conclude, GoTo, PublishPhase
  <2>6. CASE PrepareDirectory(r) \/ SkipPublishing(r)
    BY <1>0, <2>2, <2>3, <2>6
    DEF PrepareDirectory, SkipPublishing, Publishing, Conclude, GoTo, PublishPhase, storageVars
  <2>7. CASE Unlock(r)
    BY <1>0, <2>2, <2>3, <2>7 DEF Unlock, Conclude, GoTo, PublishPhase
  <2>8. CASE CheckCapacity(r) \/ CreateKeyFile(r) \/ KeepKeyFile(r) \/ WriteKeyFile(r)
               \/ ReadKeyFile(r) \/ WriteTemporary(r) \/ TemporaryFails(r)
               \/ RenameEntry(r) \/ RenameFails(r)
    <3>1. pc[r] \in PublishPhase /\ lock' = lock
      BY <2>8
      DEF CheckCapacity, CreateKeyFile, KeepKeyFile, WriteKeyFile, ReadKeyFile,
          WriteTemporary, TemporaryFails, RenameEntry, RenameFails, Publishing,
          PublishPhase, storageVars
    <3> QED BY <2>2, <2>3, <3>1
  <2> QED BY <1>1, <2>4, <2>5, <2>6, <2>7, <2>8 DEF Publisher
<1>2. ASSUME NEW r \in Inspections,
             \/ Worker(r) \/ Parent(r) \/ Kill(r) \/ \E q \in Requests : Begin(r, q)
      PROVE  lock' = s
  BY <1>2, OneMoves, FilesStay DEF WriterExclusion
<1>3. CASE Environment
  <2>1. ~WipeDirectory BY NoWipe
  <2> QED BY <1>3, <2>1, EnvironmentStays DEF WriterExclusion
<1>4. CASE UNCHANGED vars
  BY <1>4 DEF vars, runVars, storageVars, WriterExclusion
<1> QED BY <1>1, <1>2, <1>3, <1>4 DEF Next

\* The lock file excludes other writers.
THEOREM Exclusion == Spec => []WriterExclusion
<1>1. Init => WriterExclusion BY DEF Init, WriterExclusion, PublishPhase
<1> QED BY <1>1, Invariant, ExclusionStep, PTL DEF Spec

-----------------------------------------------------------------------------
\* The key a writer is about to seal with is the one in the directory.
SealAgreed ==
    wipes = 0 =>
        \A r \in Inspections :
            pc[r] \in {"temporary", "rename"} =>
                keyFile = [state |-> "whole", id |-> sealKey[r]]

\* A whole key stays as it is until the directory is deleted.
LEMMA WholeKeyStays ==
    ASSUME Inv, [Next]_vars, ~WipeDirectory, keyFile.state = "whole"
    PROVE  keyFile' = keyFile
<1>1. ASSUME NEW r \in Inspections, Publisher(r) PROVE keyFile' = keyFile
  BY <1>1
  DEF Publisher, PrepareDirectory, AcquireLock, SkipPublishing, LockWriteFails,
      CheckCapacity, CreateKeyFile, KeepKeyFile, WriteKeyFile, ReadKeyFile,
      WriteTemporary, TemporaryFails, RenameEntry, RenameFails, Unlock, storageVars
<1>2. ASSUME NEW r \in Inspections,
             \/ Worker(r) \/ Parent(r) \/ Kill(r) \/ \E q \in Requests : Begin(r, q)
      PROVE  keyFile' = keyFile
  BY <1>2, FilesStay
<1>3. CASE Environment BY <1>3, EnvironmentStays
<1>4. CASE UNCHANGED vars BY <1>4 DEF vars, storageVars
<1> QED BY <1>1, <1>2, <1>3, <1>4 DEF Next

\* Every entry after a step was there before, in some place, was damaged, or is
\* the one a writer has just renamed.
LEMMA EntryOrigin ==
    ASSUME Inv, [Next]_vars, NEW i \in Identities, entries'[i] # None,
           entries'[i].sealedBy # 0
    PROVE  \/ \E j \in Identities : entries'[i] = entries[j]
           \/ \E r \in Inspections : /\ pc[r] = "rename"
                                     /\ entries'[i].sealedBy = sealKey[r]
<1>0. entries \in [Identities -> Entries \cup {None}] BY DEF Inv, TypeOK, StorageTypeOK
<1>1. ASSUME NEW r \in Inspections, RenameEntry(r)
      PROVE  entries'[i] = entries[i] \/ (pc[r] = "rename" /\ entries'[i].sealedBy = sealKey[r])
  BY <1>0, <1>1 DEF RenameEntry, Publishing, SealedEntry
<1>2. ASSUME NEW r \in Inspections, Publisher(r), ~RenameEntry(r) PROVE entries' = entries
  BY <1>2
  DEF Publisher, PrepareDirectory, AcquireLock, SkipPublishing, LockWriteFails,
      CheckCapacity, CreateKeyFile, KeepKeyFile, WriteKeyFile, ReadKeyFile,
      WriteTemporary, TemporaryFails, RenameFails, Unlock, storageVars
<1>3. ASSUME NEW r \in Inspections,
             \/ Worker(r) \/ Parent(r) \/ Kill(r) \/ \E q \in Requests : Begin(r, q)
      PROVE  entries'[i] = entries[i]
  BY <1>3, FilesStay
<1>4. ASSUME NEW k \in Identities, DamageEntry(k) PROVE entries'[i] = entries[i]
  <2>1. entries[k] \in Entries BY <1>0, <1>4 DEF DamageEntry
  <2>2. entries' = [entries EXCEPT ![k] = [entries[k] EXCEPT !.sealedBy = 0]]
    BY <1>4 DEF DamageEntry
  <2>3. entries'[k].sealedBy = 0 BY <1>0, <2>1, <2>2 DEF Entries
  <2> QED BY <1>0, <2>2, <2>3
<1>5. ASSUME NEW k \in Identities, NEW l \in Identities, MisplaceEntry(k, l)
      PROVE  \E j \in Identities : entries'[i] = entries[j]
  BY <1>0, <1>5 DEF MisplaceEntry
<1>6. CASE WipeDirectory BY <1>6 DEF WipeDirectory
<1>7. CASE \E f \in Items, v \in Versions : Edit(f, v)
  BY <1>7 DEF Edit, storageVars
<1>8. CASE UNCHANGED vars BY <1>8 DEF vars, storageVars
<1> QED BY <1>1, <1>2, <1>3, <1>4, <1>5, <1>6, <1>7, <1>8 DEF Next, Environment

LEMMA SealStep ==
    ASSUME Inv, SealAgreed, [Next]_vars
    PROVE  SealAgreed'
<1> SUFFICES ASSUME wipes' = 0, NEW s \in Inspections, pc'[s] \in {"temporary", "rename"}
             PROVE  keyFile' = [state |-> "whole", id |-> sealKey'[s]]
  BY DEF SealAgreed
<1>0. /\ wipes \in Nat /\ pc \in [Inspections -> Phases]
      /\ sealKey \in [Inspections -> Nat]
      /\ keyFile \in [state : {"absent", "torn", "whole"}, id : Nat]
  BY CacheAssumption DEF Inv, TypeOK, RunsTypeOK, StorageTypeOK
<1>1. ~WipeDirectory BY NoWipe
<1>2. wipes = 0 BY NoWipe
<1>3. ASSUME pc[s] \in {"temporary", "rename"}, sealKey'[s] = sealKey[s]
      PROVE  keyFile' = [state |-> "whole", id |-> sealKey'[s]]
  BY <1>1, <1>2, <1>3, WholeKeyStays DEF SealAgreed
<1>4. ASSUME NEW r \in Inspections, Publisher(r)
      PROVE  keyFile' = [state |-> "whole", id |-> sealKey'[s]]
  <2>1. CASE r # s BY <1>3, <1>4, <2>1, OneMoves
  <2>2. CASE r = s /\ ReadKeyFile(s)
    BY <1>0, <2>2 DEF ReadKeyFile, Publishing, GoTo, storageVars
  <2>3. CASE r = s /\ ~ReadKeyFile(s)
    <3>1. pc[s] \in {"temporary", "rename"} /\ sealKey'[s] = sealKey[s]
      BY <1>0, <1>4, <2>3
      DEF Publisher, PrepareDirectory, AcquireLock, SkipPublishing, LockWriteFails,
          CheckCapacity, CreateKeyFile, KeepKeyFile, WriteKeyFile, WriteTemporary,
          TemporaryFails, RenameEntry, RenameFails, Unlock, Conclude, Publishing, GoTo
    <3> QED BY <1>3, <3>1
  <2> QED BY <2>1, <2>2, <2>3
<1>5. ASSUME NEW r \in Inspections,
             \/ Worker(r) \/ Parent(r) \/ Kill(r) \/ \E q \in Requests : Begin(r, q)
      PROVE  keyFile' = [state |-> "whole", id |-> sealKey'[s]]
  <2>1. r # s BY <1>5, FilesStay DEF PublishPhase
  <2> QED BY <1>3, <1>5, <2>1, OneMoves
<1>6. CASE Environment BY <1>1, <1>3, <1>6, EnvironmentStays
<1>7. CASE UNCHANGED vars BY <1>3, <1>7 DEF vars, runVars
<1> QED BY <1>4, <1>5, <1>6, <1>7 DEF Next

LEMMA ReadableStep ==
    ASSUME Inv, SealAgreed, EntriesReadable, [Next]_vars
    PROVE  EntriesReadable'
<1> SUFFICES ASSUME wipes' = 0, NEW i \in Identities, entries'[i] # None,
                    entries'[i].sealedBy # 0
             PROVE  keyFile' = [state |-> "whole", id |-> entries'[i].sealedBy]
  BY DEF EntriesReadable
<1>1. ~WipeDirectory /\ wipes = 0 BY NoWipe
<1>2. keyFile = [state |-> "whole", id |-> entries'[i].sealedBy]
  <2>1. CASE \E j \in Identities : entries'[i] = entries[j]
    BY <1>1, <2>1 DEF EntriesReadable
  <2>2. CASE \E r \in Inspections : pc[r] = "rename" /\ entries'[i].sealedBy = sealKey[r]
    BY <1>1, <2>2 DEF SealAgreed
  <2> QED BY <2>1, <2>2, EntryOrigin
<1> QED BY <1>1, <1>2, WholeKeyStays

\* No publication is wasted on a replaced key.
THEOREM Readable == Spec => []EntriesReadable
<1>1. Init => SealAgreed /\ EntriesReadable BY DEF Init, SealAgreed, EntriesReadable
<1> QED BY <1>1, Invariant, SealStep, ReadableStep, PTL DEF Spec

-----------------------------------------------------------------------------
(* The directory stays bounded.                                            *)

\* The identity that a publication is for.
Target(r) == reply[r].message.identity

\* A receipt is filed under the identity that the inspection determined.
Filing ==
    \A r \in Inspections :
        pc[r] \in AnsweredPhase /\ reply[r].message.kind = "inspection-cache-write"
            => Target(r) = IdentityOf(r) /\ Target(r) \in Identities

\* The step of one inspection leaves what the others asked and found.
LEMMA OthersKept ==
    ASSUME Inv, NEW r \in Inspections,
           \/ Worker(r) \/ Parent(r) \/ Publisher(r) \/ Kill(r)
           \/ \E q \in Requests : Begin(r, q)
    PROVE  \A s \in Inspections : s # r =>
              /\ pc'[s] = pc[s] /\ reply'[s] = reply[s]
              /\ asked'[s] = asked[s] /\ recorder'[s] = recorder[s]
<1>0. /\ pc \in [Inspections -> Phases] /\ asked \in [Inspections -> Requests \cup {None}]
      /\ reply \in [Inspections -> [outcome : Outcomes \cup {None}, message : Messages]]
      /\ recorder \in [Inspections -> Readings]
  BY DEF Inv, TypeOK, RunsTypeOK
<1>1. CASE Worker(r)
  BY <1>0, <1>1
  DEF Worker, ReadManifest, SelectedNothing, SelectModule, LookUp, Authenticate,
      CacheMiss, CacheHit, ReplayItem, AnalyzeItem, FinishAnalysis, AnalysisFails,
      Answered, GoTo, ReadItem, runVars, workerVars
<1>2. CASE Parent(r)
  BY <1>0, <1>2
  DEF Parent, WorkerFails, RetryWithoutCache, RejectAnswer, AcceptAnswer, Conclude, GoTo,
      FreshWorker, workerVars
<1>3. CASE Publisher(r)
  BY <1>0, <1>3
  DEF Publisher, PrepareDirectory, AcquireLock, SkipPublishing, LockWriteFails,
      CheckCapacity, CreateKeyFile, KeepKeyFile, WriteKeyFile, ReadKeyFile,
      WriteTemporary, TemporaryFails, RenameEntry, RenameFails, Unlock, Conclude,
      Publishing, GoTo, FreshWorker, workerVars
<1>4. CASE Kill(r) \/ \E q \in Requests : Begin(r, q)
  BY <1>0, <1>4 DEF Kill, Begin, GoTo, FreshWorker, workerVars
<1> QED BY <1>1, <1>2, <1>3, <1>4

\* Only a finished analysis gives a receipt.
LEMMA ReceiptMade ==
    ASSUME Inv, NEW r \in Inspections, Worker(r), pc'[r] \in AnsweredPhase,
           reply'[r].message.kind = "inspection-cache-write"
    PROVE  FinishAnalysis(r) /\ cacheable[r] /\ reply'[r].message = WriteReceipt(IdentityOf(r), recorder[r])
<1>0. /\ pc \in [Inspections -> Phases]
      /\ reply \in [Inspections -> [outcome : Outcomes \cup {None}, message : Messages]]
  BY DEF Inv, TypeOK, RunsTypeOK
<1>1. \/ \E m \in Manifests : ReadManifest(r, m)
      \/ SelectModule(r) \/ LookUp(r) \/ Authenticate(r) \/ CacheMiss(r)
      \/ \E f \in Items : ReplayItem(r, f) \/ AnalyzeItem(r, f)
      => pc'[r] \notin AnsweredPhase
  BY <1>0
  DEF ReadManifest, SelectModule, LookUp, Authenticate, CacheMiss, ReplayItem, AnalyzeItem,
      GoTo, runVars, AnsweredPhase, PublishPhase
<1>2. SelectedNothing(r) \/ CacheHit(r) \/ AnalysisFails(r)
      => reply'[r].message \in {NoMessage, HitNotice}
  BY <1>0 DEF SelectedNothing, CacheHit, AnalysisFails, Answered
<1>3. FinishAnalysis(r)
  BY <1>1, <1>2 DEF Worker, NoMessage, HitNotice
<1>4. reply'[r].message = IF cacheable[r] THEN WriteReceipt(IdentityOf(r), recorder[r])
                                          ELSE NoMessage
  BY <1>0, <1>3 DEF FinishAnalysis, Answered
<1> QED BY <1>3, <1>4 DEF NoMessage

LEMMA FilingStep ==
    ASSUME Inv, Filing, [Next]_vars
    PROVE  Filing'
<1> SUFFICES ASSUME NEW s \in Inspections, pc'[s] \in AnsweredPhase,
                    reply'[s].message.kind = "inspection-cache-write"
             PROVE  Target(s)' = IdentityOf(s)' /\ Target(s)' \in Identities
  BY DEF Filing
<1>0. /\ pc \in [Inspections -> Phases]
      /\ reply \in [Inspections -> [outcome : Outcomes \cup {None}, message : Messages]]
  BY DEF Inv, TypeOK, RunsTypeOK
<1>1. ASSUME pc[s] \in AnsweredPhase, reply'[s] = reply[s], asked'[s] = asked[s],
             recorder'[s] = recorder[s]
      PROVE  Target(s)' = IdentityOf(s)' /\ Target(s)' \in Identities
  <2>1. IdentityOf(s)' = IdentityOf(s) /\ Target(s)' = Target(s)
    BY <1>1 DEF IdentityOf, Target, ManifestView
  <2> QED BY <1>1, <2>1 DEF Filing
<1>2. ASSUME NEW r \in Inspections, r # s,
             \/ Worker(r) \/ Parent(r) \/ Publisher(r) \/ Kill(r)
             \/ \E q \in Requests : Begin(r, q)
      PROVE  Target(s)' = IdentityOf(s)' /\ Target(s)' \in Identities
  <2>1. pc'[s] = pc[s] /\ reply'[s] = reply[s] /\ asked'[s] = asked[s] /\ recorder'[s] = recorder[s]
    BY <1>2, OthersKept
  <2> QED BY <1>1, <2>1
<1>3. CASE Worker(s)
  <2>1. FinishAnalysis(s) /\ cacheable[s] /\ reply'[s].message = WriteReceipt(IdentityOf(s), recorder[s])
    BY <1>3, ReceiptMade
  <2>2. IdentityOf(s)' = IdentityOf(s) /\ Target(s)' = IdentityOf(s)
    BY <2>1 DEF FinishAnalysis, Answered, IdentityOf, Target, WriteReceipt, workerVars, ManifestView
  <2>3. IdentityOf(s) \in Identities
    BY <2>1, IdentityTyped DEF FinishAnalysis
  <2> QED BY <2>2, <2>3
<1>4. CASE Parent(s)
  <2>1. AcceptAnswer(s) /\ pc'[s] = "prepare"
    BY <1>0, <1>4
    DEF Parent, WorkerFails, RetryWithoutCache, RejectAnswer, AcceptAnswer, Conclude, GoTo,
        AnsweredPhase, PublishPhase
  <2>2. pc[s] = "reply" /\ UNCHANGED <<asked, reply, recorder>>
    BY <1>0, <2>1 DEF AcceptAnswer, Conclude, GoTo, workerVars
  <2> QED BY <1>1, <2>2 DEF AnsweredPhase
<1>5. CASE Publisher(s)
  <2>1. pc[s] \in AnsweredPhase /\ (pc'[s] = "done" \/ UNCHANGED <<asked, reply, recorder>>)
    BY <1>0, <1>5
    DEF Publisher, PrepareDirectory, AcquireLock, SkipPublishing, LockWriteFails,
        CheckCapacity, CreateKeyFile, KeepKeyFile, WriteKeyFile, ReadKeyFile,
        WriteTemporary, TemporaryFails, RenameEntry, RenameFails, Unlock, Conclude,
        Publishing, GoTo, workerVars, AnsweredPhase, PublishPhase
  <2> QED BY <1>1, <2>1 DEF AnsweredPhase, PublishPhase
<1>6. CASE Kill(s) \/ \E q \in Requests : Begin(s, q)
  BY <1>0, <1>6 DEF Kill, Begin, GoTo, AnsweredPhase, PublishPhase
<1>7. CASE Environment \/ UNCHANGED vars
  <2>1. UNCHANGED <<pc, asked, reply, recorder>>
    BY <1>7 DEF Environment, Edit, WipeDirectory, DamageEntry, MisplaceEntry, vars, runVars,
                workerVars
  <2> QED BY <1>1, <2>1
<1> QED BY <1>2, <1>3, <1>4, <1>5, <1>6, <1>7 DEF Next

\* The identities that have an entry file.
Filed == {i \in Identities : entries[i] # None}

KeyFiles == IF keyFile.state = "absent" THEN 0 ELSE 1

\* The phases of a writer for which the count of the directory was in order.
Reserved == {"key", "keywrite", "keyread", "temporary", "rename"}

\* There is room for the lock file and for one temporary file, also when the
\* entry of the writer that has counted is made.  Only the holder of the lock
\* has a temporary file, and there are no entries without a key.
HasRoom ==
    /\ IsFiniteSet(Filed)
    /\ keyFile.state = "absent" => Filed = {}
    /\ Cardinality(Filed) + KeyFiles < MaxDirectoryEntries
    /\ \A r \in Inspections : pc[r] \in Reserved =>
          Cardinality(Filed \cup {Target(r)}) + KeyFiles < MaxDirectoryEntries
    /\ \A r \in tmps : lock = r /\ pc[r] \in {"rename", "dead"}

Room == wipes = 0 => HasRoom

\* Nothing is added: no entry, no key, no temporary file, no writer that counts.
LEMMA NothingAdded ==
    ASSUME Inv, HasRoom,
           Filed' \subseteq Filed, keyFile'.state = "absent" <=> keyFile.state = "absent",
           \A r \in Inspections : pc'[r] \in Reserved => pc[r] \in Reserved /\ reply'[r] = reply[r],
           \A r \in tmps' : r \in tmps /\ lock' = lock /\ pc'[r] \in {"rename", "dead"}
    PROVE  HasRoom'
<1>1. IsFiniteSet(Filed') /\ Cardinality(Filed') <= Cardinality(Filed)
      /\ Cardinality(Filed) \in Nat /\ Cardinality(Filed') \in Nat
  BY FS_Subset, FS_CardinalityType DEF HasRoom
<1>2. KeyFiles' = KeyFiles /\ KeyFiles \in Nat
  BY DEF KeyFiles
<1>3. keyFile'.state = "absent" => Filed' = {}
  BY DEF HasRoom
<1>4. ASSUME NEW r \in Inspections, pc'[r] \in Reserved
      PROVE  Cardinality(Filed' \cup {Target(r)'}) + KeyFiles' < MaxDirectoryEntries
  <2>1. Target(r)' = Target(r) /\ pc[r] \in Reserved
    BY <1>4 DEF Target
  <2>2. /\ Filed' \cup {Target(r)} \subseteq Filed \cup {Target(r)}
        /\ IsFiniteSet(Filed \cup {Target(r)})
    BY FS_AddElement DEF HasRoom
  <2>3. /\ Cardinality(Filed' \cup {Target(r)}) <= Cardinality(Filed \cup {Target(r)})
        /\ Cardinality(Filed' \cup {Target(r)}) \in Nat
        /\ Cardinality(Filed \cup {Target(r)}) \in Nat
    BY <2>2, FS_Subset, FS_CardinalityType
  <2>4. Cardinality(Filed \cup {Target(r)}) + KeyFiles < MaxDirectoryEntries
    BY <2>1 DEF HasRoom
  <2> QED BY <2>1, <2>3, <2>4, <1>2, CacheAssumption
<1>5. Cardinality(Filed') + KeyFiles' < MaxDirectoryEntries
  BY <1>1, <1>2, CacheAssumption DEF HasRoom
<1>6. \A r \in tmps' : lock' = r /\ pc'[r] \in {"rename", "dead"}
  BY DEF HasRoom
<1> QED BY <1>1, <1>3, <1>4, <1>5, <1>6 DEF HasRoom

\* The steps that leave the directory's files alone, a retry's removal aside.
LEMMA OutsideKeepsRoom ==
    ASSUME Inv, HasRoom, NEW r \in Inspections,
           \/ Worker(r) \/ Parent(r) \/ Kill(r) \/ \E q \in Requests : Begin(r, q)
    PROVE  HasRoom'
<1>0. pc \in [Inspections -> Phases]
  BY DEF Inv, TypeOK, RunsTypeOK
<1>1. UNCHANGED <<lock, keyFile>> /\ pc'[r] \notin PublishPhase
  BY FilesStay
<1>2. \A i \in Identities : entries'[i] \in {entries[i], None}
  BY FilesStay
<1>3. Filed' \subseteq Filed
  BY <1>2 DEF Filed
<1>4. \A s \in Inspections : s # r => pc'[s] = pc[s] /\ reply'[s] = reply[s]
  BY OthersKept
<1>5. \A s \in Inspections : pc'[s] \in Reserved => pc[s] \in Reserved /\ reply'[s] = reply[s]
  BY <1>1, <1>4 DEF Reserved, PublishPhase
<1>6. tmps' = tmps /\ (pc[r] \in {"rename", "dead"} => pc'[r] = "dead")
  <2>1. CASE Worker(r)
    BY <2>1
    DEF Worker, ReadManifest, SelectedNothing, SelectModule, LookUp, Authenticate,
        CacheMiss, CacheHit, ReplayItem, AnalyzeItem, FinishAnalysis, AnalysisFails,
        Answered, storageVars
  <2>2. CASE Parent(r)
    BY <2>2
    DEF Parent, WorkerFails, RetryWithoutCache, RejectAnswer, AcceptAnswer, storageVars,
        WorkerPhase, SelectPhase
  <2>3. CASE Kill(r) \/ \E q \in Requests : Begin(r, q)
    BY <1>0, <2>3 DEF Kill, Begin, GoTo, storageVars
  <2> QED BY <2>1, <2>2, <2>3
<1>7. ASSUME NEW t \in tmps' PROVE t \in tmps /\ lock' = lock /\ pc'[t] \in {"rename", "dead"}
  <2>1. t \in tmps /\ pc[t] \in {"rename", "dead"} /\ t \in Inspections
    BY <1>6 DEF HasRoom, Inv, TypeOK, StorageTypeOK
  <2> QED BY <1>1, <1>4, <1>6, <2>1
<1> QED BY <1>1, <1>3, <1>5, <1>7, NothingAdded

\* The count itself: the lock file is among what was counted.
LEMMA CountKeepsRoom ==
    ASSUME Inv, HasRoom, Filing, NEW r \in Inspections, lock = r, CheckCapacity(r)
    PROVE  HasRoom'
<1>0. /\ pc \in [Inspections -> Phases] /\ None \notin Inspections
      /\ entries \in [Identities -> Entries \cup {None}] /\ tmps \subseteq Inspections
  BY CacheAssumption DEF Inv, TypeOK, RunsTypeOK, StorageTypeOK
<1>1. /\ UNCHANGED <<lock, keyFile, entries, tmps, reply>> /\ pc[r] = "capacity"
      /\ \A s \in Inspections : s # r => pc'[s] = pc[s]
      /\ pc'[r] \in {"key", "unlock"}
  BY <1>0 DEF CheckCapacity, Publishing, GoTo, storageVars
<1>2. tmps = {}
  BY <1>1 DEF HasRoom
<1>3. Filed' = Filed /\ KeyFiles' = KeyFiles /\ KeyFiles \in Nat
  BY <1>1 DEF Filed, KeyFiles
<1>4. CASE pc'[r] = "unlock"
  <2>1. \A s \in Inspections : pc'[s] \in Reserved => pc[s] \in Reserved /\ reply'[s] = reply[s]
    BY <1>1, <1>4 DEF Reserved
  <2> QED BY <1>1, <1>2, <1>3, <2>1, NothingAdded
<1>5. CASE pc'[r] = "key"
  <2>1. \/ entries[IdentityOf(r)] # None \/ DirectoryEntries < MaxDirectoryEntries
    BY <1>0, <1>1, <1>5 DEF CheckCapacity, Publishing, GoTo
  <2>2. Target(r) = IdentityOf(r) /\ Target(r) \in Identities
    BY <1>1 DEF Filing, AnsweredPhase, PublishPhase, Inv, RunOK, ReplyOK
  <2>3. /\ Cardinality(Filed) \in Nat /\ Cardinality(Filed \cup {Target(r)}) \in Nat
        /\ Cardinality(Filed \cup {Target(r)}) <= Cardinality(Filed) + 1
        /\ Target(r) \in Filed => Cardinality(Filed \cup {Target(r)}) = Cardinality(Filed)
    <3>1. IsFiniteSet(Filed)
      BY DEF HasRoom
    <3>2. Cardinality(Filed) \in Nat
      BY <3>1, FS_CardinalityType
    <3>3. Cardinality(Filed \cup {Target(r)}) =
              IF Target(r) \in Filed THEN Cardinality(Filed) ELSE Cardinality(Filed) + 1
      BY <3>1, FS_AddElement
    <3> QED BY <3>2, <3>3
  <2>4. Cardinality(Filed \cup {Target(r)}) + KeyFiles < MaxDirectoryEntries
    <3>1. CASE entries[IdentityOf(r)] # None
      BY <2>2, <2>3, <3>1 DEF HasRoom, Filed
    <3>2. CASE DirectoryEntries < MaxDirectoryEntries
      <4>1. DirectoryEntries = Cardinality(Filed) + Cardinality(tmps) + 1 + KeyFiles
        BY <1>0, <1>3 DEF DirectoryEntries, Filed, KeyFiles
      <4>2. Cardinality(tmps) = 0
        BY <1>2, FS_EmptySet
      <4> QED BY <1>3, <2>3, <3>2, <4>1, <4>2, CacheAssumption
    <3> QED BY <2>1, <3>1, <3>2
  <2>5. Target(r)' = Target(r) /\ \A s \in Inspections : Target(s)' = Target(s)
    BY <1>1 DEF Target
  <2>6. \A s \in Inspections : pc'[s] \in Reserved =>
            Cardinality(Filed' \cup {Target(s)'}) + KeyFiles' < MaxDirectoryEntries
    BY <1>1, <1>3, <2>4, <2>5 DEF HasRoom
  <2>7. /\ IsFiniteSet(Filed') /\ (keyFile'.state = "absent" => Filed' = {})
        /\ Cardinality(Filed') + KeyFiles' < MaxDirectoryEntries
    BY <1>1, <1>3 DEF HasRoom
  <2> QED BY <1>1, <1>2, <2>6, <2>7 DEF HasRoom
<1> QED BY <1>1, <1>4, <1>5

\* A writer holds the lock, so that no other one counts on the room it takes.
LEMMA WriterKeepsRoom ==
    ASSUME ~StorageFaults, Inv, HasRoom, NEW r \in Inspections, lock = r,
           \A s \in Inspections : pc[s] \in PublishPhase => s = r,
           pc[r] \in {"temporary", "rename"} => keyFile.state = "whole",
           \/ CreateKeyFile(r) \/ WriteTemporary(r) \/ RenameEntry(r) \/ Unlock(r)
    PROVE  HasRoom'
<1>0. /\ pc \in [Inspections -> Phases] /\ None \notin Inspections
      /\ entries \in [Identities -> Entries \cup {None}] /\ tmps \subseteq Inspections
      /\ keyFile \in [state : {"absent", "torn", "whole"}, id : Nat]
  BY CacheAssumption DEF Inv, TypeOK, RunsTypeOK, StorageTypeOK
<1>1. \A s \in Inspections : s # r => pc'[s] = pc[s] /\ pc'[s] \notin Reserved
  BY OthersKept DEF Publisher, Reserved, PublishPhase
<1>2. CASE CreateKeyFile(r)
  <2>1. /\ UNCHANGED <<lock, entries, tmps, reply>> /\ pc[r] = "key" /\ pc'[r] = "keywrite"
        /\ keyFile.state = "absent" /\ keyFile'.state = "torn"
    BY <1>0, <1>2 DEF CreateKeyFile, Publishing, GoTo
  <2>2. Filed = {} /\ Filed' = {} /\ tmps' = {}
    BY <2>1 DEF HasRoom, Filed
  <2>3. Cardinality({}) = 0 /\ IsFiniteSet({}) /\ Cardinality({Target(r)'}) = 1
    BY FS_EmptySet, FS_Singleton
  <2>4. KeyFiles' = 1 /\ Filed' \cup {Target(r)'} = {Target(r)'}
    BY <2>1, <2>2 DEF KeyFiles
  <2>5. Cardinality(Filed') + KeyFiles' < MaxDirectoryEntries
        /\ Cardinality(Filed' \cup {Target(r)'}) + KeyFiles' < MaxDirectoryEntries
    BY <2>2, <2>3, <2>4, CacheAssumption
  <2> QED BY <1>1, <2>1, <2>2, <2>3, <2>5 DEF HasRoom
<1>3. CASE WriteTemporary(r)
  <2>1. /\ UNCHANGED <<lock, entries, keyFile, reply>> /\ pc[r] = "temporary"
        /\ pc'[r] = "rename" /\ tmps' = tmps \cup {r}
    BY <1>0, <1>3 DEF WriteTemporary, Publishing, GoTo
  <2>2. Filed' = Filed /\ KeyFiles' = KeyFiles /\ Target(r)' = Target(r)
    BY <2>1 DEF Filed, KeyFiles, Target
  <2>3. /\ IsFiniteSet(Filed') /\ (keyFile'.state = "absent" => Filed' = {})
        /\ Cardinality(Filed') + KeyFiles' < MaxDirectoryEntries
        /\ Cardinality(Filed' \cup {Target(r)'}) + KeyFiles' < MaxDirectoryEntries
    BY <2>1, <2>2 DEF HasRoom, Reserved
  <2>4. \A t \in tmps' : lock' = t /\ pc'[t] \in {"rename", "dead"}
    BY <2>1 DEF HasRoom
  <2> QED BY <1>1, <2>3, <2>4 DEF HasRoom
<1>4. CASE RenameEntry(r)
  <2>1. /\ UNCHANGED <<lock, keyFile>> /\ pc[r] = "rename" /\ pc'[r] = "unlock"
        /\ tmps' = tmps \ {r} /\ tmps' = {}
        /\ entries' = [entries EXCEPT ![Target(r)] = SealedEntry(r)]
    BY <1>0, <1>4 DEF RenameEntry, Publishing, GoTo, Target, HasRoom
  <2>2. Filed' \subseteq Filed \cup {Target(r)}
    BY <1>0, <2>1 DEF Filed
  <2>3. /\ Cardinality(Filed \cup {Target(r)}) + KeyFiles < MaxDirectoryEntries
        /\ IsFiniteSet(Filed \cup {Target(r)})
    BY <2>1, FS_AddElement DEF HasRoom, Reserved
  <2>4. /\ IsFiniteSet(Filed') /\ Cardinality(Filed') <= Cardinality(Filed \cup {Target(r)})
        /\ Cardinality(Filed') \in Nat /\ Cardinality(Filed \cup {Target(r)}) \in Nat
    BY <2>2, <2>3, FS_Subset, FS_CardinalityType
  <2>5. KeyFiles' = KeyFiles /\ KeyFiles \in Nat
    BY <2>1 DEF KeyFiles
  <2>6. Cardinality(Filed') + KeyFiles' < MaxDirectoryEntries
    BY <2>3, <2>4, <2>5, CacheAssumption
  <2>7. keyFile'.state # "absent" /\ pc'[r] \notin Reserved
    BY <2>1 DEF Reserved
  <2> QED BY <1>1, <2>1, <2>4, <2>6, <2>7 DEF HasRoom
<1>5. CASE Unlock(r)
  <2>1. /\ UNCHANGED <<keyFile, entries, tmps>> /\ pc[r] = "unlock" /\ pc'[r] = "done"
    BY <1>0, <1>5 DEF Unlock, Conclude, GoTo
  <2>2. tmps' = {} /\ Filed' = Filed
    BY <2>1 DEF HasRoom, Filed
  <2>3. \A s \in Inspections : pc'[s] \notin Reserved
    BY <1>1, <2>1 DEF Reserved
  <2> QED BY <2>1, <2>2, <2>3, NothingAdded
<1> QED BY <1>2, <1>3, <1>4, <1>5

LEMMA PublisherKeepsRoom ==
    ASSUME ~StorageFaults, Inv, HasRoom, Filing, NEW r \in Inspections, Publisher(r),
           \A s \in Inspections : pc[s] \in PublishPhase => lock = s,
           pc[r] \in {"temporary", "rename"} => keyFile.state = "whole"
    PROVE  HasRoom'
<1>0. /\ pc \in [Inspections -> Phases] /\ None \notin Inspections /\ tmps \subseteq Inspections
      /\ keyFile \in [state : {"absent", "torn", "whole"}, id : Nat]
  BY CacheAssumption DEF Inv, TypeOK, RunsTypeOK, StorageTypeOK
<1>1. \A s \in Inspections : s # r => pc'[s] = pc[s] /\ reply'[s] = reply[s]
  BY OthersKept
<1>2. CASE CreateKeyFile(r) \/ WriteTemporary(r) \/ RenameEntry(r) \/ Unlock(r)
  <2>1. pc[r] \in PublishPhase
    BY <1>2 DEF CreateKeyFile, WriteTemporary, RenameEntry, Unlock, Publishing, PublishPhase
  <2> QED BY <1>2, <2>1, WriterKeepsRoom
<1>3. CASE CheckCapacity(r)
  BY <1>3, CountKeepsRoom DEF CheckCapacity, Publishing, PublishPhase
<1>4. CASE AcquireLock(r)
  <2>1. tmps' = {} /\ UNCHANGED <<keyFile, entries>> /\ pc'[r] = "capacity"
    BY <1>0, <1>4 DEF AcquireLock, Publishing, GoTo, HasRoom
  <2>2. \A s \in Inspections : pc'[s] \in Reserved => pc[s] \in Reserved /\ reply'[s] = reply[s]
    BY <1>1, <2>1 DEF Reserved
  <2> QED BY <2>1, <2>2, NothingAdded DEF Filed
<1>5. CASE \/ PrepareDirectory(r) \/ SkipPublishing(r) \/ KeepKeyFile(r) \/ WriteKeyFile(r)
           \/ ReadKeyFile(r) \/ TemporaryFails(r) \/ RenameFails(r)
  <2>1. /\ UNCHANGED <<lock, entries>> /\ tmps' \in {tmps, tmps \ {r}}
        /\ pc[r] = "rename" => tmps' = tmps \ {r}
        /\ pc[r] \notin {"dead", "idle", "done"}
    BY <1>5
    DEF PrepareDirectory, SkipPublishing, KeepKeyFile, WriteKeyFile, ReadKeyFile,
        TemporaryFails, RenameFails, Publishing, storageVars
  <2>2. keyFile'.state = "absent" <=> keyFile.state = "absent"
    BY <1>0, <1>5
    DEF PrepareDirectory, SkipPublishing, KeepKeyFile, WriteKeyFile, ReadKeyFile,
        TemporaryFails, RenameFails, Publishing, storageVars
  <2>3. pc'[r] \in Reserved => pc[r] \in Reserved /\ reply'[r] = reply[r]
    BY <1>0, <1>5
    DEF PrepareDirectory, SkipPublishing, KeepKeyFile, WriteKeyFile, ReadKeyFile,
        TemporaryFails, RenameFails, Publishing, Conclude, GoTo, Reserved
  <2>4. ASSUME NEW t \in tmps' PROVE t \in tmps /\ lock' = lock /\ pc'[t] \in {"rename", "dead"}
    <3>1. t \in tmps /\ pc[t] \in {"rename", "dead"} /\ t # r /\ t \in Inspections
      BY <1>0, <2>1 DEF HasRoom
    <3> QED BY <1>1, <2>1, <3>1
  <2>5. \A s \in Inspections : pc'[s] \in Reserved => pc[s] \in Reserved /\ reply'[s] = reply[s]
    BY <1>1, <2>3
  <2> QED BY <2>1, <2>2, <2>4, <2>5, NothingAdded DEF Filed
<1>6. ~LockWriteFails(r)
  BY DEF LockWriteFails
<1> QED BY <1>2, <1>3, <1>4, <1>5, <1>6 DEF Publisher

LEMMA RoomStep ==
    ASSUME ~StorageFaults, Inv, WriterExclusion, SealAgreed, Filing, Room, [Next]_vars
    PROVE  Room'
<1> SUFFICES ASSUME wipes' = 0 PROVE HasRoom'
  BY DEF Room
<1>1. wipes = 0 /\ ~WipeDirectory /\ HasRoom
  BY NoWipe DEF Room
<1>2. ASSUME NEW r \in Inspections, Publisher(r) PROVE HasRoom'
  BY <1>1, <1>2, PublisherKeepsRoom DEF WriterExclusion, SealAgreed
<1>3. ASSUME NEW r \in Inspections,
             \/ Worker(r) \/ Parent(r) \/ Kill(r) \/ \E q \in Requests : Begin(r, q)
      PROVE  HasRoom'
  BY <1>1, <1>3, OutsideKeepsRoom
<1>4. CASE \E f \in Items, v \in Versions : Edit(f, v)
  <2>1. UNCHANGED <<pc, reply, lock, keyFile, entries, tmps>>
    BY <1>4 DEF Edit, storageVars
  <2> QED BY <1>1, <2>1, NothingAdded DEF Filed, HasRoom
<1>5. CASE UNCHANGED vars
  <2>1. UNCHANGED <<pc, reply, lock, keyFile, entries, tmps>>
    BY <1>5 DEF vars, runVars, storageVars
  <2> QED BY <1>1, <2>1, NothingAdded DEF Filed, HasRoom
<1>6. (\A i \in Identities : ~DamageEntry(i)) /\ (\A i, j \in Identities : ~MisplaceEntry(i, j))
  BY DEF DamageEntry, MisplaceEntry
<1> QED BY <1>1, <1>2, <1>3, <1>4, <1>5, <1>6 DEF Next, Environment

\* What is in the directory is an entry, the lock, the key, or the one temporary
\* file of the holder of the lock.
LEMMA RoomBounds ==
    ASSUME Inv, Room
    PROVE  CapacityBound
<1> SUFFICES ASSUME wipes = 0 PROVE DirectoryEntries <= MaxDirectoryEntries + 1
  BY DEF CapacityBound
<1>1. HasRoom
  BY DEF Room
<1>2. tmps \subseteq {lock} /\ IsFiniteSet({lock}) /\ Cardinality({lock}) = 1
  BY <1>1, FS_Singleton DEF HasRoom
<1>3. Cardinality(tmps) \in Nat /\ Cardinality(tmps) <= 1
  BY <1>2, FS_Subset, FS_CardinalityType
<1>4. Cardinality(Filed) \in Nat /\ KeyFiles \in Nat
  BY <1>1, FS_CardinalityType DEF HasRoom, KeyFiles
<1>5. DirectoryEntries = Cardinality(Filed) + Cardinality(tmps)
                            + (IF lock # None THEN 1 ELSE 0) + KeyFiles
  BY DEF DirectoryEntries, Filed, KeyFiles
<1> QED BY <1>1, <1>3, <1>4, <1>5, CacheAssumption DEF HasRoom

\* As long as nobody deletes the directory, damages what is in it or moves files
\* about, and no file-system call fails half way, the directory holds at most one
\* file more than its limit, orphans of killed writers included.
THEOREM Bounded == ASSUME ~StorageFaults PROVE Spec => []CapacityBound
<1>1. Init => SealAgreed /\ Filing /\ WriterExclusion
  BY DEF Init, SealAgreed, Filing, AnsweredPhase, PublishPhase, WriterExclusion
<1>2. Init => Room
  <2> SUFFICES ASSUME Init PROVE HasRoom
    BY DEF Room
  <2>1. Filed = {} /\ KeyFiles = 0 /\ tmps = {}
    BY DEF Init, Filed, KeyFiles, NoKeyFile
  <2>2. \A r \in Inspections : pc[r] \notin Reserved
    BY DEF Init, Reserved
  <2> QED BY <2>1, <2>2, FS_EmptySet, CacheAssumption DEF HasRoom
<1>3. Inv /\ WriterExclusion /\ SealAgreed /\ Filing /\ Room /\ [Next]_vars
      => (WriterExclusion /\ SealAgreed /\ Filing /\ Room)'
  BY ExclusionStep, SealStep, FilingStep, RoomStep
<1>4. Inv /\ Room => CapacityBound
  BY RoomBounds
<1> QED BY <1>1, <1>2, <1>3, <1>4, Invariant, PTL DEF Spec
=============================================================================
