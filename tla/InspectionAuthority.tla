------------------------- MODULE InspectionAuthority -------------------------
(***************************************************************************)
(* What an inspection promises its caller, with no cache in sight: while   *)
(* Installed Evidence changes under it, an inspection answers from what    *)
(* was installed while it ran.  A success is the analysis of one reading   *)
(* of every evidence item, each reading current at some moment of this     *)
(* inspection; a not-found answer names a selection that was current in    *)
(* the same sense; every other answer is a typed failure.  ADR-0007 says   *)
(* the cache "can reduce reuse but cannot change an Inspection Outcome":   *)
(* InspectionCache is shown to implement this module.                      *)
(***************************************************************************)
EXTENDS InspectionOutcomes

VARIABLES evidence,      \* [Items -> Versions], the installation on disk
          asked,         \* the request of each inspection, None before it begins
          seen,          \* contents each item had since the inspection began
          delivered      \* the outcome handed to the caller, or None

authorityVars == <<evidence, asked, seen, delivered>>

Nothing == [f \in Items |-> {}]
Now     == [f \in Items |-> {evidence[f]}]

InProgress(r) == seen[r] # Nothing

\* Every reading in the view was current at some moment of the inspection.
Witnessed(view, history) == \A f \in Items : view[f] \in history[f]

\* What an inspection of request q may answer, given the evidence it lived through.
Authoritative(o, q, history) ==
    \/ o \in {Failure, Rejected}
    \/ \E v \in Views : Witnessed(v, history) /\ o = Success(q, v)
    \/ \E v \in Views : /\ Witnessed(v, history)
                        /\ Selection[ManifestView(v)] = None
                        /\ o = NotFound

AuthorityInit ==
    /\ evidence \in Views
    /\ asked = [r \in Inspections |-> None]
    /\ seen = [r \in Inspections |-> Nothing]
    /\ delivered = [r \in Inspections |-> None]

\* The caller starts an inspection: its history is what is installed now.
Ask(r, q) ==
    /\ asked[r] = None
    /\ asked' = [asked EXCEPT ![r] = q]
    /\ seen' = [seen EXCEPT ![r] = Now]
    /\ UNCHANGED <<evidence, delivered>>

\* Someone installs, edits or removes something.
Edit(f, v) ==
    /\ evidence' = [evidence EXCEPT ![f] = v]
    /\ seen' = [r \in Inspections |->
                  IF InProgress(r) THEN [seen[r] EXCEPT ![f] = @ \cup {v}]
                                   ELSE seen[r]]
    /\ UNCHANGED <<asked, delivered>>

Answer(r, o) ==
    /\ InProgress(r)
    /\ Authoritative(o, asked[r], seen[r])
    /\ delivered' = [delivered EXCEPT ![r] = o]
    /\ seen' = [seen EXCEPT ![r] = Nothing]
    /\ UNCHANGED <<evidence, asked>>

\* The inspecting process is killed: no answer will come.
Abandon(r) ==
    /\ InProgress(r)
    /\ seen' = [seen EXCEPT ![r] = Nothing]
    /\ UNCHANGED <<evidence, asked, delivered>>

AuthorityNext ==
    \/ \E r \in Inspections :
          \/ \E q \in Requests : Ask(r, q)
          \/ \E o \in Outcomes : Answer(r, o)
          \/ Abandon(r)
    \/ \E f \in Items, v \in Versions : Edit(f, v)

AuthoritySpec == AuthorityInit /\ [][AuthorityNext]_authorityVars
=============================================================================
