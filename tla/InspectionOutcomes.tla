------------------------- MODULE InspectionOutcomes --------------------------
(***************************************************************************)
(* The data the inspection modules share.  Installed Evidence is a set of  *)
(* items, each with a version: an item is anything an inspection can       *)
(* observe and fingerprint (the text of a manifest or a declaration file,  *)
(* the presence of a file, a directory listing, the answer of one module   *)
(* resolution).  An analysis is a function of the request and of what it   *)
(* read, so a success is represented by exactly that pair.                 *)
(***************************************************************************)
CONSTANTS Inspections,   \* identifiers of inspection runs
          Requests,      \* normalized analysis requests
          Items,         \* evidence: files, presence checks, listings, lookups
          Manifests,     \* the items module selection reads
          Versions,      \* contents an item can have
          Selection,     \* [[Manifests -> Versions] -> selections or None]
          None           \* absent value

ASSUME OutcomeAssumption ==
    /\ Items # {} /\ Manifests \subseteq Items
    /\ None \notin Versions \cup Requests

Views == [Items -> Versions]

ManifestView(view) == [m \in Manifests |-> view[m]]

Success(q, view) == [status |-> "success", request |-> q, view |-> view]
Failure  == [status |-> "failure"]
NotFound == [status |-> "not-found"]
Rejected == [status |-> "invalid-result"]

Outcomes == {Failure, NotFound, Rejected}
              \cup {Success(q, v) : q \in Requests, v \in Views}
=============================================================================
