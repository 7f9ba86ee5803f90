-------------------------- MODULE MCInspectionCache --------------------------
(***************************************************************************)
(* Instances of InspectionCache for TLC.                                   *)
(*                                                                         *)
(* Reading instance: one manifest and one declaration file, two contents   *)
(* each, and the contents of the manifest select two packages, so that an  *)
(* entry can be filed under the wrong one.  Storage instance: nothing to   *)
(* read, all about the files of the directory.  Progress instance: one of  *)
(* the contents of the manifest selects nothing.                           *)
(***************************************************************************)
EXTENDS InspectionCache, TLC

CONSTANTS m, d, v1, v2

OneManifest == {m}
TwoItems    == {m, d}
TwoVersions == {v1, v2}
OneVersion  == {v1}

SelectFirst == [content \in [{m} -> {v1, v2}] |-> IF content[m] = v1 THEN "pkg" ELSE None]
SelectEither == [content \in [{m} -> {v1, v2}] |-> IF content[m] = v1 THEN "pkg" ELSE "fork"]
SelectOnly  == [content \in [{m} -> {v1}] |-> "pkg"]

\* Inspections are told apart by nothing but their names.
Interchangeable == Permutations(Inspections)
=============================================================================
