-------------------------- MODULE MCAnalysisProcess --------------------------
(***************************************************************************)
(* AnalysisProcess with pipes of one chunk, so that writers block, and     *)
(* workers that may write one chunk more than each limit allows.           *)
(***************************************************************************)
EXTENDS AnalysisProcess

TwoChunks == [s \in Streams |-> IF s = "stderr" THEN 1 ELSE 2]

AllScripts == [cache : 0 .. 3, stdout : 1 .. 3,
               message : {"none", "hit", "write"},
               answer : {"success", "failure", "invalid", "garbage"}]

FewScripts == [cache : {0, 2}, stdout : {2}, message : {"none", "hit"},
               answer : {"success", "invalid"}]
=============================================================================
