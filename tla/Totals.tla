-------------------------------- MODULE Totals --------------------------------
(***************************************************************************)
(* What a set of things costs in all, counted rather than added up: each   *)
(* thing stands for as many pairs as it costs.                             *)
(***************************************************************************)
EXTENDS Naturals, FiniteSets

\* What a set costs when each of its elements is paid for once.
Total(cost, S) == Cardinality(UNION {{x} \X (1 .. cost[x]) : x \in S})
=============================================================================
