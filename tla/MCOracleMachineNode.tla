-------------------------- MODULE MCOracleMachineNode --------------------------
(* OracleMachineNode for TLC: sessions and query ids are interchangeable. *)
EXTENDS OracleMachineNode, TLC

MCSymmetry == Permutations(Callers) \cup Permutations(QueryIds)
===============================================================================
