------------------------------ MODULE MCFacts ------------------------------
(* Facts for TLC: processes, ids and types are interchangeable.             *)
EXTENDS Facts, TLC

FactsSymmetry == Permutations(Procs) \cup Permutations(Ids) \cup Permutations(Types)
=============================================================================
