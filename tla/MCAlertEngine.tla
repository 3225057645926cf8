-------------------------- MODULE MCAlertEngine --------------------------
(* Small instances of AlertEngine for TLC. *)
EXTENDS AlertEngine, TLC

CONSTANTS threshold, offline, w1, w2, a1, a2, a3

\* Workers and alert ids are interchangeable.
Symmetry == Permutations(Worker) \union Permutations(Id)
==========================================================================
