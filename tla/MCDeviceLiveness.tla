-------------------------- MODULE MCDeviceLiveness --------------------------
(* Small instances of DeviceLiveness for TLC. *)
EXTENDS DeviceLiveness, TLC

CONSTANTS w1, w2

\* Writers are interchangeable.
Symmetry == Permutations(Writer)
=============================================================================
