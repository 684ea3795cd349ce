------------------------------ MODULE MCServer ------------------------------
(* Model checking of Server: process ids and client addresses are model   *)
(* values, interchangeable where only an invariant is checked.  An id that *)
(* has been waited for can be handed out again.                            *)
EXTENDS Server, TLC

Symmetry == Permutations(Pids) \cup Permutations(IPs)
=============================================================================
