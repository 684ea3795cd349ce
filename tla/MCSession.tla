----------------------------- MODULE MCSession ------------------------------
(* Model checking of Session: two interchangeable sessions compete for the *)
(* data port; the constants choose which timeouts are configured.          *)
EXTENDS Session, TLC

Symmetry == Permutations(Sessions)
=============================================================================
