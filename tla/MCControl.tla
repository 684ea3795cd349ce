----------------------------- MODULE MCControl ------------------------------
(* Model checking of Control: two interchangeable sessions on a tree with  *)
(* room for a directory in a directory and a file, and one of two names    *)
(* too long for getcwd.  Root is the only account: another one has fewer   *)
(* steps (Pass), and the same ones otherwise, so that it would reach no    *)
(* other tree, working directory or reply.                                 *)
EXTENDS Control, TLC

Symmetry == Permutations(Sessions) \cup Permutations(Dirs)
=============================================================================
