----------------------------- MODULE MCTransfer -----------------------------
(* Model checking of Transfer: two names and two inodes, so that a file is *)
(* removed or renamed while it is open and another one takes its name; an  *)
(* int of three values, so that nleft and the offset pass its width; REST  *)
(* also with a negative argument.                                          *)
EXTENDS Transfer, TLC

Symmetry ==
  Permutations(Sessions) \cup Permutations(Inodes) \cup Permutations(Names)

Args == {-1, 1}
=============================================================================
