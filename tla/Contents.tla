------------------------------ MODULE Contents ------------------------------
(* The contents of a file as a sequence of bytes, and what the system      *)
(* calls of trans_data.c do to them.                                       *)
EXTENDS Naturals, Sequences

CONSTANT Hole     \* the byte that reads from a hole

(* ftruncate: cut at n, or extended by a hole up to n. *)
Resize(c, n) == [k \in 1 .. n |-> IF k \in DOMAIN c THEN c[k] ELSE Hole]

(* write of one byte at offset n. *)
WriteAt(c, n, b) == [Resize(c, IF n < Len(c) THEN Len(c) ELSE n + 1) EXCEPT ![n + 1] = b]

(* What is left to read from offset n on. *)
From(c, n) == SubSeq(c, n + 1, Len(c))
=============================================================================
