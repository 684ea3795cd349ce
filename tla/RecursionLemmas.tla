-------------------------- MODULE RecursionLemmas ---------------------------
(* Facts about recursion that the proofs about lists and sequences share:  *)
(* a recursive function is defined when its argument always moves closer   *)
(* to an end, and naturals have least and greatest elements.               *)
EXTENDS Integers, FiniteSets, SequencesExt, SequenceTheorems, WellFoundedInduction, TLAPS

(* From every non-empty set of members of H the function nxt leads out:    *)
(* there is no cycle and no infinite path in H.                            *)
LeadsOut(H, nxt) == \A S \in SUBSET H : S # {} => \E n \in S : nxt[n] \notin S

(* f is on P what a recursion along nxt makes of it: base outside H, and   *)
(* comb[n] of the value at nxt[n] inside.                                  *)
Recursion(f, P, H, nxt, base, comb) ==
  f = [n \in P |-> IF n \in H THEN comb[n][f[nxt[n]]] ELSE base[n]]

(* Such a function exists. *)
LEMMA RecursionDefines ==
  ASSUME NEW P, NEW H \in SUBSET P, NEW T, NEW nxt, NEW base, NEW comb,
         \A n \in H : nxt[n] \in P,
         LeadsOut(H, nxt),
         \A n \in P \ H : base[n] \in T,
         \A n \in H, t \in T : comb[n][t] \in T
  PROVE  \E f \in [P -> T] : Recursion(f, P, H, nxt, base, comb)
<1> DEFINE Val(f, n) == IF n \in H THEN comb[n][f[nxt[n]]] ELSE base[n]
<1> DEFINE Ok(D, f) == /\ D \in SUBSET P /\ f \in [P -> T]
                       /\ \A n \in D : (n \in H => nxt[n] \in D) /\ f[n] = Val(f, n)
<1>1. ASSUME NEW D, NEW f, Ok(D, f), NEW E, NEW g, Ok(E, g), NEW m \in D \cap E
      PROVE  f[m] = g[m]
  <2> DEFINE S == {n \in D \cap E : f[n] # g[n]}
  <2> SUFFICES ASSUME S # {} PROVE FALSE
    BY <1>1
  <2>1. S \in SUBSET H
    BY <1>1
  <2>2. PICK n \in S : nxt[n] \notin S
    BY <2>1 DEF LeadsOut
  <2>3. f[nxt[n]] = g[nxt[n]]
    BY <1>1, <2>1, <2>2
  <2> QED
    BY <1>1, <2>1, <2>2, <2>3
<1>2. ASSUME NEW m \in P
      PROVE  \E D, f : Ok(D, f) /\ m \in D
  <2> DEFINE S == {n \in P : ~ \E D, f : Ok(D, f) /\ n \in D}
  <2> SUFFICES ASSUME S # {} PROVE FALSE
    OBVIOUS
  <2>1. PICK any \in T : TRUE
    <3>1. CASE P = H
      <4>1. PICK n \in H : nxt[n] \notin H
        BY <3>1 DEF LeadsOut
      <4> QED
        BY <3>1, <4>1
    <3>2. CASE P # H
      BY <3>2
    <3> QED
      BY <3>1, <3>2
  <2>2. S \in SUBSET H
    <3> SUFFICES ASSUME NEW n \in P \ H PROVE \E D, f : Ok(D, f) /\ n \in D
      OBVIOUS
    <3> DEFINE f == [i \in P |-> IF i = n THEN base[n] ELSE any]
    <3>1. Ok({n}, f)
      BY <2>1
    <3> QED
      BY <3>1
  <2>3. PICK n \in S : nxt[n] \notin S
    BY <2>2 DEF LeadsOut
  <2>4. PICK D, f : Ok(D, f) /\ nxt[n] \in D
    BY <2>2, <2>3
  <2>5. n \notin D
    BY <2>4
  <2> DEFINE g == [i \in P |-> IF i = n THEN comb[n][f[nxt[n]]] ELSE f[i]]
  <2>6. f[nxt[n]] \in T
    BY <2>2, <2>4
  <2>7. g \in [P -> T]
    BY <2>2, <2>4, <2>6
  <2>8. \A i \in D : g[i] = f[i]
    BY <2>4, <2>5
  <2>9. \A i \in D \cup {n} : (i \in H => nxt[i] \in D) /\ g[i] = Val(g, i)
    BY <2>2, <2>4, <2>5, <2>8
  <2>10. Ok(D \cup {n}, g)
    BY <2>2, <2>4, <2>7, <2>9
  <2> HIDE DEF Ok, g
  <2>11. \E E, h : Ok(E, h) /\ n \in E
    BY <2>10
  <2> QED
    BY <2>11
<1> DEFINE Part(n) == CHOOSE f : \E D : Ok(D, f) /\ n \in D
<1> DEFINE F == [n \in P |-> Part(n)[n]]
<1>3. ASSUME NEW n \in P PROVE \E D : Ok(D, Part(n)) /\ n \in D
  <2> HIDE DEF Ok
  <2> QED
    BY <1>2
<1>4. F \in [P -> T]
  <2> SUFFICES ASSUME NEW n \in P PROVE Part(n)[n] \in T
    OBVIOUS
  <2> HIDE DEF Part
  <2> QED
    BY <1>3
<1>5. ASSUME NEW n \in P PROVE F[n] = Val(F, n)
  <2>1. PICK D : Ok(D, Part(n)) /\ n \in D
    BY <1>3
  <2> HIDE DEF Part
  <2>2. CASE n \in H
    <3>1. nxt[n] \in D /\ nxt[n] \in P
      BY <2>1, <2>2
    <3>2. PICK E : Ok(E, Part(nxt[n])) /\ nxt[n] \in E
      BY <1>3, <3>1
    <3>3. Part(n)[nxt[n]] = Part(nxt[n])[nxt[n]]
      <4> HIDE DEF Ok
      <4> QED
        BY <1>1, <2>1, <3>1, <3>2
    <3> QED
      BY <2>1, <2>2, <3>1, <3>3
  <2>3. CASE n \notin H
    BY <2>1, <2>3
  <2> QED
    BY <2>2, <2>3
<1>6. F = [n \in P |-> Val(F, n)]
  <2> HIDE DEF Val
  <2>1. F = [n \in P |-> F[n]]
    OBVIOUS
  <2> HIDE DEF F
  <2> QED
    BY <1>5, <2>1
<1>7. Recursion(F, P, H, nxt, base, comb)
  <2> HIDE DEF F
  <2> QED
    BY <1>6 DEF Recursion
<1> QED
  BY <1>4, <1>7

(* Sets of integers between two bounds have a least and a greatest member, *)
(* which are what Min and Max return.                                      *)
LEMMA LeastNatural ==
  ASSUME NEW S \in SUBSET Nat, S # {}
  PROVE  \E x \in S : \A y \in S : x <= y
<1>1. IsWellFoundedOn(OpToRel(<, Nat), Nat)
  BY NatLessThanWellFounded
<1>2. PICK x \in S : \A y \in S : ~ (<<y, x>> \in OpToRel(<, Nat))
  BY <1>1, WFMin
<1>3. \A y \in S : ~ (y < x)
  BY <1>2 DEF OpToRel
<1> QED
  BY <1>3

LEMMA MinIsLeast ==
  ASSUME NEW S \in SUBSET Nat, S # {}
  PROVE  Min(S) \in S /\ \A y \in S : Min(S) <= y
<1>1. \E x \in S : \A y \in S : x <= y
  BY LeastNatural
<1> QED
  BY <1>1 DEF Min

LEMMA MaxIsGreatest ==
  ASSUME NEW n \in Nat, NEW S \in SUBSET (0 .. n), S # {}
  PROVE  Max(S) \in S /\ \A y \in S : y <= Max(S)
<1> DEFINE R == {n - x : x \in S}
<1>1. PICK r \in R : \A y \in R : r <= y
  <2>1. R \in SUBSET Nat
    <3> SUFFICES ASSUME NEW x \in S PROVE n - x \in Nat
      OBVIOUS
    <3> QED
      OBVIOUS
  <2>2. R # {}
    OBVIOUS
  <2> HIDE DEF R
  <2> QED
    BY <2>1, <2>2, LeastNatural
<1>2. PICK x \in S : r = n - x
  BY <1>1
<1>3. \A y \in S : x >= y
  <2> SUFFICES ASSUME NEW y \in S PROVE x >= y
    OBVIOUS
  <2>1. n - y \in R /\ x \in 0 .. n /\ y \in 0 .. n
    OBVIOUS
  <2> QED
    BY <1>1, <1>2, <2>1
<1>4. \A y \in S : Max(S) >= y /\ Max(S) \in S
  BY <1>2, <1>3 DEF Max
<1> QED
  BY <1>2, <1>4

(* Going down from n one ends at m. *)
LEMMA DownLeadsOut ==
  ASSUME NEW m \in Nat, NEW n \in Nat
  PROVE  LeadsOut(m + 1 .. n, [i \in m + 1 .. n |-> i - 1])
<1> SUFFICES ASSUME NEW S \in SUBSET (m + 1 .. n), S # {}
             PROVE  \E i \in S : [j \in m + 1 .. n |-> j - 1][i] \notin S
  BY DEF LeadsOut
<1>1. PICK i \in S : \A y \in S : i <= y
  BY LeastNatural
<1> QED
  BY <1>1

(* Induction up to n, over the members of a set. *)
LEMMA UpTo ==
  ASSUME NEW n \in Nat, NEW S, 0 \in S, \A i \in 1 .. n : i - 1 \in S => i \in S
  PROVE  \A i \in 0 .. n : i \in S
<1> DEFINE D == {i \in 0 .. n : i \notin S}
<1> SUFFICES ASSUME D # {} PROVE FALSE
  OBVIOUS
<1>1. PICK i \in D : \A j \in D : i <= j
  <2>1. D \in SUBSET Nat
    OBVIOUS
  <2> HIDE DEF D
  <2> QED
    BY <2>1, LeastNatural
<1>2. i # 0
  BY <1>1
<1>3. i \in 1 .. n /\ i - 1 \in 0 .. n /\ i - 1 \notin D
  BY <1>1, <1>2
<1> QED
  BY <1>1, <1>3

(* A function that is defined upwards from 0. *)
Upwards(f, n, first, comb) ==
  f = [i \in 0 .. n |-> IF i = 0 THEN first ELSE comb[i][f[i - 1]]]

LEMMA CountsUp ==
  ASSUME NEW n \in Nat, NEW T, NEW first \in T, NEW comb,
         \A i \in 1 .. n, t \in T : comb[i][t] \in T
  PROVE  \E f \in [0 .. n -> T] : Upwards(f, n, first, comb)
<1> DEFINE P == 0 .. n
           H == 1 .. n
           nxt == [i \in H |-> i - 1]
           base == [i \in P |-> first]
<1>0. n \in Nat
  OBVIOUS
<1>1. H \in SUBSET P /\ \A i \in H : nxt[i] = i - 1 /\ nxt[i] \in P
  OBVIOUS
<1>2. LeadsOut(H, nxt)
  <2>1. LeadsOut(0 + 1 .. n, [i \in 0 + 1 .. n |-> i - 1])
    BY DownLeadsOut
  <2> QED
    BY <2>1
<1>3. \A i \in P : (i \in H <=> i # 0) /\ base[i] = first
  OBVIOUS
<1>4. \A i \in H, t \in T : comb[i][t] \in T
  OBVIOUS
<1> HIDE DEF P, H, nxt, base
<1>5. \A i \in P \ H : base[i] \in T
  BY <1>3
<1>6. PICK f \in [P -> T] : Recursion(f, P, H, nxt, base, comb)
  BY <1>1, <1>2, <1>4, <1>5, RecursionDefines
<1>7. f = [i \in P |-> IF i = 0 THEN first ELSE comb[i][f[i - 1]]]
  <2>1. \A i \in P : f[i] = IF i = 0 THEN first ELSE comb[i][f[i - 1]]
    BY <1>1, <1>3, <1>6 DEF Recursion
  <2>2. f = [i \in P |-> f[i]]
    OBVIOUS
  <2> QED
    BY <2>1, <2>2
<1>8. Upwards(f, n, first, comb)
  BY <1>7 DEF P, Upwards
<1> QED
  BY <1>6, <1>8 DEF P

(***************************************************************************)
(* The operators of SequencesExt the modules use.                          *)
(***************************************************************************)

LEMMA FlattenDef ==
  ASSUME NEW S, NEW seqs \in Seq(Seq(S)), Len(seqs) # 0
  PROVE  \E f \in [1 .. Len(seqs) -> Seq(S)] :
           /\ FlattenSeq(seqs) = f[Len(seqs)]
           /\ \A i \in 1 .. Len(seqs) : f[i] = IF i = 1 THEN seqs[i] ELSE f[i - 1] \o seqs[i]
<1> DEFINE n == Len(seqs)
           P == 1 .. n
           H == 2 .. n
           nxt == [i \in H |-> i - 1]
           comb == [i \in H |-> [s \in Seq(S) |-> s \o seqs[i]]]
<1>1. n \in Nat /\ \A i \in P : seqs[i] \in Seq(S)
  OBVIOUS
<1>2. H \in SUBSET P /\ \A i \in H : nxt[i] = i - 1 /\ nxt[i] \in P
  BY <1>1
<1>3. LeadsOut(H, nxt)
  <2>1. LeadsOut(1 + 1 .. n, [i \in 1 + 1 .. n |-> i - 1])
    BY <1>1, DownLeadsOut
  <2> QED
    BY <2>1
<1>4. ASSUME NEW i \in H, NEW s \in Seq(S)
      PROVE  comb[i][s] = s \o seqs[i] /\ comb[i][s] \in Seq(S)
  BY <1>1, <1>2, ConcatProperties
<1>5. \A i \in P \ H : seqs[i] \in Seq(S)
  BY <1>1
<1> HIDE DEF n, P, H, nxt, comb
<1>6. PICK f \in [P -> Seq(S)] : Recursion(f, P, H, nxt, seqs, comb)
  BY <1>2, <1>3, <1>4, <1>5, RecursionDefines
<1> DEFINE Eq(g) == g = [i \in 1 .. Len(seqs) |-> IF i = 1 THEN seqs[i] ELSE g[i - 1] \o seqs[i]]
           F == CHOOSE g : Eq(g)
<1>7. Eq(f)
  <2>1. ASSUME NEW i \in P PROVE f[i] = IF i = 1 THEN seqs[i] ELSE f[i - 1] \o seqs[i]
    <3>1. f[i] = IF i \in H THEN comb[i][f[nxt[i]]] ELSE seqs[i]
      BY <1>6 DEF Recursion
    <3>2. i \in H <=> i # 1
      BY <1>1 DEF P, H
    <3>3. CASE i \in H
      BY <1>2, <1>4, <1>6, <3>1, <3>2, <3>3
    <3>4. CASE i \notin H
      BY <3>1, <3>2, <3>4
    <3> QED
      BY <3>3, <3>4
  <2>2. f = [i \in P |-> f[i]]
    BY <1>6
  <2> QED
    BY <2>1, <2>2 DEF P, n
<1>8. Eq(F)
  BY <1>7
<1>9. FlattenSeq(seqs) = F[Len(seqs)]
  BY DEF FlattenSeq
<1> DEFINE Rec(g) == \A i \in 1 .. Len(seqs) : g[i] = IF i = 1 THEN seqs[i] ELSE g[i - 1] \o seqs[i]
<1>10. Rec(F)
  BY <1>8
<1>11. Rec(f)
  BY <1>7
<1> HIDE DEF F
<1> DEFINE D == {i \in 1 .. Len(seqs) : F[i] # f[i]}
<1>12. D = {}
  <2> SUFFICES ASSUME D # {} PROVE FALSE
    OBVIOUS
  <2>1. PICK i \in D : \A j \in D : i <= j
    <3>1. D \in SUBSET Nat
      OBVIOUS
    <3> HIDE DEF D
    <3> QED
      BY <3>1, LeastNatural
  <2>2. i = 1 \/ F[i - 1] = f[i - 1]
    BY <2>1
  <2> QED
    BY <1>10, <1>11, <2>1, <2>2
<1>13. F[Len(seqs)] = f[Len(seqs)]
  <2>1. Len(seqs) \in 1 .. Len(seqs)
    BY <1>1 DEF n
  <2> QED
    BY <1>12, <2>1
<1> QED
  BY <1>6, <1>9, <1>11, <1>13 DEF P, n

LEMMA FlattenAppend ==
  ASSUME NEW S, NEW seqs \in Seq(Seq(S)), NEW e \in Seq(S)
  PROVE  /\ FlattenSeq(seqs) \in Seq(S)
         /\ FlattenSeq(Append(seqs, e)) = FlattenSeq(seqs) \o e
<1> DEFINE n == Len(seqs)
           t == Append(seqs, e)
<1>1. /\ n \in Nat /\ t \in Seq(Seq(S)) /\ Len(t) = n + 1 /\ t[n + 1] = e
      /\ \A i \in 1 .. n : t[i] = seqs[i]
  BY AppendProperties
<1>0. n \in Nat
  OBVIOUS
<1> HIDE DEF t
<1>2. PICK g \in [1 .. n + 1 -> Seq(S)] :
        /\ FlattenSeq(t) = g[n + 1]
        /\ \A i \in 1 .. n + 1 : g[i] = IF i = 1 THEN t[i] ELSE g[i - 1] \o t[i]
  <2>1. Len(t) # 0
    BY <1>1
  <2> QED
    BY <1>1, <2>1, FlattenDef
<1>3. CASE n = 0
  <2>1. seqs = << >> /\ FlattenSeq(seqs) = << >>
    BY <1>3 DEF FlattenSeq
  <2>2. FlattenSeq(t) = e
    BY <1>1, <1>2, <1>3
  <2>3. << >> \in Seq(S) /\ << >> \o e = e
    BY ConcatEmptySeq
  <2> QED
    BY <2>1, <2>2, <2>3 DEF t
<1>4. CASE n # 0
  <2>1. PICK f \in [1 .. n -> Seq(S)] :
          /\ FlattenSeq(seqs) = f[n]
          /\ \A i \in 1 .. n : f[i] = IF i = 1 THEN seqs[i] ELSE f[i - 1] \o seqs[i]
    BY <1>4, FlattenDef
  <2> DEFINE D == {i \in 1 .. n : f[i] # g[i]}
  <2>2. D = {}
    <3> SUFFICES ASSUME D # {} PROVE FALSE
      OBVIOUS
    <3>1. PICK i \in D : \A j \in D : i <= j
      <4>1. D \in SUBSET Nat
        OBVIOUS
      <4> HIDE DEF D
      <4> QED
        BY <4>1, LeastNatural
    <3> HIDE DEF n
    <3>2. i \in 1 .. n /\ i \in 1 .. n + 1 /\ (i = 1 \/ i - 1 \in 1 .. n)
      BY <1>0
    <3>3. i = 1 \/ f[i - 1] = g[i - 1]
      BY <1>0, <3>1, <3>2
    <3>4. f[i] = g[i]
      <4>1. f[i] = IF i = 1 THEN seqs[i] ELSE f[i - 1] \o seqs[i]
        BY <2>1, <3>2
      <4>2. g[i] = IF i = 1 THEN t[i] ELSE g[i - 1] \o t[i]
        BY <1>2, <3>2
      <4>3. t[i] = seqs[i]
        BY <1>1, <3>2
      <4> QED
        BY <3>3, <4>1, <4>2, <4>3
    <3> QED
      BY <3>4
  <2> HIDE DEF n
  <2>3. n \in 1 .. n /\ n + 1 \in 1 .. n + 1 /\ n + 1 # 1 /\ (n + 1) - 1 = n
    BY <1>0, <1>4
  <2>4. f[n] = g[n] /\ f[n] \in Seq(S)
    BY <2>2, <2>3
  <2>5. g[n + 1] = g[n] \o e
    BY <1>1, <1>2, <2>3
  <2> QED
    BY <1>2, <2>1, <2>4, <2>5 DEF t
<1> QED
  BY <1>3, <1>4
=============================================================================
