---------------------------- MODULE HelperProofs ----------------------------
(* RateLimit, Listing and Config for all their constants. *)
EXTENDS RateLimit, Listing, Config, RecursionLemmas, TLAPS

(***************************************************************************)
(* RateLimit: all portions, delays and setbacks of the clock.              *)
(***************************************************************************)
RateTypeOK ==
  /\ now \in Nat /\ behind \in Nat /\ start \in Int
  /\ moved \in Nat /\ nbytes \in Nat /\ floors \in Nat
  /\ ratePc \in {"move", "limit", "last", "ended"}

(* The bytes whose pause has been taken. *)
Settled == moved - Unpaused

(* They fit into the time, and into the time at which the present interval *)
(* began: that is start + behind, or earlier if the clock was set back     *)
(* since.                                                                  *)
RateInv ==
  /\ RateTypeOK
  /\ Limited => /\ Settled <= now + floors * Floor
                /\ Settled <= start + behind + floors * Floor

LEMMA RateInvInit == RateInit => RateInv
BY RateAssumption DEF RateInit, RateInv, RateTypeOK, Settled, Unpaused

LEMMA RateInvStep == RateInv /\ [RateNext]_rateVars => RateInv'
<1> SUFFICES ASSUME RateInv, [RateNext]_rateVars PROVE RateInv'
  OBVIOUS
<1> USE RateAssumption DEF RateInv, RateTypeOK, Settled, Unpaused
<1> DEFINE f == floors * Floor
<1>0. f \in Nat /\ (floors + 1) * Floor = f + Floor
  OBVIOUS
<1>1. ASSUME NEW k \in Setbacks, SetBack(k)
      PROVE  RateInv'
  <2>1. k \in Nat
    OBVIOUS
  <2>2. floors' * Floor = f
    BY <1>1 DEF SetBack
  <2> HIDE DEF f
  <2> QED
    BY <1>0, <1>1, <2>1, <2>2 DEF SetBack, f
<1>2. ASSUME NEW n \in Portions, NEW d \in Delays, MovePortion(n, d)
      PROVE  RateInv'
  <2>1. n \in Nat /\ d \in Nat
    OBVIOUS
  <2>2. floors' * Floor = f
    BY <1>2 DEF MovePortion
  <2> QED
    BY <1>0, <1>2, <2>1, <2>2 DEF MovePortion
<1>3. CASE LimitCurrRate
  <2>1. /\ ratePc = "limit" /\ ratePc' = "move"
        /\ now' = now + Pause /\ start' = now' - behind
        /\ UNCHANGED <<behind, moved, nbytes>>
    BY <1>3 DEF LimitCurrRate
  <2>2. CASE now - behind <= start
    <3>1. Elapsed = Floor /\ floors' = floors + 1
      BY <1>3, <2>2 DEF LimitCurrRate, Elapsed, Clock
    <3>2. Pause \in Nat /\ (Limited => Pause >= nbytes - Floor)
      BY <3>1 DEF Pause
    <3>3. floors' * Floor = f + Floor
      BY <1>0, <3>1
    <3> HIDE DEF f
    <3> QED
      BY <1>0, <2>1, <3>1, <3>2, <3>3 DEF f
  <2>3. CASE now - behind > start
    <3>1. Elapsed = now - behind - start /\ floors' = floors
      BY <1>3, <2>3 DEF LimitCurrRate, Elapsed, Clock
    <3>2. Pause \in Nat /\ (Limited => Pause >= nbytes - (now - behind - start))
      BY <2>3, <3>1 DEF Pause
    <3>3. floors' * Floor = f
      BY <3>1
    <3> HIDE DEF f
    <3> QED
      BY <1>0, <2>1, <3>1, <3>2, <3>3 DEF f
  <2> QED
    BY <2>2, <2>3
<1>4. CASE LeaveLoop
  BY <1>4 DEF LeaveLoop
<1>5. CASE UNCHANGED rateVars
  BY <1>5 DEF rateVars
<1> QED
  BY <1>1, <1>2, <1>3, <1>4, <1>5 DEF RateNext

(* What was moved and paused for never runs ahead of the rate. *)
THEOREM RateHolds == RateSpec => []RateKept
<1>1. RateInv => RateKept
  BY DEF RateInv, Settled, RateKept
<1> QED
  BY <1>1, RateInvInit, RateInvStep, PTL DEF RateSpec

(***************************************************************************)
(* Listing: all modes, in any order.                                       *)
(***************************************************************************)

(* An entry is never shown with less than its permissions. *)
THEOREM EntriesShowAll == ListSpec => []ShowsAll
<1>1. ListInit => ShowsAll
  BY DEF ListInit, ShowsAll, Dashes
<1>2. ShowsAll /\ [ListNext]_listVars => ShowsAll'
  <2> SUFFICES ASSUME ShowsAll, [ListNext]_listVars PROVE ShowsAll'
    OBVIOUS
  <2>1. CASE ListNext
    <3>1. PICK m \in FileModes : mode' = m /\ perms' = Written(perms, m)
      BY <2>1 DEF ListNext, GetPerms
    <3>2. m.x \subseteq Classes /\ m.s \subseteq Classes
      BY ListAssumption
    <3>3. /\ perms'.type = m.type
          /\ m.r \subseteq perms'.r /\ m.w \subseteq perms'.w
          /\ \A c \in Classes : perms'.x[c] = WithX(perms.x[c], m, c)
      BY <3>1 DEF Written
    <3>4. /\ \A c \in m.x : perms'.x[c] \in {"x", "s"}
          /\ \A c \in m.s : perms'.x[c] \in {"s", "S"}
      BY <3>2, <3>3 DEF WithX
    <3> QED
      BY <3>1, <3>3, <3>4 DEF ShowsAll
  <2>2. CASE UNCHANGED listVars
    BY <2>2 DEF listVars, ShowsAll
  <2> QED
    BY <2>1, <2>2
<1> QED
  BY <1>1, <1>2, PTL DEF ListSpec

(***************************************************************************)
(* Config: all tables, values, defaults and widths of an unsigned.         *)
(***************************************************************************)

(* The number of digits is the place of the first that is none. *)
LEMMA DigitsCount ==
  ASSUME NEW v \in Seq(Nat), NEW base \in Nat
  PROVE  /\ Digits(v, base) \in 0 .. Len(v)
         /\ \A i \in 1 .. Digits(v, base) : v[i] < base
         /\ Digits(v, base) < Len(v) => v[Digits(v, base) + 1] >= base
<1> DEFINE w == Append(v, base)
           I == {i \in 1 .. Len(w) : w[i] >= base}
<1>1. /\ Len(v) \in Nat /\ Len(w) = Len(v) + 1 /\ w[Len(v) + 1] = base
      /\ \A i \in 1 .. Len(v) : w[i] = v[i] /\ v[i] \in Nat
  BY AppendProperties
<1> HIDE DEF w
<1>2. Len(v) + 1 \in I /\ I \in SUBSET Nat
  BY <1>1
<1>3. SelectInSeq(w, LAMBDA d : d >= base) = Min(I)
  BY <1>2 DEF SelectInSeq
<1>4. Min(I) \in I /\ \A y \in I : Min(I) <= y
  <2> HIDE DEF I
  <2> QED
    BY <1>2, MinIsLeast
<1>5. Digits(v, base) = Min(I) - 1
  BY <1>3 DEF Digits, w
<1> DEFINE m == Min(I)
<1>6. /\ m \in 1 .. Len(v) + 1 /\ w[m] >= base
      /\ \A i \in 1 .. Len(v) + 1 : w[i] >= base => m <= i
  BY <1>1, <1>4
<1> HIDE DEF m, I
<1>7. \A i \in 1 .. m - 1 : v[i] < base
  BY <1>1, <1>6
<1>8. m - 1 < Len(v) => v[m - 1 + 1] >= base
  BY <1>1, <1>6
<1> QED
  BY <1>1, <1>5, <1>6, <1>7, <1>8 DEF m

LEMMA StepTyped ==
  ASSUME NEW t \in Nat, NEW d \in Nat
  PROVE  /\ t * 8 + d \in Nat /\ t * 10 + d \in Nat
         /\ (t * 8 + d) % UintMod \in Nat
<1>1. UintMod \in Nat \ {0}
  BY ConfAssumption
<1>2. t * 8 + d \in Nat /\ t * 10 + d \in Nat
  OBVIOUS
<1>3. \A x \in Nat : x % UintMod \in Nat
  BY <1>1
<1> QED
  BY <1>2, <1>3

(* What str_octal_to_uint has after each digit. *)
LEMMA OctalLoop ==
  ASSUME NEW v \in Seq(Nat)
  PROVE  LET n == Digits(v, 8) IN \E f \in [0 .. n -> Nat] :
           /\ f[0] = 0
           /\ \A i \in 1 .. n : f[i] = (f[i - 1] * 8 + v[i]) % UintMod
           /\ Octal(v) = f[n]
<1> DEFINE n == Digits(v, 8)
           comb == [i \in 1 .. n |-> [t \in Nat |-> (t * 8 + v[i]) % UintMod]]
           Eq(g) == g = [i \in 0 .. n |-> IF i = 0 THEN 0 ELSE (g[i - 1] * 8 + v[i]) % UintMod]
           F == CHOOSE g : Eq(g)
           S == {i \in 0 .. n : F[i] \in Nat}
<1>1. n \in Nat /\ n <= Len(v)
  BY DigitsCount
<1>2. Octal(v) = F[n]
  BY DEF Octal
<1> HIDE DEF n, Eq, F, S
<1>3. \A i \in 1 .. n : v[i] \in Nat
  BY <1>1
<1>4. ASSUME NEW i \in 1 .. n, NEW t \in Nat
      PROVE  comb[i][t] = (t * 8 + v[i]) % UintMod /\ comb[i][t] \in Nat
  <2>1. comb[i][t] = (t * 8 + v[i]) % UintMod
    OBVIOUS
  <2>2. v[i] \in Nat
    BY <1>3
  <2> HIDE DEF comb
  <2> QED
    BY <2>1, <2>2, StepTyped
<1> HIDE DEF comb
<1>5. PICK f \in [0 .. n -> Nat] : Upwards(f, n, 0, comb)
  <2>1. \A i \in 1 .. n, t \in Nat : comb[i][t] \in Nat
    BY <1>4
  <2>2. n \in Nat /\ 0 \in Nat
    BY <1>1
  <2> QED
    BY <2>1, <2>2, CountsUp
<1>6. Eq(f)
  <2>1. ASSUME NEW i \in 0 .. n PROVE f[i] = IF i = 0 THEN 0 ELSE (f[i - 1] * 8 + v[i]) % UintMod
    <3>1. f[i] = IF i = 0 THEN 0 ELSE comb[i][f[i - 1]]
      BY <1>5 DEF Upwards
    <3>2. i # 0 => i \in 1 .. n /\ f[i - 1] \in Nat
      BY <1>1
    <3> QED
      BY <1>4, <3>1, <3>2
  <2>2. f = [i \in 0 .. n |-> f[i]]
    OBVIOUS
  <2> QED
    BY <2>1, <2>2 DEF Eq
<1>7. Eq(F)
  BY <1>6 DEF F
<1>8. /\ DOMAIN F = 0 .. n /\ F = [i \in 0 .. n |-> F[i]]
      /\ F[0] = 0
      /\ \A i \in 1 .. n : F[i] = (F[i - 1] * 8 + v[i]) % UintMod
  <2>1. F = [i \in 0 .. n |-> IF i = 0 THEN 0 ELSE (F[i - 1] * 8 + v[i]) % UintMod]
    BY <1>7 DEF Eq
  <2>2. DOMAIN F = 0 .. n
    BY <2>1
  <2>3. \A i \in 0 .. n : F[i] = IF i = 0 THEN 0 ELSE (F[i - 1] * 8 + v[i]) % UintMod
    BY <2>1
  <2>4. 0 \in 0 .. n /\ \A i \in 1 .. n : i \in 0 .. n /\ i # 0
    BY <1>1
  <2>5. F = [i \in 0 .. n |-> F[i]]
    BY <2>1, <2>2
  <2> QED
    BY <2>2, <2>3, <2>4, <2>5
<1>9. \A i \in 0 .. n : i \in S
  <2>1. 0 \in S
    BY <1>1, <1>8 DEF S
  <2>2. ASSUME NEW i \in 1 .. n, i - 1 \in S PROVE i \in S
    <3>1. F[i - 1] \in Nat /\ v[i] \in Nat /\ i \in 0 .. n
      BY <1>1, <1>3, <2>2 DEF S
    <3>2. F[i] = (F[i - 1] * 8 + v[i]) % UintMod
      BY <1>8
    <3>3. F[i] \in Nat
      BY <3>1, <3>2, StepTyped
    <3> QED
      BY <3>1, <3>3 DEF S
  <2> QED
    BY <1>1, <2>1, <2>2, UpTo
<1>10. F \in [0 .. n -> Nat]
  BY <1>8, <1>9 DEF S
<1> QED
  BY <1>2, <1>8, <1>10 DEF n

(* What atoi has after each digit. *)
LEMMA AtoiLoop ==
  ASSUME NEW v \in Seq(Nat)
  PROVE  LET n == Digits(v, 10) IN \E f \in [0 .. n -> Nat] :
           /\ f[0] = 0
           /\ \A i \in 1 .. n : f[i] = f[i - 1] * 10 + v[i]
           /\ Atoi(v) = Long(f[n]) % UintMod
<1> DEFINE n == Digits(v, 10)
           comb == [i \in 1 .. n |-> [t \in Nat |-> t * 10 + v[i]]]
           Eq(g) == g = [i \in 0 .. n |-> IF i = 0 THEN 0 ELSE g[i - 1] * 10 + v[i]]
           F == CHOOSE g : Eq(g)
           S == {i \in 0 .. n : F[i] \in Nat}
<1>1. n \in Nat /\ n <= Len(v)
  BY DigitsCount
<1>2. Atoi(v) = Long(F[n]) % UintMod
  BY DEF Atoi
<1> HIDE DEF n, Eq, F, S
<1>3. \A i \in 1 .. n : v[i] \in Nat
  BY <1>1
<1>4. ASSUME NEW i \in 1 .. n, NEW t \in Nat
      PROVE  comb[i][t] = t * 10 + v[i] /\ comb[i][t] \in Nat
  <2>1. comb[i][t] = t * 10 + v[i]
    OBVIOUS
  <2>2. v[i] \in Nat
    BY <1>3
  <2> HIDE DEF comb
  <2> QED
    BY <2>1, <2>2, StepTyped
<1> HIDE DEF comb
<1>5. PICK f \in [0 .. n -> Nat] : Upwards(f, n, 0, comb)
  <2>1. \A i \in 1 .. n, t \in Nat : comb[i][t] \in Nat
    BY <1>4
  <2>2. n \in Nat /\ 0 \in Nat
    BY <1>1
  <2> QED
    BY <2>1, <2>2, CountsUp
<1>6. Eq(f)
  <2>1. ASSUME NEW i \in 0 .. n PROVE f[i] = IF i = 0 THEN 0 ELSE f[i - 1] * 10 + v[i]
    <3>1. f[i] = IF i = 0 THEN 0 ELSE comb[i][f[i - 1]]
      BY <1>5 DEF Upwards
    <3>2. i # 0 => i \in 1 .. n /\ f[i - 1] \in Nat
      BY <1>1
    <3> QED
      BY <1>4, <3>1, <3>2
  <2>2. f = [i \in 0 .. n |-> f[i]]
    OBVIOUS
  <2> QED
    BY <2>1, <2>2 DEF Eq
<1>7. Eq(F)
  BY <1>6 DEF F
<1>8. /\ DOMAIN F = 0 .. n /\ F = [i \in 0 .. n |-> F[i]]
      /\ F[0] = 0
      /\ \A i \in 1 .. n : F[i] = F[i - 1] * 10 + v[i]
  <2>1. F = [i \in 0 .. n |-> IF i = 0 THEN 0 ELSE F[i - 1] * 10 + v[i]]
    BY <1>7 DEF Eq
  <2>2. DOMAIN F = 0 .. n
    BY <2>1
  <2>3. \A i \in 0 .. n : F[i] = IF i = 0 THEN 0 ELSE F[i - 1] * 10 + v[i]
    BY <2>1
  <2>4. 0 \in 0 .. n /\ \A i \in 1 .. n : i \in 0 .. n /\ i # 0
    BY <1>1
  <2>5. F = [i \in 0 .. n |-> F[i]]
    BY <2>1, <2>2
  <2> QED
    BY <2>2, <2>3, <2>4, <2>5
<1>9. \A i \in 0 .. n : i \in S
  <2>1. 0 \in S
    BY <1>1, <1>8 DEF S
  <2>2. ASSUME NEW i \in 1 .. n, i - 1 \in S PROVE i \in S
    <3>1. F[i - 1] \in Nat /\ v[i] \in Nat /\ i \in 0 .. n
      BY <1>1, <1>3, <2>2 DEF S
    <3>2. F[i] = F[i - 1] * 10 + v[i]
      BY <1>8
    <3>3. F[i] \in Nat
      BY <3>1, <3>2, StepTyped
    <3> QED
      BY <3>1, <3>3 DEF S
  <2> QED
    BY <1>1, <2>1, <2>2, UpTo
<1>10. F \in [0 .. n -> Nat]
  BY <1>8, <1>9 DEF S
<1> QED
  BY <1>2, <1>8, <1>10 DEF n

(* The place values are naturals, each the one before times the base. *)
LEMMA PlacesLoop ==
  ASSUME NEW base \in Nat, NEW n \in Nat
  PROVE  /\ Places(base, n) \in [0 .. n -> Nat]
         /\ Places(base, n)[0] = 1
         /\ \A i \in 1 .. n : Places(base, n)[i] = base * Places(base, n)[i - 1]
<1> DEFINE comb == [i \in 1 .. n |-> [t \in Nat |-> base * t]]
           Eq(g) == g = [i \in 0 .. n |-> IF i = 0 THEN 1 ELSE base * g[i - 1]]
           F == CHOOSE g : Eq(g)
           S == {i \in 0 .. n : F[i] \in Nat}
<1>1. n \in Nat /\ base \in Nat
  OBVIOUS
<1>2. Places(base, n) = F
  BY DEF Places
<1> HIDE DEF Eq, F, S
<1>3. \A t \in Nat : base * t \in Nat
  BY <1>1
<1>4. ASSUME NEW i \in 1 .. n, NEW t \in Nat
      PROVE  comb[i][t] = base * t /\ comb[i][t] \in Nat
  <2>1. comb[i][t] = base * t
    OBVIOUS
  <2> HIDE DEF comb
  <2> QED
    BY <1>3, <2>1
<1> HIDE DEF comb
<1>5. PICK f \in [0 .. n -> Nat] : Upwards(f, n, 1, comb)
  <2>1. \A i \in 1 .. n, t \in Nat : comb[i][t] \in Nat
    BY <1>4
  <2>2. n \in Nat /\ 1 \in Nat
    BY <1>1
  <2> QED
    BY <2>1, <2>2, CountsUp
<1>6. Eq(f)
  <2>1. ASSUME NEW i \in 0 .. n PROVE f[i] = IF i = 0 THEN 1 ELSE base * f[i - 1]
    <3>1. f[i] = IF i = 0 THEN 1 ELSE comb[i][f[i - 1]]
      BY <1>5 DEF Upwards
    <3>2. i # 0 => i \in 1 .. n /\ f[i - 1] \in Nat
      BY <1>1
    <3> QED
      BY <1>4, <3>1, <3>2
  <2>2. f = [i \in 0 .. n |-> f[i]]
    OBVIOUS
  <2> QED
    BY <2>1, <2>2 DEF Eq
<1>7. Eq(F)
  BY <1>6 DEF F
<1>8. /\ DOMAIN F = 0 .. n /\ F = [i \in 0 .. n |-> F[i]]
      /\ F[0] = 1
      /\ \A i \in 1 .. n : F[i] = base * F[i - 1]
  <2>1. F = [i \in 0 .. n |-> IF i = 0 THEN 1 ELSE base * F[i - 1]]
    BY <1>7 DEF Eq
  <2>2. DOMAIN F = 0 .. n
    BY <2>1
  <2>3. \A i \in 0 .. n : F[i] = IF i = 0 THEN 1 ELSE base * F[i - 1]
    BY <2>1
  <2>4. 0 \in 0 .. n /\ \A i \in 1 .. n : i \in 0 .. n /\ i # 0
    BY <1>1
  <2>5. F = [i \in 0 .. n |-> F[i]]
    BY <2>1, <2>2
  <2> QED
    BY <2>2, <2>3, <2>4, <2>5
<1>9. \A i \in 0 .. n : i \in S
  <2>1. 0 \in S
    BY <1>1, <1>8 DEF S
  <2>2. ASSUME NEW i \in 1 .. n, i - 1 \in S PROVE i \in S
    <3>1. F[i - 1] \in Nat /\ i \in 0 .. n
      BY <1>1, <1>3, <2>2 DEF S
    <3>2. F[i] = base * F[i - 1]
      BY <1>8
    <3>3. F[i] \in Nat
      BY <1>3, <3>1, <3>2
    <3> QED
      BY <3>1, <3>3 DEF S
  <2> QED
    BY <1>1, <2>1, <2>2, UpTo
<1>10. F \in [0 .. n -> Nat]
  BY <1>8, <1>9 DEF S
<1> QED
  BY <1>2, <1>8, <1>10

(* The sum of the digits at their places. *)
LEMMA DenotesLoop ==
  ASSUME NEW v \in Seq(Nat)
  PROVE  LET base == IF v[1] = 0 THEN 8 ELSE 10
             n == Digits(v, base)
         IN \E f \in [0 .. n -> Nat] :
              /\ f[0] = 0
              /\ \A i \in 1 .. n : f[i] = f[i - 1] + v[i] * Places(base, n)[n - i]
              /\ Denotes(v) = (IF base = 8 THEN f[n] ELSE Long(f[n])) % UintMod
<1> DEFINE base == IF v[1] = 0 THEN 8 ELSE 10
           Counts(n) == /\ \A i \in 1 .. n : v[i] < base
                        /\ n < Len(v) => v[n + 1] >= base
           n == CHOOSE n \in 0 .. Len(v) : Counts(n)
           comb == [i \in 1 .. n |-> [t \in Nat |-> t + v[i] * Places(base, n)[n - i]]]
           Eq(g) == g = [i \in 0 .. n |-> IF i = 0 THEN 0 ELSE g[i - 1] + v[i] * Places(base, n)[n - i]]
           F == CHOOSE g : Eq(g)
           S == {i \in 0 .. n : F[i] \in Nat}
<1>0. /\ n \in 0 .. Len(v) /\ Counts(n) /\ n = Digits(v, base)
  <2>1. base \in Nat
    OBVIOUS
  <2> HIDE DEF base
  <2>2. Digits(v, base) \in 0 .. Len(v) /\ Counts(Digits(v, base))
    BY <2>1, DigitsCount
  <2> HIDE DEF Counts
  <2>3. n \in 0 .. Len(v) /\ Counts(n)
    BY <2>2
  <2> HIDE DEF n
  <2>4. ~ n < Digits(v, base) /\ ~ Digits(v, base) < n
    <3>1. \A i \in 1 .. Len(v) : v[i] \in Nat
      OBVIOUS
    <3> QED
      BY <2>1, <2>2, <2>3, <3>1 DEF Counts
  <2> QED
    BY <2>2, <2>3, <2>4
<1>1. n \in Nat /\ n <= Len(v)
  BY <1>0
<1>2. Denotes(v) = (IF base = 8 THEN F[n] ELSE Long(F[n])) % UintMod
  BY DEF Denotes
<1> HIDE DEF base, Counts, n, Eq, F, S
<1>3. \A i \in 1 .. n : v[i] * Places(base, n)[n - i] \in Nat
  <2> SUFFICES ASSUME NEW i \in 1 .. n PROVE v[i] * Places(base, n)[n - i] \in Nat
    OBVIOUS
  <2>1. v[i] \in Nat /\ n - i \in 0 .. n
    BY <1>1
  <2>2. base \in Nat
    BY DEF base
  <2>3. Places(base, n)[n - i] \in Nat
    BY <1>1, <2>1, <2>2, PlacesLoop
  <2>4. \A j, k \in Nat : j * k \in Nat
    OBVIOUS
  <2> QED
    BY <2>1, <2>3, <2>4
<1>4. ASSUME NEW i \in 1 .. n, NEW t \in Nat
      PROVE  comb[i][t] = t + v[i] * Places(base, n)[n - i] /\ comb[i][t] \in Nat
  <2>1. comb[i][t] = t + v[i] * Places(base, n)[n - i]
    OBVIOUS
  <2>2. v[i] * Places(base, n)[n - i] \in Nat
    BY <1>3
  <2> HIDE DEF comb
  <2> QED
    BY <2>1, <2>2
<1> HIDE DEF comb
<1>5. PICK f \in [0 .. n -> Nat] : Upwards(f, n, 0, comb)
  <2>1. \A i \in 1 .. n, t \in Nat : comb[i][t] \in Nat
    BY <1>4
  <2>2. n \in Nat /\ 0 \in Nat
    BY <1>1
  <2> QED
    BY <2>1, <2>2, CountsUp
<1>6. Eq(f)
  <2>1. ASSUME NEW i \in 0 .. n PROVE f[i] = IF i = 0 THEN 0 ELSE f[i - 1] + v[i] * Places(base, n)[n - i]
    <3>1. f[i] = IF i = 0 THEN 0 ELSE comb[i][f[i - 1]]
      BY <1>5 DEF Upwards
    <3>2. i # 0 => i \in 1 .. n /\ f[i - 1] \in Nat
      BY <1>1
    <3> QED
      BY <1>4, <3>1, <3>2
  <2>2. f = [i \in 0 .. n |-> f[i]]
    OBVIOUS
  <2> QED
    BY <2>1, <2>2 DEF Eq
<1>7. Eq(F)
  BY <1>6 DEF F
<1>8. /\ DOMAIN F = 0 .. n /\ F = [i \in 0 .. n |-> F[i]]
      /\ F[0] = 0
      /\ \A i \in 1 .. n : F[i] = F[i - 1] + v[i] * Places(base, n)[n - i]
  <2>1. F = [i \in 0 .. n |-> IF i = 0 THEN 0 ELSE F[i - 1] + v[i] * Places(base, n)[n - i]]
    BY <1>7 DEF Eq
  <2>2. DOMAIN F = 0 .. n
    BY <2>1
  <2>3. \A i \in 0 .. n : F[i] = IF i = 0 THEN 0 ELSE F[i - 1] + v[i] * Places(base, n)[n - i]
    BY <2>1
  <2>4. 0 \in 0 .. n /\ \A i \in 1 .. n : i \in 0 .. n /\ i # 0
    BY <1>1
  <2>5. F = [i \in 0 .. n |-> F[i]]
    BY <2>1, <2>2
  <2> QED
    BY <2>2, <2>3, <2>4, <2>5
<1>9. \A i \in 0 .. n : i \in S
  <2>1. 0 \in S
    BY <1>1, <1>8 DEF S
  <2>2. ASSUME NEW i \in 1 .. n, i - 1 \in S PROVE i \in S
    <3>1. F[i - 1] \in Nat /\ v[i] * Places(base, n)[n - i] \in Nat /\ i \in 0 .. n
      BY <1>1, <1>3, <2>2 DEF S
    <3>2. F[i] = F[i - 1] + v[i] * Places(base, n)[n - i]
      BY <1>8
    <3>3. F[i] \in Nat
      BY <3>1, <3>2
    <3> QED
      BY <3>1, <3>3 DEF S
  <2> QED
    BY <1>1, <2>1, <2>2, UpTo
<1>10. F \in [0 .. n -> Nat]
  BY <1>8, <1>9 DEF S
<1> QED
  BY <1>0, <1>2, <1>8, <1>10 DEF base

(* The first n digits of v make x: read one after the other, and by their  *)
(* places.                                                                 *)
ByDigit(x, v, n, base) ==
  /\ n \in Nat /\ base \in Nat /\ \A i \in 1 .. n : v[i] \in Nat
  /\ \E h \in [0 .. n -> Nat] :
       /\ h[0] = 0 /\ x = h[n]
       /\ \A i \in 1 .. n : h[i] = h[i - 1] * base + v[i]

ByPlace(x, v, n, base) == \E sum \in [0 .. n -> Nat] :
  /\ sum[0] = 0 /\ x = sum[n]
  /\ \A i \in 1 .. n : sum[i] = sum[i - 1] + v[i] * Places(base, n)[n - i]

LEMMA SameSum ==
  ASSUME NEW v, NEW n, NEW base, NEW x, NEW y,
         ByDigit(x, v, n, base), ByPlace(y, v, n, base)
  PROVE  x = y
<1> n \in Nat /\ base \in Nat /\ \A i \in 1 .. n : v[i] \in Nat
  BY DEF ByDigit
<1>a. PICK h \in [0 .. n -> Nat] :
        /\ h[0] = 0 /\ x = h[n]
        /\ \A i \in 1 .. n : h[i] = h[i - 1] * base + v[i]
  BY DEF ByDigit
<1>b. PICK sum \in [0 .. n -> Nat] :
        /\ sum[0] = 0 /\ y = sum[n]
        /\ \A i \in 1 .. n : sum[i] = sum[i - 1] + v[i] * Places(base, n)[n - i]
  BY DEF ByPlace
<1> DEFINE place == Places(base, n)
           S == {i \in 0 .. n : h[i] * place[n - i] = sum[i]}
<1>1. /\ place \in [0 .. n -> Nat] /\ place[0] = 1
      /\ \A i \in 1 .. n : place[i] = base * place[i - 1]
  BY PlacesLoop
<1>2. \A i \in 1 .. n : sum[i] = sum[i - 1] + v[i] * place[n - i]
  BY <1>a, <1>b
<1> HIDE DEF place
<1>3. 0 \in S
  <2>1. place[n] \in Nat /\ 0 * place[n] = 0 /\ n - 0 = n /\ 0 \in 0 .. n
    BY <1>1
  <2> QED
    BY <1>a, <1>b, <2>1
<1>4. ASSUME NEW i \in 1 .. n, i - 1 \in S PROVE i \in S
  <2> DEFINE p == place[n - i]
             q == place[n - (i - 1)]
             a == h[i - 1]
             d == v[i]
  <2>1. n - i \in 0 .. n /\ n - (i - 1) \in 1 .. n /\ n - (i - 1) - 1 = n - i /\ i - 1 \in 0 .. n
    OBVIOUS
  <2>2. p \in Nat /\ a \in Nat /\ d \in Nat /\ q = base * p
    BY <1>a, <1>b, <1>1, <2>1
  <2>3. a * q = sum[i - 1] /\ sum[i] = sum[i - 1] + d * p /\ h[i] = a * base + d
    BY <1>a, <1>b, <1>2, <1>4
  <2> HIDE DEF p, q, a, d
  <2>4. (a * base + d) * p = a * (base * p) + d * p
    BY <2>2
  <2>5. h[i] * p = sum[i]
    BY <2>2, <2>3, <2>4
  <2> QED
    BY <2>5 DEF p
<1>5. \A i \in 0 .. n : i \in S
  <2> HIDE DEF S
  <2> QED
    BY <1>3, <1>4, UpTo
<1>6. h[n] * place[n - n] = sum[n]
  BY <1>5
<1>7. n - n = 0 /\ h[n] \in Nat
  BY <1>a, <1>b
<1> QED
  BY <1>a, <1>b, <1>1, <1>6, <1>7

(* What a shift drops does not come back. *)
LEMMA RemainderStep ==
  ASSUME NEW a \in Nat, NEW d \in Nat, NEW M \in Nat \ {0}
  PROVE  ((a % M) * 8 + d) % M = (a * 8 + d) % M
<1> DEFINE q == a \div M
           r == a % M
           x == r * 8 + d
           k == x \div M
           s == x % M
<1>1. q \in Nat /\ r \in 0 .. M - 1 /\ a = M * q + r
  OBVIOUS
<1> HIDE DEF q, r
<1>2. x \in Nat
  BY <1>1
<1> HIDE DEF x
<1>3. k \in Nat /\ s \in 0 .. M - 1 /\ x = M * k + s
  BY <1>2
<1> HIDE DEF k, s
<1>4. a * 8 + d = M * (q * 8 + k) + s
  <2>1. a * 8 = (M * q) * 8 + r * 8
    BY <1>1
  <2>2. (M * q) * 8 = M * (q * 8) /\ M * (q * 8 + k) = M * (q * 8) + M * k
    BY <1>1, <1>3
  <2> QED
    BY <1>1, <1>3, <2>1, <2>2 DEF x
<1>5. ASSUME NEW y \in Nat, NEW t \in Nat, y = M * t + s
      PROVE  y % M = s
  BY <1>3, <1>5
<1>6. (a * 8 + d) % M = s
  <2>1. a * 8 + d \in Nat /\ q * 8 + k \in Nat
    BY <1>1, <1>3
  <2> QED
    BY <1>4, <1>5, <2>1
<1> QED
  BY <1>6 DEF s, x, r

(* Both conversions yield the number their argument denotes, reduced to    *)
(* the width of an unsigned, a decimal one after it was cut to the largest *)
(* long, whatever the number of digits.                                    *)
THEOREM NumberIsDenoted ==
  ASSUME NEW v \in Seq(Nat)
  PROVE  Number(v) = Denotes(v)
<1>1. UintMod \in Nat \ {0}
  BY ConfAssumption
<1>2. CASE v[1] = 0
  <2> DEFINE n == Digits(v, 8)
  <2>1. n \in Nat /\ \A i \in 1 .. n : v[i] \in Nat
    <3>1. n \in 0 .. Len(v)
      BY DigitsCount
    <3> HIDE DEF n
    <3> QED
      BY <3>1
  <2>2. PICK r \in [0 .. n -> Nat] :
          /\ r[0] = 0
          /\ \A i \in 1 .. n : r[i] = (r[i - 1] * 8 + v[i]) % UintMod
          /\ Octal(v) = r[n]
    BY OctalLoop
  <2>3. PICK sum \in [0 .. n -> Nat] :
          /\ sum[0] = 0
          /\ \A i \in 1 .. n : sum[i] = sum[i - 1] + v[i] * Places(8, n)[n - i]
          /\ Denotes(v) = sum[n] % UintMod
    BY <1>2, DenotesLoop
  <2> HIDE DEF n
  <2>4. PICK h \in [0 .. n -> Nat] : h[0] = 0 /\ \A i \in 1 .. n : h[i] = h[i - 1] * 8 + v[i]
    <3> DEFINE comb == [i \in 1 .. n |-> [t \in Nat |-> t * 8 + v[i]]]
    <3>1. \A i \in 1 .. n, t \in Nat : comb[i][t] = t * 8 + v[i] /\ comb[i][t] \in Nat
      <4> SUFFICES ASSUME NEW i \in 1 .. n, NEW t \in Nat
                   PROVE  comb[i][t] = t * 8 + v[i] /\ comb[i][t] \in Nat
        OBVIOUS
      <4>1. comb[i][t] = t * 8 + v[i]
        OBVIOUS
      <4> HIDE DEF comb
      <4>2. v[i] \in Nat
        BY <2>1
      <4> QED
        BY <4>1, <4>2, StepTyped
    <3> HIDE DEF comb
    <3>2. 0 \in Nat /\ \A i \in 1 .. n, t \in Nat : comb[i][t] \in Nat
      BY <3>1
    <3>3. PICK f \in [0 .. n -> Nat] : Upwards(f, n, 0, comb)
      BY <2>1, <3>2, CountsUp
    <3>4. \A i \in 0 .. n : f[i] = IF i = 0 THEN 0 ELSE comb[i][f[i - 1]]
      BY <3>3 DEF Upwards
    <3>5. 0 \in 0 .. n /\ \A i \in 1 .. n : i \in 0 .. n /\ i # 0 /\ i - 1 \in 0 .. n
      BY <2>1
    <3>6. f[0] = 0
      BY <3>4, <3>5
    <3>7. ASSUME NEW i \in 1 .. n PROVE f[i] = f[i - 1] * 8 + v[i]
      <4>1. f[i - 1] \in Nat /\ f[i] = comb[i][f[i - 1]]
        BY <3>4, <3>5
      <4> QED
        BY <3>1, <4>1
    <3> QED
      BY <3>6, <3>7
  <2>5. h[n] = sum[n]
    <3> DEFINE x == h[n]
               y == sum[n]
    <3>1. 8 \in Nat
      OBVIOUS
    <3>2. ByDigit(x, v, n, 8)
      BY <2>1, <2>4, <3>1 DEF ByDigit
    <3>3. ByPlace(y, v, n, 8)
      BY <2>3 DEF ByPlace
    <3> HIDE DEF x, y
    <3>4. x = y
      BY <3>2, <3>3, SameSum
    <3> QED
      BY <3>4 DEF x, y
  <2> DEFINE S == {i \in 0 .. n : r[i] = h[i] % UintMod}
  <2>6. 0 \in S
    BY <1>1, <2>4, <2>1, <2>2
  <2>7. ASSUME NEW i \in 1 .. n, i - 1 \in S PROVE i \in S
    <3>1. i \in 0 .. n /\ i - 1 \in 0 .. n /\ h[i - 1] \in Nat /\ v[i] \in Nat
      BY <2>4, <2>1, SMTT(30)
    <3>2. r[i] = ((h[i - 1] % UintMod) * 8 + v[i]) % UintMod
      BY <2>2, <2>7
    <3>3. r[i] = (h[i - 1] * 8 + v[i]) % UintMod
      <4>1. \A a, d \in Nat : ((a % UintMod) * 8 + d) % UintMod = (a * 8 + d) % UintMod
        BY <1>1, RemainderStep
      <4> QED
        BY <3>1, <3>2, <4>1
    <3> QED
      BY <2>4, <3>1, <3>3
  <2>8. \A i \in 0 .. n : i \in S
    <3> HIDE DEF S
    <3> QED
      BY <2>1, <2>6, <2>7, UpTo
  <2>9. r[n] = h[n] % UintMod
    BY <2>1, <2>8
  <2> QED
    BY <1>2, <2>2, <2>3, <2>5, <2>9 DEF Number
<1>3. CASE v[1] # 0
  <2> DEFINE n == Digits(v, 10)
  <2>1. n \in Nat /\ \A i \in 1 .. n : v[i] \in Nat
    <3>1. n \in 0 .. Len(v)
      BY DigitsCount
    <3> HIDE DEF n
    <3> QED
      BY <3>1
  <2>2. PICK h \in [0 .. n -> Nat] :
          /\ h[0] = 0
          /\ \A i \in 1 .. n : h[i] = h[i - 1] * 10 + v[i]
          /\ Atoi(v) = Long(h[n]) % UintMod
    BY AtoiLoop
  <2>3. PICK sum \in [0 .. n -> Nat] :
          /\ sum[0] = 0
          /\ \A i \in 1 .. n : sum[i] = sum[i - 1] + v[i] * Places(10, n)[n - i]
          /\ Denotes(v) = Long(sum[n]) % UintMod
    BY <1>3, DenotesLoop
  <2> HIDE DEF n
  <2>4. h[n] = sum[n]
    <3> DEFINE x == h[n]
               y == sum[n]
    <3>1. 10 \in Nat
      OBVIOUS
    <3>2. ByDigit(x, v, n, 10)
      BY <2>1, <2>2, <3>1 DEF ByDigit
    <3>3. ByPlace(y, v, n, 10)
      BY <2>3 DEF ByPlace
    <3> HIDE DEF x, y
    <3>4. x = y
      BY <3>2, <3>3, SameSum
    <3> QED
      BY <3>4 DEF x, y
  <2> QED
    BY <1>3, <2>2, <2>3, <2>4 DEF Number
<1> QED
  BY <1>2, <1>3

(* What holds while the file is read: the lines so far decide. *)
LastCounts == \A k \in Keys :
  LET settings == {i \in DOMAIN file : file[i].key = k} IN
  /\ settings = {} => tunable[k] = Default[k]
  /\ \A i \in settings : (\A j \in settings : j <= i) =>
       CASE k \in StrKeys -> tunable[k] = file[i].value
         [] k \in BoolKeys -> tunable[k] = 1 <=> file[i].value \in TrueValues
         [] k \in UintKeys -> tunable[k] = Denotes(file[i].value)

ConfInv ==
  /\ file \in Seq(Lines)
  /\ tunable = [k \in Keys |-> tunable[k]]
  /\ confPc \in {"reading", "loaded", "exit", "overrun"}
  /\ confPc \in {"reading", "loaded"} => LastCounts

LEMMA ConfInvInit == ConfInit => ConfInv
<1> SUFFICES ASSUME ConfInit PROVE ConfInv
  OBVIOUS
<1>1. file = << >> /\ file \in Seq(Lines)
  BY DEF ConfInit
<1>2. tunable = Default /\ Default = [k \in Keys |-> Default[k]]
  BY ConfAssumption DEF ConfInit, Keys
<1>3. LastCounts
  BY <1>1, <1>2 DEF LastCounts
<1>4. confPc = "reading"
  BY DEF ConfInit
<1> QED
  BY <1>1, <1>2, <1>3, <1>4 DEF ConfInv

(* x is what a setting of k to v leaves behind. *)
SetTo(k, x, v) ==
  CASE k \in StrKeys -> x = v
    [] k \in BoolKeys -> x = 1 <=> v \in TrueValues
    [] k \in UintKeys -> x = Denotes(v)

LEMMA SettingSets ==
  ASSUME tunable = [k \in Keys |-> tunable[k]], NEW l \in Lines, Setting(l)
  PROVE  /\ tunable' = [k \in Keys |-> tunable'[k]]
         /\ \A k \in Keys : k # l.key => tunable'[k] = tunable[k]
         /\ l.key \in Keys => SetTo(l.key, tunable'[l.key], l.value)
<1>1. CASE l.key \in StrKeys
  <2>1. tunable' = [tunable EXCEPT ![l.key] = l.value]
    BY <1>1, ConfAssumption DEF Setting
  <2>2. l.key \in Keys
    BY <1>1 DEF Keys
  <2>3. /\ tunable' = [k \in Keys |-> tunable'[k]] /\ tunable'[l.key] = l.value
        /\ \A k \in Keys : k # l.key => tunable'[k] = tunable[k]
    BY <2>1, <2>2
  <2>4. SetTo(l.key, tunable'[l.key], l.value)
    <3>1. l.key \notin BoolKeys /\ l.key \notin UintKeys
      BY <1>1, ConfAssumption
    <3> QED
      BY <1>1, <2>3, <3>1 DEF SetTo
  <2> QED
    BY <2>3, <2>4
<1>2. CASE l.key \in BoolKeys
  <2>1. l.key \notin StrKeys /\ l.key \notin UintKeys /\ l.key \in Keys
    BY <1>2, ConfAssumption DEF Keys
  <2>2. tunable' = [tunable EXCEPT ![l.key] = IF l.value \in TrueValues THEN 1 ELSE 0]
    BY <1>2, <2>1 DEF Setting
  <2>3. /\ tunable' = [k \in Keys |-> tunable'[k]]
        /\ tunable'[l.key] = IF l.value \in TrueValues THEN 1 ELSE 0
        /\ \A k \in Keys : k # l.key => tunable'[k] = tunable[k]
    BY <2>1, <2>2
  <2>4. tunable'[l.key] = 1 <=> l.value \in TrueValues
    BY <2>3
  <2>5. SetTo(l.key, tunable'[l.key], l.value)
    BY <1>2, <2>1, <2>4 DEF SetTo
  <2> QED
    BY <2>3, <2>5
<1>3. CASE l.key \in UintKeys
  <2>1. l.key \notin StrKeys /\ l.key \notin BoolKeys /\ l.key \in Keys
    BY <1>3, ConfAssumption DEF Keys
  <2>2. tunable' = [tunable EXCEPT ![l.key] = Number(l.value)]
    BY <1>3, <2>1 DEF Setting
  <2>3. /\ tunable' = [k \in Keys |-> tunable'[k]]
        /\ tunable'[l.key] = Number(l.value)
        /\ \A k \in Keys : k # l.key => tunable'[k] = tunable[k]
    BY <2>1, <2>2
  <2>4. l.value \in Seq(Nat)
    <3>1. l # BlankLine
      <4>1. BlankLine.key = ""
        BY DEF BlankLine
      <4>2. "" \notin Keys
        BY ConfAssumption DEF Keys
      <4> QED
        BY <2>1, <4>1, <4>2
    <3>2. l.value \in ConfValues
      BY <3>1 DEF Lines
    <3>3. ConfValues \subseteq Seq(Nat)
      BY ConfAssumption
    <3> QED
      BY <3>2, <3>3
  <2>5. Number(l.value) = Denotes(l.value)
    BY <2>4, NumberIsDenoted
  <2>6. SetTo(l.key, tunable'[l.key], l.value)
    BY <1>3, <2>1, <2>3, <2>5 DEF SetTo
  <2> QED
    BY <2>3, <2>6
<1>4. CASE l.key \notin Keys
  <2>1. l.key \notin StrKeys /\ l.key \notin BoolKeys /\ l.key \notin UintKeys
    BY <1>4 DEF Keys
  <2>2. tunable' = tunable
    BY <2>1 DEF Setting
  <2> QED
    BY <1>4, <2>2
<1> QED
  BY <1>1, <1>2, <1>3, <1>4 DEF Keys

LEMMA ConfInvStep == ConfInv /\ [ConfNext]_confVars => ConfInv'
<1> SUFFICES ASSUME ConfInv, [ConfNext]_confVars PROVE ConfInv'
  OBVIOUS
<1>1. CASE EndOfFile
  <2>1. /\ confPc = "reading" /\ confPc' = "loaded"
        /\ file' = file /\ tunable' = tunable
    BY <1>1 DEF EndOfFile
  <2>2. LastCounts => LastCounts'
    BY <2>1 DEF LastCounts
  <2> QED
    BY <2>1, <2>2 DEF ConfInv
<1>2. ASSUME NEW l \in Lines, LoadLine(l)
      PROVE  ConfInv'
  <2>1. confPc = "reading" /\ file' = Append(file, l)
    BY <1>2 DEF LoadLine
  <2>2. file' \in Seq(Lines)
    BY <2>1 DEF ConfInv
  <2>3. CASE Overruns(l) \/ Bad(l)
    <3>1. confPc' \in {"exit", "overrun"} /\ tunable' = tunable
      BY <1>2, <2>3 DEF LoadLine
    <3> QED
      BY <2>2, <3>1 DEF ConfInv
  <2>4. CASE ~(Overruns(l) \/ Bad(l))
    <3>1. Setting(l) /\ confPc' = confPc
      BY <1>2, <2>4 DEF LoadLine
    <3>2. /\ tunable' = [k \in Keys |-> tunable'[k]]
          /\ \A k \in Keys : k # l.key => tunable'[k] = tunable[k]
          /\ l.key \in Keys => SetTo(l.key, tunable'[l.key], l.value)
      BY <3>1, SettingSets DEF ConfInv
    <3>3. LastCounts
      BY <2>1 DEF ConfInv
    <3> DEFINE n == Len(file)
    <3>4. /\ n \in Nat /\ DOMAIN file = 1 .. n /\ DOMAIN file' = 1 .. n + 1
          /\ \A i \in 1 .. n : file'[i] = file[i]
          /\ file'[n + 1] = l
      BY <2>1 DEF ConfInv
    <3> HIDE DEF n
    <3>5. ASSUME NEW k \in Keys
          PROVE  LET settings == {i \in DOMAIN file' : file'[i].key = k} IN
                 /\ settings = {} => tunable'[k] = Default[k]
                 /\ \A i \in settings : (\A j \in settings : j <= i) =>
                      SetTo(k, tunable'[k], file'[i].value)
      <4> DEFINE before == {i \in DOMAIN file : file[i].key = k}
                 after == {i \in DOMAIN file' : file'[i].key = k}
      <4>1. /\ before = {} => tunable[k] = Default[k]
            /\ \A i \in before : (\A j \in before : j <= i) => SetTo(k, tunable[k], file[i].value)
        BY <3>3 DEF LastCounts, SetTo
      <4>2. CASE l.key = k
        <5>1. n + 1 \in after /\ after \subseteq 1 .. n + 1
          BY <3>4, <4>2
        <5>2. ASSUME NEW i \in after, \A j \in after : j <= i
              PROVE  SetTo(k, tunable'[k], file'[i].value)
          <6>1. i = n + 1
            BY <3>4, <5>1, <5>2
          <6> QED
            BY <3>2, <3>4, <4>2, <6>1
        <5> QED
          BY <5>1, <5>2
      <4>3. CASE l.key # k
        <5>1. after = before
          BY <3>4, <4>3
        <5>2. \A i \in before : file'[i] = file[i]
          BY <3>4
        <5>3. tunable'[k] = tunable[k]
          BY <3>2, <4>3
        <5> HIDE DEF before, after
        <5>4. \A i \in after : (\A j \in after : j <= i) => SetTo(k, tunable'[k], file'[i].value)
          BY <4>1, <5>1, <5>2, <5>3
        <5> QED
          BY <4>1, <5>1, <5>3, <5>4 DEF after
      <4> QED
        BY <4>2, <4>3
    <3>6. LastCounts'
      BY <3>5 DEF LastCounts, SetTo
    <3> QED
      BY <2>1, <2>2, <3>1, <3>2, <3>6 DEF ConfInv
  <2> QED
    BY <2>3, <2>4
<1>3. CASE UNCHANGED confVars
  BY <1>3 DEF confVars, ConfInv, LastCounts
<1> QED
  BY <1>1, <1>2, <1>3 DEF ConfNext

(* When the file has been read, the last setting of each tunable holds. *)
THEOREM LastSettingHolds == ConfSpec => []LastSettingWins
<1>1. ConfInv => LastSettingWins
  BY DEF ConfInv, LastCounts, LastSettingWins
<1> QED
  BY <1>1, ConfInvInit, ConfInvStep, PTL DEF ConfSpec
=============================================================================
