---------------------------- MODULE ServerProofs ----------------------------
(* Proofs about Server, for any number of processes, addresses and limits. *)
EXTENDS Server, FiniteSetTheorems, TLAPS

-----------------------------------------------------------------------------
(* The inductive invariant. *)

(* The client whose increment is done and whose process is not forked yet. *)
DueNum == IF pc \in {"ip", "ipStore", "test", "fork"} THEN 1 ELSE 0
DueIp(i) == IF pc \in {"test", "fork"} /\ addr = i THEN 1 ELSE 0
DueCount == IF pc = "fork" THEN 1 ELSE 0

NumInv ==
  /\ Cardinality(Children) + DueNum <= numOfClients
  /\ pc = "addStore" => numOfClients <= reg

IpInv ==
  /\ \A i \in IPs : Cardinality(KidsOf(i)) + DueIp(i) <= Count(i)
  /\ pc = "ipStore" => addr \in DOMAIN ipToClients /\ ipToClients[addr] <= reg

PidInv ==
  /\ \A p \in DOMAIN pidToIp : p \in Children /\ pidToIp[p] = child[p].ip
  /\ pc = "register" => /\ pid \in Children \ DOMAIN pidToIp
                        /\ child[pid].ip = addr

(* At most k processes of an address were told a count up to k. *)
IpUpTo(i, k) == {p \in KidsOf(i) : child[p].currIp <= k}

IpRank ==
  /\ pc \in {"test", "fork"} => Cardinality(KidsOf(addr)) < sess.currIp
  /\ \A i \in IPs, k \in Nat :
       Cardinality(IpUpTo(i, k)) <= k

NumUpTo(k) == {p \in Children : child[p].curr <= k}

NumRank ==
  /\ Cardinality(Children) + DueCount <= clientcount
  /\ pc = "fork" => sess.curr = clientcount
  /\ \A k \in Nat : Cardinality(NumUpTo(k)) <= k

Admitted == \A p \in InSession : ~OverClients(child[p]) /\ ~OverIp(child[p])

IInv ==
  TypeOK /\ NumInv /\ IpInv /\ PidInv /\ IpRank /\ NumRank /\ Admitted
    /\ CountFound /\ NoZombieForgotten

-----------------------------------------------------------------------------
(* Sets of processes and their sizes. *)

(* Every set of unreaped processes is finite: its size is a number. *)
LEMMA FiniteKids ==
  ASSUME TypeOK
  PROVE  /\ IsFiniteSet(Children) /\ Cardinality(Children) \in Nat
         /\ \A i : IsFiniteSet(KidsOf(i)) /\ Cardinality(KidsOf(i)) \in Nat
         /\ \A i, k : /\ IsFiniteSet(IpUpTo(i, k))
                      /\ Cardinality(IpUpTo(i, k)) \in Nat
                      /\ Cardinality(IpUpTo(i, k)) <= Cardinality(KidsOf(i))
         /\ \A k : /\ IsFiniteSet(NumUpTo(k)) /\ Cardinality(NumUpTo(k)) \in Nat
                   /\ Cardinality(NumUpTo(k)) <= Cardinality(Children)
<1>1. IsFiniteSet(Children)
  BY FS_Subset, ServerAssumption DEF TypeOK, ServerAssumption
<1>2. \A i : KidsOf(i) \in SUBSET Children
  BY DEF KidsOf
<1>3. \A i : IsFiniteSet(KidsOf(i))
  BY <1>1, <1>2, FS_Subset
<1>4. \A i, k : IpUpTo(i, k) \in SUBSET KidsOf(i)
  BY DEF IpUpTo
<1>5. \A k : NumUpTo(k) \in SUBSET Children
  BY DEF NumUpTo
<1>6. /\ \A i, k : /\ IsFiniteSet(IpUpTo(i, k))
                   /\ Cardinality(IpUpTo(i, k)) <= Cardinality(KidsOf(i))
      /\ \A k : /\ IsFiniteSet(NumUpTo(k))
                /\ Cardinality(NumUpTo(k)) <= Cardinality(Children)
  BY <1>1, <1>3, <1>4, <1>5, FS_Subset
<1> QED
  BY <1>1, <1>3, <1>6, FS_CardinalityType

(* The step leaves the address and the counts of every process alone.      *)
SameCounts ==
  /\ Children' = Children
  /\ \A p \in Children : /\ child'[p].ip = child[p].ip
                         /\ child'[p].curr = child[p].curr
                         /\ child'[p].currIp = child[p].currIp

(* Such a step, for instance a change of stage, leaves the sets alone. *)
LEMMA SameKids ==
  ASSUME SameCounts
  PROVE  /\ \A i : KidsOf(i)' = KidsOf(i)
         /\ \A i, k : IpUpTo(i, k)' = IpUpTo(i, k)
         /\ \A k : NumUpTo(k)' = NumUpTo(k)
<1>1. \A i : KidsOf(i)' = KidsOf(i)
  BY DEF SameCounts, KidsOf
<1>2. \A i : KidsOf(i) \subseteq Children
  BY DEF KidsOf
<1>3. \A i, k : IpUpTo(i, k)' = IpUpTo(i, k)
  BY <1>1, <1>2 DEF SameCounts, IpUpTo
<1>4. \A k : NumUpTo(k)' = NumUpTo(k)
  BY DEF SameCounts, NumUpTo
<1> QED
  BY <1>1, <1>3, <1>4

(* A forked process joins the sets it belongs to. *)
LEMMA AddedKid ==
  ASSUME TypeOK, NEW p, p \notin Children,
         NEW r \in [st : Stages, ip : IPs, curr : Nat, currIp : Nat],
         child' = Put(child, p, r)
  PROVE  /\ Children' = Children \cup {p}
         /\ Cardinality(Children') = Cardinality(Children) + 1
         /\ \A i : Cardinality(KidsOf(i)') =
                     Cardinality(KidsOf(i)) + (IF r.ip = i THEN 1 ELSE 0)
         /\ \A i, k : Cardinality(IpUpTo(i, k)') = Cardinality(IpUpTo(i, k)) +
                        (IF r.ip = i /\ r.currIp <= k THEN 1 ELSE 0)
         /\ \A k : Cardinality(NumUpTo(k)') =
                     Cardinality(NumUpTo(k)) + (IF r.curr <= k THEN 1 ELSE 0)
<1>1. /\ Children' = Children \cup {p} /\ child'[p] = r
      /\ \A q \in Children : child'[q] = child[q]
  BY DEF Put, Children
<1>2. \A i : KidsOf(i)' = IF r.ip = i THEN KidsOf(i) \cup {p} ELSE KidsOf(i)
  BY <1>1 DEF KidsOf
<1>3. \A i, k : IpUpTo(i, k)' = IF r.ip = i /\ r.currIp <= k
                                THEN IpUpTo(i, k) \cup {p} ELSE IpUpTo(i, k)
  BY <1>1, <1>2 DEF IpUpTo, KidsOf
<1>4. \A k : NumUpTo(k)' = IF r.curr <= k THEN NumUpTo(k) \cup {p} ELSE NumUpTo(k)
  BY <1>1 DEF NumUpTo
<1>5. /\ \A i : p \notin KidsOf(i) /\ \A k : p \notin IpUpTo(i, k)
      /\ \A k : p \notin NumUpTo(k)
  BY DEF KidsOf, IpUpTo, NumUpTo
<1>6. Cardinality(Children') = Cardinality(Children) + 1
  BY <1>1, FiniteKids, FS_AddElement
<1>7. \A i : Cardinality(KidsOf(i)') =
              Cardinality(KidsOf(i)) + (IF r.ip = i THEN 1 ELSE 0)
  BY <1>2, <1>5, FiniteKids, FS_AddElement
<1>8. \A i, k : Cardinality(IpUpTo(i, k)') = Cardinality(IpUpTo(i, k)) +
                 (IF r.ip = i /\ r.currIp <= k THEN 1 ELSE 0)
  BY <1>3, <1>5, FiniteKids, FS_AddElement
<1>9. \A k : Cardinality(NumUpTo(k)') =
              Cardinality(NumUpTo(k)) + (IF r.curr <= k THEN 1 ELSE 0)
  BY <1>4, <1>5, FiniteKids, FS_AddElement
<1> QED
  BY <1>1, <1>6, <1>7, <1>8, <1>9

(* A reaped process leaves the sets it was in. *)
LEMMA DroppedKid ==
  ASSUME TypeOK, NEW z \in Children, child' = Drop(child, z)
  PROVE  /\ Children' = Children \ {z}
         /\ \A p \in Children' : child'[p] = child[p]
         /\ Cardinality(Children') = Cardinality(Children) - 1
         /\ \A i : Cardinality(KidsOf(i)') =
                     Cardinality(KidsOf(i)) - (IF child[z].ip = i THEN 1 ELSE 0)
         /\ \A i, k : /\ Cardinality(IpUpTo(i, k)') \in Nat
                      /\ Cardinality(IpUpTo(i, k)') <= Cardinality(IpUpTo(i, k))
         /\ \A k : /\ Cardinality(NumUpTo(k)') \in Nat
                   /\ Cardinality(NumUpTo(k)') <= Cardinality(NumUpTo(k))
<1>1. /\ Children' = Children \ {z}
      /\ \A p \in Children' : child'[p] = child[p]
  BY DEF Drop, Children
<1>2. \A i : KidsOf(i)' = KidsOf(i) \ {z}
  BY <1>1 DEF KidsOf
<1>3. \A i : z \in KidsOf(i) <=> child[z].ip = i
  BY DEF KidsOf
<1>4. /\ \A i, k : IpUpTo(i, k)' \in SUBSET IpUpTo(i, k)
      /\ \A k : NumUpTo(k)' \in SUBSET NumUpTo(k)
  BY <1>1, <1>2 DEF IpUpTo, NumUpTo, KidsOf
<1>5. Cardinality(Children') = Cardinality(Children) - 1
  BY <1>1, FiniteKids, FS_RemoveElement
<1>6. \A i : Cardinality(KidsOf(i)') =
              Cardinality(KidsOf(i)) - (IF child[z].ip = i THEN 1 ELSE 0)
  BY <1>2, <1>3, FiniteKids, FS_RemoveElement
<1>7. /\ \A i, k : /\ IsFiniteSet(IpUpTo(i, k)')
                   /\ Cardinality(IpUpTo(i, k)') <= Cardinality(IpUpTo(i, k))
      /\ \A k : /\ IsFiniteSet(NumUpTo(k)')
                /\ Cardinality(NumUpTo(k)') <= Cardinality(NumUpTo(k))
  BY <1>4, FiniteKids, FS_Subset
<1> QED
  BY <1>1, <1>5, <1>6, <1>7, FS_CardinalityType

-----------------------------------------------------------------------------
(* Type correctness: inductive on its own. *)

(* Every step of the listener, its handler or its children keeps the       *)
(* variables in their types.                                               *)
LEMMA TypeStep ==
  ASSUME TypeOK, Next
  PROVE  TypeOK'
<1> USE DEF TypeOK, MainSteps, Dead, Main, Children
<1>1. CASE AcceptClient
  BY <1>1 DEF AcceptClient
<1>2. CASE AcceptFails
  BY <1>2 DEF AcceptFails
<1>3. CASE AfterEintr
  BY <1>3 DEF AfterEintr
<1>4. CASE AddLoad
  BY <1>4 DEF AddLoad
<1>5. CASE AddStore
  BY <1>5 DEF AddStore
<1>6. CASE IpNew
  BY <1>6 DEF IpNew, Put
<1>7. CASE IpLoad
  BY <1>7 DEF IpLoad
<1>8. CASE IpStore
  BY <1>8 DEF IpStore, Put
<1>9. CASE NoClient
  BY <1>9 DEF NoClient
<1>10. CASE CountClient
  BY <1>10 DEF CountClient
<1>11. CASE Fork
  <2>1. PICK p \in Pids \ Children :
          /\ pid' = p
          /\ child' = Put(child, p, [st |-> "limit", ip |-> addr,
                                     curr |-> sess.curr, currIp |-> sess.currIp])
    BY <1>11 DEF Fork
  <2>2. [st |-> "limit", ip |-> addr, curr |-> sess.curr, currIp |-> sess.currIp]
          \in [st : Stages, ip : IPs, curr : Nat, currIp : Nat]
    BY DEF Stages
  <2> QED
    BY <1>11, <2>1, <2>2 DEF Fork, Put
<1>12. CASE ForkFails
  BY <1>12 DEF ForkFails
<1>13. CASE Register
  BY <1>13 DEF Register, Put
<1>14. CASE Deliver
  BY <1>14 DEF Deliver, mainVars
<1>15. CASE HandlerReturns
  BY <1>15 DEF HandlerReturns
<1>16. ASSUME NEW z \in Pids, Reap(z) PROVE TypeOK'
  <2>1. numOfClients' \in Nat
    BY <1>16, ServerAssumption DEF Reap, Dec, ServerAssumption
  <2>2. CASE UNCHANGED <<ipToClients, pidToIp>>
    BY <1>16, <2>1, <2>2 DEF Reap, Drop
  <2>3. CASE z \in DOMAIN pidToIp /\ ReapedIp(z) \in DOMAIN ipToClients
             /\ ipToClients[ReapedIp(z)] > 0
    BY <1>16, <2>1, <2>3 DEF Reap, Drop, Put, ReapedIp
  <2> QED
    BY <1>16, <2>2, <2>3 DEF Reap
<1>17. ASSUME NEW p \in Pids, Limit(p) PROVE TypeOK'
  BY <1>17 DEF Limit, Stage, Stages, mainVars
<1>18. ASSUME NEW p \in Pids, Exit(p) PROVE TypeOK'
  BY <1>18 DEF Exit, Stage, Stages, mainVars
<1> QED
  BY <1>1, <1>2, <1>3, <1>4, <1>5, <1>6, <1>7, <1>8, <1>9, <1>10, <1>11, <1>12,
     <1>13, <1>14, <1>15, <1>16, <1>17, <1>18
     DEF Next, MainStep, HandlerStep

(* The state server_init leaves is well typed. *)
LEMMA TypeInit == Init => TypeOK
<1> SUFFICES ASSUME Init PROVE TypeOK
  OBVIOUS
<1>1. /\ DOMAIN ipToClients = {} /\ DOMAIN pidToIp = {} /\ Children = {}
      /\ sess \in [curr : Nat, currIp : Nat]
  BY DEF Init, Children
<1> QED
  BY <1>1 DEF Init, TypeOK, MainSteps

(* Steps and stutters keep the types. *)
LEMMA TypeNext == TypeOK /\ [Next]_vars => TypeOK'
<1>1. ASSUME TypeOK, Next PROVE TypeOK'
  BY <1>1, TypeStep
<1>2. ASSUME TypeOK, UNCHANGED vars PROVE TypeOK'
  BY <1>2 DEF TypeOK, vars, mainVars, Children
<1> QED
  BY <1>1, <1>2

(* Every variable keeps the set of values TypeOK gives it. *)
THEOREM TypeCorrect == Spec => []TypeOK
  BY TypeInit, TypeNext, PTL DEF Spec

-----------------------------------------------------------------------------
(* The inductive invariant is preserved, one lemma per kind of step. *)

(* The steps of the main flow and of the handler that fork and reap        *)
(* nothing.                                                                *)
LEMMA QuietStep ==
  ASSUME IInv, TypeOK', child' = child,
         \/ MainStep /\ ~Fork
         \/ Deliver
         \/ HandlerReturns
  PROVE  IInv'
<1>1. /\ Children' = Children /\ InSession' = InSession /\ Zombies' = Zombies
      /\ \A i : KidsOf(i)' = KidsOf(i)
      /\ \A i, k : IpUpTo(i, k)' = IpUpTo(i, k)
      /\ \A k : NumUpTo(k)' = NumUpTo(k)
  BY SameKids DEF SameCounts, InSession, Zombies, Children
<1>2. /\ Cardinality(Children) \in Nat
      /\ \A i : Cardinality(KidsOf(i)) \in Nat
  BY FiniteKids DEF IInv
<1>3. Admitted'
  BY <1>1 DEF IInv, Admitted, OverClients, OverIp
<1> USE <1>1, <1>2 DEF IInv, TypeOK, NumInv, IpInv, PidInv, IpRank, NumRank,
          CountFound, NoZombieForgotten, DueNum, DueIp, DueCount, Count, Main, Dead
<1>4. CASE AcceptClient
  BY <1>3, <1>4 DEF AcceptClient
<1>5. CASE AcceptFails
  BY <1>3, <1>5 DEF AcceptFails
<1>6. CASE AfterEintr
  BY <1>3, <1>6 DEF AfterEintr
<1>7. CASE AddLoad
  BY <1>3, <1>7 DEF AddLoad
<1>8. CASE AddStore
  BY <1>3, <1>8 DEF AddStore
<1>9. CASE IpNew
  BY <1>3, <1>9 DEF IpNew, Put
<1>10. CASE IpLoad
  BY <1>3, <1>10 DEF IpLoad
<1>11. CASE IpStore
  BY <1>3, <1>11 DEF IpStore, Put
<1>12. CASE NoClient
  BY <1>3, <1>12 DEF NoClient
<1>13. CASE CountClient
  BY <1>3, <1>13 DEF CountClient
<1>14. CASE ForkFails
  BY <1>3, <1>14 DEF ForkFails
<1>15. CASE Register
  BY <1>3, <1>15 DEF Register, Put
<1>16. CASE Deliver
  BY <1>3, <1>16 DEF Deliver, mainVars
<1>17. CASE HandlerReturns
  BY <1>3, <1>17 DEF HandlerReturns, Drained
<1> QED
  BY <1>4, <1>5, <1>6, <1>7, <1>8, <1>9, <1>10, <1>11, <1>12, <1>13, <1>14, <1>15, <1>16, <1>17 DEF MainStep

(* The forked process takes the place of the client that was due.          *)
LEMMA ForkStep ==
  ASSUME IInv, TypeOK', Fork
  PROVE  IInv'
<1> DEFINE r == [st |-> "limit", ip |-> addr,
                 curr |-> sess.curr, currIp |-> sess.currIp]
<1>1. PICK p \in Pids \ Children : pid' = p /\ child' = Put(child, p, r)
  BY DEF Fork
<1>2. r \in [st : Stages, ip : IPs, curr : Nat, currIp : Nat]
  BY DEF IInv, TypeOK, Stages
<1>3. /\ r.ip = addr /\ r.curr = sess.curr /\ r.currIp = sess.currIp
      /\ r.st = "limit"
  OBVIOUS
<1> HIDE DEF r
<1>4. /\ Children' = Children \cup {p}
      /\ Cardinality(Children') = Cardinality(Children) + 1
      /\ \A i : Cardinality(KidsOf(i)') =
                  Cardinality(KidsOf(i)) + (IF addr = i THEN 1 ELSE 0)
      /\ \A i, k : Cardinality(IpUpTo(i, k)') = Cardinality(IpUpTo(i, k)) +
                     (IF addr = i /\ sess.currIp <= k THEN 1 ELSE 0)
      /\ \A k : Cardinality(NumUpTo(k)') =
                  Cardinality(NumUpTo(k)) + (IF sess.curr <= k THEN 1 ELSE 0)
  BY <1>1, <1>2, <1>3, AddedKid DEF IInv
<1>5. child'[p] = r /\ \A q \in Children : child'[q] = child[q]
  BY <1>1 DEF Put, Children
<1>6. /\ Cardinality(Children) \in Nat
      /\ \A i : Cardinality(KidsOf(i)) \in Nat
      /\ \A i, k : /\ Cardinality(IpUpTo(i, k)) \in Nat
                   /\ Cardinality(IpUpTo(i, k)) <= Cardinality(KidsOf(i))
      /\ \A k : /\ Cardinality(NumUpTo(k)) \in Nat
                /\ Cardinality(NumUpTo(k)) <= Cardinality(Children)
  BY FiniteKids DEF IInv
<1>7. NumInv'
  BY <1>4, <1>6 DEF IInv, TypeOK, NumInv, DueNum, Fork, Main
<1>8. IpInv'
  BY <1>4, <1>6 DEF IInv, TypeOK, IpInv, DueIp, Count, Fork, Main
<1>9. PidInv'
  BY <1>1, <1>3, <1>4, <1>5 DEF IInv, PidInv, Fork, Main
<1>10. IpRank'
  <2>1. Cardinality(KidsOf(addr)) < sess.currIp
    BY DEF IInv, IpRank, Fork, Main
  <2>2. ASSUME NEW i \in IPs, NEW k \in Nat
        PROVE  Cardinality(IpUpTo(i, k)') <= k
    <3>1. CASE addr = i /\ sess.currIp <= k
      BY <2>1, <3>1, <1>4, <1>6 DEF IInv, TypeOK
    <3>2. CASE ~(addr = i /\ sess.currIp <= k)
      BY <3>2, <1>4, <1>6 DEF IInv, IpRank
    <3> QED
      BY <3>1, <3>2
  <2> QED
    BY <2>2 DEF IpRank, Fork, Main
<1>11. NumRank'
  <2>1. /\ sess.curr = clientcount
        /\ Cardinality(Children) + 1 <= clientcount
    BY <1>6 DEF IInv, NumRank, DueCount, Fork, Main
  <2>2. ASSUME NEW k \in Nat
        PROVE  Cardinality(NumUpTo(k)') <= k
    <3>1. CASE sess.curr <= k
      BY <2>1, <3>1, <1>4, <1>6 DEF IInv, TypeOK
    <3>2. CASE ~(sess.curr <= k)
      BY <3>2, <1>4, <1>6 DEF IInv, NumRank
    <3> QED
      BY <3>1, <3>2
  <2> QED
    BY <2>1, <2>2, <1>4, <1>6 DEF NumRank, DueCount, Fork, Main, IInv, TypeOK
<1>12. InSession' = InSession /\ Zombies' = Zombies
  BY <1>1, <1>3, <1>4, <1>5 DEF InSession, Zombies
<1>13. Admitted'
  BY <1>5, <1>12 DEF IInv, Admitted, InSession, OverClients, OverIp
<1>14. CountFound' /\ NoZombieForgotten'
  BY <1>12 DEF IInv, CountFound, NoZombieForgotten, Fork, Main, Dead
<1> QED
  BY <1>7, <1>8, <1>9, <1>10, <1>11, <1>13, <1>14 DEF IInv

(* A reaped process takes its own share of both counters away.  That it is *)
(* counted is why the handler never finds an address without a count.      *)
LEMMA ReapStep ==
  ASSUME IInv, TypeOK', NEW z \in Pids, Reap(z)
  PROVE  IInv'
<1>1. z \in Children /\ child' = Drop(child, z) /\ inHandler /\ inHandler'
      /\ numOfClients' = Dec(numOfClients)
      /\ UNCHANGED <<addr, reg, sess, pid, clientcount, sigPending>>
  BY DEF Reap, Zombies, IInv, TypeOK
<1>2. /\ Children' = Children \ {z}
      /\ \A p \in Children' : child'[p] = child[p]
      /\ Cardinality(Children') = Cardinality(Children) - 1
      /\ \A i : Cardinality(KidsOf(i)') =
                  Cardinality(KidsOf(i)) - (IF child[z].ip = i THEN 1 ELSE 0)
      /\ \A i, k : /\ Cardinality(IpUpTo(i, k)') \in Nat
                   /\ Cardinality(IpUpTo(i, k)') <= Cardinality(IpUpTo(i, k))
      /\ \A k : /\ Cardinality(NumUpTo(k)') \in Nat
                /\ Cardinality(NumUpTo(k)') <= Cardinality(NumUpTo(k))
  BY <1>1, DroppedKid DEF IInv
<1>3. /\ Cardinality(Children) \in Nat
      /\ \A i : Cardinality(KidsOf(i)) \in Nat
      /\ \A i, k : Cardinality(IpUpTo(i, k)) \in Nat
      /\ \A k : Cardinality(NumUpTo(k)) \in Nat
  BY FiniteKids DEF IInv
<1>4. \/ /\ pc' = "abort63" /\ z \notin DOMAIN pidToIp
         /\ UNCHANGED <<ipToClients, pidToIp>>
      \/ /\ pc' = pc /\ z \in DOMAIN pidToIp
         /\ ipToClients' = Put(ipToClients, child[z].ip, ipToClients[child[z].ip] - 1)
         /\ pidToIp' = Drop(pidToIp, z)
         /\ child[z].ip \in DOMAIN ipToClients /\ ipToClients[child[z].ip] > 0
  <2>1. CASE z \in DOMAIN pidToIp
    <3>1. ReapedIp(z) = child[z].ip /\ child[z].ip \in IPs
      BY <1>1, <2>1 DEF IInv, TypeOK, PidInv, ReapedIp
    <3>2. Cardinality(KidsOf(child[z].ip)) > 0
      <4>1. /\ z \in KidsOf(child[z].ip)
            /\ IsFiniteSet(KidsOf(child[z].ip))
        BY <1>1, FiniteKids DEF IInv, KidsOf
      <4> QED
        BY <4>1, <1>3, FS_EmptySet
    <3>3. Count(child[z].ip) > 0
      BY <3>1, <3>2, <1>3 DEF IInv, TypeOK, IpInv, DueIp, Count
    <3> QED
      BY <2>1, <3>1, <3>3 DEF Reap, Count
  <2>2. CASE z \notin DOMAIN pidToIp
    BY <2>2 DEF Reap
  <2> QED
    BY <2>1, <2>2
<1>5. NumInv'
  <2>1. Cardinality(Children) > 0
    BY <1>1, <1>3, FiniteKids, FS_EmptySet DEF IInv
  <2>2. numOfClients' = numOfClients - 1
    BY <2>1, <1>1, <1>3 DEF IInv, TypeOK, NumInv, DueNum, Dec
  <2> QED
    BY <2>1, <2>2, <1>1, <1>2, <1>3, <1>4 DEF IInv, TypeOK, NumInv, DueNum
<1>6. IpInv'
  BY <1>1, <1>2, <1>3, <1>4 DEF IInv, TypeOK, IpInv, DueIp, Count, Put
<1>7. PidInv'
  BY <1>1, <1>2, <1>4 DEF IInv, PidInv, Drop
<1>8. IpRank'
  BY <1>1, <1>2, <1>3, <1>4 DEF IInv, TypeOK, IpRank
<1>9. NumRank'
  BY <1>1, <1>2, <1>3, <1>4 DEF IInv, TypeOK, NumRank, DueCount
<1>10. Admitted'
  BY <1>2 DEF IInv, Admitted, InSession, OverClients, OverIp
<1>11. CountFound' /\ NoZombieForgotten'
  BY <1>1, <1>4 DEF IInv, CountFound, NoZombieForgotten
<1> QED
  BY <1>5, <1>6, <1>7, <1>8, <1>9, <1>10, <1>11 DEF IInv

(* A process that moves on changes its stage and nothing that is counted;  *)
(* it becomes a session only when neither limit is exceeded.               *)
LEMMA StageStep ==
  ASSUME IInv, TypeOK', NEW p \in Pids, Limit(p) \/ Exit(p)
  PROVE  IInv'
<1>1. PICK from, to :
        /\ Stage(p, from, to)
        /\ \/ UNCHANGED sigPending /\ to # "zombie"
           \/ sigPending' /\ to = "zombie"
        /\ to = "session" => ~OverClients(child[p]) /\ ~OverIp(child[p])
  BY DEF Limit, Exit
<1>2. /\ p \in Children /\ child' = [child EXCEPT ![p].st = to]
      /\ UNCHANGED <<mainVars, numOfClients, ipToClients, pidToIp, inHandler>>
  BY <1>1 DEF Stage
<1>3. /\ Children' = Children
      /\ \A q \in Children \ {p} : child'[q] = child[q]
      /\ child'[p] = [child[p] EXCEPT !.st = to]
  BY <1>2 DEF Children
<1>4. /\ child'[p].st = to /\ child'[p].ip = child[p].ip
      /\ child'[p].curr = child[p].curr /\ child'[p].currIp = child[p].currIp
  BY <1>2, <1>3 DEF IInv, TypeOK
<1>5. SameCounts
  BY <1>3, <1>4 DEF SameCounts
<1>6. /\ \A i : KidsOf(i)' = KidsOf(i)
      /\ \A i, k : IpUpTo(i, k)' = IpUpTo(i, k)
      /\ \A k : NumUpTo(k)' = NumUpTo(k)
  BY <1>5, SameKids
<1>7. NumInv' /\ IpInv'
  BY <1>2, <1>3, <1>6 DEF IInv, NumInv, IpInv, DueNum, DueIp, Count, mainVars
<1>8. PidInv'
  BY <1>2, <1>3, <1>5 DEF IInv, PidInv, SameCounts, mainVars
<1>9. IpRank' /\ NumRank'
  BY <1>2, <1>3, <1>6 DEF IInv, IpRank, NumRank, DueCount, mainVars
<1>10. Admitted'
  <2>1. ASSUME NEW q \in InSession'
        PROVE  ~OverClients(child[q])' /\ ~OverIp(child[q])'
    <3>1. CASE q = p
      BY <1>1, <1>4, <2>1, <3>1 DEF InSession, OverClients, OverIp
    <3>2. CASE q # p
      BY <1>3, <2>1, <3>2 DEF IInv, Admitted, InSession, OverClients, OverIp
    <3> QED
      BY <3>1, <3>2
  <2> QED
    BY <2>1 DEF Admitted
<1>11. CountFound' /\ NoZombieForgotten'
  BY <1>1, <1>2, <1>3, <1>4
     DEF IInv, CountFound, NoZombieForgotten, Zombies, Dead, mainVars
<1> QED
  BY <1>7, <1>8, <1>9, <1>10, <1>11 DEF IInv

(* IInv is an invariant. *)
LEMMA InvHolds == Spec => []IInv
<1>1. Init => IInv
  <2> SUFFICES ASSUME Init PROVE IInv
    OBVIOUS
  <2>1. /\ Children = {} /\ DOMAIN pidToIp = {}
        /\ \A i : KidsOf(i) = {} /\ \A k : IpUpTo(i, k) = {}
        /\ \A k : NumUpTo(k) = {}
        /\ InSession = {} /\ Zombies = {}
    BY DEF Init, Children, KidsOf, IpUpTo, NumUpTo, InSession, Zombies
  <2>2. /\ Cardinality(Children) = 0
        /\ \A i : Cardinality(KidsOf(i)) = 0 /\ \A k : Cardinality(IpUpTo(i, k)) = 0
        /\ \A k : Cardinality(NumUpTo(k)) = 0
    BY <2>1, FS_EmptySet, Zenon
  <2>3. NumInv /\ IpInv
    BY <2>2 DEF Init, NumInv, IpInv, DueNum, DueIp, Count
  <2>4. PidInv /\ Admitted /\ CountFound /\ NoZombieForgotten
    BY <2>1 DEF Init, PidInv, Admitted, CountFound, NoZombieForgotten
  <2>5. IpRank /\ NumRank
    BY <2>2 DEF Init, IpRank, NumRank, DueCount
  <2> QED
    BY <2>3, <2>4, <2>5, TypeInit DEF IInv
<1>2. IInv /\ [Next]_vars => IInv'
  <2> SUFFICES ASSUME IInv, [Next]_vars PROVE IInv'
    OBVIOUS
  <2>1. TypeOK'
    BY TypeNext DEF IInv
  <2>2. CASE MainStep /\ ~Fork
    <3>1. child' = child
      BY <2>2 DEF MainStep, AcceptClient, AcceptFails, AfterEintr, AddLoad,
                  AddStore, IpNew, IpLoad, IpStore, NoClient, CountClient,
                  ForkFails, Register
    <3> QED
      BY <2>1, <2>2, <3>1, QuietStep
  <2>3. CASE Fork
    BY <2>1, <2>3, ForkStep
  <2>4. CASE Deliver \/ HandlerReturns
    BY <2>1, <2>4, QuietStep DEF Deliver, HandlerReturns
  <2>5. ASSUME NEW z \in Pids, Reap(z) PROVE IInv'
    BY <2>1, <2>5, ReapStep
  <2>6. ASSUME NEW p \in Pids, Limit(p) \/ Exit(p) PROVE IInv'
    BY <2>1, <2>6, StageStep
  <2>7. CASE UNCHANGED vars
    <3>1. child' = child
      BY <2>7 DEF vars
    <3>2. /\ \A i : KidsOf(i)' = KidsOf(i)
          /\ \A i, k : IpUpTo(i, k)' = IpUpTo(i, k)
          /\ \A k : NumUpTo(k)' = NumUpTo(k)
      BY <3>1, SameKids DEF SameCounts, Children
    <3> QED
      BY <2>1, <2>7, <3>1, <3>2
         DEF IInv, NumInv, IpInv, PidInv, IpRank, NumRank, Admitted, CountFound,
             NoZombieForgotten, DueNum, DueIp, DueCount, Count, Children,
             InSession, Zombies, OverClients, OverIp, vars, mainVars
  <2> QED
    BY <2>2, <2>3, <2>4, <2>5, <2>6, <2>7 DEF Next, HandlerStep
<1> QED
  BY <1>1, <1>2, PTL DEF Spec

-----------------------------------------------------------------------------
(* The results. *)

(* Whatever the handler interrupts, every child is counted, in              *)
(* num_of_clients and under its address in ip_to_clients.                  *)
THEOREM CountsEnough == Spec => []NeverUndercounts
<1>1. IInv => NeverUndercounts
  BY FiniteKids
     DEF IInv, TypeOK, NumInv, IpInv, NeverUndercounts, DueNum, DueIp, Count
<1> QED
  BY <1>1, InvHolds, PTL

(* The sessions of one address never exceed max_per_ip: at most k of its   *)
(* processes were told a count up to k, and a session was told a count up  *)
(* to max_per_ip.                                                          *)
THEOREM PerIpLimited == Spec => []PerIpLimit
<1>1. IInv => PerIpLimit
  <2> SUFFICES ASSUME IInv, MaxPerIp > 0, NEW i \in IPs
               PROVE  Cardinality(InSession \cap KidsOf(i)) <= MaxPerIp
    BY DEF PerIpLimit
  <2>1. MaxPerIp \in Nat
    BY ServerAssumption DEF ServerAssumption
  <2>2. InSession \cap KidsOf(i) \in SUBSET IpUpTo(i, MaxPerIp)
    BY <2>1 DEF IInv, TypeOK, Admitted, OverIp, InSession, KidsOf, IpUpTo
  <2>3. Cardinality(IpUpTo(i, MaxPerIp)) <= MaxPerIp
    BY <2>1 DEF IInv, IpRank
  <2>4. /\ IsFiniteSet(IpUpTo(i, MaxPerIp))
        /\ Cardinality(IpUpTo(i, MaxPerIp)) \in Nat
    BY FiniteKids DEF IInv
  <2>5. /\ IsFiniteSet(InSession \cap KidsOf(i))
        /\ Cardinality(InSession \cap KidsOf(i)) <=
              Cardinality(IpUpTo(i, MaxPerIp))
    BY <2>2, <2>4, FS_Subset
  <2>6. Cardinality(InSession \cap KidsOf(i)) \in Nat
    BY <2>5, FS_CardinalityType
  <2> QED
    BY <2>1, <2>3, <2>4, <2>5, <2>6
<1> QED
  BY <1>1, InvHolds, PTL

(* The sessions never exceed max_clients, by the same argument on          *)
(* clientcount.                                                            *)
THEOREM ClientsLimited == Spec => []ClientLimit
<1>1. IInv => ClientLimit
  <2> SUFFICES ASSUME IInv, MaxClients > 0
               PROVE  Cardinality(InSession) <= MaxClients
    BY DEF ClientLimit
  <2>1. MaxClients \in Nat
    BY ServerAssumption DEF ServerAssumption
  <2>2. InSession \in SUBSET NumUpTo(MaxClients)
    BY <2>1 DEF IInv, TypeOK, Admitted, OverClients, InSession, NumUpTo
  <2>3. Cardinality(NumUpTo(MaxClients)) <= MaxClients
    BY <2>1 DEF IInv, NumRank
  <2>4. /\ IsFiniteSet(NumUpTo(MaxClients))
        /\ Cardinality(NumUpTo(MaxClients)) \in Nat
    BY FiniteKids DEF IInv
  <2>5. /\ IsFiniteSet(InSession)
        /\ Cardinality(InSession) <= Cardinality(NumUpTo(MaxClients))
    BY <2>2, <2>4, FS_Subset
  <2>6. Cardinality(InSession) \in Nat
    BY <2>5, FS_CardinalityType
  <2> QED
    BY <2>1, <2>3, <2>4, <2>5, <2>6
<1> QED
  BY <1>1, InvHolds, PTL

(* The second assertion of handle_sigchld never fails.                     *)
THEOREM CountAlwaysFound == Spec => []CountFound
<1>1. IInv => CountFound
  BY DEF IInv
<1> QED
  BY <1>1, InvHolds, PTL

(* No exited child is left without a signal or a handler to reap it.       *)
THEOREM NoneForgotten == Spec => []NoZombieForgotten
<1>1. IInv => NoZombieForgotten
  BY DEF IInv
<1> QED
  BY <1>1, InvHolds, PTL
=============================================================================
