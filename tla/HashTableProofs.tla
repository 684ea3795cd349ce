--------------------------- MODULE HashTableProofs --------------------------
(* HashTable for all keys, values, nodes and numbers of buckets. *)
EXTENDS HashTable, RecursionLemmas, SequenceTheorems

(* What hash_add_entry knows between two accesses, whatever interrupts it: *)
(* head, if it still is there, is the first node of the bucket.            *)
AddInv ==
  /\ pc # "idle" =>
       /\ node \in DOMAIN heap /\ heap[node].prev = NULL
       /\ pc = "prev" => heap[node].next = head
       /\ pc = "link" => heap[node].next = First(MyBucket)
       /\ pc \notin {"prev", "link"} => heap[node].next = NULL
  /\ pc = "empty" => nodes[MyBucket] = NULL
  /\ pc \in {"next", "prev"} /\ head \in DOMAIN heap => head = nodes[MyBucket]
  /\ pc = "link" => head # NULL /\ head = nodes[MyBucket]

(* The first node of a bucket has no previous one, but for the node that   *)
(* is about to be linked.                                                  *)
FirstPrev ==
  \A b \in DOMAIN nodes : First(b) # NULL =>
    heap[First(b)].prev = IF pc = "link" /\ b = MyBucket THEN node ELSE NULL

IInv == TypeOK /\ ~broken /\ ListsSound /\ AddInv /\ FirstPrev

(* Freed memory was used, and nothing happens any more. *)
Frozen == TypeOK /\ broken /\ ListsSound /\ HeadGone

Cell == [key : Keys, value : Values, prev : Pointers, next : Pointers]

LEMMA BucketRange == \A k \in Keys : Bucket(k) \in 0 .. Buckets - 1
BY HashAssumption DEF Bucket


LEMMA KeyBucket == IInv => \A n \in DOMAIN heap : Bucket(heap[n].key) \in DOMAIN nodes
<1> SUFFICES ASSUME IInv, NEW n \in DOMAIN heap PROVE Bucket(heap[n].key) \in DOMAIN nodes
  OBVIOUS
<1>1. heap[n].key \in Keys /\ DOMAIN nodes = 0 .. Buckets - 1
  BY DEF IInv, TypeOK
<1> QED
  BY <1>1, BucketRange

(* Only the first node of the bucket points back to the node under         *)
(* construction, and only just before that one is linked.                  *)
LEMMA PrevIsNew ==
  ASSUME IInv, pc # "idle", NEW n \in Linked, heap[n].prev = node
  PROVE  pc = "link" /\ n = First(MyBucket)
<1>1. node \in DOMAIN heap /\ node # NULL /\ node \notin Linked
  BY HashAssumption DEF IInv, TypeOK, AddInv, Linked, New
<1>2. n \in DOMAIN heap /\ n # NULL
  BY HashAssumption DEF IInv, TypeOK, Linked
<1>3. First(Bucket(heap[n].key)) = n
  BY <1>1 DEF IInv, ListsSound
<1> QED
  BY <1>1, <1>2, <1>3, KeyBucket DEF IInv, FirstPrev

(* A walk along the lists ends. *)
LEMMA WalksEnd ==
  ASSUME IInv
  PROVE  /\ \A n \in Linked : heap[n].next \in Linked \cup {NULL}
         /\ \A S \in SUBSET DOMAIN heap : S # {} => \E n \in S : heap[n].next \notin S
<1> USE HashAssumption DEF Pointers
<1>1. NULL \notin DOMAIN heap /\ \A n \in Linked : heap[n].next \in Linked \cup {NULL}
  BY DEF IInv, ListsSound, TypeOK
<1>2. ASSUME node \in New PROVE heap[node].next \in Linked \/ heap[node].next \notin DOMAIN heap
  <2>1. pc # "idle" /\ node \in DOMAIN heap
    BY <1>2 DEF New, IInv, AddInv
  <2>2. MyBucket \in DOMAIN nodes
    BY <2>1, BucketRange DEF IInv, TypeOK, MyBucket
  <2>3. First(MyBucket) \in Linked \cup {NULL}
    BY <2>2 DEF IInv, ListsSound
  <2>4. pc # "link" => First(MyBucket) = nodes[MyBucket]
    BY DEF First
  <2> QED
    BY <1>1, <2>1, <2>3, <2>4 DEF IInv, AddInv
<1>3. ASSUME NEW S \in SUBSET DOMAIN heap, S # {}
      PROVE  \E n \in S : heap[n].next \notin S
  <2>1. CASE S \cap Linked # {}
    <3>1. PICK n \in S \cap Linked : heap[n].next \notin S \cap Linked
      BY <2>1 DEF IInv, ListsSound
    <3> QED
      BY <1>1, <3>1
  <2>2. CASE S \cap Linked = {}
    <3>1. \A n \in S : n = node /\ n \in New
      BY <2>2 DEF Linked, New
    <3> QED
      BY <1>2, <1>3, <2>2, <3>1
  <2> QED
    BY <2>1, <2>2
<1> QED
  BY <1>1, <1>3

LEMMA IInvInit == Init => IInv
BY HashAssumption DEF Init, First, HeadGone, IInv, TypeOK, ListsSound, AddInv, FirstPrev, Linked, New, Pointers

LEMMA AddAllocStep ==
  ASSUME IInv, NEW k \in Keys, NEW v \in Values, AddAlloc(k, v)
  PROVE  IInv'
<1> USE HashAssumption DEF Pointers
<1>1. PICK n \in Node \ DOMAIN heap :
        /\ node' = n
        /\ heap' = [m \in DOMAIN heap \cup {n} |->
                     IF m = n THEN [key |-> k, value |-> v, prev |-> NULL, next |-> NULL]
                              ELSE heap[m]]
  BY DEF AddAlloc
<1>2. /\ pc = "idle" /\ pc' = "test" /\ nodes' = nodes /\ head' = head
      /\ found' = found /\ ~broken /\ broken' = broken
  BY DEF AddAlloc, At
<1>3. /\ DOMAIN heap' = DOMAIN heap \cup {n} /\ n \notin DOMAIN heap
      /\ \A m \in DOMAIN heap : heap'[m] = heap[m]
      /\ heap'[n].next = NULL /\ heap'[n].prev = NULL
      /\ heap'[n] \in [key : Keys, value : Values, prev : Pointers, next : Pointers]
  BY <1>1
<1>4. Linked = DOMAIN heap /\ Linked' = DOMAIN heap /\ New = {} /\ New' = {n}
  BY <1>1, <1>2, <1>3 DEF Linked, New
<1>5. TypeOK'
  BY <1>1, <1>2, <1>3 DEF IInv, TypeOK
<1>6. ListsSound'
  BY <1>2, <1>3, <1>4 DEF IInv, TypeOK, ListsSound, First
<1>7. AddInv'
  BY <1>1, <1>2, <1>3 DEF AddInv
<1>8. FirstPrev'
  BY <1>2, <1>3, <1>4 DEF IInv, TypeOK, ListsSound, FirstPrev, First
<1> QED
  BY <1>2, <1>5, <1>6, <1>7, <1>8 DEF IInv

(* The steps that only read. *)
LEMMA ReadStep ==
  ASSUME IInv, AddTest \/ AddHead
  PROVE  IInv'
<1> USE HashAssumption DEF Pointers
<1>1. /\ nodes' = nodes /\ heap' = heap /\ node' = node /\ found' = found
      /\ ~broken /\ broken' = broken
      /\ pc # "idle" /\ pc \notin {"next", "prev", "link"}
      /\ pc' # "idle" /\ pc' \notin {"prev", "link"}
  BY DEF AddTest, AddHead, At
<1>2. MyBucket \in DOMAIN nodes /\ MyBucket' = MyBucket
  BY <1>1, BucketRange DEF IInv, TypeOK, AddInv, MyBucket
<1>3. TypeOK'
  BY <1>1, <1>2 DEF IInv, TypeOK, AddTest, AddHead, At
<1>4. \A b : First(b) = nodes[b] /\ First(b)' = nodes[b]
  BY <1>1 DEF First
<1>5. ListsSound'
  BY <1>1, <1>4 DEF IInv, ListsSound, Linked, New, First
<1>6. AddInv'
  BY <1>1, <1>2 DEF IInv, AddInv, AddTest, AddHead, At
<1>7. FirstPrev'
  BY <1>1, <1>4 DEF IInv, FirstPrev
<1> QED
  BY <1>1, <1>3, <1>5, <1>6, <1>7 DEF IInv

(* else *buck = node: the only node of its bucket. *)
LEMMA AddFirstStep ==
  ASSUME IInv, AddFirst
  PROVE  IInv'
<1> USE HashAssumption DEF Pointers
<1>1. /\ pc = "empty" /\ pc' = "idle" /\ heap' = heap /\ node' = node /\ head' = head
      /\ found' = found /\ ~broken /\ broken' = broken
      /\ nodes' = [nodes EXCEPT ![MyBucket] = node]
  BY DEF AddFirst, At
<1>2. /\ MyBucket \in DOMAIN nodes /\ nodes[MyBucket] = NULL
      /\ node \in DOMAIN heap /\ heap[node].prev = NULL /\ heap[node].next = NULL
  BY <1>1, BucketRange DEF IInv, TypeOK, AddInv, MyBucket
<1>3. Linked = DOMAIN heap \ {node} /\ Linked' = DOMAIN heap /\ New = {node} /\ New' = {}
  BY <1>1 DEF Linked, New
<1>4. /\ \A n \in Linked : heap[n].prev # node
      /\ \A b : First(b) = nodes[b] /\ First(b)' = nodes'[b]
  BY <1>1, PrevIsNew DEF First
<1>5. TypeOK'
  BY <1>1, <1>2 DEF IInv, TypeOK
<1>6. ListsSound'
  <2>1. \A n \in Linked' :
          /\ heap[n].next # NULL =>
               /\ heap[n].next \in Linked' /\ heap[heap[n].next].prev = n
               /\ Bucket(heap[heap[n].next].key) = Bucket(heap[n].key)
          /\ \/ heap[n].prev \in Linked' /\ heap[heap[n].prev].next = n
             \/ heap[n].prev \in {NULL} /\ nodes'[Bucket(heap[n].key)] = n
    BY <1>1, <1>2, <1>3, <1>4 DEF IInv, TypeOK, ListsSound, MyBucket
  <2>2. \A b \in DOMAIN nodes' : nodes'[b] # NULL =>
          nodes'[b] \in Linked' /\ Bucket(heap[nodes'[b]].key) = b
    BY <1>1, <1>2, <1>3, <1>4 DEF IInv, TypeOK, ListsSound, MyBucket
  <2>3. \A S \in SUBSET Linked' : S # {} => \E n \in S : heap[n].next \notin S
    BY <1>3, WalksEnd
  <2> QED
    BY <1>1, <1>3, <1>4, <2>1, <2>2, <2>3 DEF ListsSound
<1>7. AddInv'
  BY <1>1 DEF AddInv
<1>8. FirstPrev'
  BY <1>1, <1>2, <1>4 DEF IInv, TypeOK, FirstPrev
<1> QED
  BY <1>1, <1>5, <1>6, <1>7, <1>8 DEF IInv

(* node->next = head: the node is not linked yet. *)
LEMMA AddNextStep ==
  ASSUME IInv, AddNext
  PROVE  IInv'
<1> USE HashAssumption DEF Pointers
<1>1. /\ pc = "next" /\ pc' = "prev" /\ nodes' = nodes /\ node' = node /\ head' = head
      /\ found' = found /\ ~broken /\ broken' = broken
      /\ heap' = [heap EXCEPT ![node].next = head]
  BY DEF AddNext, At
<1>2. /\ MyBucket \in DOMAIN nodes
      /\ node \in DOMAIN heap /\ heap[node].prev = NULL
      /\ head \in DOMAIN heap => head = nodes[MyBucket]
  BY <1>1, BucketRange DEF IInv, TypeOK, AddInv, MyBucket
<1>3. /\ DOMAIN heap' = DOMAIN heap
      /\ \A m \in DOMAIN heap \ {node} : heap'[m] = heap[m]
      /\ heap'[node] = [heap[node] EXCEPT !.next = head]
  BY <1>1, <1>2
<1>4. /\ heap'[node].prev = NULL /\ heap'[node].next = head
      /\ heap'[node].key = heap[node].key
      /\ heap'[node] \in Cell
  BY <1>2, <1>3 DEF IInv, TypeOK, Cell
<1>5. Linked = DOMAIN heap \ {node} /\ Linked' = Linked /\ New = {node} /\ New' = New
  BY <1>1, <1>3 DEF Linked, New
<1>6. MyBucket' = MyBucket
  BY <1>1, <1>4 DEF MyBucket
<1>7. TypeOK'
  BY <1>1, <1>3, <1>4 DEF IInv, TypeOK, Cell
<1>8. \A b : First(b) = nodes[b] /\ First(b)' = nodes[b]
  BY <1>1 DEF First
<1>9. ListsSound'
  BY <1>1, <1>3, <1>5, <1>8 DEF IInv, TypeOK, ListsSound
<1>10. AddInv'
  BY <1>1, <1>2, <1>3, <1>4, <1>6 DEF AddInv
<1>11. FirstPrev'
  BY <1>1, <1>3, <1>5, <1>6, <1>8 DEF IInv, TypeOK, ListsSound, FirstPrev
<1> QED
  BY <1>1, <1>7, <1>9, <1>10, <1>11 DEF IInv

(* head->prev = node: the first node of the bucket, if it is still there. *)
LEMMA AddPrevStep ==
  ASSUME IInv, AddPrev
  PROVE  IF head \in DOMAIN heap THEN IInv' ELSE Frozen'
<1> USE HashAssumption DEF Pointers
<1>1. /\ pc = "prev" /\ pc' = "link" /\ nodes' = nodes /\ node' = node /\ head' = head
      /\ found' = found /\ ~broken
  BY DEF AddPrev, At
<1>2. /\ MyBucket \in DOMAIN nodes
      /\ node \in DOMAIN heap /\ heap[node].prev = NULL /\ heap[node].next = head
      /\ head \in DOMAIN heap => head = nodes[MyBucket]
  BY <1>1, BucketRange DEF IInv, TypeOK, AddInv, MyBucket
<1>3. \A b : First(b) = nodes[b]
  BY <1>1 DEF First
<1>4. \A b \in DOMAIN nodes : nodes[b] \in Linked \cup {NULL}
  BY <1>3 DEF IInv, ListsSound
<1>5. ASSUME head \notin DOMAIN heap PROVE Frozen'
  <2>1. heap' = heap /\ broken' = TRUE
    BY <1>5 DEF AddPrev
  <2>2. Linked' = Linked /\ New' = New
    BY <1>1, <2>1 DEF Linked, New
  <2>3. \A b \in DOMAIN nodes : First(b)' = nodes[b]
    BY <1>1, <1>4, <2>2 DEF First
  <2>4. ASSUME NEW n \in Linked PROVE Bucket(heap[n].key) \in DOMAIN nodes
    BY <2>4, KeyBucket DEF Linked
  <2>5. ListsSound'
    BY <1>1, <1>3, <2>1, <2>2, <2>3, <2>4 DEF IInv, ListsSound
  <2>6. TypeOK' /\ HeadGone'
    BY <1>1, <1>5, <2>1 DEF IInv, TypeOK, HeadGone
  <2> QED
    BY <2>1, <2>5, <2>6 DEF Frozen
<1>6. ASSUME head \in DOMAIN heap PROVE IInv'
  <2>1. head \in Linked /\ Linked = DOMAIN heap \ {node} /\ New = {node} /\ head # NULL
    BY <1>1, <1>2, <1>4, <1>6 DEF IInv, TypeOK, Linked, New
  <2>2. broken' = broken /\ heap' = [heap EXCEPT ![head].prev = node]
    BY <1>6 DEF AddPrev
  <2>3. /\ DOMAIN heap' = DOMAIN heap
        /\ \A m \in DOMAIN heap \ {head} : heap'[m] = heap[m]
        /\ heap'[head] = [heap[head] EXCEPT !.prev = node]
    BY <2>1, <2>2
  <2>4. /\ heap'[head].prev = node /\ heap'[head].next = heap[head].next
        /\ heap'[head].key = heap[head].key /\ heap'[head] \in Cell
    BY <1>2, <2>1, <2>3 DEF IInv, TypeOK, Cell
  <2>5. heap'[node] = heap[node] /\ New' = New /\ Linked' = Linked /\ MyBucket' = MyBucket
    BY <1>1, <1>2, <2>1, <2>3 DEF New, Linked, MyBucket
  <2>6. \A b \in DOMAIN nodes : First(b)' = nodes[b]
    BY <1>1, <1>4, <2>5 DEF First
  <2>7. head = nodes[MyBucket] /\ Bucket(heap[head].key) = MyBucket /\ heap[head].prev = NULL
    BY <1>1, <1>2, <1>3, <1>6, <2>1 DEF IInv, ListsSound, FirstPrev
  <2>8. TypeOK'
    BY <1>1, <2>2, <2>3, <2>4 DEF IInv, TypeOK, Cell
  <2>9. ListsSound'
    <3>1. \A n \in Linked : /\ heap'[n].next = heap[n].next /\ heap'[n].key = heap[n].key
                            /\ heap'[n].prev = IF n = head THEN node ELSE heap[n].prev
      BY <2>1, <2>3, <2>4
    <3>2. \A n \in Linked : heap[n].next # head
      BY <2>1, <2>7 DEF IInv, TypeOK, ListsSound
    <3>3. \A n \in Linked :
            /\ heap'[n].next # NULL =>
                 /\ heap'[n].next \in Linked /\ heap'[heap'[n].next].prev = n
                 /\ Bucket(heap'[heap'[n].next].key) = Bucket(heap'[n].key)
            /\ \/ heap'[n].prev \in Linked /\ heap'[heap'[n].prev].next = n
               \/ heap'[n].prev \in {NULL} \cup New /\ nodes[Bucket(heap'[n].key)] = n
      BY <1>2, <1>3, <2>1, <2>7, <3>1, <3>2 DEF IInv, ListsSound
    <3>4. \A n \in Linked : Bucket(heap'[n].key) \in DOMAIN nodes
      BY <3>1, KeyBucket DEF Linked
    <3> QED
      BY <1>1, <1>3, <2>5, <2>6, <3>1, <3>3, <3>4 DEF IInv, ListsSound
  <2>10. AddInv'
    BY <1>1, <1>2, <2>1, <2>3, <2>5, <2>6, <2>7 DEF AddInv
  <2>11. FirstPrev'
    BY <1>1, <1>2, <1>3, <2>1, <2>3, <2>4, <2>5, <2>6, <2>7
       DEF IInv, TypeOK, ListsSound, FirstPrev
  <2> QED
    BY <1>1, <2>2, <2>8, <2>9, <2>10, <2>11 DEF IInv
<1> QED
  BY <1>5, <1>6

(* *buck = node: the node becomes the first of its bucket. *)
LEMMA AddLinkStep ==
  ASSUME IInv, AddLink
  PROVE  IInv'
<1> USE HashAssumption DEF Pointers
<1> DEFINE h == First(MyBucket)
<1>1. /\ pc = "link" /\ pc' = "idle" /\ heap' = heap /\ node' = node /\ head' = head
      /\ found' = found /\ ~broken /\ broken' = broken
      /\ nodes' = [nodes EXCEPT ![MyBucket] = node]
  BY DEF AddLink, At
<1>2. /\ MyBucket \in DOMAIN nodes
      /\ node \in DOMAIN heap /\ heap[node].prev = NULL /\ heap[node].next = h
  BY <1>1, BucketRange DEF IInv, TypeOK, AddInv, MyBucket
<1>3. Linked = DOMAIN heap \ {node} /\ Linked' = DOMAIN heap /\ New = {node} /\ New' = {}
  BY <1>1 DEF Linked, New
<1>4. /\ h # NULL => /\ h \in Linked /\ Bucket(heap[h].key) = MyBucket
                     /\ heap[h].prev = node
      /\ \A b \in DOMAIN nodes : b # MyBucket => First(b) = nodes[b]
  BY <1>1, <1>2 DEF IInv, ListsSound, FirstPrev
<1>5. \A n \in Linked : heap[n].prev = node => n = h
  BY <1>1, <1>2, PrevIsNew
<1>6. \A b \in DOMAIN nodes :
        First(b)' = nodes'[b] /\ nodes'[b] = IF b = MyBucket THEN node ELSE First(b)
  BY <1>1, <1>2, <1>4 DEF First, IInv, TypeOK
<1> HIDE DEF h
<1>7. TypeOK'
  BY <1>1, <1>2 DEF IInv, TypeOK
<1>8. node # NULL /\ NULL \notin DOMAIN heap /\ DOMAIN nodes' = DOMAIN nodes
  BY <1>1, <1>2 DEF IInv, TypeOK
<1>9. ListsSound'
  <2>1. ASSUME NEW n \in Linked'
        PROVE  /\ heap[n].next # NULL =>
                    /\ heap[n].next \in Linked' /\ heap[heap[n].next].prev = n
                    /\ Bucket(heap[heap[n].next].key) = Bucket(heap[n].key)
               /\ \/ heap[n].prev \in Linked' /\ heap[heap[n].prev].next = n
                  \/ heap[n].prev = NULL /\ nodes'[Bucket(heap[n].key)] = n
    <3>1. CASE n = node
      BY <1>1, <1>2, <1>3, <1>4, <1>6, <3>1 DEF MyBucket
    <3>2. CASE n = h /\ n # node
      BY <1>2, <1>3, <1>4, <1>8, <2>1, <3>2 DEF IInv, ListsSound
    <3>3. CASE n \notin {node, h}
      <4>1. \/ heap[n].prev \in Linked /\ heap[heap[n].prev].next = n
            \/ heap[n].prev = NULL /\ First(Bucket(heap[n].key)) = n
        BY <1>3, <1>5, <2>1, <3>3 DEF IInv, ListsSound
      <4>2. First(Bucket(heap[n].key)) = n => nodes'[Bucket(heap[n].key)] = n
        BY <1>3, <1>6, <2>1, <3>3, KeyBucket DEF h
      <4> QED
        BY <1>3, <2>1, <3>3, <4>1, <4>2 DEF IInv, ListsSound
    <3> QED
      BY <3>1, <3>2, <3>3
  <2>2. \A b \in DOMAIN nodes : nodes'[b] # NULL =>
          nodes'[b] \in Linked' /\ Bucket(heap[nodes'[b]].key) = b
    BY <1>2, <1>3, <1>6 DEF IInv, ListsSound, MyBucket
  <2>3. \A S \in SUBSET Linked' : S # {} => \E n \in S : heap[n].next \notin S
    BY <1>3, WalksEnd
  <2> QED
    BY <1>1, <1>3, <1>6, <1>8, <2>1, <2>2, <2>3, KeyBucket DEF ListsSound
<1>10. AddInv'
  BY <1>1 DEF AddInv
<1>11. FirstPrev'
  BY <1>1, <1>2, <1>6, <1>8 DEF IInv, FirstPrev
<1> QED
  BY <1>1, <1>7, <1>9, <1>10, <1>11 DEF IInv

(***************************************************************************)
(* Where a walk for a key ends.                                            *)
(***************************************************************************)
Stops(n, k) == n \notin DOMAIN heap \/ heap[n].key = k

Walk(k) ==
  CHOOSE f : f = [n \in Pointers |->
                    IF n \notin DOMAIN heap \/ heap[n].key = k THEN n ELSE f[heap[n].next]]

LEMMA NodeOfWalk == \A k : NodeOf(k) = Walk(k)[nodes[Bucket(k)]]
BY DEF NodeOf, Walk

LEMMA WalkDef ==
  ASSUME IInv, NEW k
  PROVE  \A n \in Pointers : Walk(k)[n] = IF Stops(n, k) THEN n ELSE Walk(k)[heap[n].next]
<1> DEFINE H == {n \in DOMAIN heap : heap[n].key # k}
           nxt == [n \in H |-> heap[n].next]
           id == [n \in Pointers |-> n]
           comb == [n \in H |-> id]
<1>1. H \in SUBSET Pointers /\ \A n \in H : nxt[n] \in Pointers
  BY DEF IInv, TypeOK, Pointers
<1>2. LeadsOut(H, nxt)
  BY WalksEnd DEF LeadsOut
<1>3. /\ \A n \in H, t \in Pointers : comb[n][t] \in Pointers
      /\ \A n \in Pointers \ H : id[n] \in Pointers
  OBVIOUS
<1>4. PICK f \in [Pointers -> Pointers] : Recursion(f, Pointers, H, nxt, id, comb)
  <2> HIDE DEF H, nxt, comb, id
  <2> QED
    BY <1>1, <1>2, <1>3, RecursionDefines
<1>5. f = [n \in Pointers |-> IF n \notin DOMAIN heap \/ heap[n].key = k THEN n ELSE f[heap[n].next]]
  <2>1. \A n \in Pointers : f[n] = IF n \in H THEN comb[n][f[nxt[n]]] ELSE id[n]
    BY <1>4 DEF Recursion
  <2>2. ASSUME NEW n \in H PROVE comb[n][f[nxt[n]]] = f[heap[n].next]
    <3>1. comb[n] = id /\ nxt[n] = heap[n].next /\ nxt[n] \in Pointers
      BY <1>1
    <3>2. f[nxt[n]] \in Pointers
      BY <1>4, <3>1
    <3> QED
      BY <3>1, <3>2
  <2>3. f = [n \in Pointers |-> f[n]]
    BY <1>4
  <2>4. ASSUME NEW n \in Pointers
        PROVE  f[n] = IF n \notin DOMAIN heap \/ heap[n].key = k THEN n ELSE f[heap[n].next]
    BY <2>1, <2>2
  <2> HIDE DEF H, nxt, comb, id
  <2> QED
    BY <2>3, <2>4
<1>6. Walk(k) = [n \in Pointers |->
        IF n \notin DOMAIN heap \/ heap[n].key = k THEN n ELSE Walk(k)[heap[n].next]]
  BY <1>5 DEF Walk
<1> QED
  BY <1>6 DEF Stops

(* It ends at a linked node with the key, or at the end of the list. *)
LEMMA WalkFinds ==
  ASSUME IInv, NEW k, NEW n \in Linked \cup {NULL}
  PROVE  /\ Walk(k)[n] \in Linked \cup {NULL}
         /\ Walk(k)[n] # NULL => heap[Walk(k)[n]].key = k
<1> DEFINE w == Walk(k)
           Good(m) == /\ w[m] \in Linked \cup {NULL}
                      /\ w[m] # NULL => heap[w[m]].key = k
           S == {m \in Linked : ~Good(m)}
<1>1. Linked \subseteq DOMAIN heap /\ Linked \cup {NULL} \subseteq Pointers /\ NULL \notin DOMAIN heap
  BY HashAssumption DEF Linked, IInv, TypeOK, Pointers
<1>2. Good(NULL)
  BY <1>1, WalkDef DEF Stops
<1>3. \A m \in Pointers : w[m] = IF Stops(m, k) THEN m ELSE w[heap[m].next]
  BY WalkDef
<1> HIDE DEF w
<1>4. S = {}
  <2> SUFFICES ASSUME S # {} PROVE FALSE
    OBVIOUS
  <2>1. PICK m \in S : heap[m].next \notin S
    BY <1>1, WalksEnd
  <2>2. heap[m].next \in Linked \cup {NULL}
    BY <1>1, WalksEnd
  <2>3. Good(heap[m].next)
    BY <1>2, <2>1, <2>2
  <2>4. w[m] = IF heap[m].key = k THEN m ELSE w[heap[m].next]
    BY <1>1, <1>3 DEF Stops
  <2> QED
    BY <1>1, <2>1, <2>3, <2>4
<1> QED
  BY <1>2, <1>4 DEF w

LEMMA NodeOfFinds ==
  ASSUME IInv, NEW k \in Keys
  PROVE  \/ /\ First(Bucket(k)) = nodes[Bucket(k)] /\ nodes[Bucket(k)] \in Linked \cup {NULL}
            /\ NodeOf(k) \in Linked \cup {NULL}
            /\ NodeOf(k) # NULL => heap[NodeOf(k)].key = k
         \/ HeadGone /\ NodeOf(k) \in Node \ DOMAIN heap
<1> DEFINE f == nodes[Bucket(k)]
<1>1. Bucket(k) \in DOMAIN nodes /\ f \in Pointers /\ Linked \subseteq DOMAIN heap
  BY BucketRange DEF IInv, TypeOK, Linked
<1>2. NodeOf(k) = Walk(k)[f]
  BY NodeOfWalk
<1>3. CASE f \in Linked \cup {NULL}
  <2>1. First(Bucket(k)) = f
    BY <1>3 DEF First
  <2> HIDE DEF f
  <2>2. Walk(k)[f] \in Linked \cup {NULL} /\ (Walk(k)[f] # NULL => heap[Walk(k)[f]].key = k)
    BY <1>3, WalkFinds
  <2>3. NodeOf(k) \in Linked \cup {NULL} /\ (NodeOf(k) # NULL => heap[NodeOf(k)].key = k)
    <3> HIDE DEF NodeOf, Walk
    <3> QED
      BY <1>2, <2>2
  <2> QED
    BY <1>3, <2>1, <2>3 DEF f
<1>4. CASE f \notin Linked \cup {NULL}
  <2>1. f # First(Bucket(k))
    BY <1>1, <1>4 DEF IInv, ListsSound
  <2>2. pc = "link" /\ HeadGone /\ Bucket(k) = MyBucket
    BY <1>1, <2>1 DEF IInv, ListsSound
  <2>3. f \in Node \ DOMAIN heap
    BY <1>1, <1>4, <2>2 DEF IInv, AddInv, HeadGone, Pointers
  <2>4. Walk(k)[f] = f
    BY <1>1, <2>3, WalkDef DEF Stops
  <2> QED
    BY <1>2, <2>2, <2>3, <2>4
<1> QED
  BY <1>3, <1>4

LEMMA LookupStep ==
  ASSUME IInv, NEW k \in Keys, Lookup(k)
  PROVE  IF NodeOf(k) \in Linked \cup {NULL} THEN IInv' ELSE Frozen'
<1> DEFINE w == NodeOf(k)
<1>1. /\ w \in Linked \cup {NULL} \/ (HeadGone /\ w \in Node \ DOMAIN heap)
      /\ Linked \subseteq DOMAIN heap /\ NULL \notin DOMAIN heap /\ DOMAIN heap \subseteq Node
  BY NodeOfFinds, HashAssumption DEF Linked, IInv, TypeOK
<1>2. /\ UNCHANGED <<nodes, heap, pc, node, head>>
      /\ \/ w \in Node \ DOMAIN heap /\ broken' = TRUE /\ UNCHANGED found
         \/ w = NULL /\ found' = NoValue /\ UNCHANGED broken
         \/ w \in DOMAIN heap /\ found' = heap[w].value /\ UNCHANGED broken
  BY DEF Lookup
<1> HIDE DEF w
<1>3. TypeOK'
  BY <1>2 DEF IInv, TypeOK
<1>4. Linked' = Linked /\ New' = New /\ MyBucket' = MyBucket /\ (HeadGone => HeadGone')
  BY <1>2 DEF Linked, New, MyBucket, HeadGone
<1>5. \A b : First(b)' = First(b)
  BY <1>2, <1>4 DEF First
<1>6. ListsSound' /\ AddInv' /\ FirstPrev'
  BY <1>2, <1>4, <1>5 DEF IInv, ListsSound, AddInv, FirstPrev
<1>7. CASE w \in Linked \cup {NULL}
  BY <1>1, <1>2, <1>3, <1>6, <1>7, HashAssumption DEF IInv, w
<1>8. CASE w \notin Linked \cup {NULL}
  BY <1>1, <1>2, <1>3, <1>4, <1>6, <1>8 DEF Frozen, w
<1> QED
  BY <1>7, <1>8

LEMMA UpdateStep ==
  ASSUME IInv, NEW k \in Keys, NEW v \in Values, Update(k, v)
  PROVE  IInv'
<1> DEFINE w == NodeOf(k)
<1>1. /\ w \in DOMAIN heap /\ UNCHANGED <<nodes, pc, node, head, found, broken>>
      /\ heap' = [heap EXCEPT ![w].value = v]
  BY DEF Update
<1> HIDE DEF w
<1>2. /\ DOMAIN heap' = DOMAIN heap
      /\ \A m \in DOMAIN heap :
           /\ heap'[m] \in Cell
           /\ heap'[m].key = heap[m].key /\ heap'[m].next = heap[m].next
           /\ heap'[m].prev = heap[m].prev
  BY <1>1 DEF IInv, TypeOK, Cell
<1>3. Linked' = Linked /\ New' = New /\ Linked \subseteq DOMAIN heap
  BY <1>1, <1>2 DEF Linked, New
<1>4. pc # "idle" => MyBucket' = MyBucket
  BY <1>1, <1>2 DEF MyBucket, IInv, AddInv
<1>5. pc = "link" => node \in DOMAIN heap
  BY DEF IInv, AddInv
<1>6. (\A b : First(b)' = First(b)) /\ (HeadGone => HeadGone')
  BY <1>1, <1>2, <1>3, <1>5 DEF First, HeadGone
<1>7. TypeOK'
  BY <1>1, <1>2 DEF IInv, TypeOK, Cell
<1>8. ListsSound'
  <2>1. \A n \in Linked : heap[n].prev \in Linked => heap'[heap[n].prev].next = heap[heap[n].prev].next
    BY <1>2, <1>3
  <2>2. \A n \in Linked : heap[n].next \in Linked =>
          /\ heap'[heap[n].next].prev = heap[heap[n].next].prev
          /\ heap'[heap[n].next].key = heap[heap[n].next].key
    BY <1>2, <1>3
  <2>3. \A b \in DOMAIN nodes : First(b) \in Linked => heap'[First(b)].key = heap[First(b)].key
    BY <1>2, <1>3
  <2> QED
    BY <1>1, <1>2, <1>3, <1>4, <1>6, <2>1, <2>2, <2>3 DEF IInv, ListsSound
<1>9. AddInv'
  BY <1>1, <1>2, <1>4, <1>6 DEF IInv, AddInv
<1>10. FirstPrev'
  BY <1>1, <1>2, <1>3, <1>4, <1>6 DEF IInv, FirstPrev, ListsSound
<1> QED
  BY <1>1, <1>7, <1>8, <1>9, <1>10 DEF IInv

LEMMA ClearStep == IInv /\ Clear => IInv'
BY HashAssumption DEF Clear, First, HeadGone, IInv, TypeOK, ListsSound, AddInv, FirstPrev, Linked, New, Pointers

(***************************************************************************)
(* hash_free_entry.                                                        *)
(***************************************************************************)

(* What it finds around the node it frees. *)
LEMMA FreeFinds ==
  ASSUME IInv, NEW k \in Keys, Free(k)
  PROVE  LET w == NodeOf(k) IN
         /\ w \in Linked /\ heap[w].key = k /\ nodes[Bucket(k)] = First(Bucket(k))
         /\ heap[w].prev \in Linked \cup New \cup {NULL} /\ heap[w].next \in Linked \cup {NULL}
         /\ heap[w].prev # w /\ heap[w].next # w
         /\ heap[w].prev \notin Linked => First(Bucket(k)) = w
         /\ heap[w].prev \in Linked => \A b \in DOMAIN nodes : First(b) # w
         /\ heap[w].prev \in New => pc = "link" /\ Bucket(k) = MyBucket
         /\ heap[w].prev # NULL => heap[heap[w].prev].next = w
         /\ heap[w].next # NULL => heap[heap[w].next].prev = w
         /\ heap[w].prev = heap[w].next => heap[w].prev = NULL
<1> DEFINE w == NodeOf(k)
<1>1. w \in DOMAIN heap /\ NULL \notin DOMAIN heap
  BY HashAssumption DEF Free, IInv, TypeOK
<1>2. w \in Linked /\ heap[w].key = k /\ nodes[Bucket(k)] = First(Bucket(k))
  BY <1>1, NodeOfFinds
<1> HIDE DEF w
<1>3. Linked \subseteq DOMAIN heap /\ Bucket(k) \in DOMAIN nodes /\ NULL \notin New
      /\ \A n \in New : n \notin Linked
  BY BucketRange, <1>1 DEF Linked, New, IInv, TypeOK, AddInv
<1>4. heap[w].next \in Linked \cup {NULL}
  BY <1>2, WalksEnd
<1>5. ASSUME heap[w].prev \in New
      PROVE  /\ pc = "link" /\ Bucket(k) = MyBucket /\ First(Bucket(k)) = w
             /\ heap[heap[w].prev].next = w
  <2>1. pc # "idle" /\ heap[w].prev = node /\ node \in DOMAIN heap
    BY <1>5 DEF New, IInv, AddInv
  <2>2. pc = "link" /\ w = First(MyBucket)
    BY <1>2, <2>1, PrevIsNew
  <2>3. MyBucket \in DOMAIN nodes
    BY <2>1, KeyBucket DEF MyBucket
  <2>4. Bucket(heap[w].key) = MyBucket
    BY <1>1, <1>2, <2>2, <2>3, <1>3 DEF IInv, ListsSound
  <2> QED
    BY <1>2, <2>1, <2>2, <2>4 DEF IInv, AddInv
<1>6. \/ heap[w].prev \in Linked /\ heap[heap[w].prev].next = w
      \/ heap[w].prev \in {NULL} \cup New /\ First(Bucket(k)) = w
  BY <1>2 DEF IInv, ListsSound
<1>7. heap[w].next # w
  <2>1. PICK n \in {w} : heap[n].next \notin {w}
    BY <1>1, WalksEnd
  <2> QED
    BY <2>1
<1>8. heap[w].prev # w
  BY <1>1, <1>2, <1>3, <1>6, <1>7
<1>9. ASSUME heap[w].prev \in Linked, NEW b \in DOMAIN nodes PROVE First(b) # w
  <2>1. heap[w].prev # NULL /\ w # NULL /\ heap[w].prev \notin New
    BY <1>1, <1>2, <1>3, <1>9
  <2> QED
    BY <2>1 DEF IInv, FirstPrev, New
<1>10. heap[w].next # NULL => heap[heap[w].next].prev = w
  BY <1>2 DEF IInv, ListsSound
<1>11. heap[w].prev = heap[w].next => heap[w].prev = NULL
  <2> SUFFICES ASSUME heap[w].prev = heap[w].next, heap[w].prev # NULL PROVE FALSE
    OBVIOUS
  <2> DEFINE S == {w, heap[w].next}
  <2>1. S \in SUBSET DOMAIN heap /\ S # {}
    BY <1>1, <1>3, <1>4
  <2>2. PICK n \in S : heap[n].next \notin S
    BY <2>1, WalksEnd
  <2>3. heap[heap[w].prev].next = w
    BY <1>3, <1>4, <1>6
  <2> QED
    BY <2>2, <2>3
<1>12. /\ heap[w].prev \in Linked \cup New \cup {NULL}
       /\ heap[w].prev \notin Linked => First(Bucket(k)) = w
       /\ heap[w].prev # NULL => heap[heap[w].prev].next = w
  BY <1>5, <1>6
<1>13. /\ heap[w].prev \in Linked => \A b \in DOMAIN nodes : First(b) # w
       /\ heap[w].prev \in New => pc = "link" /\ Bucket(k) = MyBucket
  BY <1>5, <1>9
<1> QED
  BY <1>2, <1>4, <1>7, <1>8, <1>10, <1>11, <1>12, <1>13 DEF w

(* What it leaves. *)
LEMMA FreeLeaves ==
  ASSUME IInv, NEW k \in Keys, Free(k)
  PROVE  LET w == NodeOf(k) IN
         /\ UNCHANGED <<pc, node, head, found, broken>>
         /\ DOMAIN heap' = DOMAIN heap \ {w}
         /\ Linked' = Linked \ {w} /\ New' = New
         /\ \A m \in DOMAIN heap \ {w} :
              /\ heap'[m] \in Cell
              /\ heap'[m].key = heap[m].key /\ heap'[m].value = heap[m].value
              /\ heap'[m].next = IF m = heap[w].prev THEN heap[w].next ELSE heap[m].next
              /\ heap'[m].prev = IF m = heap[w].next THEN heap[w].prev ELSE heap[m].prev
         /\ nodes' = IF heap[w].prev # NULL THEN nodes
                     ELSE [nodes EXCEPT ![Bucket(k)] = heap[w].next]
<1> DEFINE w == NodeOf(k)
<1>1. /\ w \in Linked /\ w \in DOMAIN heap
      /\ heap[w].prev \in Linked \cup New \cup {NULL} /\ heap[w].next \in Linked \cup {NULL}
      /\ heap[w].prev = heap[w].next => heap[w].prev = NULL
  BY FreeFinds DEF Linked
<1>2. {heap[w].prev, heap[w].next} \ {NULL} \subseteq DOMAIN heap /\ NULL \notin DOMAIN heap
  BY <1>1, HashAssumption DEF Linked, New, IInv, TypeOK, AddInv
<1>3. /\ heap' = Unlink(w)
      /\ nodes' = IF heap[w].prev # NULL THEN nodes
                  ELSE [nodes EXCEPT ![Bucket(k)] = heap[w].next]
      /\ UNCHANGED <<pc, node, head, found, broken>>
  BY <1>2 DEF Free
<1> HIDE DEF w
<1>4. DOMAIN heap' = DOMAIN heap \ {w}
  BY <1>3 DEF Unlink
<1>5. ASSUME NEW m \in DOMAIN heap \ {w}
      PROVE  /\ heap'[m] \in Cell
             /\ heap'[m].key = heap[m].key /\ heap'[m].value = heap[m].value
             /\ heap'[m].next = IF m = heap[w].prev THEN heap[w].next ELSE heap[m].next
             /\ heap'[m].prev = IF m = heap[w].next THEN heap[w].prev ELSE heap[m].prev
  <2>1. heap[m] \in Cell /\ heap[w] \in Cell /\ m # NULL
    BY <1>1, <1>2 DEF IInv, TypeOK, Cell
  <2>2. heap'[m] = CASE m = heap[w].prev -> [heap[m] EXCEPT !.next = heap[w].next]
                     [] m = heap[w].next -> [heap[m] EXCEPT !.prev = heap[w].prev]
                     [] OTHER -> heap[m]
    BY <1>3 DEF Unlink
  <2>3. CASE m = heap[w].prev
    <3>1. heap'[m] = [heap[m] EXCEPT !.next = heap[w].next] /\ m # heap[w].next
      BY <1>1, <2>1, <2>2, <2>3
    <3> QED
      BY <2>1, <2>3, <3>1 DEF Cell
  <2>4. CASE m # heap[w].prev /\ m = heap[w].next
    <3>1. heap'[m] = [heap[m] EXCEPT !.prev = heap[w].prev]
      BY <2>2, <2>4
    <3> QED
      BY <2>1, <2>4, <3>1 DEF Cell
  <2>5. CASE m # heap[w].prev /\ m # heap[w].next
    <3>1. heap'[m] = heap[m]
      BY <2>2, <2>5
    <3> QED
      BY <2>1, <2>5, <3>1
  <2> QED
    BY <2>3, <2>4, <2>5
<1>6. New' = New /\ Linked' = Linked \ {w}
  BY <1>3, <1>4 DEF New, Linked
<1> QED
  BY <1>3, <1>4, <1>5, <1>6 DEF w

(* Where the buckets start then. *)
LEMMA FreeStarts ==
  ASSUME IInv, NEW k \in Keys, Free(k)
  PROVE  LET w == NodeOf(k) IN
         \A b \in DOMAIN nodes :
           /\ First(b)' = IF First(b) = w THEN heap[w].next ELSE First(b)
           /\ nodes'[b] = First(b)' \/ (pc = "link" /\ head \notin DOMAIN heap' /\ b = MyBucket)
<1> DEFINE w == NodeOf(k)
<1>1. /\ w \in Linked /\ heap[w].key = k /\ nodes[Bucket(k)] = First(Bucket(k))
      /\ heap[w].prev \in Linked \cup New \cup {NULL} /\ heap[w].next \in Linked \cup {NULL}
      /\ heap[w].next # w
      /\ heap[w].prev \notin Linked => First(Bucket(k)) = w
      /\ heap[w].prev \in Linked => \A b \in DOMAIN nodes : First(b) # w
      /\ heap[w].prev \in New => pc = "link" /\ Bucket(k) = MyBucket
  BY FreeFinds
<1>2. /\ UNCHANGED <<pc, node, head>>
      /\ DOMAIN heap' = DOMAIN heap \ {w} /\ Linked' = Linked \ {w}
      /\ \A m \in DOMAIN heap \ {w} :
           heap'[m].next = IF m = heap[w].prev THEN heap[w].next ELSE heap[m].next
      /\ nodes' = IF heap[w].prev # NULL THEN nodes
                  ELSE [nodes EXCEPT ![Bucket(k)] = heap[w].next]
  BY FreeLeaves
<1> HIDE DEF w
<1>3. /\ w # NULL /\ Bucket(k) \in DOMAIN nodes /\ Linked \subseteq DOMAIN heap
      /\ \A n \in New : n = node /\ n \notin Linked /\ n # NULL
      /\ pc = "link" => node \in DOMAIN heap /\ node \in New
  BY <1>1, HashAssumption, BucketRange DEF Linked, New, IInv, TypeOK, AddInv
<1>4. ASSUME NEW b \in DOMAIN nodes, First(b) = w
      PROVE  b = Bucket(k)
  BY <1>1, <1>3, <1>4 DEF IInv, ListsSound
<1>5. \A b \in DOMAIN nodes :
        /\ First(b) \in Linked \cup {NULL}
        /\ nodes[b] = First(b) \/ (pc = "link" /\ head \notin DOMAIN heap /\ b = MyBucket)
  BY DEF IInv, ListsSound, HeadGone
<1>6. \A b : First(b)' = IF nodes'[b] \in (Linked \ {w}) \cup {NULL} \/ pc # "link"
                         THEN nodes'[b] ELSE heap'[node].next
  BY <1>2 DEF First
<1>7. \A b : First(b) = IF nodes[b] \in Linked \cup {NULL} \/ pc # "link"
                        THEN nodes[b] ELSE heap[node].next
  BY DEF First
<1> DEFINE Starts(b) ==
      /\ First(b)' = IF First(b) = w THEN heap[w].next ELSE First(b)
      /\ nodes'[b] = First(b)' \/ (pc = "link" /\ head \notin DOMAIN heap' /\ b = MyBucket)
<1>8. ASSUME NEW b \in DOMAIN nodes PROVE Starts(b)
  <2>1. ASSUME heap[w].prev \notin New, First(b) = w PROVE Starts(b)
    <3>1. heap[w].prev = NULL /\ b = Bucket(k)
      BY <1>1, <1>3, <1>4, <2>1
    <3>2. nodes'[b] = heap[w].next
      BY <1>2, <1>3, <3>1
    <3>3. First(b)' = nodes'[b]
      BY <1>1, <1>6, <3>2
    <3> QED
      BY <2>1, <3>2, <3>3
  <2>2. ASSUME heap[w].prev \notin New, First(b) # w PROVE Starts(b)
    <3>1. nodes'[b] = nodes[b]
      <4>1. heap[w].prev = NULL => b # Bucket(k)
        BY <1>1, <1>5, <2>2, HashAssumption DEF IInv, TypeOK, Linked
      <4> QED
        BY <1>2, <4>1
    <3>2. CASE nodes[b] = First(b)
      BY <1>5, <1>6, <2>2, <3>1, <3>2
    <3>3. CASE nodes[b] # First(b)
      <4>1. pc = "link" /\ head \notin DOMAIN heap' /\ b = MyBucket
        BY <1>2, <1>5, <3>3
      <4>2. nodes[b] \notin Linked \cup {NULL} /\ First(b) = heap[node].next
        BY <1>7, <3>3
      <4>3. heap'[node].next = heap[node].next
        BY <1>1, <1>2, <1>3, <2>2, <4>1
      <4> QED
        BY <1>6, <2>2, <3>1, <4>1, <4>2, <4>3
    <3> QED
      BY <3>2, <3>3
  <2>3. ASSUME heap[w].prev \in New PROVE Starts(b)
    <3>1. /\ pc = "link" /\ Bucket(k) = MyBucket /\ First(MyBucket) = w /\ nodes' = nodes
          /\ nodes[MyBucket] = w /\ heap[w].prev = node
      BY <1>1, <1>2, <1>3, <2>3
    <3>2. CASE b = MyBucket
      <4>1. head = w
        BY <3>1 DEF IInv, AddInv
      <4>2. heap'[node].next = heap[w].next
        BY <1>1, <1>2, <1>3, <3>1
      <4> QED
        BY <1>2, <1>3, <1>6, <3>1, <3>2, <4>1, <4>2
    <3>3. CASE b # MyBucket
      <4>1. nodes[b] = First(b) /\ First(b) # w
        BY <1>4, <1>5, <3>1, <3>3
      <4> QED
        BY <1>5, <1>6, <3>1, <4>1
    <3> QED
      BY <3>2, <3>3
  <2> QED
    BY <2>1, <2>2, <2>3
<1> QED
  BY <1>8 DEF w

LEMMA FreeStep ==
  ASSUME IInv, NEW k \in Keys, Free(k)
  PROVE  IInv'
<1> USE HashAssumption DEF Pointers
<1> DEFINE w == NodeOf(k)
<1>1. /\ w \in Linked /\ heap[w].key = k
      /\ heap[w].prev \in Linked \cup New \cup {NULL} /\ heap[w].next \in Linked \cup {NULL}
      /\ heap[w].prev # w /\ heap[w].next # w
      /\ heap[w].prev \notin Linked => First(Bucket(k)) = w
      /\ heap[w].prev \in New => pc = "link" /\ Bucket(k) = MyBucket
      /\ heap[w].prev # NULL => heap[heap[w].prev].next = w
      /\ heap[w].next # NULL => heap[heap[w].next].prev = w
  BY FreeFinds
<1>2. /\ UNCHANGED <<pc, node, head, found, broken>>
      /\ DOMAIN heap' = DOMAIN heap \ {w}
      /\ Linked' = Linked \ {w} /\ New' = New
      /\ nodes' = IF heap[w].prev # NULL THEN nodes
                  ELSE [nodes EXCEPT ![Bucket(k)] = heap[w].next]
  BY FreeLeaves
<1>3. \A m \in DOMAIN heap \ {w} :
        /\ heap'[m] \in Cell
        /\ heap'[m].key = heap[m].key
        /\ heap'[m].next = IF m = heap[w].prev THEN heap[w].next ELSE heap[m].next
        /\ heap'[m].prev = IF m = heap[w].next THEN heap[w].prev ELSE heap[m].prev
  BY FreeLeaves
<1> HIDE DEF w
<1>4. /\ Linked \subseteq DOMAIN heap /\ NULL \notin DOMAIN heap
      /\ \A n \in New : n \in DOMAIN heap \ Linked
      /\ \A n \in Linked : Bucket(heap[n].key) \in DOMAIN nodes
      /\ Bucket(k) \in DOMAIN nodes /\ DOMAIN nodes' = DOMAIN nodes
  BY <1>1, <1>2, KeyBucket DEF Linked, New, IInv, TypeOK, AddInv
<1>5. TypeOK'
  BY <1>1, <1>2, <1>3, <1>4 DEF IInv, TypeOK, Cell
<1>6. \A n \in Linked \ {w} :
        /\ heap[n].next = w => n = heap[w].prev
        /\ heap[n].prev = w => n = heap[w].next
  BY <1>1, <1>4 DEF IInv, ListsSound, New, Linked
<1>7. \A b \in DOMAIN nodes :
        /\ First(b)' = IF First(b) = w THEN heap[w].next ELSE First(b)
        /\ nodes'[b] = First(b)' \/ (pc = "link" /\ head \notin DOMAIN heap' /\ b = MyBucket)
  BY FreeStarts DEF w
<1>8. pc # "idle" =>
        /\ node \in DOMAIN heap \ {w} /\ node # heap[w].next
        /\ heap'[node].key = heap[node].key /\ heap'[node].prev = heap[node].prev
        /\ heap[node].prev = NULL
        /\ heap'[node].next = IF node = heap[w].prev THEN heap[w].next ELSE heap[node].next
        /\ MyBucket' = MyBucket /\ MyBucket \in DOMAIN nodes
  <2> SUFFICES ASSUME pc # "idle"
               PROVE  /\ node \in DOMAIN heap \ {w} /\ node # heap[w].next
                      /\ heap'[node].key = heap[node].key /\ heap'[node].prev = heap[node].prev
                      /\ heap[node].prev = NULL
                      /\ heap'[node].next = IF node = heap[w].prev THEN heap[w].next
                                            ELSE heap[node].next
                      /\ MyBucket' = MyBucket /\ MyBucket \in DOMAIN nodes
    OBVIOUS
  <2>1. node \in DOMAIN heap /\ node \notin Linked /\ heap[node].prev = NULL
    BY DEF IInv, AddInv, Linked, New
  <2>2. node # w /\ node # heap[w].next
    BY <1>1, <1>4, <2>1
  <2> QED
    BY <1>2, <1>3, <2>1, <2>2, KeyBucket DEF MyBucket
<1>9. ListsSound'
  <2>1. ASSUME NEW n \in Linked \ {w}, heap'[n].next # NULL
        PROVE  /\ heap'[n].next \in Linked \ {w} /\ heap'[heap'[n].next].prev = n
               /\ Bucket(heap'[heap'[n].next].key) = Bucket(heap'[n].key)
    <3>1. CASE n = heap[w].prev
      <4>1. heap'[n].next = heap[w].next /\ heap[w].next # NULL /\ heap[n].next = w
        BY <1>1, <1>3, <1>4, <2>1, <3>1
      <4>2. /\ Bucket(heap[w].key) = Bucket(heap[n].key)
            /\ Bucket(heap[heap[w].next].key) = Bucket(heap[w].key)
        BY <1>1, <1>4, <4>1 DEF IInv, ListsSound
      <4> QED
        BY <1>1, <1>3, <1>4, <3>1, <4>1, <4>2
    <3>2. CASE n # heap[w].prev
      <4>1. heap'[n].next = heap[n].next /\ heap[n].next # w
        BY <1>3, <1>4, <1>6, <3>2
      <4>2. heap[n].next \in Linked /\ heap[heap[n].next].prev = n
            /\ Bucket(heap[heap[n].next].key) = Bucket(heap[n].key)
        BY <2>1, <4>1 DEF IInv, ListsSound
      <4>3. heap[n].next # heap[w].next
        BY <1>1, <1>4, <4>2
      <4> QED
        BY <1>3, <1>4, <4>1, <4>2, <4>3
    <3> QED
      BY <3>1, <3>2
  <2>2. ASSUME NEW n \in Linked \ {w}
        PROVE  \/ heap'[n].prev \in Linked \ {w} /\ heap'[heap'[n].prev].next = n
               \/ heap'[n].prev \in {NULL} \cup New /\ First(Bucket(heap[n].key))' = n
    <3>1. /\ Bucket(heap'[n].key) = Bucket(heap[n].key)
          /\ Bucket(heap[n].key) \in DOMAIN nodes
      BY <1>3, <1>4
    <3>2. First(Bucket(heap[n].key))' =
            IF First(Bucket(heap[n].key)) = w THEN heap[w].next ELSE First(Bucket(heap[n].key))
      BY <1>7, <3>1
    <3>3. CASE n = heap[w].next
      <4>1. heap'[n].prev = heap[w].prev /\ Bucket(heap[n].key) = Bucket(k)
        BY <1>1, <1>3, <1>4, <3>3 DEF IInv, ListsSound
      <4>2. CASE heap[w].prev \notin Linked
        BY <1>1, <3>2, <3>3, <4>1, <4>2
      <4>3. CASE heap[w].prev \in Linked
        BY <1>1, <1>3, <1>4, <3>3, <4>1, <4>3
      <4> QED
        BY <4>2, <4>3
    <3>4. CASE n # heap[w].next
      <4>1. heap'[n].prev = heap[n].prev /\ heap[n].prev # w
        BY <1>3, <1>4, <1>6, <3>4
      <4>2. CASE heap[n].prev \in Linked /\ heap[heap[n].prev].next = n
        <5>1. heap[n].prev # heap[w].prev
          BY <1>1, <1>4, <4>2
        <5> QED
          BY <1>3, <1>4, <4>1, <4>2, <5>1
      <4>3. CASE heap[n].prev \in {NULL} \cup New /\ First(Bucket(heap[n].key)) = n
        BY <3>2, <4>1, <4>3
      <4> QED
        BY <4>2, <4>3 DEF IInv, ListsSound
    <3> QED
      BY <3>3, <3>4
  <2>3. ASSUME NEW b \in DOMAIN nodes, NEW n, n = First(b)', n # NULL
        PROVE  n \in Linked \ {w} /\ Bucket(heap'[n].key) = b
    <3>1. CASE First(b) = w
      BY <1>1, <1>3, <1>4, <1>7, <2>3, <3>1 DEF IInv, ListsSound
    <3>2. CASE First(b) # w
      BY <1>1, <1>3, <1>4, <1>7, <2>3, <3>2 DEF IInv, ListsSound
    <3> QED
      BY <3>1, <3>2
  <2>4. ASSUME NEW S \in SUBSET (Linked \ {w}), S # {}
        PROVE  \E n \in S : heap'[n].next \notin S
    <3>1. CASE heap[w].prev \in S /\ heap[w].next \in S
      <4>1. S \cup {w} \in SUBSET Linked /\ S \cup {w} # {}
        BY <1>1, <2>4
      <4>2. PICK n \in S \cup {w} : heap[n].next \notin S \cup {w}
        BY <4>1 DEF IInv, ListsSound
      <4>3. n # w /\ n # heap[w].prev
        BY <1>1, <1>4, <3>1, <4>2
      <4> QED
        BY <1>3, <1>4, <4>2, <4>3
    <3>2. CASE heap[w].prev \in S /\ heap[w].next \notin S
      BY <1>3, <1>4, <3>2
    <3>3. CASE heap[w].prev \notin S
      <4>1. PICK n \in S : heap[n].next \notin S
        BY <2>4 DEF IInv, ListsSound
      <4> QED
        BY <1>3, <1>4, <3>3, <4>1
    <3> QED
      BY <3>1, <3>2, <3>3
  <2>5. pc = "link" => MyBucket' = MyBucket
    BY <1>8
  <2>6. \A b \in DOMAIN nodes' :
          nodes'[b] = First(b)' \/ (pc' = "link" /\ HeadGone' /\ b = MyBucket')
    BY <1>2, <1>4, <1>7, <2>5 DEF HeadGone
  <2>7. \A b \in DOMAIN nodes' : First(b)' # NULL =>
          First(b)' \in Linked' /\ Bucket(heap'[First(b)'].key) = b
    BY <1>2, <1>4, <2>3
  <2> QED
    BY <1>2, <1>4, <2>1, <2>2, <2>4, <2>6, <2>7 DEF ListsSound
<1>10. AddInv'
  <2>1. pc = "prev" => heap'[node].next = head
    BY <1>1, <1>4, <1>8 DEF IInv, AddInv, New
  <2>2. pc = "link" => heap'[node].next = First(MyBucket)'
    <3> SUFFICES ASSUME pc = "link" PROVE heap'[node].next = First(MyBucket)'
      OBVIOUS
    <3>1. /\ heap[node].next = First(MyBucket) /\ MyBucket' = MyBucket
          /\ MyBucket \in DOMAIN nodes /\ node \in New /\ w # NULL
      BY <1>1, <1>4, <1>8 DEF IInv, AddInv, New
    <3>2. First(MyBucket)' = IF First(MyBucket) = w THEN heap[w].next ELSE First(MyBucket)
      BY <1>7, <3>1
    <3>3. First(MyBucket) = w <=> node = heap[w].prev
      BY <1>1, <1>4, <3>1 DEF IInv, FirstPrev
    <3> QED
      BY <1>8, <3>1, <3>2, <3>3
  <2>3. pc \notin {"idle", "prev", "link"} => heap'[node].next = NULL
    BY <1>1, <1>4, <1>8 DEF IInv, AddInv, New
  <2>4. pc # "link" => \A b \in DOMAIN nodes :
          nodes'[b] = IF nodes[b] = w THEN heap[w].next ELSE nodes[b]
    BY <1>7 DEF First
  <2>5. pc = "empty" => nodes'[MyBucket] = NULL
    BY <1>4, <1>8, <2>4, <1>1 DEF IInv, AddInv
  <2>6. pc \in {"next", "prev"} /\ head \in DOMAIN heap' => head = nodes'[MyBucket]
    BY <1>2, <1>8, <2>4 DEF IInv, AddInv
  <2>7. pc = "link" => head # NULL /\ head = nodes'[MyBucket]
    <3> SUFFICES ASSUME pc = "link" PROVE head # NULL /\ head = nodes'[MyBucket]
      OBVIOUS
    <3>1. head # NULL /\ head = nodes[MyBucket] /\ MyBucket \in DOMAIN nodes /\ w # NULL
          /\ node # NULL
      BY <1>1, <1>4, <1>8 DEF IInv, AddInv
    <3>2. heap[w].prev = NULL => Bucket(k) # MyBucket
      BY <1>1, <1>4, <3>1 DEF IInv, FirstPrev
    <3> QED
      BY <1>2, <3>1, <3>2
  <2> QED
    BY <1>2, <1>8, <2>1, <2>2, <2>3, <2>5, <2>6, <2>7 DEF AddInv
<1>11. FirstPrev'
  <2>1. pc = "link" => MyBucket' = MyBucket /\ w # node
    BY <1>8
  <2>2. ASSUME NEW b \in DOMAIN nodes, NEW n, n = First(b)', n # NULL
        PROVE  heap'[n].prev = IF pc = "link" /\ b = MyBucket THEN node ELSE NULL
    <3>1. CASE First(b) = w
      <4>1. heap[w].prev = IF pc = "link" /\ b = MyBucket THEN node ELSE NULL
        BY <1>1, <1>4, <3>1 DEF IInv, FirstPrev
      <4>2. n = heap[w].next
        BY <1>7, <2>2, <3>1
      <4> QED
        BY <1>1, <1>3, <1>4, <2>2, <4>1, <4>2
    <3>2. CASE First(b) # w
      <4>1. n = First(b) /\ n \in Linked \ {w}
        BY <1>7, <2>2, <3>2 DEF IInv, ListsSound
      <4>2. heap[n].prev = IF pc = "link" /\ b = MyBucket THEN node ELSE NULL
        BY <2>2, <4>1 DEF IInv, FirstPrev
      <4>3. n # heap[w].next
        BY <1>1, <1>4, <2>1, <4>1, <4>2
      <4> QED
        BY <1>3, <1>4, <4>1, <4>2, <4>3
    <3> QED
      BY <3>1, <3>2
  <2>3. \A b \in DOMAIN nodes' : First(b)' # NULL =>
          heap'[First(b)'].prev = IF pc' = "link" /\ b = MyBucket' THEN node' ELSE NULL
    BY <1>2, <1>4, <2>1, <2>2
  <2> QED
    BY <2>3 DEF FirstPrev
<1> QED
  BY <1>2, <1>5, <1>9, <1>10, <1>11 DEF IInv

LEMMA FrozenStops == Frozen /\ [Next]_vars => UNCHANGED vars
BY DEF Frozen, Next, AddStep, At, AddAlloc, AddTest, AddFirst, AddHead, AddNext, AddPrev,
       AddLink, Lookup, Update, Free, Clear

LEMMA IInvStep == (IInv \/ Frozen) /\ [Next]_vars => IInv' \/ Frozen'
<1>1. ASSUME UNCHANGED vars, IInv \/ Frozen PROVE IInv' \/ Frozen'
  <2>1. /\ nodes' = nodes /\ heap' = heap /\ pc' = pc /\ node' = node /\ head' = head
        /\ found' = found /\ broken' = broken
    BY <1>1 DEF vars
  <2>2. TypeOK' = TypeOK
    BY <2>1 DEF TypeOK
  <2>3. Linked' = Linked /\ MyBucket' = MyBucket /\ HeadGone' = HeadGone
    BY <2>1 DEF Linked, New, MyBucket, HeadGone
  <2>4. \A b : First(b)' = First(b)
    BY <2>1, <2>3 DEF First
  <2>5. ListsSound' = ListsSound
    BY <2>1, <2>3, <2>4 DEF ListsSound, New
  <2>6. AddInv' = AddInv
    BY <2>1, <2>3, <2>4 DEF AddInv
  <2>7. FirstPrev' = FirstPrev
    BY <2>1, <2>3, <2>4 DEF FirstPrev
  <2> QED
    BY <1>1, <2>1, <2>2, <2>3, <2>5, <2>6, <2>7 DEF IInv, Frozen
<1>2. ASSUME IInv, Next PROVE IInv' \/ Frozen'
  <2>1. CASE AddStep
    BY <1>2, <2>1, AddAllocStep, ReadStep, AddFirstStep, AddNextStep, AddPrevStep, AddLinkStep
       DEF AddStep
  <2>2. ASSUME NEW k \in Keys, Lookup(k) PROVE IInv' \/ Frozen'
    BY <1>2, <2>2, LookupStep
  <2>3. ASSUME NEW k \in Keys, Free(k) PROVE IInv'
    BY <1>2, <2>3, FreeStep
  <2>4. ASSUME NEW k \in Keys, NEW v \in Values, Update(k, v) PROVE IInv'
    BY <1>2, <2>4, UpdateStep
  <2>5. CASE Clear
    BY <1>2, <2>5, ClearStep
  <2> QED
    BY <1>2, <2>1, <2>2, <2>3, <2>4, <2>5 DEF Next
<1> QED
  BY <1>1, <1>2, FrozenStops

(***************************************************************************)
(* The values of a key, as AssocMap sees them.                             *)
(***************************************************************************)

(* The values of k in heap h from a node on. *)
Along(h, k) ==
  CHOOSE f : f = [n \in Pointers |->
                    IF n \notin DOMAIN h THEN << >>
                    ELSE (IF h[n].key = k THEN <<h[n].value>> ELSE << >>) \o f[h[n].next]]

Own(h, k, n) == IF h[n].key = k THEN <<h[n].value>> ELSE << >>

LEMMA StackAlong ==
  ASSUME NEW k
  PROVE  Stack(k) = Along(heap, k)[First(Bucket(k))]
BY DEF Stack, Along

LEMMA StackAlongNext ==
  ASSUME NEW k
  PROVE  Stack(k)' = Along(heap', k)[First(Bucket(k))']
BY DEF Stack, Along

(* A heap of lists that end. *)
Ended(h) ==
  /\ DOMAIN h \subseteq Node
  /\ \A n \in DOMAIN h : h[n] \in Cell
  /\ \A S \in SUBSET DOMAIN h : S # {} => \E n \in S : h[n].next \notin S

LEMMA HeapEnded == IInv => Ended(heap)
BY WalksEnd DEF Ended, IInv, TypeOK, Cell

LEMMA HeapEndedNext == IInv' => Ended(heap')
<1>1. (IInv => Ended(heap))'
  BY HeapEnded, PTL
<1> QED
  BY <1>1

LEMMA AlongDef ==
  ASSUME NEW h, Ended(h), NEW k
  PROVE  /\ Along(h, k) \in [Pointers -> Seq(Values)]
         /\ \A n \in Pointers : Along(h, k)[n] =
              IF n \notin DOMAIN h THEN << >> ELSE Own(h, k, n) \o Along(h, k)[h[n].next]
<1> DEFINE H == DOMAIN h
           nxt == [n \in H |-> h[n].next]
           base == [n \in Pointers |-> << >>]
           comb == [n \in H |-> [s \in Seq(Values) |-> Own(h, k, n) \o s]]
<1>1. /\ H \in SUBSET Pointers
      /\ \A n \in H : nxt[n] = h[n].next /\ nxt[n] \in Pointers /\ h[n].value \in Values
  BY DEF Ended, Pointers, Cell
<1>2. LeadsOut(H, nxt)
  BY DEF LeadsOut, Ended
<1>3. \A n \in H : Own(h, k, n) \in Seq(Values)
  BY <1>1 DEF Own
<1>4. \A n \in H, s \in Seq(Values) : comb[n][s] = Own(h, k, n) \o s /\ comb[n][s] \in Seq(Values)
  <2> HIDE DEF H
  <2>1. \A n \in H, s \in Seq(Values) : Own(h, k, n) \o s \in Seq(Values)
    BY <1>3, ConcatProperties
  <2> QED
    BY <2>1
<1>5. \A n \in Pointers \ H : base[n] \in Seq(Values)
  OBVIOUS
<1>6. PICK f \in [Pointers -> Seq(Values)] : Recursion(f, Pointers, H, nxt, base, comb)
  <2> HIDE DEF H, nxt, base, comb
  <2> QED
    BY <1>1, <1>2, <1>4, <1>5, RecursionDefines
<1>7. ASSUME NEW n \in Pointers
      PROVE  f[n] = IF n \notin DOMAIN h THEN << >> ELSE Own(h, k, n) \o f[h[n].next]
  <2>1. f[n] = IF n \in H THEN comb[n][f[nxt[n]]] ELSE base[n]
    BY <1>6 DEF Recursion
  <2>2. CASE n \in H
    <3>1. f[nxt[n]] \in Seq(Values)
      BY <1>1, <1>6, <2>2
    <3> HIDE DEF comb, nxt
    <3>2. comb[n][f[nxt[n]]] = Own(h, k, n) \o f[nxt[n]]
      BY <1>4, <2>2, <3>1
    <3> QED
      BY <1>1, <2>1, <2>2, <3>2
  <2>3. CASE n \notin H
    BY <2>1, <2>3
  <2> QED
    BY <2>2, <2>3
<1> HIDE DEF H, nxt, base, comb
<1>8. f = [n \in Pointers |->
             IF n \notin DOMAIN h THEN << >>
             ELSE (IF h[n].key = k THEN <<h[n].value>> ELSE << >>) \o f[h[n].next]]
  <2>1. f = [n \in Pointers |-> f[n]]
    BY <1>6
  <2> QED
    BY <1>7, <2>1 DEF Own
<1> DEFINE Eq(g) == g = [n \in Pointers |->
             IF n \notin DOMAIN h THEN << >>
             ELSE (IF h[n].key = k THEN <<h[n].value>> ELSE << >>) \o g[h[n].next]]
<1>9. Eq(Along(h, k))
  BY <1>8 DEF Along
<1>10. ASSUME NEW n \in Pointers
       PROVE  Along(h, k)[n] =
                IF n \notin DOMAIN h THEN << >> ELSE Own(h, k, n) \o Along(h, k)[h[n].next]
  BY <1>9 DEF Own
<1>11. ASSUME NEW n \in Pointers PROVE Along(h, k)[n] = f[n]
  <2> DEFINE S == {m \in DOMAIN h : Along(h, k)[m] # f[m]}
  <2>1. S = {}
    <3> SUFFICES ASSUME S # {} PROVE FALSE
      OBVIOUS
    <3>1. PICK m \in S : h[m].next \notin S
      BY DEF Ended
    <3>2. m \in Pointers /\ h[m].next \in Pointers
      BY <1>1 DEF H
    <3>3. Along(h, k)[h[m].next] = f[h[m].next]
      BY <1>7, <1>10, <3>1, <3>2
    <3> QED
      BY <1>7, <1>10, <3>2, <3>3
  <2> QED
    BY <1>7, <1>10, <2>1
<1>12. Along(h, k) = f
  <2>1. Along(h, k) = [n \in Pointers |-> Along(h, k)[n]]
    BY <1>9
  <2>2. f = [n \in Pointers |-> f[n]]
    BY <1>6
  <2> QED
    BY <1>11, <2>1, <2>2
<1> QED
  BY <1>6, <1>10, <1>12

(* Two heaps that agree on what can be reached from a set of pointers hold *)
(* the same values of k there.                                             *)
LEMMA AlongSame ==
  ASSUME NEW h, Ended(h), NEW g, Ended(g), NEW k, NEW A \in SUBSET Pointers,
         \A n \in A : n \in DOMAIN h <=> n \in DOMAIN g,
         \A n \in A \cap DOMAIN h :
           /\ h[n].next \in A /\ g[n].next = h[n].next
           /\ Own(g, k, n) = Own(h, k, n)
  PROVE  \A n \in A : Along(g, k)[n] = Along(h, k)[n]
<1> DEFINE S == {n \in A : Along(g, k)[n] # Along(h, k)[n]}
<1>1. \A n \in Pointers : Along(h, k)[n] =
        IF n \notin DOMAIN h THEN << >> ELSE Own(h, k, n) \o Along(h, k)[h[n].next]
  BY AlongDef
<1>2. \A n \in Pointers : Along(g, k)[n] =
        IF n \notin DOMAIN g THEN << >> ELSE Own(g, k, n) \o Along(g, k)[g[n].next]
  BY AlongDef
<1>3. S \in SUBSET DOMAIN h
  BY <1>1, <1>2
<1>4. S = {}
  <2> SUFFICES ASSUME S # {} PROVE FALSE
    OBVIOUS
  <2>1. PICK n \in S : h[n].next \notin S
    BY <1>3 DEF Ended
  <2>2. n \in A \cap DOMAIN h
    BY <1>3
  <2>3. Along(g, k)[h[n].next] = Along(h, k)[h[n].next]
    BY <2>1, <2>2
  <2> QED
    BY <1>1, <1>2, <2>2, <2>3
<1> QED
  BY <1>4

(* What follows a node does not lead back to it. *)
LEMMA After ==
  ASSUME NEW h, Ended(h), NEW w \in DOMAIN h
  PROVE  \E A \in SUBSET Pointers :
           /\ h[w].next \in A /\ w \notin A
           /\ \A n \in A \cap DOMAIN h : h[n].next \in A
<1> DEFINE Closed(C) == w \notin C /\ \A n \in C \cap DOMAIN h : h[n].next \in C
           A == UNION {C \in SUBSET Pointers : Closed(C)}
           S == DOMAIN h \ A
<1>1. A \in SUBSET Pointers /\ Closed(A)
  OBVIOUS
<1>2. \A C \in SUBSET Pointers : Closed(C) => C \subseteq A
  OBVIOUS
<1>3. \A n \in DOMAIN h : n \in Pointers /\ h[n].next \in Pointers
  BY DEF Ended, Cell, Pointers
<1> HIDE DEF A
<1>4. \A n \in Pointers \ DOMAIN h : n \in A
  <2> SUFFICES ASSUME NEW n \in Pointers \ DOMAIN h PROVE n \in A
    OBVIOUS
  <2>1. Closed({n}) /\ {n} \in SUBSET Pointers
    OBVIOUS
  <2> QED
    BY <1>2, <2>1
<1>5. \A n \in DOMAIN h : n # w /\ h[n].next \in A => n \in A
  <2> SUFFICES ASSUME NEW n \in DOMAIN h, n # w, h[n].next \in A PROVE n \in A
    OBVIOUS
  <2>1. Closed(A \cup {n}) /\ A \cup {n} \in SUBSET Pointers
    BY <1>1, <1>3
  <2> QED
    BY <1>2, <2>1
<1>6. h[w].next \in A
  <2> SUFFICES ASSUME h[w].next \notin A PROVE FALSE
    OBVIOUS
  <2>1. S # {}
    BY <1>1
  <2>2. PICK n \in S : h[n].next \notin S
    BY <2>1 DEF Ended
  <2> QED
    BY <1>3, <1>4, <1>5, <2>2
<1> QED
  BY <1>1, <1>6

LEMMA AlongHeap ==
  ASSUME IInv, NEW k
  PROVE  /\ Along(heap, k) \in [Pointers -> Seq(Values)]
         /\ Along(heap, k)[NULL] = << >>
         /\ \A n \in DOMAIN heap : Along(heap, k)[n] = Own(heap, k, n) \o Along(heap, k)[heap[n].next]
<1>1. Ended(heap) /\ NULL \in Pointers /\ NULL \notin DOMAIN heap /\ DOMAIN heap \subseteq Pointers
  BY HeapEnded, HashAssumption DEF Pointers, IInv, TypeOK
<1>2. /\ Along(heap, k) \in [Pointers -> Seq(Values)]
      /\ \A n \in Pointers : Along(heap, k)[n] =
           IF n \notin DOMAIN heap THEN << >> ELSE Own(heap, k, n) \o Along(heap, k)[heap[n].next]
  BY <1>1, AlongDef
<1> QED
  BY <1>1, <1>2

(* The walk for a key finds the newest of its values. *)
LEMMA WalkValues ==
  ASSUME IInv, NEW k, NEW n \in Linked \cup {NULL}
  PROVE  LET w == Walk(k)[n] IN
         /\ w = NULL => Along(heap, k)[n] = << >>
         /\ w # NULL => Along(heap, k)[n] = <<heap[w].value>> \o Along(heap, k)[heap[w].next]
<1> DEFINE w == Walk(k)
           a == Along(heap, k)
           Good(m) == /\ w[m] = NULL => a[m] = << >>
                      /\ w[m] # NULL => a[m] = <<heap[w[m]].value>> \o a[heap[w[m]].next]
           S == {m \in Linked : ~Good(m)}
<1>1. Linked \subseteq DOMAIN heap /\ Linked \cup {NULL} \subseteq Pointers /\ NULL \notin DOMAIN heap
  BY HashAssumption DEF Linked, IInv, TypeOK, Pointers
<1>2. /\ a \in [Pointers -> Seq(Values)] /\ a[NULL] = << >>
      /\ \A m \in DOMAIN heap : a[m] = Own(heap, k, m) \o a[heap[m].next]
      /\ \A m \in DOMAIN heap : heap[m].next \in Pointers
  BY AlongHeap DEF IInv, TypeOK
<1>3. \A m \in Pointers : w[m] = IF Stops(m, k) THEN m ELSE w[heap[m].next]
  BY WalkDef
<1> HIDE DEF w, a
<1>4. Good(NULL)
  BY <1>1, <1>2, <1>3 DEF Stops
<1>5. S = {}
  <2> SUFFICES ASSUME S # {} PROVE FALSE
    OBVIOUS
  <2>1. PICK m \in S : heap[m].next \notin S
    BY <1>1, WalksEnd
  <2>2. heap[m].next \in Linked \cup {NULL}
    BY <1>1, WalksEnd
  <2>3. Good(heap[m].next)
    BY <1>4, <2>1, <2>2
  <2>4. w[m] = IF heap[m].key = k THEN m ELSE w[heap[m].next]
    BY <1>1, <1>3 DEF Stops
  <2>5. a[m] = IF heap[m].key = k THEN <<heap[m].value>> \o a[heap[m].next] ELSE a[heap[m].next]
    <3>1. a[m] = Own(heap, k, m) \o a[heap[m].next] /\ a[heap[m].next] \in Seq(Values)
      BY <1>1, <1>2
    <3>2. \A s \in Seq(Values) : << >> \o s = s
      OBVIOUS
    <3> QED
      BY <3>1, <3>2 DEF Own
  <2> QED
    BY <1>1, <2>1, <2>3, <2>4, <2>5
<1> QED
  BY <1>4, <1>5 DEF w, a

LEMMA NodeOfValues ==
  ASSUME IInv, NEW k \in Keys, NodeOf(k) \in DOMAIN heap \cup {NULL}
  PROVE  LET w == NodeOf(k) IN
         /\ Stack(k) \in Seq(Values)
         /\ w = NULL => Stack(k) = << >>
         /\ w # NULL => /\ Stack(k) = <<heap[w].value>> \o Along(heap, k)[heap[w].next]
                        /\ heap[w].value \in Values
                        /\ Along(heap, k)[heap[w].next] \in Seq(Values)
                        /\ Head(Stack(k)) = heap[w].value
                        /\ Tail(Stack(k)) = Along(heap, k)[heap[w].next]
<1> DEFINE w == NodeOf(k)
           a == Along(heap, k)
<1>1. /\ nodes[Bucket(k)] \in Linked \cup {NULL} /\ nodes[Bucket(k)] \in Pointers
      /\ First(Bucket(k)) = nodes[Bucket(k)]
  <2>1. NULL \notin Node /\ nodes[Bucket(k)] \in Pointers
    BY BucketRange, HashAssumption DEF IInv, TypeOK
  <2> HIDE DEF NodeOf
  <2> QED
    BY <2>1, NodeOfFinds
<1>2. /\ w = NULL => Stack(k) = << >>
      /\ w # NULL => Stack(k) = <<heap[w].value>> \o a[heap[w].next]
  BY <1>1, NodeOfWalk, WalkValues, StackAlong
<1>3. a \in [Pointers -> Seq(Values)] /\ Stack(k) \in Seq(Values)
  BY <1>1, AlongHeap, StackAlong
<1>4. w # NULL => w \in DOMAIN heap /\ heap[w].value \in Values /\ heap[w].next \in Pointers
  BY DEF IInv, TypeOK
<1> HIDE DEF w, a
<1>5. ASSUME NEW v \in Values, NEW s \in Seq(Values)
      PROVE  Head(<<v>> \o s) = v /\ Tail(<<v>> \o s) = s
  OBVIOUS
<1>6. ASSUME w # NULL
      PROVE  /\ a[heap[w].next] \in Seq(Values)
             /\ Head(Stack(k)) = heap[w].value /\ Tail(Stack(k)) = a[heap[w].next]
  BY <1>2, <1>3, <1>4, <1>5, <1>6
<1> QED
  BY <1>2, <1>3, <1>4, <1>6 DEF w, a

(* A step that leaves alone the links of the linked nodes and the values   *)
(* they hold for a key leaves the key its values.                          *)
LEMMA StackKept ==
  ASSUME IInv, IInv', NEW k \in Keys, First(Bucket(k))' = First(Bucket(k)), Linked \subseteq DOMAIN heap',
         \A n \in Linked : heap'[n].next = heap[n].next /\ Own(heap', k, n) = Own(heap, k, n)
  PROVE  Stack(k)' = Stack(k)
<1> DEFINE A == Linked \cup {NULL}
<1>1. /\ A \in SUBSET Pointers /\ NULL \notin DOMAIN heap /\ NULL \notin DOMAIN heap'
      /\ Linked \subseteq DOMAIN heap
  BY HashAssumption DEF Pointers, Linked, IInv, TypeOK
<1>2. \A n \in A \cap DOMAIN heap : n \in Linked /\ heap[n].next \in A
  BY <1>1, WalksEnd
<1>3. Ended(heap) /\ Ended(heap')
  BY HeapEnded, HeapEndedNext
<1>4. \A n \in A : Along(heap', k)[n] = Along(heap, k)[n]
  <2>1. \A n \in A : n \in DOMAIN heap <=> n \in DOMAIN heap'
    BY <1>1
  <2>2. \A n \in A \cap DOMAIN heap :
          /\ heap[n].next \in A /\ heap'[n].next = heap[n].next
          /\ Own(heap', k, n) = Own(heap, k, n)
    BY <1>2
  <2> HIDE DEF A
  <2> QED
    BY <1>1, <1>3, <2>1, <2>2, AlongSame
<1>5. First(Bucket(k)) \in A
  BY BucketRange DEF IInv, TypeOK, ListsSound
<1> QED
  BY <1>4, <1>5, StackAlong, StackAlongNext

(* The store that links the new node adds its value. *)
LEMMA LinkAdds ==
  ASSUME IInv, IInv', AddFirst \/ AddLink
  PROVE  /\ heap[node].key \in Keys /\ heap[node].value \in Values
         /\ \A k \in Keys : Stack(k)' = IF k = heap[node].key THEN <<heap[node].value>> \o Stack(k)
                                        ELSE Stack(k)
<1>1. /\ heap' = heap /\ nodes' = [nodes EXCEPT ![MyBucket] = node]
      /\ pc \in {"empty", "link"} /\ pc' = "idle"
  BY DEF AddFirst, AddLink, At
<1>2. /\ node \in DOMAIN heap
      /\ heap[node].key \in Keys /\ heap[node].value \in Values
      /\ node \in Pointers /\ heap[node].next \in Pointers
      /\ DOMAIN nodes = 0 .. Buckets - 1
  BY <1>1 DEF IInv, AddInv, TypeOK, Pointers
<1>3. MyBucket \in DOMAIN nodes /\ MyBucket = Bucket(heap[node].key)
  BY <1>2, BucketRange DEF MyBucket
<1>4. heap[node].next = First(MyBucket)
  <2>1. pc = "empty" => First(MyBucket) = nodes[MyBucket]
    BY DEF First
  <2> QED
    BY <1>1, <2>1 DEF IInv, AddInv
<1>5. \A b \in DOMAIN nodes : First(b)' = IF b = MyBucket THEN node ELSE First(b)
  <2>1. \A b \in DOMAIN nodes : First(b)' = IF b = MyBucket THEN node ELSE nodes[b]
    BY <1>1, <1>3 DEF First, IInv, TypeOK
  <2>2. \A b \in DOMAIN nodes : b # MyBucket => nodes[b] = First(b)
    BY DEF IInv, ListsSound
  <2> QED
    BY <2>1, <2>2
<1>6. ASSUME NEW k \in Keys
      PROVE  Stack(k)' = IF k = heap[node].key THEN <<heap[node].value>> \o Stack(k) ELSE Stack(k)
  <2> DEFINE a == Along(heap, k)
  <2>1. /\ a \in [Pointers -> Seq(Values)]
        /\ a[node] = Own(heap, k, node) \o a[heap[node].next]
    BY <1>2, AlongHeap
  <2>2. Bucket(k) \in DOMAIN nodes
    BY <1>2, BucketRange
  <2>3. /\ Stack(k) = a[First(Bucket(k))]
        /\ Stack(k)' = a[IF Bucket(k) = MyBucket THEN node ELSE First(Bucket(k))]
    BY <1>1, <1>5, <2>2, StackAlong, StackAlongNext
  <2> HIDE DEF a
  <2>4. CASE Bucket(k) = MyBucket
    <3>1. Stack(k)' = Own(heap, k, node) \o Stack(k) /\ Stack(k) \in Seq(Values)
      BY <1>2, <1>4, <2>1, <2>3, <2>4
    <3>2. k # heap[node].key => Own(heap, k, node) = << >>
      BY DEF Own
    <3>3. k = heap[node].key => Own(heap, k, node) = <<heap[node].value>>
      BY DEF Own
    <3> HIDE DEF Stack
    <3>4. << >> \o Stack(k) = Stack(k)
      BY <3>1
    <3> QED
      BY <3>1, <3>2, <3>3, <3>4
  <2>5. CASE Bucket(k) # MyBucket
    BY <1>3, <2>3, <2>5
  <2> QED
    BY <2>4, <2>5
<1> QED
  BY <1>2, <1>6

(* Until it has found its node, a walk goes on to a linked node. *)
LEMMA WalkAhead ==
  ASSUME IInv, NEW k, NEW n \in Linked, Walk(k)[n] # NULL, Walk(k)[n] # n
  PROVE  /\ heap[n].key # k /\ heap[n].next \in Linked
         /\ Walk(k)[heap[n].next] = Walk(k)[n]
<1>1. n \in DOMAIN heap /\ n \in Pointers /\ NULL \in Pointers /\ NULL \notin DOMAIN heap
  BY HashAssumption DEF IInv, TypeOK, Pointers, Linked
<1>2. \A m \in Pointers : Walk(k)[m] = IF Stops(m, k) THEN m ELSE Walk(k)[heap[m].next]
  BY WalkDef
<1>3. heap[n].key # k /\ Walk(k)[heap[n].next] = Walk(k)[n]
  BY <1>1, <1>2 DEF Stops
<1>4. Walk(k)[NULL] = NULL
  BY <1>1, <1>2 DEF Stops
<1>5. heap[n].next \in Linked \cup {NULL}
  BY <1>1, WalksEnd
<1> QED
  BY <1>3, <1>4, <1>5

LEMMA WalkStarts ==
  ASSUME IInv, NEW k \in Keys, NodeOf(k) \in DOMAIN heap
  PROVE  First(Bucket(k)) = nodes[Bucket(k)] /\ First(Bucket(k)) \in Linked
<1>1. First(Bucket(k)) = nodes[Bucket(k)] /\ First(Bucket(k)) \in Linked \cup {NULL}
  <2> HIDE DEF NodeOf
  <2> QED
    BY NodeOfFinds
<1>2. NULL \in Pointers /\ NULL \notin DOMAIN heap
  BY HashAssumption DEF Pointers, IInv, TypeOK
<1>3. Walk(k)[NULL] = NULL
  BY <1>2, WalkDef DEF Stops
<1>4. nodes[Bucket(k)] # NULL
  <2>1. NodeOf(k) = Walk(k)[nodes[Bucket(k)]]
    BY NodeOfWalk
  <2> HIDE DEF NodeOf
  <2> QED
    BY <1>2, <1>3, <2>1
<1> QED
  BY <1>1, <1>4

(* A value changed through the pointer a lookup returned is the newest of  *)
(* its key.                                                                *)
LEMMA UpdateReplaces ==
  ASSUME IInv, IInv', NEW k \in Keys, NEW v \in Values, Update(k, v)
  PROVE  /\ Stack(k) # << >>
         /\ \A j \in Keys : Stack(j)' = IF j = k THEN <<v>> \o Tail(Stack(k)) ELSE Stack(j)
<1> DEFINE w == NodeOf(k)
           a == Along(heap, k)
           b == Along(heap', k)
<1>1. /\ w \in DOMAIN heap /\ nodes' = nodes /\ heap' = [heap EXCEPT ![w].value = v]
      /\ w # NULL
  BY HashAssumption DEF Update, IInv, TypeOK
<1>2. w \in Linked /\ heap[w].key = k /\ Linked \subseteq DOMAIN heap
  BY <1>1, NodeOfFinds DEF Linked
<1>3. /\ Stack(k) \in Seq(Values) /\ Stack(k) = <<heap[w].value>> \o a[heap[w].next]
      /\ heap[w].value \in Values /\ a[heap[w].next] \in Seq(Values)
      /\ Tail(Stack(k)) = a[heap[w].next]
  BY <1>1, NodeOfValues
<1>4. /\ w = Walk(k)[nodes[Bucket(k)]]
      /\ First(Bucket(k)) = nodes[Bucket(k)] /\ First(Bucket(k)) \in Linked
  BY <1>1, NodeOfWalk, WalkStarts
<1> HIDE DEF w, a, b
<1>5. /\ DOMAIN heap' = DOMAIN heap
      /\ \A m \in DOMAIN heap :
           /\ heap'[m].key = heap[m].key /\ heap'[m].next = heap[m].next
           /\ heap'[m].value = IF m = w THEN v ELSE heap[m].value
  BY <1>1 DEF IInv, TypeOK
<1>6. \A c \in DOMAIN nodes : First(c)' = First(c)
  <2>1. Linked' = Linked /\ (pc = "link" => node \in DOMAIN heap) /\ pc' = pc /\ node' = node
    BY <1>5 DEF Update, Linked, New, IInv, AddInv
  <2> QED
    BY <1>1, <1>5, <2>1 DEF First
<1>7. Stack(k) # << >>
  <2>1. \A x \in Values, s \in Seq(Values) : <<x>> \o s # << >>
    OBVIOUS
  <2> QED
    BY <1>3, <2>1
<1>8. ASSUME NEW j \in Keys, j # k PROVE Stack(j)' = Stack(j)
  <2>1. \A n \in Linked : heap'[n].next = heap[n].next /\ Own(heap', j, n) = Own(heap, j, n)
    BY <1>2, <1>5, <1>8 DEF Own
  <2> QED
    BY <1>2, <1>5, <1>6, <2>1, StackKept, BucketRange DEF IInv, TypeOK
<1>9. Stack(k)' = <<v>> \o Tail(Stack(k))
  <2>1. Ended(heap) /\ Ended(heap')
    BY HeapEnded, HeapEndedNext
  <2>2. PICK A \in SUBSET Pointers :
          /\ heap[w].next \in A /\ w \notin A
          /\ \A n \in A \cap DOMAIN heap : heap[n].next \in A
    BY <1>1, <2>1, After
  <2>3. \A n \in A : b[n] = a[n]
    <3>1. \A n \in A \cap DOMAIN heap :
            /\ heap[n].next \in A /\ heap'[n].next = heap[n].next
            /\ Own(heap', k, n) = Own(heap, k, n)
      BY <1>5, <2>2 DEF Own
    <3> QED
      BY <1>5, <2>1, <3>1, AlongSame DEF a, b
  <2>4. /\ \A n \in DOMAIN heap : b[n] = Own(heap', k, n) \o b[heap[n].next]
        /\ b \in [Pointers -> Seq(Values)]
    <3>1. /\ \A n \in Pointers : b[n] =
               IF n \notin DOMAIN heap' THEN << >> ELSE Own(heap', k, n) \o b[heap'[n].next]
          /\ b \in [Pointers -> Seq(Values)]
      BY <2>1, AlongDef DEF b
    <3> QED
      BY <1>5, <3>1 DEF IInv, TypeOK, Pointers
  <2>5. b[w] = <<v>> \o a[heap[w].next]
    BY <1>1, <1>2, <1>5, <2>2, <2>3, <2>4, ZenonT(40) DEF Own
  <2> DEFINE S == {n \in Linked : Walk(k)[n] = w /\ b[n] # b[w]}
  <2>6. S = {}
    <3> SUFFICES ASSUME S # {} PROVE FALSE
      OBVIOUS
    <3>1. PICK n \in S : heap[n].next \notin S
      BY <1>2, WalksEnd
    <3>2. n # w /\ n \in DOMAIN heap /\ n \in Pointers
      BY <1>2 DEF IInv, TypeOK, Pointers
    <3>3. heap[n].key # k
      BY <1>1, <3>2, WalkAhead
    <3>4. heap[n].next \in Linked /\ Walk(k)[heap[n].next] = w
      BY <1>1, <3>2, WalkAhead
    <3>5. b[heap[n].next] = b[w]
      BY <3>1, <3>4
    <3>6. Own(heap', k, n) = << >> /\ b[heap[n].next] \in Seq(Values)
      BY <1>2, <1>5, <2>4, <3>2, <3>3, <3>4 DEF Own, IInv, TypeOK, Pointers
    <3>7. \A s \in Seq(Values) : << >> \o s = s
      OBVIOUS
    <3> QED
      BY <2>4, <3>2, <3>5, <3>6, <3>7
  <2>7. Bucket(k) \in DOMAIN nodes
    BY BucketRange DEF IInv, TypeOK
  <2>8. Stack(k)' = b[First(Bucket(k))]
    BY <1>6, <2>7, StackAlongNext DEF b
  <2> QED
    BY <1>3, <1>4, <2>5, <2>6, <2>7, <2>8
<1> QED
  BY <1>7, <1>8, <1>9

(* hash_free_entry takes the newest value of its key away. *)
LEMMA FreeTakes ==
  ASSUME IInv, IInv', NEW k \in Keys, Free(k)
  PROVE  /\ Stack(k) # << >>
         /\ \A j \in Keys : Stack(j)' = IF j = k THEN Tail(Stack(k)) ELSE Stack(j)
<1> DEFINE w == NodeOf(k)
<1>1. /\ w \in Linked /\ heap[w].key = k
      /\ heap[w].prev \in Linked \cup New \cup {NULL} /\ heap[w].next \in Linked \cup {NULL}
      /\ heap[w].next # w
      /\ heap[w].prev # NULL => heap[heap[w].prev].next = w
  BY FreeFinds
<1>2. /\ DOMAIN heap' = DOMAIN heap \ {w}
      /\ \A m \in DOMAIN heap \ {w} :
           /\ heap'[m].key = heap[m].key /\ heap'[m].value = heap[m].value
           /\ heap'[m].next = IF m = heap[w].prev THEN heap[w].next ELSE heap[m].next
  BY FreeLeaves
<1>3. \A b \in DOMAIN nodes : First(b)' = IF First(b) = w THEN heap[w].next ELSE First(b)
  BY FreeStarts
<1>4. /\ Linked \subseteq DOMAIN heap /\ NULL \notin DOMAIN heap /\ w # NULL
      /\ DOMAIN heap \subseteq Pointers /\ NULL \in Pointers
      /\ DOMAIN nodes = 0 .. Buckets - 1
  BY <1>1, HashAssumption DEF Linked, IInv, TypeOK, Pointers
<1>5. /\ Stack(k) \in Seq(Values) /\ Stack(k) = <<heap[w].value>> \o Along(heap, k)[heap[w].next]
      /\ heap[w].value \in Values /\ Along(heap, k)[heap[w].next] \in Seq(Values)
      /\ Tail(Stack(k)) = Along(heap, k)[heap[w].next]
  BY <1>1, <1>4, NodeOfValues
<1>6. /\ w = Walk(k)[nodes[Bucket(k)]]
      /\ First(Bucket(k)) = nodes[Bucket(k)] /\ First(Bucket(k)) \in Linked
  BY <1>1, <1>4, NodeOfWalk, WalkStarts
<1> HIDE DEF w
<1>7. Stack(k) # << >>
  <2>1. \A x \in Values, s \in Seq(Values) : <<x>> \o s # << >>
    OBVIOUS
  <2> QED
    BY <1>5, <2>1
<1>8. \A n \in Linked \ {w} : n = heap[w].prev <=> heap[n].next = w
  <2> SUFFICES ASSUME NEW n \in Linked \ {w}, heap[n].next = w PROVE n = heap[w].prev
    BY <1>1, <1>4
  <2>1. heap[heap[n].next].prev = n
    BY <1>4 DEF IInv, ListsSound
  <2> QED
    BY <2>1
<1>9. \A n \in Linked : heap[n].next \in Linked \cup {NULL}
  BY <1>4, WalksEnd
<1>10. \A n \in Linked \ {w} :
         heap'[n].next = IF heap[n].next = w THEN heap[w].next ELSE heap[n].next
  BY <1>2, <1>4, <1>8
<1>11. Ended(heap) /\ Ended(heap')
  BY HeapEnded, HeapEndedNext
<1>12. ASSUME NEW j
       PROVE  /\ Along(heap, j) \in [Pointers -> Seq(Values)]
              /\ Along(heap, j)[NULL] = << >>
              /\ \A n \in Linked : Along(heap, j)[n] = Own(heap, j, n) \o Along(heap, j)[heap[n].next]
              /\ Along(heap', j) \in [Pointers -> Seq(Values)]
              /\ Along(heap', j)[NULL] = << >>
              /\ \A n \in Linked \ {w} :
                   Along(heap', j)[n] = Own(heap, j, n) \o Along(heap', j)[heap'[n].next]
  <2>1. /\ Along(heap', j) \in [Pointers -> Seq(Values)]
        /\ \A n \in Pointers : Along(heap', j)[n] =
             IF n \notin DOMAIN heap' THEN << >> ELSE Own(heap', j, n) \o Along(heap', j)[heap'[n].next]
    BY <1>11, AlongDef
  <2>2. \A n \in Linked \ {w} : Own(heap', j, n) = Own(heap, j, n)
    BY <1>2, <1>4 DEF Own
  <2> QED
    BY <1>2, <1>4, <2>1, <2>2, AlongHeap
<1>13. ASSUME NEW j \in Keys
       PROVE  /\ Stack(j) = Along(heap, j)[First(Bucket(j))]
              /\ Stack(j)' = Along(heap', j)[IF First(Bucket(j)) = w THEN heap[w].next
                                             ELSE First(Bucket(j))]
              /\ First(Bucket(j)) \in Linked \cup {NULL}
  BY <1>3, <1>4, BucketRange, StackAlong, StackAlongNext DEF IInv, ListsSound
<1>14. ASSUME NEW j \in Keys, j # k PROVE Stack(j)' = Stack(j)
  <2> DEFINE a == Along(heap, j)
             b == Along(heap', j)
             S == {n \in Linked \ {w} : b[n] # a[n]}
  <2>1. /\ a \in [Pointers -> Seq(Values)] /\ a[NULL] = << >> /\ b[NULL] = << >>
        /\ \A n \in Linked : a[n] = Own(heap, j, n) \o a[heap[n].next]
        /\ \A n \in Linked \ {w} : b[n] = Own(heap, j, n) \o b[heap'[n].next]
    BY <1>12
  <2> HIDE DEF a, b
  <2>2. a[w] = a[heap[w].next]
    <3>1. Own(heap, j, w) = << >> /\ a[heap[w].next] \in Seq(Values)
      BY <1>1, <1>4, <1>14, <2>1 DEF Own
    <3>2. \A s \in Seq(Values) : << >> \o s = s
      OBVIOUS
    <3> QED
      BY <1>1, <2>1, <3>1, <3>2
  <2>3. S = {}
    <3> SUFFICES ASSUME S # {} PROVE FALSE
      OBVIOUS
    <3>1. S \in SUBSET DOMAIN heap'
      BY <1>2, <1>4
    <3>2. PICK n \in S : heap'[n].next \notin S
      BY <1>11, <3>1 DEF Ended
    <3>3. /\ heap'[n].next \in (Linked \ {w}) \cup {NULL}
          /\ a[heap'[n].next] = a[heap[n].next]
      BY <1>1, <1>9, <1>10, <2>2, <3>2
    <3>4. b[heap'[n].next] = a[heap'[n].next]
      BY <2>1, <3>2, <3>3
    <3> QED
      BY <2>1, <3>3, <3>4, ZenonT(40)
  <2>4. Stack(j) = a[First(Bucket(j))]
    BY <1>13 DEF a
  <2>5. Stack(j)' = b[IF First(Bucket(j)) = w THEN heap[w].next ELSE First(Bucket(j))]
    BY <1>13 DEF b
  <2>6. First(Bucket(j)) \in Linked \cup {NULL}
    BY <1>13
  <2> QED
    BY <1>1, <2>1, <2>2, <2>3, <2>4, <2>5, <2>6
<1>15. Stack(k)' = Tail(Stack(k))
  <2> DEFINE a == Along(heap, k)
             b == Along(heap', k)
             S == {n \in Linked \ {w} : Walk(k)[n] = w /\ b[n] # a[heap[w].next]}
  <2>1. PICK A \in SUBSET Pointers :
          /\ heap[w].next \in A /\ w \notin A
          /\ \A n \in A \cap DOMAIN heap : heap[n].next \in A
    BY <1>1, <1>4, <1>11, After
  <2>2. \A n \in A : b[n] = a[n]
    <3>1. \A n \in A : n \in DOMAIN heap <=> n \in DOMAIN heap'
      BY <1>2, <2>1
    <3>2. \A n \in A \cap DOMAIN heap :
            /\ heap[n].next \in A /\ heap'[n].next = heap[n].next
            /\ Own(heap', k, n) = Own(heap, k, n)
      BY <1>1, <1>2, <1>4, <2>1 DEF Own
    <3> QED
      BY <1>11, <3>1, <3>2, AlongSame
  <2>3. /\ \A n \in Linked \ {w} : b[n] = Own(heap, k, n) \o b[heap'[n].next]
        /\ b \in [Pointers -> Seq(Values)]
    BY <1>12
  <2> HIDE DEF a, b
  <2>4. S = {}
    <3> SUFFICES ASSUME S # {} PROVE FALSE
      OBVIOUS
    <3>1. PICK n \in S : heap[n].next \notin S
      BY <1>4, WalksEnd
    <3>2. /\ heap[n].key # k /\ heap[n].next \in Linked /\ Walk(k)[heap[n].next] = w
      BY <1>4, <3>1, WalkAhead
    <3>3. b[heap'[n].next] = a[heap[w].next]
      BY <1>10, <2>1, <2>2, <3>1, <3>2
    <3>4. Own(heap, k, n) = << >> /\ b[heap'[n].next] \in Seq(Values)
      <4>1. heap'[n].next \in Pointers
        BY <1>1, <1>4, <1>10, <3>1, <3>2
      <4> QED
        BY <2>3, <3>2, <4>1 DEF Own
    <3>5. \A s \in Seq(Values) : << >> \o s = s
      OBVIOUS
    <3> QED
      BY <2>3, <3>1, <3>3, <3>4, <3>5
  <2>5. First(Bucket(k)) \in Linked
    BY <1>6
  <2>6. Stack(k)' = b[IF First(Bucket(k)) = w THEN heap[w].next ELSE First(Bucket(k))]
    BY <1>13 DEF b
  <2>7. Tail(Stack(k)) = a[heap[w].next]
    BY <1>5 DEF a
  <2> QED
    BY <1>6, <2>1, <2>2, <2>4, <2>5, <2>6, <2>7
<1> QED
  BY <1>7, <1>14, <1>15

(***************************************************************************)
(* The theorems.                                                           *)
(***************************************************************************)

(* Until the new node is linked, an add changes no value. *)
LEMMA AddHides ==
  ASSUME IInv, IInv',
         \/ \E k \in Keys, v \in Values : AddAlloc(k, v)
         \/ AddTest \/ AddHead \/ AddNext \/ AddPrev
  PROVE  found' = found /\ \A k \in Keys : Stack(k)' = Stack(k)
<1>1. /\ nodes' = nodes /\ found' = found /\ pc # "link"
      /\ \A b \in DOMAIN nodes : nodes[b] \in Linked \cup {NULL}
  <2>1. nodes' = nodes /\ found' = found /\ pc # "link"
    BY DEF AddAlloc, AddTest, AddHead, AddNext, AddPrev, At
  <2> QED
    BY <2>1 DEF IInv, ListsSound, First
<1>2. Linked \subseteq DOMAIN heap /\ ~broken'
  BY DEF Linked, IInv
<1>3. /\ Linked \subseteq DOMAIN heap'
      /\ \A n \in Linked : /\ heap'[n].next = heap[n].next
                           /\ heap'[n].key = heap[n].key /\ heap'[n].value = heap[n].value
  <2>1. CASE \E k \in Keys, v \in Values : AddAlloc(k, v)
    BY <1>2, <2>1 DEF AddAlloc
  <2>2. CASE AddTest \/ AddHead
    BY <1>2, <2>2 DEF AddTest, AddHead
  <2>3. CASE AddNext
    <3>1. heap' = [heap EXCEPT ![node].next = head] /\ node \notin Linked
      BY <2>3 DEF AddNext, At, Linked, New
    <3> QED
      BY <1>2, <3>1
  <2>4. CASE AddPrev
    <3>1. heap' = [heap EXCEPT ![head].prev = node]
      BY <1>2, <2>4 DEF AddPrev
    <3> QED
      BY <1>2, <3>1 DEF IInv, TypeOK
  <2> QED
    BY <2>1, <2>2, <2>3, <2>4
<1>4. \A b \in DOMAIN nodes : First(b)' = First(b)
  <2>1. Linked \subseteq Linked'
    BY <1>3 DEF Linked, New, AddAlloc, AddTest, AddHead, AddNext, AddPrev, At
  <2> QED
    BY <1>1, <2>1 DEF First
<1>5. ASSUME NEW k \in Keys PROVE Stack(k)' = Stack(k)
  <2>1. \A n \in Linked : heap'[n].next = heap[n].next /\ Own(heap', k, n) = Own(heap, k, n)
    BY <1>3 DEF Own
  <2> QED
    BY <1>3, <1>4, <2>1, StackKept, BucketRange DEF IInv, TypeOK
<1> QED
  BY <1>1, <1>5

(* A lookup returns the newest value. *)
LEMMA LookupFinds ==
  ASSUME IInv, IInv', NEW k \in Keys, Lookup(k)
  PROVE  /\ found' = IF Stack(k) = << >> THEN NoValue ELSE Head(Stack(k))
         /\ \A j \in Keys : Stack(j)' = Stack(j)
<1>1. /\ nodes' = nodes /\ heap' = heap /\ pc' = pc /\ node' = node /\ ~broken'
      /\ NodeOf(k) \notin Node \ DOMAIN heap
  <2> HIDE DEF NodeOf
  <2> QED
    BY HashAssumption DEF Lookup, IInv, TypeOK
<1>2. \A j \in Keys : Stack(j)' = Stack(j)
  <2>1. \A b : First(b)' = First(b)
    BY <1>1 DEF First, Linked, New
  <2> QED
    BY <1>1, <2>1, StackAlong, StackAlongNext
<1> DEFINE w == NodeOf(k)
<1>3. /\ w \in Linked \cup {NULL} /\ Linked \subseteq DOMAIN heap
      /\ NULL \notin DOMAIN heap
  BY <1>1, NodeOfFinds, HashAssumption DEF Linked, IInv, TypeOK
<1>4. /\ Stack(k) \in Seq(Values)
      /\ w = NULL => Stack(k) = << >>
      /\ w # NULL => /\ Stack(k) = <<heap[w].value>> \o Along(heap, k)[heap[w].next]
                     /\ heap[w].value \in Values
                     /\ Along(heap, k)[heap[w].next] \in Seq(Values)
                     /\ Head(Stack(k)) = heap[w].value
  BY <1>3, NodeOfValues
<1>5. /\ w = NULL => found' = NoValue
      /\ w # NULL => found' = heap[w].value
  <2>1. \/ w = NULL /\ found' = NoValue
        \/ w \in DOMAIN heap /\ found' = heap[w].value
    BY <1>1, <1>3 DEF Lookup
  <2> QED
    BY <1>3, <2>1
<1> HIDE DEF w
<1>6. w # NULL => Stack(k) # << >>
  <2>1. \A x \in Values, s \in Seq(Values) : <<x>> \o s # << >>
    OBVIOUS
  <2> QED
    BY <1>4, <2>1
<1> QED
  BY <1>2, <1>4, <1>5, <1>6

(* hash_clear_entry leaves no values. *)
LEMMA ClearEmpties ==
  ASSUME IInv, IInv', Clear, NEW k \in Keys
  PROVE  Stack(k)' = << >>
<1>1. heap' = [n \in {} |-> NULL] /\ nodes' = [b \in DOMAIN nodes |-> NULL] /\ pc' = "idle"
  BY DEF Clear
<1>2. Bucket(k) \in DOMAIN nodes
  BY BucketRange DEF IInv, TypeOK
<1>3. NULL \notin DOMAIN heap' /\ NULL \in Pointers /\ First(Bucket(k))' = NULL
  BY <1>1, <1>2 DEF Pointers, First
<1>4. Along(heap', k)[NULL] = << >>
  BY <1>3, HeapEndedNext, AlongDef
<1> QED
  BY <1>3, <1>4, StackAlongNext

(* Nor does a step that uses freed memory. *)
LEMMA BreakHides ==
  ASSUME IInv, AddPrev \/ \E k \in Keys : Lookup(k), broken'
  PROVE  found' = found /\ \A k \in Keys : Stack(k)' = Stack(k)
<1>1. heap' = heap /\ nodes' = nodes /\ node' = node /\ found' = found
  BY DEF AddPrev, Lookup, IInv
<1>2. \A b \in DOMAIN nodes : First(b)' = First(b)
  <2>1. CASE AddPrev
    <3>1. pc = "prev" /\ pc' = "link" /\ Linked' = Linked
      BY <1>1, <2>1 DEF AddPrev, At, Linked, New
    <3> QED
      BY <1>1, <3>1 DEF IInv, ListsSound, First
  <2>2. CASE \E k \in Keys : Lookup(k)
    BY <1>1, <2>2 DEF Lookup, First, Linked, New
  <2> QED
    BY <2>1, <2>2
<1>3. \A k \in Keys : Bucket(k) \in DOMAIN nodes
  BY BucketRange DEF IInv, TypeOK
<1> QED
  BY <1>1, <1>2, <1>3, StackAlong, StackAlongNext

(* Every step of the table is a step of the map, or leaves it alone. *)
LEMMA MapStep ==
  ASSUME IInv \/ Frozen, [Next]_vars
  PROVE  [Map!Next]_<<[k \in Keys |-> Stack(k)], found>>
<1> DEFINE map == [k \in Keys |-> Stack(k)]
           mapNext == [k \in Keys |-> Stack(k)']
           Kept == UNCHANGED found /\ \A k \in Keys : Stack(k)' = Stack(k)
<1>1. ASSUME NEW k \in Keys, NEW v \in Values, UNCHANGED found,
             \A j \in Keys : Stack(j)' = IF j = k THEN <<v>> \o Stack(k) ELSE Stack(j)
      PROVE  Map!Add(k, v)
  <2> HIDE DEF Stack
  <2>1. mapNext = [map EXCEPT ![k] = <<v>> \o @]
    BY <1>1
  <2> QED
    BY <1>1, <2>1 DEF Map!Add
<1>2. ASSUME NEW k \in Keys, NEW v \in Values, UNCHANGED found, Stack(k) # << >>,
             \A j \in Keys : Stack(j)' = IF j = k THEN <<v>> \o Tail(Stack(k)) ELSE Stack(j)
      PROVE  Map!Update(k, v)
  <2> HIDE DEF Stack
  <2>1. mapNext = [map EXCEPT ![k] = <<v>> \o Tail(@)]
    BY <1>2
  <2> QED
    BY <1>2, <2>1 DEF Map!Update
<1>3. ASSUME NEW k \in Keys, UNCHANGED found, Stack(k) # << >>,
             \A j \in Keys : Stack(j)' = IF j = k THEN Tail(Stack(k)) ELSE Stack(j)
      PROVE  Map!Free(k)
  <2> HIDE DEF Stack
  <2>1. mapNext = [map EXCEPT ![k] = Tail(@)]
    BY <1>3
  <2> QED
    BY <1>3, <2>1 DEF Map!Free
<1>4. Kept => UNCHANGED <<map, found>>
  OBVIOUS
<1>5. ASSUME UNCHANGED vars PROVE UNCHANGED <<map, found>>
  <2>1. \A b : First(b)' = First(b)
    BY <1>5 DEF vars, First, Linked, New
  <2>2. Kept
    BY <1>5, <2>1, StackAlong, StackAlongNext DEF vars
  <2> QED
    BY <1>4, <2>2
<1>6. ASSUME IInv, Next PROVE Map!Next \/ UNCHANGED <<map, found>>
  <2>1. IInv' \/ Frozen'
    BY <1>6, IInvStep
  <2>2. CASE AddFirst \/ AddLink
    <3>1. IInv'
      BY <1>6, <2>2, AddFirstStep, AddLinkStep
    <3>2. /\ heap[node].key \in Keys /\ heap[node].value \in Values
          /\ \A k \in Keys : Stack(k)' = IF k = heap[node].key
                                         THEN <<heap[node].value>> \o Stack(k) ELSE Stack(k)
      BY <1>6, <2>2, <3>1, LinkAdds
    <3>3. UNCHANGED found
      BY <2>2 DEF AddFirst, AddLink
    <3>4. \A j \in Keys : Stack(j)' = IF j = heap[node].key
                            THEN <<heap[node].value>> \o Stack(heap[node].key) ELSE Stack(j)
      BY <3>2
    <3>5. Map!Add(heap[node].key, heap[node].value)
      BY <1>1, <3>2, <3>3, <3>4
    <3> QED
      BY <3>2, <3>5 DEF Map!Next
  <2>3. CASE AddStep /\ ~(AddFirst \/ AddLink) /\ IInv'
    <3>1. Kept
      BY <1>6, <2>3, AddHides DEF AddStep
    <3> QED
      BY <1>4, <3>1
  <2>4. CASE (AddPrev \/ \E k \in Keys : Lookup(k)) /\ Frozen'
    <3>1. Kept
      BY <1>6, <2>4, BreakHides DEF Frozen
    <3> QED
      BY <1>4, <3>1
  <2>5. AddStep /\ Frozen' => AddPrev
    <3>1. AddStep => AddPrev \/ UNCHANGED broken
      BY DEF AddStep, AddAlloc, AddTest, AddFirst, AddHead, AddNext, AddLink
    <3> QED
      BY <1>6, <3>1 DEF IInv, Frozen
  <2>6. ASSUME NEW k \in Keys, Lookup(k), IInv' PROVE Map!Lookup(k)
    <3>1. /\ found' = IF Stack(k) = << >> THEN NoValue ELSE Head(Stack(k))
          /\ \A j \in Keys : Stack(j)' = Stack(j)
      BY <1>6, <2>6, LookupFinds
    <3> HIDE DEF Stack
    <3>2. mapNext = map
      BY <3>1
    <3> QED
      BY <3>1, <3>2 DEF Map!Lookup
  <2>7. ASSUME NEW k \in Keys, Free(k) PROVE Map!Free(k)
    <3>1. /\ Stack(k) # << >>
          /\ \A j \in Keys : Stack(j)' = IF j = k THEN Tail(Stack(k)) ELSE Stack(j)
      BY <1>6, <2>7, FreeStep, FreeTakes
    <3>2. UNCHANGED found
      BY <2>7 DEF Free
    <3> QED
      BY <1>3, <3>1, <3>2
  <2>8. ASSUME NEW k \in Keys, NEW v \in Values, Update(k, v) PROVE Map!Update(k, v)
    <3>1. UNCHANGED found
      BY <2>8 DEF Update
    <3> QED
      BY <1>2, <1>6, <2>8, <3>1, UpdateStep, UpdateReplaces
  <2>9. ASSUME Clear PROVE Map!Clear
    <3>1. \A k \in Keys : Stack(k)' = << >>
      BY <1>6, <2>9, ClearStep, ClearEmpties
    <3>2. UNCHANGED found
      BY <2>9 DEF Clear
    <3> HIDE DEF Stack
    <3>3. mapNext = [k \in Keys |-> << >>]
      BY <3>1
    <3> QED
      BY <3>2, <3>3 DEF Map!Clear
  <2>10. CASE AddStep
    BY <2>1, <2>2, <2>3, <2>4, <2>5, <2>10
  <2>11. ASSUME NEW k \in Keys, Lookup(k) PROVE Map!Next \/ UNCHANGED <<map, found>>
    BY <2>1, <2>4, <2>6, <2>11 DEF Map!Next
  <2>12. ASSUME NEW k \in Keys, Free(k) PROVE Map!Next
    BY <2>7, <2>12 DEF Map!Next
  <2>13. ASSUME NEW k \in Keys, NEW v \in Values, Update(k, v) PROVE Map!Next
    BY <2>8, <2>13 DEF Map!Next
  <2>14. ASSUME Clear PROVE Map!Next
    BY <2>9, <2>14 DEF Map!Next
  <2> QED
    BY <1>6, <2>10, <2>11, <2>12, <2>13, <2>14 DEF Next
<1> QED
  BY <1>5, <1>6, FrozenStops

(* An empty table is an empty map. *)
LEMMA MapInit == Init => Map!Init
<1> SUFFICES ASSUME Init PROVE Map!Init
  OBVIOUS
<1>1. IInv /\ found = NoValue
  BY IInvInit DEF Init
<1>2. ASSUME NEW k \in Keys PROVE Stack(k) = << >>
  <2>1. First(Bucket(k)) = NULL
    BY BucketRange DEF Init, First
  <2> QED
    BY <1>1, <2>1, AlongHeap, StackAlong
<1> QED
  BY <1>1, <1>2 DEF Map!Init

LEMMA Inductive == Spec => [](IInv \/ Frozen)
BY IInvInit, IInvStep, PTL DEF Spec

(* The variables of the table keep their types: every pointer is NULL or   *)
(* one malloc returned, and a node holds what hash_add_entry put there.    *)
THEOREM TypeCorrect == Spec => []TypeOK
<1>1. IInv \/ Frozen => TypeOK
  BY DEF IInv, Frozen
<1> QED
  BY <1>1, Inductive, PTL

(* The lists of hash.c stay sound, whatever reads, updates and frees of    *)
(* the handler fall between two accesses of hash_add_entry, the free of    *)
(* the first node of the bucket that is being extended included: at the    *)
(* worst the pointer of that bucket dangles until the add stores to it.    *)
THEOREM ListsStaySound == Spec => []ListsSound
<1>1. IInv \/ Frozen => ListsSound
  BY DEF IInv, Frozen
<1> QED
  BY <1>1, Inductive, PTL

(* Freed memory is used only when the handler has taken away the node that *)
(* an add had read as the first of its bucket, and before the add is over. *)
THEOREM NothingFreedUsed == Spec => []NoFreedUse
<1>1. IInv \/ Frozen => NoFreedUse
  BY DEF IInv, Frozen, NoFreedUse
<1> QED
  BY <1>1, Inductive, PTL

(* The table implements the map of hash.h: every step is one step of the   *)
(* map or changes no value, so an entry appears at one store, and a lookup *)
(* that interrupts an add finds the map before or after it.                *)
THEOREM TableImplemented == Spec => ImplementsMap
<1>1. Init => Map!Init
  BY MapInit
<1>2. (IInv \/ Frozen) /\ [Next]_vars => [Map!Next]_<<[k \in Keys |-> Stack(k)], found>>
  BY MapStep
<1> QED
  BY <1>1, <1>2, Inductive, PTL DEF Spec, ImplementsMap, Map!Spec

(* Where no handler frees entries during an add, head is the first node of *)
(* its bucket until the new node is linked, and it is there.               *)
ReadInv ==
  /\ ~broken
  /\ pc = "head" => nodes[MyBucket] # NULL
  /\ pc \in {"next", "prev", "link"} => head \in DOMAIN heap /\ head = nodes[MyBucket]

LEMMA ReadStays ==
  ASSUME ~FreeInterrupts, IInv \/ Frozen, ReadInv, [Next]_vars
  PROVE  ReadInv'
<1> USE HashAssumption
<1>1. IInv
  BY DEF ReadInv, Frozen
<1>2. UNCHANGED vars => ReadInv'
  BY DEF ReadInv, vars, MyBucket
<1>3. pc # "idle" => node \in DOMAIN heap /\ MyBucket \in DOMAIN nodes
  BY <1>1, KeyBucket DEF IInv, AddInv, MyBucket
<1>4. CASE AddStep
  <2>1. CASE \E k \in Keys, v \in Values : AddAlloc(k, v)
    BY <1>1, <2>1 DEF AddAlloc, At, IInv, ReadInv
  <2>2. CASE AddTest
    BY <1>1, <2>2 DEF AddTest, At, IInv, ReadInv, MyBucket
  <2>3. CASE AddFirst \/ AddLink
    BY <1>1, <2>3 DEF AddFirst, AddLink, At, IInv, ReadInv
  <2>4. CASE AddHead
    <3>1. First(MyBucket) = nodes[MyBucket] /\ nodes[MyBucket] # NULL
      BY <2>4 DEF AddHead, At, ReadInv, First
    <3>2. nodes[MyBucket] \in DOMAIN heap
      BY <1>1, <1>3, <2>4, <3>1 DEF AddHead, At, IInv, ListsSound, Linked
    <3> QED
      BY <1>1, <2>4, <3>2 DEF AddHead, At, IInv, MyBucket, ReadInv
  <2>5. CASE AddNext
    <3>1. /\ pc = "next" /\ pc' = "prev" /\ nodes' = nodes /\ head' = head /\ node' = node
          /\ broken' = broken /\ DOMAIN heap' = DOMAIN heap
          /\ heap'[node].key = heap[node].key
      BY <1>1, <1>3, <2>5 DEF AddNext, At, IInv, TypeOK
    <3> QED
      BY <3>1 DEF ReadInv, MyBucket
  <2>6. CASE AddPrev
    <3>1. /\ pc = "prev" /\ pc' = "link" /\ nodes' = nodes /\ head' = head /\ node' = node
          /\ broken' = broken /\ DOMAIN heap' = DOMAIN heap
          /\ heap'[node].key = heap[node].key
      BY <1>1, <1>3, <2>6 DEF AddPrev, At, IInv, TypeOK, ReadInv
    <3> QED
      BY <3>1 DEF ReadInv, MyBucket
  <2> QED
    BY <1>4, <2>1, <2>2, <2>3, <2>4, <2>5, <2>6 DEF AddStep
<1>5. ASSUME NEW k \in Keys, Lookup(k) PROVE ReadInv'
  <2>1. NodeOf(k) \notin Node \ DOMAIN heap
    BY <1>1, NodeOfFinds DEF ReadInv, HeadGone, Linked, IInv, TypeOK
  <2> HIDE DEF NodeOf
  <2> QED
    BY <1>5, <2>1 DEF Lookup, ReadInv, MyBucket
<1>6. ASSUME NEW k \in Keys, Free(k) PROVE ReadInv'
  <2>1. pc = "idle" /\ pc' = "idle"
    BY <1>6 DEF Free
  <2>2. IInv'
    BY <1>1, <1>6, FreeStep
  <2> QED
    BY <2>1, <2>2 DEF ReadInv, IInv
<1>7. ASSUME NEW k \in Keys, NEW v \in Values, Update(k, v) PROVE ReadInv'
  <2> DEFINE w == NodeOf(k)
  <2>1. /\ UNCHANGED <<nodes, pc, node, head, broken>> /\ w \in DOMAIN heap
        /\ heap' = [heap EXCEPT ![w].value = v]
    BY <1>7 DEF Update
  <2> HIDE DEF w
  <2>2. DOMAIN heap' = DOMAIN heap /\ \A n \in DOMAIN heap : heap'[n].key = heap[n].key
    BY <1>1, <2>1 DEF IInv, TypeOK
  <2> QED
    BY <1>3, <2>1, <2>2 DEF ReadInv, MyBucket
<1>8. CASE Clear
  BY <1>1, <1>8 DEF Clear, ReadInv, IInv
<1> QED
  BY <1>2, <1>4, <1>5, <1>6, <1>7, <1>8 DEF Next

(* For ip_to_clients, whose handler only reads and updates, no step uses   *)
(* freed memory, and head is the first node until the new one is linked.   *)
THEOREM ReadersHarmless ==
  ASSUME ~FreeInterrupts
  PROVE  Spec => [](ListsSound /\ ~broken /\ HeadIsFirst) /\ ImplementsMap
<1>1. Init => ReadInv
  BY DEF Init, ReadInv
<1>2. (IInv \/ Frozen) /\ ReadInv /\ [Next]_vars => ReadInv'
  BY ReadStays
<1>3. ReadInv => ~broken /\ HeadIsFirst
  BY DEF ReadInv, HeadIsFirst
<1> QED
  BY <1>1, <1>2, <1>3, Inductive, ListsStaySound, TableImplemented, PTL DEF Spec
=============================================================================
