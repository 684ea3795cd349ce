---------------------------- MODULE MCHashTable -----------------------------
(* Model checking of HashTable: three keys over two buckets, so that two   *)
(* of them collide, and as many nodes as a list needs to have a middle.    *)
EXTENDS HashTable

(* The callers in ftp_assist.c only add a key that is not in the table: an *)
(* address that was looked up in vain, a pid that is not in use.           *)
Unique == \A m, n \in DOMAIN heap : heap[m].key = heap[n].key => m = n

CallerSpec == Init /\ [][Next /\ Unique']_vars
=============================================================================
