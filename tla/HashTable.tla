----------------------------- MODULE HashTable ------------------------------
(* hash.c: the table behind ip_to_clients and pid_to_ip, an array of       *)
(* buckets that hold doubly linked lists of malloced nodes.                *)
(*                                                                         *)
(* hash_add_entry runs in the main flow of the listener and is cut at      *)
(* every access to shared memory, because the SIGCHLD handler may run      *)
(* there.  Everything the handler calls runs to its end, so lookups,       *)
(* updates and hash_free_entry are one step each.                          *)
EXTENDS Integers, Sequences

CONSTANTS
  Keys,            \* keys, numbers (uint32_t addresses, pids)
  Values,          \* values
  NoValue,         \* what a lookup that finds nothing returns
  Node,            \* the chunks malloc can hand out for nodes
  NULL,            \* the null pointer
  Buckets,         \* number of buckets
  FreeInterrupts   \* TRUE: a handler may free entries during an add, as for
                   \* pid_to_ip; FALSE: it only reads and updates, as for
                   \* ip_to_clients

ASSUME HashAssumption ==
  /\ Keys \subseteq Nat
  /\ Buckets \in Nat \ {0}
  /\ NULL \notin Node
  /\ NoValue \notin Values
  /\ FreeInterrupts \in BOOLEAN

VARIABLES
  nodes,   \* hash->nodes: first node of each bucket
  heap,    \* allocated nodes and what they hold
  pc,      \* next access of hash_add_entry, "idle" when it is not running
  node,    \* its local variable node
  head,    \* its local variable head
  found,   \* what the last lookup returned
  broken   \* freed memory was used: from here on anything may happen

vars == <<nodes, heap, pc, node, head, found, broken>>

Pointers == Node \cup {NULL}

TypeOK ==
  /\ nodes \in [0 .. Buckets - 1 -> Pointers]
  /\ DOMAIN heap \subseteq Node
  /\ \A n \in DOMAIN heap :
       heap[n] \in [key : Keys, value : Values, prev : Pointers, next : Pointers]
  /\ pc \in {"idle", "test", "empty", "head", "next", "prev", "link"}
  /\ node \in Pointers
  /\ head \in Pointers
  /\ found \in Values \cup {NoValue}
  /\ broken \in BOOLEAN

(* hash_alloc *)
Init ==
  /\ nodes = [b \in 0 .. Buckets - 1 |-> NULL]
  /\ heap = [n \in {} |-> NULL]
  /\ pc = "idle" /\ node = NULL /\ head = NULL
  /\ found = NoValue /\ broken = FALSE

(* hash_func of ftp_assist.c, and hash_get_bucket. *)
Bucket(k) == k % Buckets

(* hash_get_node_by_key: the first node of the bucket that has the key.    *)
(* The walk ends at NULL, or at a pointer to freed memory.                 *)
NodeOf(k) ==
  LET walk[n \in Pointers] ==
        IF n \notin DOMAIN heap \/ heap[n].key = k THEN n ELSE walk[heap[n].next]
  IN  walk[nodes[Bucket(k)]]

-----------------------------------------------------------------------------
(* hash_add_entry, access by access. *)

At(from, to) == ~broken /\ pc = from /\ pc' = to

(* The node is built: nobody else sees it yet. *)
AddAlloc(k, v) ==
  /\ At("idle", "test")
  /\ \E n \in Node \ DOMAIN heap :
       /\ node' = n
       /\ heap' = [m \in DOMAIN heap \cup {n} |->
                     IF m = n THEN [key |-> k, value |-> v, prev |-> NULL, next |-> NULL]
                              ELSE heap[m]]
  /\ UNCHANGED <<nodes, head, found, broken>>

MyBucket == Bucket(heap[node].key)

(* the test of *buck against NULL *)
AddTest ==
  /\ At("test", IF nodes[MyBucket] = NULL THEN "empty" ELSE "head")
  /\ UNCHANGED <<nodes, heap, node, head, found, broken>>

(* else *buck = node *)
AddFirst ==
  /\ At("empty", "idle")
  /\ nodes' = [nodes EXCEPT ![MyBucket] = node]
  /\ UNCHANGED <<heap, node, head, found, broken>>

(* head = *buck *)
AddHead ==
  /\ At("head", "next")
  /\ head' = nodes[MyBucket]
  /\ UNCHANGED <<nodes, heap, node, found, broken>>

(* node->next = head *)
AddNext ==
  /\ At("next", "prev")
  /\ heap' = [heap EXCEPT ![node].next = head]
  /\ UNCHANGED <<nodes, node, head, found, broken>>

(* head->prev = node *)
MutAddPrev ==
  /\ At("prev", "link")
  /\ UNCHANGED <<nodes, heap, node, head, found, broken>>

AddPrev ==
  /\ At("prev", "link")
  /\ IF head \in DOMAIN heap
     THEN heap' = [heap EXCEPT ![head].prev = node] /\ UNCHANGED broken
     ELSE broken' = TRUE /\ UNCHANGED heap
  /\ UNCHANGED <<nodes, node, head, found>>

(* *buck = node *)
AddLink ==
  /\ At("link", "idle")
  /\ nodes' = [nodes EXCEPT ![MyBucket] = node]
  /\ UNCHANGED <<heap, node, head, found, broken>>

-----------------------------------------------------------------------------
(* The operations of one step. *)

(* hash_lookup_value_by_key *)
Lookup(k) ==
  /\ ~broken
  /\ LET n == NodeOf(k) IN
       \/ n \in Node \ DOMAIN heap /\ broken' = TRUE /\ UNCHANGED found
       \/ n = NULL /\ found' = NoValue /\ UNCHANGED broken
       \/ n \in DOMAIN heap /\ found' = heap[n].value /\ UNCHANGED broken
  /\ UNCHANGED <<nodes, heap, pc, node, head>>

(* *p_value = v through the pointer a lookup returned (add_ip_to_hash and  *)
(* handle_sigchld).                                                        *)
MutUpdate(k, v) ==
  /\ ~broken
  /\ NodeOf(k) \in DOMAIN heap
  /\ heap' = [heap EXCEPT ![NodeOf(k)].key = v]
  /\ UNCHANGED <<nodes, pc, node, head, found, broken>>

Update(k, v) ==
  /\ ~broken
  /\ NodeOf(k) \in DOMAIN heap
  /\ heap' = [heap EXCEPT ![NodeOf(k)].value = v]
  /\ UNCHANGED <<nodes, pc, node, head, found, broken>>

(* The two list pointers that hash_free_entry sets around node n. *)
MutUnlink(n) ==
  [m \in DOMAIN heap \ {n} |->
     IF m = heap[n].prev THEN [heap[m] EXCEPT !.next = heap[n].next] ELSE heap[m]]

Unlink(n) ==
  [m \in DOMAIN heap \ {n} |->
     CASE m = heap[n].prev -> [heap[m] EXCEPT !.next = heap[n].next]
       [] m = heap[n].next -> [heap[m] EXCEPT !.prev = heap[n].prev]
       [] OTHER -> heap[m]]

(* hash_free_entry, of a key the caller has looked up. *)
Free(k) ==
  /\ ~broken
  /\ pc = "idle" \/ FreeInterrupts
  /\ LET n == NodeOf(k)
         near == {heap[n].prev, heap[n].next} \ {NULL}
     IN /\ n \in DOMAIN heap
        /\ IF near \subseteq DOMAIN heap
           THEN /\ heap' = Unlink(n)
                /\ nodes' = IF heap[n].prev # NULL THEN nodes
                            ELSE [nodes EXCEPT ![Bucket(k)] = heap[n].next]
                /\ UNCHANGED broken
           ELSE broken' = TRUE /\ UNCHANGED <<nodes, heap>>
  /\ UNCHANGED <<pc, node, head, found>>

(* hash_clear_entry *)
Clear ==
  /\ ~broken /\ pc = "idle"
  /\ nodes' = [b \in DOMAIN nodes |-> NULL]
  /\ heap' = [n \in {} |-> NULL]
  /\ UNCHANGED <<pc, node, head, found, broken>>

-----------------------------------------------------------------------------
AddStep ==
  \/ \E k \in Keys, v \in Values : AddAlloc(k, v)
  \/ AddTest \/ AddFirst \/ AddHead \/ AddNext \/ AddPrev \/ AddLink

Next ==
  \/ AddStep
  \/ \E k \in Keys : Lookup(k) \/ Free(k)
  \/ \E k \in Keys, v \in Values : Update(k, v)
  \/ Clear

Spec == Init /\ [][Next]_vars

-----------------------------------------------------------------------------
(* Properties. *)

(* The node that the add has read as the first of its bucket is no longer  *)
(* there: the handler has freed it, or has emptied the bucket before.      *)
HeadGone == pc \in {"next", "prev", "link"} /\ head \notin DOMAIN heap

(* The node under construction, and those in the lists. *)
New == IF pc = "idle" THEN {} ELSE {node}
Linked == DOMAIN heap \ New

(* The first node of a bucket: the one its pointer names.  When the        *)
(* handler frees that one after head->prev = node, it takes the new node   *)
(* for the previous one, and leaves the bucket's pointer to the freed node *)
(* until *buck = node; the rest of the list then follows the new node.     *)
First(b) ==
  IF nodes[b] \in Linked \cup {NULL} \/ pc # "link" THEN nodes[b] ELSE heap[node].next

(* The values of a key along its bucket. *)
Stack(k) ==
  LET values[n \in Pointers] ==
        IF n \notin DOMAIN heap THEN << >>
        ELSE (IF heap[n].key = k THEN <<heap[n].value>> ELSE << >>)
               \o values[heap[n].next]
  IN  values[First(Bucket(k))]

(* The table implements a map, whatever reads, updates and frees of the    *)
(* handler interrupt an add: the entry appears at the single store that    *)
(* links it, and a free takes one entry, the first node's in the middle of *)
(* an add like any other.  Once freed memory is used nothing more is said. *)
Map == INSTANCE AssocMap WITH map <- [k \in Keys |-> Stack(k)]
ImplementsMap == Map!Spec

(* The lists are doubly linked, have no cycle, hold each node once and in  *)
(* the bucket of its key, and hold every allocated node: nothing leaks.    *)
(* The node under construction is excepted until it is linked, and the     *)
(* first node of its bucket may already point back to it.  No pointer of   *)
(* the lists dangles, but for one: that of the bucket an add is about to   *)
(* store to, when the handler has freed the node it was to be put before.  *)
ListsSound ==
  /\ \A n \in Linked :
       /\ heap[n].next # NULL =>
            /\ heap[n].next \in Linked /\ heap[heap[n].next].prev = n
            /\ Bucket(heap[heap[n].next].key) = Bucket(heap[n].key)
       /\ \/ heap[n].prev \in Linked /\ heap[heap[n].prev].next = n
          \/ heap[n].prev \in {NULL} \cup New /\ First(Bucket(heap[n].key)) = n
  /\ \A b \in DOMAIN nodes :
       /\ First(b) # NULL => First(b) \in Linked /\ Bucket(heap[First(b)].key) = b
       /\ nodes[b] = First(b) \/ (pc = "link" /\ HeadGone /\ b = MyBucket)
  /\ \A S \in SUBSET Linked : S # {} => \E n \in S : heap[n].next \notin S

(* "head is the first node of the list" (hash.c:54), from the read of head *)
(* to the store that makes the new node the first.  Holds as long as no    *)
(* handler frees entries during an add (ReadersHarmless).                  *)
HeadIsFirst == pc \in {"next", "prev", "link"} => head = nodes[MyBucket]

(* There is one way only to a pointer to freed memory (or to NULL) that is *)
(* followed: the handler frees the first node of the very bucket an add    *)
(* has read, before the add stores to the bucket.  A free anywhere else,   *)
(* or at any other access of the add, does no harm.                        *)
NoFreedUse == broken => HeadGone
=============================================================================
