----------------------------- MODULE FileStore ------------------------------
(* What the transfers of miniftpd promise about the contents of a file:    *)
(* only one session stores into it at a time and only at its end, and a    *)
(* retrieval delivers, piece by piece, what the file held when it began.   *)
EXTENDS Naturals, Sequences, Contents

CONSTANTS
  Sessions,   \* the sessions
  Files,      \* the files (inodes)
  Bytes,      \* what a file is made of
  Lengths     \* the lengths a file can be cut or extended to

VARIABLES
  store,      \* the contents of each file
  job         \* what each session does

vars == <<store, job>>

Idle == [kind |-> "idle"]
PutJob(f) == [kind |-> "put", file |-> f]
GetJob(f, rest) == [kind |-> "get", file |-> f, rest |-> rest]

IsPut(s, f) == job[s] = PutJob(f)
IsGet(s, f) == job[s].kind = "get" /\ job[s].file = f

Init ==
  /\ store = [f \in Files |-> << >>]
  /\ job = [s \in Sessions |-> Idle]

(* A new file takes the place of one that nobody uses. *)
Create(f) ==
  /\ \A s \in Sessions : ~IsPut(s, f) /\ ~IsGet(s, f)
  /\ store' = [store EXCEPT ![f] = << >>]
  /\ UNCHANGED job

BeginPut(s, f) ==
  /\ job[s] = Idle
  /\ job' = [job EXCEPT ![s] = PutJob(f)]
  /\ \A t \in Sessions : ~IsPut(t, f) /\ ~IsGet(t, f)
  /\ \E n \in Lengths : store' = [store EXCEPT ![f] = Resize(@, n)]

Put(s, f) ==
  /\ IsPut(s, f)
  /\ \E b \in Bytes : store' = [store EXCEPT ![f] = Append(@, b)]
  /\ UNCHANGED job

BeginGet(s, f) ==
  /\ job[s] = Idle
  /\ IsGet(s, f)'
  /\ \A t \in Sessions : ~IsPut(t, f)
  /\ \E n \in 0 .. Len(store[f]) :
       job' = [job EXCEPT ![s] = GetJob(f, From(store[f], n))]
  /\ UNCHANGED store

Get(s, f) ==
  /\ IsGet(s, f) /\ job[s].rest # << >>
  /\ UNCHANGED store
  /\ job' = [job EXCEPT ![s] = GetJob(f, Tail(job[s].rest))]

(* Done, failed, or the session has died. *)
End(s) ==
  /\ job[s] # Idle
  /\ UNCHANGED store
  /\ job' = [job EXCEPT ![s] = Idle]

Next ==
  \/ \E f \in Files : Create(f)
  \/ \E s \in Sessions :
       \/ End(s)
       \/ \E f \in Files : BeginPut(s, f) \/ Put(s, f) \/ BeginGet(s, f) \/ Get(s, f)

Spec == Init /\ [][Next]_vars
=============================================================================
