------------------------------- MODULE Server -------------------------------
(***************************************************************************)
(* The listening process of miniftpd (main.c, ftp_assist.c): the accept    *)
(* loop, the client counters it keeps, the processes it forks, and the     *)
(* SIGCHLD handler that interrupts it between any two machine steps.       *)
(*                                                                         *)
(* The main flow and the handler share one process.  A handler runs to     *)
(* completion with respect to the main flow (every main step is guarded    *)
(* by ~inHandler), but it may start between any two main steps, and the    *)
(* counters are incremented by a load followed by a store.  The two hash   *)
(* tables appear here as partial functions; module HashTable shows what    *)
(* hash.c does underneath.                                                 *)
(***************************************************************************)
EXTENDS Integers, FiniteSets

CONSTANTS
  Pids,        \* process identifiers the kernel can hand out
  IPs,         \* client addresses (uint32_t in the code)
  MaxClients,  \* tunable_max_clients, 0 = no limit
  MaxPerIp,    \* tunable_max_per_ip, 0 = no limit
  Timeouts,    \* TRUE iff tunable_accept_timeout > 0
  UintMax,     \* largest unsigned int
  CountBound   \* bound of the model: no accept once a counter has reached it

ASSUME ServerAssumption ==
  /\ IsFiniteSet(Pids)
  /\ MaxClients \in Nat
  /\ MaxPerIp \in Nat
  /\ Timeouts \in BOOLEAN
  /\ UintMax \in Nat
  /\ CountBound \in 0 .. UintMax

VARIABLES
  pc,            \* next step of the main flow
  peer,          \* what accept_timeout returned: a socket, or why it is -1
  addr,          \* the sockaddr_in of the accept loop (never initialised)
  errno,         \* errno of the process, shared with the handler
  reg,           \* register of the increment in progress
  sess,          \* curr_clients and curr_ip_clients of the parent's session
  pid,           \* result of the last fork
  numOfClients,  \* num_of_clients
  clientcount,   \* clientcount
  ipToClients,   \* ip_to_clients: address -> count
  pidToIp,       \* pid_to_ip: process -> address
  child,         \* forked processes not yet waited for, with their sess copy
  sigPending,    \* a SIGCHLD is pending (standard signals coalesce)
  inHandler      \* handle_sigchld is running

mainVars == <<pc, peer, addr, reg, sess, pid, clientcount>>
vars == <<mainVars, errno, numOfClients, ipToClients, pidToIp, child,
          sigPending, inHandler>>

MainSteps == {"select", "eintr", "add", "addStore", "ip", "ipStore", "test",
              "fork", "register"}
Dead == {"down", "abort63", "abort67"}
Stages == {"limit", "session", "deniedFull", "deniedIp", "zombie"}

Children == DOMAIN child
Zombies == {p \in Children : child[p].st = "zombie"}
KidsOf(i) == {p \in Children : child[p].ip = i}
InSession == {p \in Children : child[p].st = "session"}

(* hash_add_entry, hash_free_entry, and a value changed in place. *)
Put(f, k, v) == [x \in DOMAIN f \cup {k} |-> IF x = k THEN v ELSE f[x]]
Drop(f, k) == [x \in DOMAIN f \ {k} |-> f[x]]

(* Decrement of an unsigned int. *)
Dec(n) == IF n = 0 THEN UintMax ELSE n - 1

TypeOK ==
  /\ pc \in MainSteps \cup Dead
  /\ peer \in {"conn", "timeout", "error", "interrupted"}
  /\ addr \in IPs
  /\ errno \in {"none", "ETIMEDOUT", "EINTR", "ECHILD", "ECONNABORTED"}
  /\ reg \in Nat
  /\ sess \in [curr : Nat, currIp : Nat]
  /\ pid \in Pids
  /\ numOfClients \in Nat
  /\ clientcount \in Nat
  /\ DOMAIN ipToClients \subseteq IPs
  /\ \A i \in DOMAIN ipToClients : ipToClients[i] \in Nat
  /\ DOMAIN pidToIp \subseteq Pids
  /\ \A p \in DOMAIN pidToIp : pidToIp[p] \in IPs
  /\ Children \subseteq Pids
  /\ \A p \in Children :
       child[p] \in [st : Stages, ip : IPs, curr : Nat, currIp : Nat]
  /\ sigPending \in BOOLEAN
  /\ inHandler \in BOOLEAN

(* server_init and the head of server_begin.  addr is stack memory: it may *)
(* hold any address before the first accept.                               *)
Init ==
  /\ pc = "select" /\ peer = "error" /\ addr \in IPs /\ errno = "none"
  /\ reg = 0 /\ sess = [curr |-> 0, currIp |-> 0] /\ pid \in Pids
  /\ numOfClients = 0 /\ clientcount = 0
  /\ ipToClients = [i \in {} |-> 0]
  /\ pidToIp = [p \in {} |-> 0]
  /\ child = [p \in {} |-> 0]
  /\ sigPending = FALSE /\ inHandler = FALSE

-----------------------------------------------------------------------------
(* The main flow. *)

(* Below the bound no increment wraps: CountBound is at most UintMax. *)
Bounded ==
  /\ numOfClients < CountBound
  /\ clientcount < CountBound
  /\ \A i \in DOMAIN ipToClients : ipToClients[i] < CountBound

Main(from, to) == pc = from /\ ~inHandler /\ pc' = to

(* accept_timeout: select reports a client and accept takes it. *)
AcceptClient ==
  /\ Main("select", "add")
  /\ Bounded
  /\ \E i \in IPs : addr' = i
  /\ peer' = "conn"
  /\ UNCHANGED <<errno, reg, sess, pid, numOfClients, clientcount, ipToClients,
                 pidToIp, child, sigPending, inHandler>>

(* accept_timeout: select times out, or the client is gone when accept     *)
(* runs.  addr keeps whatever it held.                                     *)
AcceptFails ==
  /\ Main("select", "add")
  /\ Bounded
  /\ \/ Timeouts /\ peer' = "timeout" /\ errno' = "ETIMEDOUT"
     \/ peer' = "error" /\ errno' = "ECONNABORTED"
  /\ UNCHANGED <<addr, reg, sess, pid, numOfClients, clientcount, ipToClients,
                 pidToIp, child, sigPending, inHandler>>

(* accept_timeout: select was interrupted; it is repeated only while errno *)
(* still says EINTR.                                                       *)
AfterEintr ==
  /\ pc = "eintr" /\ ~inHandler
  /\ IF errno = "EINTR"
     THEN pc' = "select" /\ peer' = peer
     ELSE pc' = "add" /\ peer' = "interrupted"
  /\ UNCHANGED <<addr, errno, reg, sess, pid, numOfClients, clientcount,
                 ipToClients, pidToIp, child, sigPending, inHandler>>

(* add_clients_to_hash: the load of ++num_of_clients ... *)
AddLoad ==
  /\ Main("add", "addStore")
  /\ reg' = numOfClients
  /\ UNCHANGED <<peer, addr, errno, sess, pid, numOfClients, clientcount,
                 ipToClients, pidToIp, child, sigPending, inHandler>>

(* ... and its store, with the copy into curr_clients. *)
AddStore ==
  /\ Main("addStore", "ip")
  /\ numOfClients' = reg + 1
  /\ sess' = [sess EXCEPT !.curr = reg + 1]
  /\ UNCHANGED <<peer, addr, errno, reg, pid, clientcount, ipToClients,
                 pidToIp, child, sigPending, inHandler>>

(* add_ip_to_hash: an unknown address gets the count 1. *)
IpNew ==
  /\ Main("ip", "test")
  /\ addr \notin DOMAIN ipToClients
  /\ ipToClients' = Put(ipToClients, addr, 1)
  /\ sess' = [sess EXCEPT !.currIp = 1]
  /\ UNCHANGED <<peer, addr, errno, reg, pid, numOfClients, clientcount,
                 pidToIp, child, sigPending, inHandler>>

(* add_ip_to_hash: a known address, value = *p_value ... *)
IpLoad ==
  /\ Main("ip", "ipStore")
  /\ addr \in DOMAIN ipToClients
  /\ reg' = ipToClients[addr]
  /\ UNCHANGED <<peer, addr, errno, sess, pid, numOfClients, clientcount,
                 ipToClients, pidToIp, child, sigPending, inHandler>>

(* ... value++, *p_value = value, return value. *)
MutIpStoreKeepsOld ==
  /\ Main("ipStore", "test")
  /\ ipToClients' = Put(ipToClients, addr, reg)
  /\ sess' = [sess EXCEPT !.currIp = reg + 1]
  /\ UNCHANGED <<peer, addr, errno, reg, pid, numOfClients, clientcount,
                 pidToIp, child, sigPending, inHandler>>

IpStore ==
  /\ Main("ipStore", "test")
  /\ ipToClients' = Put(ipToClients, addr, reg + 1)
  /\ sess' = [sess EXCEPT !.currIp = reg + 1]
  /\ UNCHANGED <<peer, addr, errno, reg, pid, numOfClients, clientcount,
                 pidToIp, child, sigPending, inHandler>>

(* server_begin: a timeout goes back to accept, another failure exits. *)
NoClient ==
  /\ pc = "test" /\ ~inHandler /\ peer # "conn"
  /\ pc' = IF errno = "ETIMEDOUT" THEN "select" ELSE "down"
  /\ UNCHANGED <<peer, addr, errno, reg, sess, pid, numOfClients, clientcount,
                 ipToClients, pidToIp, child, sigPending, inHandler>>

(* server_begin: ++clientcount, and curr_clients is overwritten with it. *)
MutCountClient ==
  /\ Main("test", "fork")
  /\ peer = "conn"
  /\ clientcount' = clientcount + 1
  /\ sess' = [sess EXCEPT !.curr = clientcount]
  /\ UNCHANGED <<peer, addr, errno, reg, pid, numOfClients, ipToClients,
                 pidToIp, child, sigPending, inHandler>>

CountClient ==
  /\ Main("test", "fork")
  /\ peer = "conn"
  /\ clientcount' = clientcount + 1
  /\ sess' = [sess EXCEPT !.curr = clientcount + 1]
  /\ UNCHANGED <<peer, addr, errno, reg, pid, numOfClients, ipToClients,
                 pidToIp, child, sigPending, inHandler>>

(* server_begin: fork succeeds; the child starts with a copy of sess. *)
Fork ==
  /\ Main("fork", "register")
  /\ \E p \in Pids \ Children :
       /\ pid' = p
       /\ child' = Put(child, p, [st |-> "limit", ip |-> addr,
                                  curr |-> sess.curr, currIp |-> sess.currIp])
  /\ UNCHANGED <<peer, addr, errno, reg, sess, numOfClients, clientcount,
                 ipToClients, pidToIp, sigPending, inHandler>>

(* server_begin: fork fails; neither branch runs. *)
ForkFails ==
  /\ Main("fork", "select")
  /\ UNCHANGED <<peer, addr, errno, reg, sess, pid, numOfClients, clientcount,
                 ipToClients, pidToIp, child, sigPending, inHandler>>

(* add_pid_ip_to_hash, in the parent only. *)
MutRegister ==
  /\ Main("register", "select")
  /\ pidToIp' = Put(pidToIp, pid, sess.currIp)
  /\ UNCHANGED <<peer, addr, errno, reg, sess, pid, numOfClients, clientcount,
                 ipToClients, child, sigPending, inHandler>>

Register ==
  /\ Main("register", "select")
  /\ pidToIp' = Put(pidToIp, pid, addr)
  /\ UNCHANGED <<peer, addr, errno, reg, sess, pid, numOfClients, clientcount,
                 ipToClients, child, sigPending, inHandler>>

-----------------------------------------------------------------------------
(* handle_sigchld. *)

Deliver ==
  /\ sigPending /\ ~inHandler /\ pc \notin Dead
  /\ sigPending' = FALSE
  /\ inHandler' = TRUE
  /\ UNCHANGED <<mainVars, errno, numOfClients, ipToClients, pidToIp, child>>

(* The address whose count the handler takes down: pid_to_ip of the pid    *)
(* waitpid returned.                                                       *)
MutReapedIp(z) == addr

ReapedIp(z) == pidToIp[z]

(* One turn of the waitpid loop: z is reaped, then the counters follow.    *)
(* Either assertion aborts the process.                                    *)
Reap(z) ==
  /\ inHandler /\ pc \notin Dead
  /\ z \in Zombies
  /\ child' = Drop(child, z)
  /\ numOfClients' = Dec(numOfClients)
  /\ \/ /\ z \notin DOMAIN pidToIp
        /\ pc' = "abort63"
        /\ UNCHANGED <<ipToClients, pidToIp>>
     \/ /\ z \in DOMAIN pidToIp
        /\ LET i == ReapedIp(z) IN
             IF i \in DOMAIN ipToClients /\ ipToClients[i] > 0
             THEN /\ ipToClients' = Put(ipToClients, i, ipToClients[i] - 1)
                  /\ pidToIp' = Drop(pidToIp, z)
                  /\ pc' = pc
             ELSE /\ pc' = "abort67"
                  /\ UNCHANGED <<ipToClients, pidToIp>>
  /\ UNCHANGED <<peer, addr, errno, reg, sess, pid, clientcount, sigPending,
                 inHandler>>

(* The end of the loop: waitpid finds no zombie. *)
MutDrained == TRUE

Drained == Zombies = {}

(* waitpid returned 0 with children left, -1 and ECHILD without.           *)
(* A select that was sleeping returns EINTR after the handler.             *)
HandlerReturns ==
  /\ inHandler /\ pc \notin Dead
  /\ Drained
  /\ inHandler' = FALSE
  /\ LET left == IF Children = {} THEN "ECHILD" ELSE errno IN
       \/ pc' = pc /\ errno' = left
       \/ Timeouts /\ pc = "select" /\ pc' = "eintr" /\ errno' = "EINTR"
  /\ UNCHANGED <<peer, addr, reg, sess, pid, clientcount, numOfClients,
                 ipToClients, pidToIp, child, sigPending>>

-----------------------------------------------------------------------------
(* The forked processes, as far as the listener sees them. *)

MutOverIp(c) == MaxPerIp > 0 /\ c.currIp > MaxPerIp + 1

OverClients(c) == MaxClients > 0 /\ c.curr > MaxClients
OverIp(c) == MaxPerIp > 0 /\ c.currIp > MaxPerIp

Stage(p, from, to) ==
  /\ p \in Children /\ child[p].st = from
  /\ child' = [child EXCEPT ![p].st = to]
  /\ UNCHANGED <<mainVars, errno, numOfClients, ipToClients, pidToIp, inHandler>>

(* limit_num_clients: 421, or on to session_begin. *)
Limit(p) ==
  /\ p \in Children
  /\ Stage(p, "limit", IF OverClients(child[p]) THEN "deniedFull"
                       ELSE IF OverIp(child[p]) THEN "deniedIp" ELSE "session")
  /\ UNCHANGED sigPending

(* exit: after a 421, or at the end of the session; SIGCHLD to the parent. *)
Exit(p) ==
  /\ \E st \in {"deniedFull", "deniedIp", "session"} : Stage(p, st, "zombie")
  /\ sigPending' = TRUE

-----------------------------------------------------------------------------
MainStep ==
  \/ AcceptClient \/ AcceptFails \/ AfterEintr
  \/ AddLoad \/ AddStore \/ IpNew \/ IpLoad \/ IpStore
  \/ NoClient \/ CountClient \/ Fork \/ ForkFails \/ Register

HandlerStep == Deliver \/ HandlerReturns \/ \E z \in Pids : Reap(z)

Next == MainStep \/ HandlerStep \/ \E p \in Pids : Limit(p) \/ Exit(p)

Spec == Init /\ [][Next]_vars

(* The kernel delivers a pending signal and the handler, once entered,     *)
(* runs to its end.                                                        *)
FairSpec == Spec /\ WF_vars(HandlerStep)

-----------------------------------------------------------------------------
(* Properties. *)

Count(i) == IF i \in DOMAIN ipToClients THEN ipToClients[i] ELSE 0

(* The counters may be too large (a timeout, a failed fork or an update    *)
(* lost to the handler leaks one), but never too small: whatever the       *)
(* handler interrupts, ip_to_clients counts every child of its address and *)
(* num_of_clients every child.  Both limits rest on it, and so does the    *)
(* decrement of an unsigned.                                               *)
NeverUndercounts ==
  /\ \A i \in IPs : Cardinality(KidsOf(i)) <= Count(i)
  /\ Cardinality(Children) <= numOfClients

(* max_per_ip: at no time are there more sessions of one address than the  *)
(* limit, although each child decides by itself, later, on a copy of the   *)
(* count taken before it was forked (limit_num_clients).                   *)
PerIpLimit ==
  MaxPerIp > 0 =>
    \A i \in IPs : Cardinality(InSession \cap KidsOf(i)) <= MaxPerIp

(* max_clients: at no time are there more sessions than the limit.         *)
ClientLimit == MaxClients > 0 => Cardinality(InSession) <= MaxClients

(* assert(p_value != NULL && *p_value > 0) in handle_sigchld never fails:  *)
(* a process found in pid_to_ip always has a positive count to take down.  *)
CountFound == pc # "abort67"

(* SIGCHLD signals coalesce, so one handler run must reap every child that *)
(* has exited: a zombie is always covered by a pending signal or a handler *)
(* that is still looping.                                                  *)
NoZombieForgotten == Zombies # {} => sigPending \/ inHandler \/ pc \in Dead

(* Every exited child is reaped, unless the listener itself has died.      *)
ZombiesReaped ==
  \A p \in Pids : p \in Zombies ~> (p \notin Zombies \/ pc \in Dead)

(* assert(p_ip != NULL), "the ip must be found": whoever is reaped has been *)
(* registered.  Does not hold: a child may exit between fork and           *)
(* add_pid_ip_to_hash.                                                     *)
PidFound == pc # "abort63"

(* A client is only told that there are too many connected users when     *)
(* there are: clientcount going over the limit means that, with this one,  *)
(* more than max_clients are connected.  Does not hold: clientcount is     *)
(* never decremented.                                                      *)
FullMeansFull ==
  [][(pc = "test" /\ pc' = "fork" /\ OverClients(sess'))
       => Cardinality(Children) + 1 > MaxClients]_vars

(* add_ip_to_hash returns the number of clients of the address, this one   *)
(* included.  Does not hold: an accept that timed out counted a client for *)
(* whatever address was left in addr, and an increment may overwrite a     *)
(* decrement of the handler.                                               *)
CountIsExact ==
  [][(pc \in {"ip", "ipStore"} /\ pc' = "test" /\ peer = "conn")
       => sess'.currIp <= Cardinality(KidsOf(addr)) + 1]_vars

(* A timed out accept returns -1 with errno ETIMEDOUT, which server_begin  *)
(* answers with another accept: the server stops for a real error only.    *)
(* Does not hold: the handler's last waitpid replaces errno by ECHILD.     *)
OnlyErrorsStop == pc = "down" => peer = "error"
=============================================================================
