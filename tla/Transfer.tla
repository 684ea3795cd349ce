------------------------------ MODULE Transfer ------------------------------
(* upload_file and download_file of trans_data.c, run by several sessions  *)
(* (the proto processes) on the same files: open, record lock, fstat,      *)
(* truncation and restart offset, the two copy loops, unlock.  The set-up  *)
(* of the data connection and the timers are in Session.                   *)
(*                                                                         *)
(* Both loops move one byte at a time: read, write and sendfile may all be *)
(* partial.  IntMod stands for 2^32, the int variables of download_file.   *)
EXTENDS Integers, Sequences, Contents

CONSTANTS
  Sessions,
  Names,      \* the paths of regular files
  Inodes,     \* the regular files
  Devices,    \* other files that can be opened for writing (/dev/...)
  None,       \* no file
  Data,       \* the bytes clients send
  RestArgs,   \* arguments of REST
  MaxLen,     \* bound on the length of a file
  IntMod      \* the values of an int, counted

ASSUME TransferAssumption ==
  /\ Inodes \cap Devices = {}
  /\ None \notin Inodes \cup Devices \cup Names
  /\ Names \cap Devices = {}
  /\ RestArgs \subseteq Int
  /\ MaxLen \in Nat
  /\ IntMod \in Nat \ {0}

VARIABLES
  dir,        \* name -> inode, or None
  content,    \* what each regular inode holds
  lock,       \* session -> inode -> its record lock
  pc,         \* what each session does next
  ino,        \* the file it has open
  appe,       \* is_appe
  pos,        \* the offset of its descriptor
  nleft,      \* nleft of download_file
  restart     \* sess->restart_pos

vars == <<dir, content, lock, pc, ino, appe, pos, nleft, restart>>
locals == <<ino, appe, pos, nleft>>

Files == Inodes \cup Devices
Bytes == Data \cup {Hole}
Modes == {"none", "read", "write"}
Pcs == {"cmd", "lockw", "place", "recv", "lockr", "stat", "send", "sent", "failed"}

(* The conversion of a long long or an off_t to int. *)
ToInt(x) == LET r == x % IntMod IN IF 2 * r < IntMod THEN r ELSE r - IntMod

(* The file a path leads to. *)
Lookup(n) == IF n \in Devices THEN n ELSE dir[n]

Linked(i) == \E n \in Names : dir[n] = i
Unused(i) == ~Linked(i) /\ \A s \in Sessions : ino[s] # i

-----------------------------------------------------------------------------
Init ==
  /\ dir = [n \in Names |-> None]
  /\ content = [i \in Inodes |-> << >>]
  /\ lock = [s \in Sessions |-> [i \in Files |-> "none"]]
  /\ pc = [s \in Sessions |-> "cmd"]
  /\ ino = [s \in Sessions |-> None]
  /\ appe = [s \in Sessions |-> FALSE]
  /\ pos = [s \in Sessions |-> 0]
  /\ nleft = [s \in Sessions |-> 0]
  /\ restart = [s \in Sessions |-> 0]

(* The function returns: its locals are gone. *)
Return(s) ==
  /\ pc' = [pc EXCEPT ![s] = "cmd"]
  /\ ino' = [ino EXCEPT ![s] = None]
  /\ appe' = [appe EXCEPT ![s] = FALSE]
  /\ pos' = [pos EXCEPT ![s] = 0]
  /\ nleft' = [nleft EXCEPT ![s] = 0]

SetLock(s, i, mode) == lock' = [lock EXCEPT ![s][i] = mode]

(* The process ends: its locks are released, another session takes its    *)
(* place.                                                                  *)
Die(s) ==
  /\ Return(s)
  /\ lock' = [lock EXCEPT ![s] = [i \in Files |-> "none"]]
  /\ restart' = [restart EXCEPT ![s] = 0]
  /\ UNCHANGED <<dir, content>>

Rest(s) == \E n \in RestArgs :
  /\ pc[s] = "cmd"
  /\ restart' = [restart EXCEPT ![s] = n]
  /\ UNCHANGED <<dir, content, lock, pc, locals>>

(* Mutant: O_TRUNC, which empties the file before it is locked. *)
MutOpenUpload(s, n) ==
  /\ pc[s] = "cmd"
  /\ \E i \in Inodes :
       /\ \/ Lookup(n) = i /\ UNCHANGED dir
          \/ Lookup(n) = None /\ Unused(i) /\ dir' = [dir EXCEPT ![n] = i]
       /\ content' = [content EXCEPT ![i] = << >>]
       /\ ino' = [ino EXCEPT ![s] = i]
  /\ pc' = [pc EXCEPT ![s] = "lockw"]
  /\ UNCHANGED <<lock, appe, pos, nleft, restart>>

(* open(O_WRONLY | O_CREAT). *)
OpenUpload(s, n) ==
  /\ pc[s] = "cmd"
  /\ \E i \in Files, a \in BOOLEAN :
       /\ \/ Lookup(n) = i /\ UNCHANGED <<dir, content>>
          \/ /\ Lookup(n) = None /\ i \in Inodes /\ Unused(i)
             /\ dir' = [dir EXCEPT ![n] = i]
             /\ content' = [content EXCEPT ![i] = << >>]
       /\ ino' = [ino EXCEPT ![s] = i]
       /\ appe' = [appe EXCEPT ![s] = a]
  /\ pc' = [pc EXCEPT ![s] = "lockw"]
  /\ UNCHANGED <<lock, pos, nleft, restart>>

(* Mutant: a file that is being read can be stored into. *)
MutCanWrite(s, i) == \A t \in Sessions \ {s} : lock[t][i] # "write"

(* F_SETLK does not wait. *)
CanWrite(s, i) == \A t \in Sessions \ {s} : lock[t][i] = "none"

LockWrite(s) ==
  /\ pc[s] = "lockw"
  /\ IF CanWrite(s, ino[s])
     THEN /\ SetLock(s, ino[s], "write")
          /\ pc' = [pc EXCEPT ![s] = "place"]
          /\ UNCHANGED locals
     ELSE Return(s) /\ UNCHANGED lock
  /\ UNCHANGED <<dir, content, restart>>

(* Only a regular file can be stored into; the early return leaves the     *)
(* descriptor open and the lock set.                                       *)
PlaceDevice(s) ==
  /\ pc[s] = "place" /\ ino[s] \in Devices
  /\ Return(s)
  /\ UNCHANGED <<dir, content, lock, restart>>

(* Mutant: no ftruncate. *)
MutPlaceAt(s, n) ==
  /\ pos' = [pos EXCEPT ![s] = n]
  /\ pc' = [pc EXCEPT ![s] = "recv"]
  /\ UNCHANGED <<dir, content, lock, ino, appe, nleft, restart>>

(* STOR truncates at the restart offset and starts there, APPE at the end. *)
PlaceAt(s, n) ==
  /\ content' = [content EXCEPT ![ino[s]] = Resize(@, n)]
  /\ pos' = [pos EXCEPT ![s] = n]
  /\ pc' = [pc EXCEPT ![s] = "recv"]
  /\ UNCHANGED <<dir, lock, ino, appe, nleft, restart>>

(* Mutant: a failing lseek goes unnoticed. *)
MutPlace(s) ==
  /\ pc[s] = "place" /\ ino[s] \in Inodes
  /\ PlaceAt(s, IF appe[s] THEN Len(content[ino[s]]) ELSE restart[s])

Place(s) ==
  /\ pc[s] = "place" /\ ino[s] \in Inodes
  /\ \/ appe[s] /\ PlaceAt(s, Len(content[ino[s]]))
     \/ ~appe[s] /\ restart[s] \in 0 .. MaxLen /\ PlaceAt(s, restart[s])
     \/ ~appe[s] /\ restart[s] < 0 /\ Die(s)       \* lseek fails: ERR_EXIT

Receive(s) == \E b \in Data :
  /\ pc[s] = "recv" /\ pos[s] < MaxLen
  /\ content' = [content EXCEPT ![ino[s]] = WriteAt(@, pos[s], b)]
  /\ pos' = [pos EXCEPT ![s] = @ + 1]
  /\ UNCHANGED <<dir, lock, pc, ino, appe, nleft, restart>>

(* Mutant: a return without unlock_file. *)
MutEndUpload(s) ==
  /\ pc[s] = "recv"
  /\ Return(s)
  /\ UNCHANGED <<dir, content, lock, restart>>

(* The end of the stream, a failed read or a failed write. *)
EndUpload(s) ==
  /\ pc[s] = "recv"
  /\ SetLock(s, ino[s], "none")
  /\ Return(s)
  /\ UNCHANGED <<dir, content, restart>>
-----------------------------------------------------------------------------
(* open(O_RDONLY).  A path that leads nowhere is answered 550, and fstat   *)
(* of the descriptor -1 ends the session.                                  *)
OpenDownload(s, n) ==
  /\ pc[s] = "cmd"
  /\ \/ /\ Lookup(n) \in Files
        /\ ino' = [ino EXCEPT ![s] = Lookup(n)]
        /\ pc' = [pc EXCEPT ![s] = "lockr"]
        /\ UNCHANGED <<dir, content, lock, appe, pos, nleft, restart>>
     \/ Lookup(n) = None /\ Die(s)

(* F_SETLKW waits.  It fails with EDEADLK when sessions wait for each      *)
(* other; only the locks PlaceDevice leaves are held while waiting, so it  *)
(* concerns a device only.                                                 *)
CanRead(s, i) == \A t \in Sessions \ {s} : lock[t][i] # "write"

(* Mutant: F_SETLK, whose failure is answered and then forgotten. *)
MutLockRead(s) ==
  /\ pc[s] = "lockr"
  /\ IF CanRead(s, ino[s]) THEN SetLock(s, ino[s], "read") ELSE UNCHANGED lock
  /\ pc' = [pc EXCEPT ![s] = "stat"]
  /\ UNCHANGED <<dir, content, locals, restart>>

LockRead(s) ==
  /\ pc[s] = "lockr"
  /\ \/ CanRead(s, ino[s]) /\ SetLock(s, ino[s], "read")
     \/ ino[s] \in Devices /\ UNCHANGED lock    \* 550, and on it goes
  /\ pc' = [pc EXCEPT ![s] = "stat"]
  /\ UNCHANGED <<dir, content, locals, restart>>

(* fstat, then lseek to the restart offset; nleft is the whole size.  The  *)
(* loop over another kind of file ends by itself or with an error.         *)
Stat(s) ==
  /\ pc[s] = "stat"
  /\ \/ /\ ino[s] \in Inodes /\ ToInt(restart[s]) >= 0
        /\ pos' = [pos EXCEPT ![s] = ToInt(restart[s])]
        /\ nleft' = [nleft EXCEPT ![s] = ToInt(Len(content[ino[s]]))]
        /\ pc' = [pc EXCEPT ![s] = "send"]
        /\ UNCHANGED <<dir, content, lock, ino, appe, restart>>
     \/ /\ ino[s] \in Devices /\ ToInt(restart[s]) >= 0
        /\ pc' = [pc EXCEPT ![s] = "failed"]
        /\ UNCHANGED <<dir, content, lock, locals, restart>>
     \/ ToInt(restart[s]) < 0 /\ Die(s)

(* sendfile of at most nleft bytes (a negative nleft is a huge size_t).    *)
Sent(s) == IF nleft[s] = 0 \/ pos[s] >= Len(content[ino[s]]) THEN 0 ELSE 1

SendByte(s) ==
  /\ pc[s] = "send"
  /\ pos' = [pos EXCEPT ![s] = @ + Sent(s)]
  /\ nleft' = [nleft EXCEPT ![s] = ToInt(@ - Sent(s))]
  /\ pc' = [pc EXCEPT ![s] = IF nleft'[s] = 0 THEN "sent" ELSE "send"]
  /\ UNCHANGED <<dir, content, lock, ino, appe, restart>>

SendFails(s) ==
  /\ pc[s] = "send"
  /\ pc' = [pc EXCEPT ![s] = "failed"]
  /\ UNCHANGED <<dir, content, lock, locals, restart>>

CloseDownload(s) ==
  /\ pc[s] \in {"sent", "failed"}
  /\ SetLock(s, ino[s], "none")
  /\ Return(s)
  /\ UNCHANGED <<dir, content, restart>>
-----------------------------------------------------------------------------
(* DELE, and RNFR with RNTO. *)
Delete(s, n) ==
  /\ pc[s] = "cmd" /\ n \in Names /\ dir[n] # None
  /\ dir' = [dir EXCEPT ![n] = None]
  /\ UNCHANGED <<content, lock, pc, locals, restart>>

Rename(s, a, b) ==
  /\ pc[s] = "cmd" /\ a \in Names /\ b \in Names
  /\ a # b /\ dir[a] # None
  /\ dir' = [dir EXCEPT ![b] = dir[a], ![a] = None]
  /\ UNCHANGED <<content, lock, pc, locals, restart>>
-----------------------------------------------------------------------------
(* What the code does by itself once a transfer is under way and the       *)
(* client reads what it is sent; the client ends an upload.                *)
Loop(s) == SendByte(s) \/ CloseDownload(s)

Step(s) ==
  \/ Rest(s) \/ LockWrite(s) \/ PlaceDevice(s) \/ Place(s)
  \/ Receive(s) \/ EndUpload(s)
  \/ LockRead(s) \/ Stat(s) \/ SendFails(s) \/ Loop(s)
  \/ Die(s)
  \/ \E n \in Names \cup Devices : OpenUpload(s, n) \/ OpenDownload(s, n)
  \/ \E a \in Names : Delete(s, a) \/ \E b \in Names : Rename(s, a, b)

Next == \E s \in Sessions : Step(s)

Spec == Init /\ [][Next]_vars
FairSpec == Spec /\ \A s \in Sessions : WF_vars(Loop(s))
-----------------------------------------------------------------------------
(* Variables range over what the code can put into them. *)
TypeOK ==
  /\ dir \in [Names -> Inodes \cup {None}]
  /\ content \in [Inodes -> Seq(Bytes)]
  /\ lock \in [Sessions -> [Files -> Modes]]
  /\ pc \in [Sessions -> Pcs]
  /\ ino \in [Sessions -> Files \cup {None}]
  /\ appe \in [Sessions -> BOOLEAN]
  /\ pos \in [Sessions -> Nat]
  /\ nleft \in [Sessions -> Int]
  /\ restart \in [Sessions -> Int]

(* Between two commands a session holds no lock on a file that others     *)
(* store into or retrieve: whatever way upload_file and download_file      *)
(* return, the lock is gone.  (The early return for a device leaves its    *)
(* lock, and that is all it leaves.)                                       *)
NoLockLeft == \A s \in Sessions, i \in Inodes :
  pc[s] = "cmd" => lock[s][i] = "none"

(* While a session stores into a file, it is the only one at work on the   *)
(* contents, and it is at the end: no other offset refers to them, and     *)
(* neither the truncation nor APPE left it inside them.                    *)
WriterAlone == \A s \in Sessions : pc[s] = "recv" =>
  /\ pos[s] = Len(content[ino[s]])
  /\ \A t \in Sessions \ {s} :
       pc[t] \in {"place", "recv", "stat", "send", "sent"} => ino[t] # ino[s]

(* What "226 Transfer complete" after a retrieval is worth: the bytes sent *)
(* are the size of the file up to a multiple of 2^32.  So a file below     *)
(* 2^32 bytes was sent up to its end, although nleft is counted from the   *)
(* whole size and not from the offset; a larger one may have been cut to   *)
(* its size modulo 2^32, and 226 is the answer all the same.               *)
CompleteIsWhole == \A s \in Sessions : pc[s] = "sent" =>
  LET size == Len(content[ino[s]]) IN
  /\ (size - (pos[s] - ToInt(restart[s]))) % IntMod = 0
  /\ pos[s] >= size \/ size >= IntMod

(* What a session does to a file, seen from FileStore. *)
Job(s) ==
  CASE pc[s] = "recv" -> [kind |-> "put", file |-> ino[s]]
    [] pc[s] \in {"send", "sent", "failed"} /\ ino[s] \in Inodes ->
         [kind |-> "get", file |-> ino[s], rest |-> From(content[ino[s]], pos[s])]
    [] OTHER -> [kind |-> "idle"]

Store == INSTANCE FileStore WITH
  Files <- Inodes, Lengths <- 0 .. MaxLen,
  store <- content, job <- [s \in Sessions |-> Job(s)]

(* Together the transfers are a FileStore: an upload only appends, and a   *)
(* download delivers what the file held when it began, whatever the other  *)
(* sessions store, delete or rename meanwhile.                             *)
ImplementsStore == Store!Spec

(* Without a restart offset nleft is what its comment says, the remaining *)
(* bytes, as far as an int can hold them: nobody shortens a file that is   *)
(* being sent, so the loop, which stops at 0 only, gets there.             *)
RemainingExact == \A s \in Sessions :
  pc[s] = "send" /\ restart[s] = 0 =>
    /\ pos[s] <= Len(content[ino[s]])
    /\ nleft[s] = ToInt(Len(content[ino[s]]) - pos[s])

(* nleft is the "remaining bytes" of the comment at trans_data.c:565, so a  *)
(* download ends.  With a restart offset it is not, and does not.          *)
EveryDownloadEnds == \A s \in Sessions : pc[s] = "send" ~> pc[s] # "send"
=============================================================================
