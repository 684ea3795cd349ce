--------------------------- MODULE TransferProofs ---------------------------
(* Proofs about Transfer, for any number of sessions, files and paths, any *)
(* restart offsets and any width of an int.                                *)
EXTENDS Transfer, SequenceTheorems, TLAPS

-----------------------------------------------------------------------------
(* The inductive invariant. *)

Storing == {"place", "recv"}
Retrieving == {"stat", "send", "sent", "failed"}

(* What a session knows of its own file and locks: the loops run over     *)
(* regular files, and a regular file is locked from the fcntl to the       *)
(* unlock, and no longer.                                                  *)
FileOpen(s) ==
  /\ pc[s] # "cmd" => ino[s] \in Files
  /\ pc[s] \in {"recv", "send", "sent"} => ino[s] \in Inodes

LockHeld(s) ==
  /\ pc[s] \in Storing => lock[s][ino[s]] = "write"
  /\ pc[s] \in Retrieving /\ ino[s] \in Inodes => lock[s][ino[s]] = "read"

LockKnown(s) == \A i \in Inodes :
  lock[s][i] # "none" => ino[s] = i /\ pc[s] \in Storing \cup Retrieving

Own(s) == FileOpen(s) /\ LockHeld(s) /\ LockKnown(s)

Excluded(s, t) == \A i \in Inodes : lock[s][i] = "write" => lock[t][i] = "none"

LockInv ==
  /\ TypeOK
  /\ \A s \in Sessions : Own(s)
  /\ \A s, t \in Sessions : s # t => Excluded(s, t)

Bounded == \A i \in Inodes : Len(content[i]) <= MaxLen

WriterAtEnd(s) == pc[s] = "recv" => pos[s] = Len(content[ino[s]])

(* nleft is the size less the bytes sent, which are counted from the       *)
(* offset the download began at.                                           *)
Counted(s) ==
  /\ ToInt(restart[s]) >= 0
  /\ pos[s] >= ToInt(restart[s])
  /\ pos[s] <= Len(content[ino[s]]) \/ pos[s] = ToInt(restart[s])
  /\ nleft[s] = ToInt(Len(content[ino[s]]) - (pos[s] - ToInt(restart[s])))
  /\ pc[s] = "sent" => nleft[s] = 0

ReaderCounts(s) == pc[s] \in {"send", "sent"} => Counted(s)

IInv ==
  /\ LockInv /\ Bounded
  /\ \A s \in Sessions : WriterAtEnd(s) /\ ReaderCounts(s)

-----------------------------------------------------------------------------
(* The contents of a file. *)

LEMMA BytesAssumption == Hole \in Bytes /\ Data \subseteq Bytes
BY DEF Bytes

(* ftruncate leaves a file of the length it was asked for. *)
LEMMA ResizeProperties ==
  ASSUME NEW c \in Seq(Bytes), NEW n \in Nat
  PROVE  /\ Resize(c, n) \in Seq(Bytes)
         /\ Len(Resize(c, n)) = n
         /\ \A k \in 1 .. n : Resize(c, n)[k] = IF k \in 1 .. Len(c) THEN c[k] ELSE Hole
BY BytesAssumption, Z3 DEF Resize

(* A write at the end of a file appends to it. *)
LEMMA WriteAtEndAppends ==
  ASSUME NEW c \in Seq(Bytes), NEW b \in Bytes
  PROVE  WriteAt(c, Len(c), b) = Append(c, b)
<1> DEFINE n == Len(c) + 1
           d == WriteAt(c, Len(c), b)
<1>1. n \in Nat
  OBVIOUS
<1>2. d = [Resize(c, n) EXCEPT ![n] = b]
  BY DEF WriteAt
<1>3. /\ d \in Seq(Bytes)
      /\ Len(d) = n
      /\ \A k \in 1 .. n : d[k] = IF k = n THEN b ELSE Resize(c, n)[k]
  <2> DEFINE r == Resize(c, n)
  <2>1. r \in Seq(Bytes) /\ Len(r) = n /\ n \in 1 .. n
    BY <1>1, ResizeProperties
  <2> HIDE DEF r, n
  <2> DEFINE e == [r EXCEPT ![n] = b]
  <2>2. e \in Seq(Bytes) /\ Len(e) = n /\ \A k \in 1 .. n : e[k] = IF k = n THEN b ELSE r[k]
    BY <2>1, ExceptSeq
  <2> QED
    BY <1>2, <2>2 DEF r
<1>4. /\ Append(c, b) \in Seq(Bytes)
      /\ Len(Append(c, b)) = n
      /\ \A k \in 1 .. Len(c) : Append(c, b)[k] = c[k]
      /\ Append(c, b)[n] = b
  BY AppendProperties
<1>5. ASSUME NEW k \in 1 .. Len(c)
      PROVE  Resize(c, n)[k] = c[k]
  <2>1. k \in 1 .. n
    OBVIOUS
  <2> QED
    BY <1>1, <2>1, ResizeProperties
<1> HIDE DEF d
<1>6. \A k \in 1 .. n : d[k] = Append(c, b)[k]
  BY <1>3, <1>4, <1>5
<1> HIDE DEF d, n
<1> QED
  BY <1>3, <1>4, <1>6, SeqEqual DEF d

-----------------------------------------------------------------------------
(* The conversion to int. *)

LEMMA ToIntType ==
  ASSUME NEW x \in Int
  PROVE  ToInt(x) \in Int /\ \E k \in Int : ToInt(x) = x - IntMod * k
<1> DEFINE q == x \div IntMod
           r == x % IntMod
<1>1. IntMod \in Int /\ q \in Int /\ r \in Int /\ x = IntMod * q + r
  BY TransferAssumption
<1>2. ToInt(x) = IF 2 * r < IntMod THEN r ELSE r - IntMod
  BY DEF ToInt
<1> HIDE DEF q, r
<1>3. CASE 2 * r < IntMod
  <2>1. ToInt(x) \in Int /\ ToInt(x) = x - IntMod * q
    BY <1>1, <1>2, <1>3
  <2> QED
    BY <1>1, <2>1
<1>4. CASE ~(2 * r < IntMod)
  <2>1. IntMod * (q + 1) = IntMod * q + IntMod /\ q + 1 \in Int
    BY <1>1
  <2>2. ToInt(x) \in Int /\ ToInt(x) = x - IntMod * (q + 1)
    BY <1>1, <1>2, <1>4, <2>1
  <2> QED
    BY <2>1, <2>2
<1> QED
  BY <1>3, <1>4

LEMMA MulMono == \A m \in Nat \ {0} : \A d \in Nat \ {0} : m * d >= m
OBVIOUS

(* Quotient and remainder are unique. *)
LEMMA ModUnique ==
  ASSUME NEW m \in Nat \ {0}, NEW x \in Int, NEW q \in Int, NEW r \in 0 .. m - 1,
         x = m * q + r
  PROVE  x % m = r
<1> DEFINE p == x \div m
           t == x % m
<1>1. p \in Int /\ t \in 0 .. m - 1 /\ x = m * p + t
  OBVIOUS
<1> HIDE DEF p, t
<1>2. m * p - m * q = m * (p - q) /\ m * q - m * p = m * (q - p)
  BY <1>1
<1>3. CASE p = q
  BY <1>1, <1>3 DEF t
<1>4. CASE p > q
  <2>1. m * (p - q) >= m
    BY <1>1, <1>4, MulMono
  <2> QED
    BY <2>1, <1>1, <1>2
<1>5. CASE p < q
  <2>1. m * (q - p) >= m
    BY <1>1, <1>5, MulMono
  <2> QED
    BY <2>1, <1>1, <1>2
<1> QED
  BY <1>1, <1>3, <1>4, <1>5

(* Counting down in an int is counting down. *)
LEMMA ToIntMinus ==
  ASSUME NEW x \in Int, NEW d \in Int
  PROVE  ToInt(ToInt(x) - d) = ToInt(x - d)
<1>1. PICK k \in Int : ToInt(x) = x - IntMod * k
  BY ToIntType
<1> DEFINE y == x - d
           q == y \div IntMod
           r == y % IntMod
<1>2. IntMod \in Nat \ {0}
  BY TransferAssumption
<1>3. y \in Int /\ q \in Int /\ r \in 0 .. IntMod - 1 /\ y = IntMod * q + r
  BY <1>2
<1>4. ToInt(x) - d = y - IntMod * k /\ y - IntMod * k \in Int
  BY <1>1, <1>2
<1> HIDE DEF y, q, r
<1>5. y - IntMod * k = IntMod * (q - k) + r /\ q - k \in Int
  BY <1>2, <1>3
<1>6. (y - IntMod * k) % IntMod = r
  BY <1>2, <1>3, <1>4, <1>5, ModUnique
<1> QED
  BY <1>4, <1>6 DEF ToInt, y, r

(* Below the width of an int, only 0 is converted to 0. *)
LEMMA ToIntZero ==
  ASSUME NEW x \in 0 .. IntMod - 1, ToInt(x) = 0
  PROVE  x = 0
<1>1. x % IntMod = x
  BY TransferAssumption
<1> QED
  BY <1>1, TransferAssumption DEF ToInt

LEMMA ToIntMod ==
  ASSUME NEW x \in Int, ToInt(x) = 0
  PROVE  x % IntMod = 0
<1> DEFINE r == x % IntMod
<1>1. IntMod \in Nat \ {0} /\ r \in 0 .. IntMod - 1
  BY TransferAssumption
<1>2. 0 = IF 2 * r < IntMod THEN r ELSE r - IntMod
  BY DEF ToInt
<1> HIDE DEF r
<1>3. r = 0
  BY <1>1, <1>2
<1> QED
  BY <1>3 DEF r

-----------------------------------------------------------------------------
(* The steps, one by one: what the variables range over. *)

LEMMA TypeStep ==
  ASSUME IInv, NEW s \in Sessions, Step(s)
  PROVE  TypeOK'
<1>0. TypeOK /\ FileOpen(s) /\ WriterAtEnd(s)
  BY DEF IInv, LockInv, Own
<1> USE <1>0 DEF TypeOK, FileOpen, Modes, Pcs, locals
<1>1. CASE Rest(s)
  BY <1>1, TransferAssumption DEF Rest
<1>2. CASE LockWrite(s)
  <2>1. CASE CanWrite(s, ino[s])
    <3>1. lock' = [lock EXCEPT ![s][ino[s]] = "write"] /\ pc' = [pc EXCEPT ![s] = "place"]
      BY <1>2, <2>1 DEF LockWrite, SetLock
    <3>2. UNCHANGED <<dir, content, ino, appe, pos, nleft, restart>>
      BY <1>2, <2>1 DEF LockWrite
    <3> QED
      BY <3>1, <3>2
  <2>2. CASE ~CanWrite(s, ino[s])
    <3>1. Return(s) /\ UNCHANGED <<dir, content, lock, restart>>
      BY <1>2, <2>2 DEF LockWrite
    <3> QED
      BY <3>1 DEF Return
  <2> QED
    BY <2>1, <2>2
<1>3. CASE PlaceDevice(s)
  BY <1>3 DEF PlaceDevice, Return
<1>4. CASE Place(s)
  <2>1. ASSUME NEW n \in Nat, PlaceAt(s, n), ino[s] \in Inodes
        PROVE  TypeOK'
    <3>1. content' \in [Inodes -> Seq(Bytes)]
      BY <2>1, ResizeProperties DEF PlaceAt
    <3> QED
      BY <2>1, <3>1 DEF PlaceAt
  <2>2. CASE Die(s)
    BY <2>2 DEF Die, Return
  <2>3. ino[s] \in Inodes => Len(content[ino[s]]) \in Nat
    OBVIOUS
  <2>4. 0 .. MaxLen \subseteq Nat
    OBVIOUS
  <2> QED
    BY <1>4, <2>1, <2>2, <2>3, <2>4 DEF Place
<1>5. CASE Receive(s)
  <2>1. PICK b \in Data : /\ content' = [content EXCEPT ![ino[s]] = WriteAt(@, pos[s], b)]
                          /\ pos' = [pos EXCEPT ![s] = @ + 1]
                          /\ UNCHANGED <<dir, lock, pc, ino, appe, nleft, restart>>
    BY <1>5 DEF Receive
  <2>2. ino[s] \in Inodes /\ pos[s] = Len(content[ino[s]])
    BY <1>5 DEF Receive, WriterAtEnd
  <2>3. content[ino[s]] \in Seq(Bytes) /\ b \in Bytes
    BY <2>2, BytesAssumption
  <2>4. WriteAt(content[ino[s]], pos[s], b) = Append(content[ino[s]], b)
    BY <2>2, <2>3, WriteAtEndAppends
  <2>5. Append(content[ino[s]], b) \in Seq(Bytes)
    BY <2>3, AppendProperties
  <2> QED
    BY <2>1, <2>2, <2>4, <2>5
<1>6. CASE EndUpload(s)
  BY <1>6 DEF EndUpload, SetLock, Return
<1>7. CASE LockRead(s)
  <2>1. CASE SetLock(s, ino[s], "read")
    BY <1>7, <2>1 DEF LockRead, SetLock
  <2>2. CASE UNCHANGED lock
    BY <1>7, <2>2 DEF LockRead
  <2> QED
    BY <1>7, <2>1, <2>2 DEF LockRead
<1>8. CASE Stat(s)
  <2>1. ToInt(restart[s]) \in Int 
    BY ToIntType
  <2>2. ino[s] \in Inodes => ToInt(Len(content[ino[s]])) \in Int
    BY ToIntType
  <2>3. CASE Die(s)
    BY <2>3 DEF Die, Return
  <2>4. CASE ino[s] \in Inodes /\ ToInt(restart[s]) >= 0
    <3>1. CASE ~Die(s)
      <4>1. /\ pos' = [pos EXCEPT ![s] = ToInt(restart[s])]
            /\ nleft' = [nleft EXCEPT ![s] = ToInt(Len(content[ino[s]]))]
            /\ pc' = [pc EXCEPT ![s] = "send"]
            /\ UNCHANGED <<dir, content, lock, ino, appe, restart>>
        BY <1>8, <2>4, <3>1, TransferAssumption DEF Stat
      <4> QED
        BY <2>1, <2>2, <2>4, <4>1
    <3> QED
      BY <2>3, <3>1
  <2>5. CASE ino[s] \in Devices /\ ToInt(restart[s]) >= 0
    <3>1. CASE ~Die(s)
      <4>1. /\ pc' = [pc EXCEPT ![s] = "failed"]
            /\ UNCHANGED <<dir, content, lock, locals, restart>>
        BY <1>8, <2>5, <3>1, TransferAssumption DEF Stat
      <4> QED
        BY <4>1
    <3> QED
      BY <2>3, <3>1
  <2> QED
    BY <1>8, <2>3, <2>4, <2>5 DEF Stat
<1>9. CASE SendFails(s)
  BY <1>9 DEF SendFails
<1>10. CASE SendByte(s)
  <2>1. Sent(s) \in {0, 1} /\ nleft[s] - Sent(s) \in Int
    BY DEF Sent
  <2>2. ToInt(nleft[s] - Sent(s)) \in Int
    BY <2>1, ToIntType
  <2> QED
    BY <1>10, <2>1, <2>2 DEF SendByte
<1>11. CASE CloseDownload(s)
  BY <1>11 DEF CloseDownload, SetLock, Return
<1>12. CASE Die(s)
  BY <1>12 DEF Die, Return
<1>13. ASSUME NEW n \in Names \cup Devices, OpenUpload(s, n)
       PROVE  TypeOK'
  <2>1. PICK i \in Files, a \in BOOLEAN :
          /\ \/ UNCHANGED <<dir, content>>
             \/ /\ i \in Inodes /\ n \in Names
                /\ dir' = [dir EXCEPT ![n] = i]
                /\ content' = [content EXCEPT ![i] = << >>]
          /\ ino' = [ino EXCEPT ![s] = i]
          /\ appe' = [appe EXCEPT ![s] = a]
    BY <1>13, TransferAssumption DEF OpenUpload, Lookup
  <2>2. pc' = [pc EXCEPT ![s] = "lockw"] /\ UNCHANGED <<lock, pos, nleft, restart>>
    BY <1>13 DEF OpenUpload
  <2>3. dir' \in [Names -> Inodes \cup {None}] /\ content' \in [Inodes -> Seq(Bytes)]
    <3>1. CASE UNCHANGED <<dir, content>>
      BY <3>1
    <3>2. CASE /\ i \in Inodes /\ n \in Names
               /\ dir' = [dir EXCEPT ![n] = i]
               /\ content' = [content EXCEPT ![i] = << >>]
      BY <3>2
    <3> QED
      BY <2>1, <3>1, <3>2
  <2> QED
    BY <2>1, <2>2, <2>3
<1>14. ASSUME NEW n \in Names \cup Devices, OpenDownload(s, n)
       PROVE  TypeOK'
  <2>1. CASE Die(s)
    BY <2>1 DEF Die, Return
  <2>2. CASE ~Die(s)
    <3>1. /\ Lookup(n) \in Files
          /\ ino' = [ino EXCEPT ![s] = Lookup(n)]
          /\ pc' = [pc EXCEPT ![s] = "lockr"]
          /\ UNCHANGED <<dir, content, lock, appe, pos, nleft, restart>>
      BY <1>14, <2>2 DEF OpenDownload
    <3>2. ino' \in [Sessions -> Files \cup {None}]
      BY <3>1
    <3>3. pc' \in [Sessions -> Pcs]
      BY <3>1
    <3> QED
      BY <3>1, <3>2, <3>3
  <2> QED
    BY <2>1, <2>2
<1>15. ASSUME NEW a \in Names, Delete(s, a)
       PROVE  TypeOK'
  BY <1>15 DEF Delete
<1>16. ASSUME NEW a \in Names, NEW b \in Names, Rename(s, a, b)
       PROVE  TypeOK'
  BY <1>16 DEF Rename
<1> QED
  BY <1>1, <1>2, <1>3, <1>4, <1>5, <1>6, <1>7, <1>8, <1>9, <1>10, <1>11,
     <1>12, <1>13, <1>14, <1>15, <1>16 DEF Step, Loop

-----------------------------------------------------------------------------
(* A session changes nothing that belongs to another one. *)

Same(t) ==
  /\ pc'[t] = pc[t] /\ ino'[t] = ino[t] /\ lock'[t] = lock[t]
  /\ pos'[t] = pos[t] /\ nleft'[t] = nleft[t] /\ restart'[t] = restart[t]

LEMMA OthersStep ==
  ASSUME IInv, NEW s \in Sessions, Step(s), NEW t \in Sessions, t # s
  PROVE  Same(t)
<1>0. TypeOK
  BY DEF IInv, LockInv
<1> USE <1>0 DEF TypeOK, Same, Return, SetLock, locals
<1>1. CASE Die(s)
  BY <1>1 DEF Die
<1>2. CASE Rest(s) \/ LockWrite(s) \/ PlaceDevice(s)
  BY <1>2 DEF Rest, LockWrite, PlaceDevice
<1>3. CASE Place(s)
  BY <1>1, <1>3 DEF Place, PlaceAt
<1>4. CASE Receive(s) \/ EndUpload(s)
  BY <1>4 DEF Receive, EndUpload
<1>5. CASE LockRead(s)
  BY <1>5 DEF LockRead
<1>6. CASE Stat(s)
  BY <1>1, <1>6 DEF Stat
<1>7. CASE SendFails(s) \/ SendByte(s) \/ CloseDownload(s)
  BY <1>7 DEF SendFails, SendByte, CloseDownload
<1>8. ASSUME NEW n \in Names \cup Devices, OpenUpload(s, n) \/ OpenDownload(s, n)
      PROVE  Same(t)
  BY <1>1, <1>8 DEF OpenUpload, OpenDownload
<1>9. ASSUME NEW a \in Names, Delete(s, a) \/ \E b \in Names : Rename(s, a, b)
      PROVE  Same(t)
  BY <1>9 DEF Delete, Rename
<1> QED
  BY <1>1, <1>2, <1>3, <1>4, <1>5, <1>6, <1>7, <1>8, <1>9 DEF Step, Loop

(* The locks a session holds, gives up and is granted. *)
LEMMA OwnStep ==
  ASSUME IInv, NEW s \in Sessions, Step(s)
  PROVE  Own(s)'
<1>0. TypeOK /\ FileOpen(s) /\ LockHeld(s) /\ LockKnown(s)
  BY DEF IInv, LockInv, Own
<1> USE <1>0, TransferAssumption DEF TypeOK, Own, FileOpen, LockHeld, LockKnown,
      Files, Storing, Retrieving, locals
<1>1. CASE Die(s)
  BY <1>1 DEF Die, Return
<1>2. CASE Rest(s) \/ Receive(s)
  BY <1>2 DEF Rest, Receive
<1>3. CASE LockWrite(s)
  <2>1. CASE CanWrite(s, ino[s])
    <3>1. lock' = [lock EXCEPT ![s][ino[s]] = "write"] /\ pc' = [pc EXCEPT ![s] = "place"]
      BY <1>3, <2>1 DEF LockWrite, SetLock
    <3>2. UNCHANGED ino /\ pc[s] = "lockw"
      BY <1>3, <2>1 DEF LockWrite
    <3> QED
      BY <3>1, <3>2
  <2>2. CASE ~CanWrite(s, ino[s])
    <3>1. Return(s) /\ UNCHANGED lock /\ pc[s] = "lockw"
      BY <1>3, <2>2 DEF LockWrite
    <3> QED
      BY <3>1 DEF Return
  <2> QED
    BY <2>1, <2>2
<1>4. CASE PlaceDevice(s)
  BY <1>4 DEF PlaceDevice, Return
<1>5. CASE Place(s)
  <2>1. ASSUME NEW n, PlaceAt(s, n), ino[s] \in Inodes, pc[s] = "place"
        PROVE  Own(s)'
    BY <2>1 DEF PlaceAt
  <2> QED
    BY <1>1, <1>5, <2>1 DEF Place
<1>6. CASE EndUpload(s)
  BY <1>6 DEF EndUpload, SetLock, Return
<1>7. CASE LockRead(s)
  <2>1. pc[s] = "lockr" /\ pc' = [pc EXCEPT ![s] = "stat"] /\ UNCHANGED ino
    BY <1>7 DEF LockRead
  <2>2. CASE lock' = [lock EXCEPT ![s][ino[s]] = "read"]
    BY <2>1, <2>2
  <2>3. CASE ino[s] \in Devices /\ UNCHANGED lock
    BY <2>1, <2>3
  <2> QED
    BY <1>7, <2>2, <2>3 DEF LockRead, SetLock
<1>8. CASE Stat(s)
  <2>1. CASE ~Die(s)
    <3>1. /\ pc[s] = "stat" /\ UNCHANGED <<lock, ino>>
          /\ \/ ino[s] \in Inodes /\ pc' = [pc EXCEPT ![s] = "send"]
             \/ ino[s] \in Devices /\ pc' = [pc EXCEPT ![s] = "failed"]
      BY <1>8, <2>1 DEF Stat
    <3> QED
      BY <3>1
  <2> QED
    BY <1>1, <2>1
<1>9. CASE SendFails(s)
  BY <1>9 DEF SendFails
<1>10. CASE SendByte(s)
  <2>1. /\ pc[s] = "send" /\ UNCHANGED <<lock, ino>>
        /\ \/ pc' = [pc EXCEPT ![s] = "send"]
           \/ pc' = [pc EXCEPT ![s] = "sent"]
    BY <1>10 DEF SendByte
  <2> QED
    BY <2>1
<1>11. CASE CloseDownload(s)
  BY <1>11 DEF CloseDownload, SetLock, Return
<1>12. ASSUME NEW n \in Names \cup Devices, OpenUpload(s, n)
       PROVE  Own(s)'
  <2>1. PICK i \in Files : ino' = [ino EXCEPT ![s] = i]
    BY <1>12 DEF OpenUpload
  <2>2. pc[s] = "cmd" /\ pc' = [pc EXCEPT ![s] = "lockw"] /\ UNCHANGED lock
    BY <1>12 DEF OpenUpload
  <2> QED
    BY <2>1, <2>2
<1>13. ASSUME NEW n \in Names \cup Devices, OpenDownload(s, n)
       PROVE  Own(s)'
  <2>1. CASE ~Die(s)
    <3>1. /\ pc[s] = "cmd" /\ pc' = [pc EXCEPT ![s] = "lockr"] /\ UNCHANGED lock
          /\ Lookup(n) \in Files /\ ino' = [ino EXCEPT ![s] = Lookup(n)]
      BY <1>13, <2>1 DEF OpenDownload
    <3> QED
      BY <3>1
  <2> QED
    BY <1>1, <2>1
<1>14. ASSUME NEW a \in Names, Delete(s, a) \/ \E b \in Names : Rename(s, a, b)
       PROVE  Own(s)'
  BY <1>14 DEF Delete, Rename
<1> QED
  BY <1>1, <1>2, <1>3, <1>4, <1>5, <1>6, <1>7, <1>8, <1>9, <1>10, <1>11,
     <1>12, <1>13, <1>14 DEF Step, Loop

(* Every lock is granted by a guard of its own. *)
LEMMA GrantStep ==
  ASSUME IInv, NEW s \in Sessions, Step(s), NEW i \in Inodes
  PROVE  \/ lock'[s][i] = lock[s][i] \/ lock'[s][i] = "none"
         \/ lock'[s][i] = "write" /\ CanWrite(s, i)
         \/ lock'[s][i] = "read" /\ CanRead(s, i)
<1>0. TypeOK /\ FileOpen(s)
  BY DEF IInv, LockInv, Own
<1> USE <1>0, TransferAssumption DEF TypeOK, FileOpen, Files, SetLock
<1>1. CASE Die(s)
  BY <1>1 DEF Die
<1>2. CASE LockWrite(s)
  BY <1>2 DEF LockWrite
<1>3. CASE LockRead(s)
  BY <1>3 DEF LockRead
<1>4. CASE EndUpload(s) \/ CloseDownload(s)
  BY <1>4 DEF EndUpload, CloseDownload
<1>5. CASE Rest(s) \/ PlaceDevice(s) \/ Receive(s) \/ SendFails(s) \/ SendByte(s)
  BY <1>5 DEF Rest, PlaceDevice, Receive, SendFails, SendByte
<1>6. CASE Place(s) \/ Stat(s)
  BY <1>1, <1>6 DEF Place, PlaceAt, Stat
<1>7. ASSUME NEW n \in Names \cup Devices, OpenUpload(s, n) \/ OpenDownload(s, n)
      PROVE  lock'[s][i] = lock[s][i] \/ Die(s)
  BY <1>7 DEF OpenUpload, OpenDownload
<1>8. ASSUME NEW a \in Names, Delete(s, a) \/ \E b \in Names : Rename(s, a, b)
      PROVE  lock'[s][i] = lock[s][i]
  BY <1>8 DEF Delete, Rename
<1> QED
  BY <1>1, <1>2, <1>3, <1>4, <1>5, <1>6, <1>7, <1>8 DEF Step, Loop

LEMMA LockStep ==
  ASSUME IInv, NEW s \in Sessions, Step(s)
  PROVE  LockInv'
<1>1. TypeOK'
  BY TypeStep
<1>2. ASSUME NEW t \in Sessions
      PROVE  Own(t)'
  <2>1. CASE t = s
    BY <2>1, OwnStep
  <2>2. CASE t # s
    <3>1. Same(t) /\ Own(t)
      BY <2>2, OthersStep DEF IInv, LockInv
    <3> QED
      BY <3>1 DEF Same, Own, FileOpen, LockHeld, LockKnown
  <2> QED
    BY <2>1, <2>2
<1>3. ASSUME NEW t \in Sessions, NEW u \in Sessions, t # u, NEW i \in Inodes,
             lock'[t][i] = "write"
      PROVE  lock'[u][i] = "none"
  <2>1. /\ t # s => lock'[t] = lock[t]
        /\ u # s => lock'[u] = lock[u]
    BY OthersStep DEF Same
  <2>2. /\ lock[t][i] = "write" => lock[u][i] = "none"
        /\ lock[u][i] \in Modes /\ lock[t][i] \in Modes
    BY <1>3 DEF IInv, LockInv, TypeOK, Files, Excluded
  <2>3. CASE t = s
    BY <1>3, <2>1, <2>2, <2>3, GrantStep DEF CanWrite
  <2>4. CASE u = s
    BY <1>3, <2>1, <2>2, <2>4, GrantStep DEF CanWrite, CanRead, Modes
  <2>5. CASE t # s /\ u # s
    BY <1>3, <2>1, <2>2, <2>5
  <2> QED
    BY <2>3, <2>4, <2>5
<1> QED
  BY <1>1, <1>2, <1>3 DEF LockInv, Excluded

-----------------------------------------------------------------------------
(* Contents and offsets: who holds a lock on a file sees it changed by     *)
(* nobody else.                                                            *)

LEMMA KeptStep ==
  ASSUME IInv, NEW s \in Sessions, Step(s), NEW t \in Sessions, t # s,
         NEW i \in Inodes, lock[t][i] # "none"
  PROVE  content'[i] = content[i]
<1>0. TypeOK /\ FileOpen(s) /\ LockHeld(s) /\ LockKnown(t) /\ Excluded(s, t)
  BY DEF IInv, LockInv, Own
<1>1. ino[t] = i
  BY <1>0 DEF LockKnown
<1>2. ino[s] = i => pc[s] \notin Storing
  BY <1>0 DEF LockHeld, Excluded
<1> USE <1>0, TransferAssumption DEF TypeOK, FileOpen, Storing
<1>3. CASE Die(s)
  BY <1>3 DEF Die
<1>4. CASE Place(s)
  <2>1. ASSUME NEW n, PlaceAt(s, n), pc[s] = "place"
        PROVE  content'[i] = content[i]
    BY <1>2, <2>1 DEF PlaceAt
  <2> QED
    BY <1>3, <1>4, <2>1 DEF Place
<1>5. CASE Receive(s)
  BY <1>2, <1>5 DEF Receive
<1>6. ASSUME NEW n \in Names \cup Devices, OpenUpload(s, n)
      PROVE  content'[i] = content[i]
  BY <1>1, <1>6 DEF OpenUpload, Unused
<1>7. CASE Rest(s) \/ LockWrite(s) \/ PlaceDevice(s) \/ EndUpload(s) \/ LockRead(s)
  BY <1>7 DEF Rest, LockWrite, PlaceDevice, EndUpload, LockRead
<1>8. CASE Stat(s) \/ SendFails(s) \/ Loop(s)
  BY <1>3, <1>8 DEF Stat, SendFails, Loop, SendByte, CloseDownload
<1>9. ASSUME NEW n \in Names \cup Devices, OpenDownload(s, n)
      PROVE  content'[i] = content[i]
  BY <1>3, <1>9 DEF OpenDownload
<1>10. ASSUME NEW a \in Names, Delete(s, a) \/ \E b \in Names : Rename(s, a, b)
       PROVE  content'[i] = content[i]
  BY <1>10 DEF Delete, Rename
<1> QED
  BY <1>3, <1>4, <1>5, <1>6, <1>7, <1>8, <1>9, <1>10 DEF Step

(* The steps of an upload that touch the contents. *)
LEMMA PlaceEffect ==
  ASSUME IInv, NEW s \in Sessions, Place(s), ~Die(s)
  PROVE  /\ ino[s] \in Inodes
         /\ \E n \in 0 .. MaxLen :
              /\ content' = [content EXCEPT ![ino[s]] = Resize(@, n)]
              /\ pos' = [pos EXCEPT ![s] = n]
         /\ pc' = [pc EXCEPT ![s] = "recv"] /\ UNCHANGED ino
<1>1. ino[s] \in Inodes
  BY DEF Place
<1>2. Len(content[ino[s]]) \in 0 .. MaxLen
  BY <1>1, TransferAssumption DEF IInv, LockInv, TypeOK, Bounded
<1>3. \E n \in 0 .. MaxLen : PlaceAt(s, n)
  BY <1>2 DEF Place
<1> QED
  BY <1>1, <1>3 DEF PlaceAt

LEMMA ReceiveEffect ==
  ASSUME IInv, NEW s \in Sessions, Receive(s)
  PROVE  /\ ino[s] \in Inodes /\ content[ino[s]] \in Seq(Bytes)
         /\ pos[s] = Len(content[ino[s]]) /\ pos[s] < MaxLen
         /\ \E b \in Bytes : content' = [content EXCEPT ![ino[s]] = Append(@, b)]
         /\ pos' = [pos EXCEPT ![s] = @ + 1]
         /\ UNCHANGED <<pc, ino>>
<1>1. /\ pc[s] = "recv" /\ pos[s] < MaxLen
      /\ ino[s] \in Inodes /\ content[ino[s]] \in Seq(Bytes)
      /\ pos[s] = Len(content[ino[s]])
  BY DEF Receive, IInv, LockInv, Own, TypeOK, FileOpen, WriterAtEnd
<1>2. PICK b \in Data : content' = [content EXCEPT ![ino[s]] = WriteAt(@, pos[s], b)]
  BY DEF Receive
<1>3. b \in Bytes
  BY BytesAssumption
<1>4. WriteAt(content[ino[s]], pos[s], b) = Append(content[ino[s]], b)
  BY <1>1, <1>3, WriteAtEndAppends
<1>5. content' = [content EXCEPT ![ino[s]] = Append(@, b)]
  BY <1>2, <1>4
<1> QED
  BY <1>1, <1>3, <1>5 DEF Receive

LEMMA BoundStep ==
  ASSUME IInv, NEW s \in Sessions, Step(s)
  PROVE  Bounded'
<1>0. TypeOK /\ Bounded
  BY DEF IInv, LockInv
<1>1. CASE UNCHANGED content
  BY <1>0, <1>1 DEF Bounded
<1>2. CASE Place(s) /\ ~Die(s)
  <2>1. PICK n \in 0 .. MaxLen : content' = [content EXCEPT ![ino[s]] = Resize(@, n)]
    BY <1>2, PlaceEffect
  <2>2. ASSUME NEW i \in Inodes
        PROVE  Len(content'[i]) <= MaxLen
    <3>1. content[i] \in Seq(Bytes) /\ n \in Nat /\ n <= MaxLen
      BY <1>0, TransferAssumption DEF TypeOK
    <3>2. content'[i] = content[i] \/ content'[i] = Resize(content[i], n)
      BY <1>0, <2>1 DEF TypeOK
    <3>3. Len(content[i]) <= MaxLen
      BY <1>0 DEF Bounded
    <3>4. Len(Resize(content[i], n)) = n
      BY <3>1, ResizeProperties
    <3>5. CASE content'[i] = content[i]
      BY <3>3, <3>5
    <3>6. CASE content'[i] = Resize(content[i], n)
      BY <3>1, <3>4, <3>6
    <3> QED
      BY <3>2, <3>5, <3>6
  <2> QED
    BY <2>2 DEF Bounded
<1>3. CASE Receive(s)
  <2>1. PICK b \in Bytes : content' = [content EXCEPT ![ino[s]] = Append(@, b)]
    BY <1>3, ReceiveEffect
  <2>2. /\ ino[s] \in Inodes /\ content[ino[s]] \in Seq(Bytes)
        /\ Len(content[ino[s]]) < MaxLen
    BY <1>3, ReceiveEffect
  <2>3. Len(Append(content[ino[s]], b)) <= MaxLen
    BY <2>2, AppendProperties, TransferAssumption
  <2> QED
    BY <1>0, <2>1, <2>3 DEF Bounded, TypeOK
<1>4. ASSUME NEW n \in Names \cup Devices, OpenUpload(s, n)
      PROVE  Bounded'
  <2>1. CASE ~(UNCHANGED content)
    <3>1. \E i \in Inodes : content' = [content EXCEPT ![i] = << >>]
      BY <1>4, <2>1 DEF OpenUpload
    <3> QED
      BY <1>0, <3>1, TransferAssumption DEF Bounded, TypeOK
  <2> QED
    BY <1>1, <2>1
<1>5. CASE ~(UNCHANGED content)
  <2>1. ~Die(s)
    BY <1>5 DEF Die
  <2>2. \/ Place(s) \/ Receive(s)
        \/ \E n \in Names \cup Devices : OpenUpload(s, n)
    BY <1>5, <2>1 DEF Step, Loop, Rest, LockWrite, PlaceDevice, EndUpload, LockRead,
       Stat, SendFails, SendByte, CloseDownload, OpenDownload, Delete, Rename
  <2> QED
    BY <1>2, <1>3, <1>4, <2>1, <2>2
<1> QED
  BY <1>1, <1>5

(* An upload stays at the end of its file. *)
LEMMA WriterStep ==
  ASSUME IInv, NEW s \in Sessions, Step(s)
  PROVE  WriterAtEnd(s)'
<1>0. TypeOK
  BY DEF IInv, LockInv
<1>1. CASE Place(s) /\ ~Die(s)
  <2>1. PICK n \in 0 .. MaxLen :
          /\ content' = [content EXCEPT ![ino[s]] = Resize(@, n)]
          /\ pos' = [pos EXCEPT ![s] = n]
    BY <1>1, PlaceEffect
  <2>2. ino[s] \in Inodes /\ UNCHANGED ino /\ n \in Nat
    BY <1>1, PlaceEffect, TransferAssumption
  <2>3. Len(Resize(content[ino[s]], n)) = n
    BY <1>0, <2>2, ResizeProperties DEF TypeOK
  <2> QED
    BY <1>0, <2>1, <2>2, <2>3 DEF TypeOK, WriterAtEnd
<1>2. CASE Receive(s)
  <2>1. PICK b \in Bytes : content' = [content EXCEPT ![ino[s]] = Append(@, b)]
    BY <1>2, ReceiveEffect
  <2>2. /\ ino[s] \in Inodes /\ content[ino[s]] \in Seq(Bytes)
        /\ pos[s] = Len(content[ino[s]])
        /\ pos' = [pos EXCEPT ![s] = @ + 1]
        /\ UNCHANGED ino
    BY <1>2, ReceiveEffect
  <2>3. Len(Append(content[ino[s]], b)) = pos[s] + 1
    BY <2>2, AppendProperties
  <2> QED
    BY <1>0, <2>1, <2>2, <2>3 DEF TypeOK, WriterAtEnd
<1>3. CASE (~Place(s) /\ ~Receive(s)) \/ Die(s)
  <2>1. pc'[s] # "recv"
    <3> USE <1>0 DEF TypeOK, Return, locals
    <3>1. CASE Die(s)
      BY <3>1 DEF Die
    <3>2. CASE Rest(s)
      <4>1. pc[s] = "cmd" /\ pc' = pc
        BY <3>2 DEF Rest
      <4> QED
        BY <4>1
    <3>3. CASE LockWrite(s) \/ PlaceDevice(s) \/ EndUpload(s) \/ LockRead(s)
      BY <3>3 DEF LockWrite, PlaceDevice, EndUpload, LockRead
    <3>4. CASE Stat(s) \/ SendFails(s) \/ Loop(s)
      BY <3>1, <3>4 DEF Stat, SendFails, Loop, SendByte, CloseDownload
    <3>5. ASSUME NEW n \in Names \cup Devices, OpenUpload(s, n) \/ OpenDownload(s, n)
          PROVE  pc'[s] # "recv"
      BY <3>1, <3>5 DEF OpenUpload, OpenDownload
    <3>6. ASSUME NEW a \in Names, Delete(s, a) \/ \E b \in Names : Rename(s, a, b)
          PROVE  pc'[s] # "recv"
      BY <3>6 DEF Delete, Rename
    <3> QED
      BY <1>3, <3>1, <3>2, <3>3, <3>4, <3>5, <3>6 DEF Step
  <2> QED
    BY <2>1 DEF WriterAtEnd
<1> QED
  BY <1>1, <1>2, <1>3

(* The count of a download. *)
LEMMA CountStep ==
  ASSUME IInv, NEW s \in Sessions, Step(s)
  PROVE  ReaderCounts(s)'
<1>0. TypeOK /\ FileOpen(s) /\ ReaderCounts(s)
  BY DEF IInv, LockInv, Own
<1> DEFINE off == ToInt(restart[s])
           size == Len(content[ino[s]])
<1>1. off \in Int
  BY <1>0, ToIntType DEF TypeOK
<1>2. CASE Stat(s) /\ pc'[s] = "send"
  <2>1. /\ ino[s] \in Inodes /\ off >= 0
        /\ pos' = [pos EXCEPT ![s] = off]
        /\ nleft' = [nleft EXCEPT ![s] = ToInt(size)]
        /\ UNCHANGED <<content, ino, restart>>
    BY <1>0, <1>2 DEF Stat, Die, Return, TypeOK
  <2>2. pos'[s] = off /\ nleft'[s] = ToInt(size) /\ restart'[s] = restart[s]
        /\ content'[ino'[s]] = content[ino[s]]
    BY <1>0, <2>1 DEF TypeOK
  <2>3. size - (off - off) = size
    BY <1>0, <1>1, <2>1 DEF TypeOK
  <2>4. Counted(s)'
    BY <1>1, <1>2, <2>1, <2>2, <2>3 DEF Counted
  <2> QED
    BY <2>4 DEF ReaderCounts
<1>3. CASE SendByte(s)
  <2> DEFINE d == Sent(s)
             x == size - (pos[s] - off)
  <2>1. /\ pc[s] = "send" /\ Counted(s)
        /\ content[ino[s]] \in Seq(Bytes) /\ size \in Nat /\ pos[s] \in Nat
    <3>1. pc[s] = "send" /\ ino[s] \in Inodes
      BY <1>0, <1>3 DEF SendByte, FileOpen
    <3> QED
      BY <1>0, <3>1 DEF ReaderCounts, TypeOK
  <2>2. d \in {0, 1} /\ x \in Int /\ (d = 1 => pos[s] < size)
    BY <1>1, <2>1 DEF Sent
  <2>3. nleft[s] = ToInt(x)
    BY <2>1 DEF Counted
  <2>4. /\ pos'[s] = pos[s] + d
        /\ nleft'[s] = ToInt(nleft[s] - d)
        /\ pc'[s] = IF nleft'[s] = 0 THEN "sent" ELSE "send"
        /\ content'[ino'[s]] = content[ino[s]] /\ restart'[s] = restart[s]
    BY <1>0, <1>3 DEF SendByte, TypeOK
  <2>5. nleft'[s] = ToInt(x - d)
    <3> HIDE DEF d, x
    <3>1. ToInt(ToInt(x) - d) = ToInt(x - d)
      BY <2>2, ToIntMinus
    <3>2. nleft'[s] = ToInt(nleft[s] - d)
      BY <2>4 DEF d
    <3> QED
      BY <2>3, <3>1, <3>2
  <2>6. x - d = size - (pos'[s] - off)
    BY <1>1, <2>1, <2>2, <2>4
  <2>7. /\ off >= 0 /\ pos[s] >= off
        /\ pos[s] <= size \/ pos[s] = off
    BY <2>1 DEF Counted
  <2>8. /\ pos'[s] >= off
        /\ pos'[s] <= size \/ pos'[s] = off
    BY <1>1, <2>1, <2>2, <2>4, <2>7
  <2>9. pc'[s] = "sent" => nleft'[s] = 0
    BY <2>4
  <2> HIDE DEF d, x
  <2>10. Counted(s)'
    BY <2>4, <2>5, <2>6, <2>7, <2>8, <2>9 DEF Counted
  <2> QED
    BY <2>10 DEF ReaderCounts
<1>4. CASE ~SendByte(s) /\ ~(Stat(s) /\ pc'[s] = "send")
  <2>1. pc'[s] \notin {"send", "sent"}
    <3> USE <1>0 DEF TypeOK, Return, locals
    <3>1. CASE Die(s)
      BY <3>1 DEF Die
    <3>2. CASE Rest(s)
      <4>1. pc[s] = "cmd" /\ pc' = pc
        BY <3>2 DEF Rest
      <4> QED
        BY <4>1
    <3>3. CASE LockWrite(s) \/ PlaceDevice(s) \/ EndUpload(s) \/ LockRead(s)
      BY <3>3 DEF LockWrite, PlaceDevice, EndUpload, LockRead
    <3>4. CASE Place(s) \/ Receive(s) \/ SendFails(s) \/ CloseDownload(s)
      BY <3>1, <3>4 DEF Place, PlaceAt, Receive, SendFails, CloseDownload
    <3>5. CASE Stat(s)
      BY <1>4, <3>1, <3>5 DEF Stat
    <3>6. ASSUME NEW n \in Names \cup Devices, OpenUpload(s, n) \/ OpenDownload(s, n)
          PROVE  pc'[s] \notin {"send", "sent"}
      BY <3>1, <3>6 DEF OpenUpload, OpenDownload
    <3>7. ASSUME NEW a \in Names, Delete(s, a) \/ \E b \in Names : Rename(s, a, b)
          PROVE  pc'[s] \notin {"send", "sent"}
      BY <3>7 DEF Delete, Rename
    <3> QED
      BY <1>4, <3>1, <3>2, <3>3, <3>4, <3>5, <3>6, <3>7 DEF Step, Loop
  <2> QED
    BY <2>1 DEF ReaderCounts
<1> QED
  BY <1>2, <1>3, <1>4

-----------------------------------------------------------------------------
LEMMA IInvInit == Init => IInv
<1> SUFFICES ASSUME Init PROVE IInv
  OBVIOUS
<1>1. TypeOK
  BY DEF Init, TypeOK, Files, Bytes, Modes, Pcs
<1>2. \A s \in Sessions : Own(s)
  BY DEF Init, Own, FileOpen, LockHeld, LockKnown, Storing, Retrieving, Files
<1>3. \A s, t \in Sessions : Excluded(s, t)
  BY DEF Init, Excluded, Files
<1>4. Bounded
  BY TransferAssumption DEF Init, Bounded
<1>5. \A s \in Sessions : WriterAtEnd(s) /\ ReaderCounts(s)
  BY DEF Init, WriterAtEnd, ReaderCounts
<1> QED
  BY <1>1, <1>2, <1>3, <1>4, <1>5 DEF IInv, LockInv

LEMMA IInvStep == IInv /\ [Next]_vars => IInv'
<1> SUFFICES ASSUME IInv, [Next]_vars PROVE IInv'
  OBVIOUS
<1>1. CASE UNCHANGED vars
  BY <1>1 DEF vars, IInv, LockInv, TypeOK, Own, FileOpen, LockHeld, LockKnown,
     Excluded, Bounded, WriterAtEnd, ReaderCounts, Counted
<1>2. ASSUME NEW s \in Sessions, Step(s)
      PROVE  IInv'
  <2>1. LockInv' /\ Bounded'
    BY <1>2, LockStep, BoundStep
  <2>2. ASSUME NEW t \in Sessions, t # s
        PROVE  (WriterAtEnd(t) /\ ReaderCounts(t))'
    <3>1. Same(t)
      BY <1>2, <2>2, OthersStep
    <3>2. ASSUME pc[t] \in {"recv", "send", "sent"}
          PROVE  content'[ino[t]] = content[ino[t]]
      <4>1. ino[t] \in Inodes /\ lock[t][ino[t]] # "none"
        BY <3>2 DEF IInv, LockInv, Own, FileOpen, LockHeld, Storing, Retrieving
      <4> QED
        BY <1>2, <2>2, <4>1, KeptStep
    <3>3. WriterAtEnd(t) /\ ReaderCounts(t)
      BY DEF IInv
    <3> QED
      BY <3>1, <3>2, <3>3 DEF Same, WriterAtEnd, ReaderCounts, Counted
  <2>3. (WriterAtEnd(s) /\ ReaderCounts(s))'
    BY <1>2, WriterStep, CountStep
  <2> QED
    BY <2>1, <2>2, <2>3 DEF IInv
<1> QED
  BY <1>1, <1>2 DEF Next

LEMMA Invariance == Spec => []IInv
BY IInvInit, IInvStep, PTL DEF Spec

-----------------------------------------------------------------------------
(* Every variable keeps to what the code can put into it. *)
THEOREM TypeCorrect == Spec => []TypeOK
<1>1. IInv => TypeOK
  BY DEF IInv, LockInv
<1> QED
  BY <1>1, Invariance, PTL

(* However upload_file and download_file return, the lock is gone. *)
THEOREM LocksReturned == Spec => []NoLockLeft
<1>1. IInv => NoLockLeft
  BY DEF IInv, LockInv, Own, LockKnown, Storing, Retrieving, NoLockLeft
<1> QED
  BY <1>1, Invariance, PTL

(* The record locks leave an upload alone with its file, at its end. *)
THEOREM UploadAlone == Spec => []WriterAlone
<1>1. ASSUME IInv, NEW s \in Sessions, pc[s] = "recv"
      PROVE  pos[s] = Len(content[ino[s]])
  BY <1>1 DEF IInv, WriterAtEnd
<1>2. ASSUME IInv, NEW s \in Sessions, pc[s] = "recv",
             NEW t \in Sessions \ {s}, pc[t] \in {"place", "recv", "stat", "send", "sent"}
      PROVE  ino[t] # ino[s]
  <2>1. ino[s] \in Inodes /\ lock[s][ino[s]] = "write"
    BY <1>2 DEF IInv, LockInv, Own, FileOpen, LockHeld, Storing
  <2>2. Excluded(s, t)
    BY <1>2 DEF IInv, LockInv
  <2>3. lock[t][ino[s]] = "none"
    BY <2>1, <2>2 DEF Excluded
  <2>4. ino[t] \in Inodes => lock[t][ino[t]] # "none"
    BY <1>2 DEF IInv, LockInv, Own, LockHeld, Storing, Retrieving
  <2> QED
    BY <2>1, <2>3, <2>4
<1>3. IInv => WriterAlone
  BY <1>1, <1>2 DEF WriterAlone
<1> QED
  BY <1>3, Invariance, PTL

(* "226 Transfer complete" is said when the bytes sent are the size of the *)
(* file, up to a multiple of the values of an int, and of no part of a     *)
(* file that is shorter than that.                                         *)
THEOREM DownloadWhole == Spec => []CompleteIsWhole
<1>1. ASSUME IInv, NEW s \in Sessions, pc[s] = "sent"
      PROVE  /\ (Len(content[ino[s]]) - (pos[s] - ToInt(restart[s]))) % IntMod = 0
             /\ pos[s] >= Len(content[ino[s]]) \/ Len(content[ino[s]]) >= IntMod
  <2> DEFINE off == ToInt(restart[s])
             size == Len(content[ino[s]])
  <2>1. ino[s] \in Inodes
    BY <1>1 DEF IInv, LockInv, Own, FileOpen
  <2>2. /\ content[ino[s]] \in Seq(Bytes) /\ size \in Nat /\ pos[s] \in Nat
        /\ off \in Int
    <3>1. TypeOK
      BY <1>1 DEF IInv, LockInv
    <3>2. content[ino[s]] \in Seq(Bytes) /\ pos[s] \in Nat /\ restart[s] \in Int
      BY <2>1, <3>1 DEF TypeOK
    <3>3. off \in Int
      BY <3>2, ToIntType
    <3> QED
      BY <3>2, <3>3
  <2>3. Counted(s)
    BY <1>1 DEF IInv, ReaderCounts
  <2>4. /\ off >= 0 /\ pos[s] >= off
        /\ pos[s] <= size \/ pos[s] = off
        /\ ToInt(size - (pos[s] - off)) = 0
    BY <1>1, <2>3 DEF Counted
  <2> HIDE DEF off, size
  <2> DEFINE left == size - (pos[s] - off)
  <2>5. size \in Nat /\ pos[s] \in Nat /\ off \in Int /\ IntMod \in Nat /\ left \in Int
    BY <2>2, TransferAssumption
  <2>6. left % IntMod = 0
    BY <2>4, <2>5, ToIntMod DEF left
  <2>7. ASSUME size < IntMod
        PROVE  pos[s] >= size
    <3>1. 0 <= size - (pos[s] - off) /\ size - (pos[s] - off) <= IntMod - 1
      BY <2>4, <2>5, <2>7
    <3>2. size - (pos[s] - off) \in 0 .. IntMod - 1
      BY <2>5, <3>1
    <3>3. size - (pos[s] - off) = 0
      BY <2>4, <3>2, ToIntZero
    <3> QED
      BY <2>4, <2>5, <3>3
  <2>8. pos[s] >= size \/ size >= IntMod
    BY <2>5, <2>7
  <2> QED
    BY <2>6, <2>8 DEF left, size, off
<1>2. IInv => CompleteIsWhole
  BY <1>1 DEF CompleteIsWhole
<1> QED
  BY <1>2, Invariance, PTL

(* Without a restart offset nleft is the remaining bytes. *)
THEOREM Remaining == Spec => []RemainingExact
<1>1. ToInt(0) = 0
  <2>1. 0 % IntMod = 0
    BY TransferAssumption
  <2> QED
    BY <2>1, TransferAssumption DEF ToInt
<1>2. ASSUME IInv, NEW s \in Sessions, pc[s] = "send", restart[s] = 0
      PROVE  /\ pos[s] <= Len(content[ino[s]])
             /\ nleft[s] = ToInt(Len(content[ino[s]]) - pos[s])
  <2>1. ino[s] \in Inodes
    BY <1>2 DEF IInv, LockInv, Own, FileOpen
  <2>2. Len(content[ino[s]]) \in Nat /\ pos[s] \in Nat
    <3>1. TypeOK
      BY <1>2 DEF IInv, LockInv
    <3> QED
      BY <2>1, <3>1 DEF TypeOK
  <2>3. Counted(s)
    BY <1>2 DEF IInv, ReaderCounts
  <2> QED
    BY <1>1, <1>2, <2>2, <2>3 DEF Counted
<1>3. IInv => RemainingExact
  BY <1>2 DEF RemainingExact
<1> QED
  BY <1>3, Invariance, PTL

-----------------------------------------------------------------------------
(* The transfers implement FileStore. *)

Getting == {"send", "sent", "failed"}

(* The three forms of a job. *)
LEMMA JobForms ==
  ASSUME NEW s \in Sessions
  PROVE  /\ pc[s] = "recv" => Job(s) = Store!PutJob(ino[s])
         /\ pc[s] \in Getting /\ ino[s] \in Inodes =>
              Job(s) = Store!GetJob(ino[s], Store!From(content[ino[s]], pos[s]))
         /\ pc[s] # "recv" /\ ~(pc[s] \in Getting /\ ino[s] \in Inodes) =>
              Job(s) = Store!Idle
BY DEF Job, Getting, Store!PutJob, Store!GetJob, Store!Idle, From, Store!From

LEMMA JobOf ==
  ASSUME NEW s \in Sessions, NEW f \in Inodes
  PROVE  /\ Store!IsPut(s, f) => pc[s] = "recv" /\ ino[s] = f
         /\ Store!IsGet(s, f) => pc[s] \in Getting /\ ino[s] = f
         /\ pc[s] = "recv" /\ ino[s] = f => Store!IsPut(s, f)
         /\ pc[s] \in Getting /\ ino[s] = f => Store!IsGet(s, f)
BY DEF Job, Getting, Store!IsPut, Store!IsGet, Store!PutJob

LEMMA JobsInit == Init => Store!Init
BY DEF Init, Store!Init, Store!Idle, Job

(* A step changes the job of its session only. *)
LEMMA JobOthers ==
  ASSUME IInv, NEW s \in Sessions, Step(s), NEW t \in Sessions, t # s
  PROVE  Job(t)' = Job(t)
<1>1. Same(t)
  BY OthersStep
<1>2. ASSUME pc[t] \in Getting, ino[t] \in Inodes
      PROVE  content'[ino[t]] = content[ino[t]]
  <2>1. lock[t][ino[t]] # "none"
    BY <1>2 DEF IInv, LockInv, Own, LockHeld, Retrieving, Getting
  <2> QED
    BY <1>2, <2>1, KeptStep
<1> QED
  BY <1>1, <1>2 DEF Same, Job, Getting

LEMMA JobStep ==
  ASSUME IInv, NEW s \in Sessions, Step(s), NEW j, Job(s)' = j
  PROVE  [t \in Sessions |-> Job(t)]' = [[t \in Sessions |-> Job(t)] EXCEPT ![s] = j]
BY JobOthers

(* What is left to read, one byte further on and past the end. *)
LEMMA FromNext ==
  ASSUME NEW c \in Seq(Bytes), NEW n \in Nat, n < Len(c)
  PROVE  From(c, n) # << >> /\ Tail(From(c, n)) = From(c, n + 1)
<1> DEFINE d == From(c, n)
           e == From(c, n + 1)
<1>1. d \in Seq(Bytes) /\ Len(d) = Len(c) - n /\ \A i \in 1 .. Len(d) : d[i] = c[n + i]
  BY Z3 DEF From
<1>2. e \in Seq(Bytes) /\ Len(e) = Len(c) - n - 1
      /\ \A i \in 1 .. Len(e) : e[i] = c[n + 1 + i]
  BY Z3 DEF From
<1>3. d # << >>
  BY <1>1
<1>4. /\ Tail(d) \in Seq(Bytes) /\ Len(Tail(d)) = Len(d) - 1
      /\ \A i \in 1 .. Len(Tail(d)) : Tail(d)[i] = d[i + 1]
  BY <1>1, <1>3, Z3
<1> HIDE DEF d, e
<1>5. \A i \in 1 .. Len(e) : Tail(d)[i] = e[i]
  BY <1>1, <1>2, <1>4
<1>6. Tail(d) = e
  BY <1>1, <1>2, <1>4, <1>5, SeqEqual
<1> QED
  BY <1>3, <1>6 DEF d, e

LEMMA FromPast ==
  ASSUME NEW c \in Seq(Bytes), NEW n \in Nat, n >= Len(c)
  PROVE  From(c, n) = From(c, Len(c))
<1>1. From(c, n) = << >>
  BY Z3 DEF From
<1>2. From(c, Len(c)) = << >>
  BY Z3 DEF From
<1> QED
  BY <1>1, <1>2

(* A step that leaves the contents alone and its job, or ends it. *)
LEMMA QuietStep ==
  ASSUME IInv, NEW s \in Sessions, Step(s), UNCHANGED content,
         Job(s)' = Job(s) \/ Job(s)' = Store!Idle
  PROVE  [Store!Next]_(Store!vars)
<1>1. CASE Job(s)' = Job(s)
  BY <1>1, JobOthers DEF Store!vars
<1>2. CASE Job(s) # Store!Idle /\ Job(s)' = Store!Idle
  <2>1. ino[s] \in Inodes
    BY <1>2, JobForms DEF IInv, LockInv, Own, FileOpen
  <2>2. Store!End(s)
    BY <1>2, JobStep DEF Store!End
  <2> QED
    BY <2>1, <2>2 DEF Store!Next
<1> QED
  BY <1>1, <1>2

LEMMA PutSteps ==
  ASSUME IInv, NEW s \in Sessions, Step(s)
  PROVE  /\ Place(s) /\ ~Die(s) => [Store!Next]_(Store!vars)
         /\ Receive(s) => [Store!Next]_(Store!vars)
<1> DEFINE f == ino[s]
<1>0. TypeOK
  BY DEF IInv, LockInv
<1>1. CASE Place(s) /\ ~Die(s)
  <2>1. PICK n \in 0 .. MaxLen : content' = [content EXCEPT ![f] = Resize(@, n)]
    BY <1>1, PlaceEffect
  <2>2. f \in Inodes /\ pc'[s] = "recv" /\ ino'[s] = f /\ pc[s] = "place"
    BY <1>0, <1>1, PlaceEffect DEF TypeOK, Place
  <2>3. Job(s) = Store!Idle /\ Job(s)' = Store!PutJob(f)
    BY <2>2, JobForms DEF Job, Getting, Store!PutJob
  <2>4. ASSUME NEW t \in Sessions
        PROVE  ~Store!IsPut(t, f) /\ ~Store!IsGet(t, f)
    <3>1. CASE t = s
      BY <2>2, <3>1, JobOf DEF Getting
    <3>2. CASE t # s
      <4>1. lock[s][f] = "write" /\ Excluded(s, t) /\ LockHeld(t)
        BY <2>2, <3>2 DEF IInv, LockInv, Own, LockHeld, Storing
      <4> QED
        BY <2>2, <4>1, JobOf DEF Excluded, LockHeld, Storing, Retrieving, Getting
    <3> QED
      BY <3>1, <3>2
  <2>5. content' = [content EXCEPT ![f] = Store!Resize(@, n)]
    BY <2>1 DEF Resize, Store!Resize
  <2>6. Store!BeginPut(s, f)
    BY <2>3, <2>4, <2>5, JobStep DEF Store!BeginPut
  <2> QED
    BY <2>2, <2>6 DEF Store!Next
<1>2. CASE Receive(s)
  <2>1. /\ f \in Inodes /\ UNCHANGED <<pc, ino>>
        /\ \E b \in Bytes : content' = [content EXCEPT ![f] = Append(@, b)]
    BY <1>2, ReceiveEffect
  <2>2. pc[s] = "recv"
    BY <1>2 DEF Receive
  <2>3. Job(s)' = Job(s)
    BY <2>1, <2>2 DEF Job
  <2>4. [t \in Sessions |-> Job(t)]' = [t \in Sessions |-> Job(t)]
    BY <1>2, <2>3, JobOthers
  <2>5. Store!Put(s, f)
    BY <2>1, <2>2, <2>4, JobOf DEF Store!Put
  <2> QED
    BY <2>1, <2>5 DEF Store!Next
<1> QED
  BY <1>1, <1>2

LEMMA GetSteps ==
  ASSUME IInv, NEW s \in Sessions, Step(s)
  PROVE  /\ Stat(s) => [Store!Next]_(Store!vars)
         /\ SendByte(s) => [Store!Next]_(Store!vars)
<1> DEFINE f == ino[s]
           c == content[f]
<1>0. TypeOK /\ FileOpen(s)
  BY DEF IInv, LockInv, Own
<1>1. CASE Stat(s) /\ Die(s)
  <2>1. Job(s)' = Store!Idle /\ UNCHANGED content
    BY <1>0, <1>1 DEF Die, Return, Job, Store!Idle, TypeOK
  <2> QED
    BY <2>1, QuietStep
<1>2. CASE Stat(s) /\ ~Die(s) /\ f \in Devices
  <2>1. pc[s] = "stat" /\ pc'[s] = "failed" /\ ino'[s] = f /\ UNCHANGED content
        /\ f \notin Inodes
    BY <1>0, <1>2, TransferAssumption DEF Stat, TypeOK, locals
  <2>2. Job(s)' = Job(s)
    BY <2>1 DEF Job
  <2> QED
    BY <2>1, <2>2, QuietStep
<1>3. CASE Stat(s) /\ ~Die(s) /\ f \notin Devices
  <2>1. /\ f \in Inodes /\ ToInt(restart[s]) >= 0
        /\ pc[s] = "stat" /\ pc'[s] = "send" /\ ino'[s] = f
        /\ pos'[s] = ToInt(restart[s]) /\ UNCHANGED content
    BY <1>0, <1>3 DEF Stat, TypeOK
  <2>2. c \in Seq(Bytes) /\ Len(c) \in Nat /\ pos'[s] \in Nat
    <3>1. restart[s] \in Int
      BY <1>0 DEF TypeOK
    <3>2. ToInt(restart[s]) \in Int
      BY <3>1, ToIntType
    <3> QED
      BY <1>0, <2>1, <3>2 DEF TypeOK
  <2>3. PICK n \in 0 .. Len(c) : From(c, pos'[s]) = From(c, n)
    <3>1. CASE pos'[s] < Len(c)
      BY <2>2, <3>1
    <3>2. CASE pos'[s] >= Len(c)
      BY <2>2, <3>2, FromPast
    <3> QED
      BY <2>2, <3>1, <3>2
  <2>4. Job(s) = Store!Idle /\ Job(s)' = Store!GetJob(f, Store!From(c, n))
    BY <2>1, <2>3 DEF Job, Getting, Store!GetJob, Store!Idle, From, Store!From
  <2>5. ASSUME NEW t \in Sessions
        PROVE  ~Store!IsPut(t, f)
    <3>1. CASE t = s
      BY <2>1, <3>1, JobOf
    <3>2. CASE t # s
      <4>1. lock[s][f] = "read" /\ Excluded(t, s) /\ LockHeld(t)
        BY <2>1, <3>2 DEF IInv, LockInv, Own, LockHeld, Retrieving
      <4> QED
        BY <2>1, <4>1, JobOf DEF Excluded, LockHeld, Storing
    <3> QED
      BY <3>1, <3>2
  <2>7. Store!IsGet(s, f)'
    BY <2>1, <2>4 DEF Store!IsGet, Store!GetJob
  <2>6. Store!BeginGet(s, f)
    BY <2>1, <2>4, <2>5, <2>7, JobStep DEF Store!BeginGet
  <2> QED
    BY <2>1, <2>6 DEF Store!Next
<1>4. CASE SendByte(s)
  <2>1. /\ f \in Inodes /\ pc[s] = "send" /\ pc'[s] \in {"send", "sent"}
        /\ ino'[s] = f /\ UNCHANGED content /\ pos'[s] = pos[s] + Sent(s)
    BY <1>0, <1>4 DEF SendByte, TypeOK, FileOpen
  <2>2. c \in Seq(Bytes) /\ pos[s] \in Nat
    BY <1>0, <2>1 DEF TypeOK
  <2>3. Job(s) = Store!GetJob(f, From(c, pos[s])) /\ Job(s)' = Store!GetJob(f, From(c, pos'[s]))
    BY <2>1 DEF Job, Getting, Store!GetJob, From
  <2>4. CASE Sent(s) = 0
    <3>1. Job(s)' = Job(s)
      BY <2>1, <2>2, <2>3, <2>4
    <3> QED
      BY <1>4, <2>1, <3>1, QuietStep
  <2>5. CASE Sent(s) # 0
    <3>1. pos[s] < Len(c) /\ pos'[s] = pos[s] + 1
      BY <2>1, <2>2, <2>5 DEF Sent
    <3>2. From(c, pos[s]) # << >> /\ Tail(From(c, pos[s])) = From(c, pos'[s])
      BY <2>2, <3>1, FromNext
    <3>3. Store!IsGet(s, f)
      BY <2>1, JobOf DEF Getting
    <3>4. Job(s).rest = From(c, pos[s])
      BY <2>3 DEF Store!GetJob
    <3>5. Store!Get(s, f)
      BY <1>4, <2>1, <2>3, <3>2, <3>3, <3>4, JobStep DEF Store!Get
    <3> QED
      BY <2>1, <3>5 DEF Store!Next
  <2> QED
    BY <2>4, <2>5
<1> QED
  BY <1>0, <1>1, <1>2, <1>3, <1>4

LEMMA OpenStep ==
  ASSUME IInv, NEW s \in Sessions, Step(s),
         NEW n \in Names \cup Devices, OpenUpload(s, n)
  PROVE  [Store!Next]_(Store!vars)
<1>0. TypeOK
  BY DEF IInv, LockInv
<1>1. /\ pc[s] = "cmd" /\ pc'[s] = "lockw"
      /\ \/ UNCHANGED content
         \/ \E i \in Inodes : Unused(i) /\ content' = [content EXCEPT ![i] = << >>]
  BY <1>0 DEF OpenUpload, TypeOK
<1>2. Job(s)' = Job(s)
  BY <1>1 DEF Job
<1>3. CASE UNCHANGED content
  BY <1>2, <1>3, QuietStep
<1>4. ASSUME NEW i \in Inodes, Unused(i), content' = [content EXCEPT ![i] = << >>]
      PROVE  [Store!Next]_(Store!vars)
  <2>1. \A t \in Sessions : ~Store!IsPut(t, i) /\ ~Store!IsGet(t, i)
    BY <1>4, JobOf DEF Unused
  <2>2. [t \in Sessions |-> Job(t)]' = [t \in Sessions |-> Job(t)]
    BY <1>2, JobOthers
  <2>3. Store!Create(i)
    BY <1>4, <2>1, <2>2 DEF Store!Create
  <2> QED
    BY <2>3 DEF Store!Next
<1> QED
  BY <1>1, <1>3, <1>4

LEMMA StoreStep ==
  ASSUME IInv, NEW s \in Sessions, Step(s)
  PROVE  [Store!Next]_(Store!vars)
<1>0. TypeOK /\ FileOpen(s)
  BY DEF IInv, LockInv, Own
<1> USE <1>0 DEF TypeOK, Return, locals
<1>1. CASE Die(s)
  BY <1>1, QuietStep DEF Die, Job, Store!Idle
<1>2. CASE Rest(s)
  <2>1. UNCHANGED <<content, pc, ino, pos>>
    BY <1>2 DEF Rest
  <2> QED
    BY <2>1, QuietStep DEF Job
<1>3. CASE LockWrite(s) \/ LockRead(s)
  <2>1. /\ pc[s] \in {"lockw", "lockr"} /\ pc'[s] \in {"place", "cmd", "stat"}
        /\ UNCHANGED content
    BY <1>3 DEF LockWrite, LockRead
  <2> QED
    BY <2>1, QuietStep DEF Job
<1>4. CASE PlaceDevice(s) \/ EndUpload(s) \/ CloseDownload(s)
  <2>1. pc'[s] = "cmd" /\ UNCHANGED content
    BY <1>4 DEF PlaceDevice, EndUpload, CloseDownload
  <2> QED
    BY <2>1, QuietStep DEF Job, Store!Idle
<1>5. CASE Place(s) \/ Receive(s)
  BY <1>1, <1>5, PutSteps
<1>6. CASE Stat(s) \/ SendByte(s)
  BY <1>6, GetSteps
<1>7. CASE SendFails(s)
  <2>1. pc[s] = "send" /\ pc'[s] = "failed" /\ UNCHANGED <<content, ino, pos>>
    BY <1>7 DEF SendFails
  <2>2. Job(s)' = Job(s)
    BY <2>1 DEF Job
  <2> QED
    BY <2>1, <2>2, QuietStep
<1>8. ASSUME NEW n \in Names \cup Devices, OpenUpload(s, n)
      PROVE  [Store!Next]_(Store!vars)
  BY <1>8, OpenStep
<1>9. ASSUME NEW n \in Names \cup Devices, OpenDownload(s, n), ~Die(s)
      PROVE  [Store!Next]_(Store!vars)
  <2>1. pc[s] = "cmd" /\ pc'[s] = "lockr" /\ UNCHANGED content
    BY <1>9 DEF OpenDownload
  <2> QED
    BY <2>1, QuietStep DEF Job
<1>10. ASSUME NEW a \in Names, Delete(s, a) \/ \E b \in Names : Rename(s, a, b)
       PROVE  [Store!Next]_(Store!vars)
  <2>1. UNCHANGED <<content, pc, ino, pos>>
    BY <1>10 DEF Delete, Rename
  <2> QED
    BY <2>1, QuietStep DEF Job
<1> QED
  BY <1>1, <1>2, <1>3, <1>4, <1>5, <1>6, <1>7, <1>8, <1>9, <1>10 DEF Step, Loop

(* Together the transfers are a FileStore: uploads only append, and every  *)
(* download delivers the file as it was when it began.                     *)
THEOREM StoreImplemented == Spec => ImplementsStore
<1>1. IInv /\ [Next]_vars => [Store!Next]_(Store!vars)
  <2> SUFFICES ASSUME IInv, [Next]_vars PROVE [Store!Next]_(Store!vars)
    OBVIOUS
  <2>1. CASE UNCHANGED vars
    BY <2>1 DEF vars, Store!vars, Job
  <2>2. CASE Next
    BY <2>2, StoreStep DEF Next
  <2> QED
    BY <2>1, <2>2
<1> QED
  BY <1>1, JobsInit, Invariance, PTL DEF Spec, ImplementsStore, Store!Spec
=============================================================================
