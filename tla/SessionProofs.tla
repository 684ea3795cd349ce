---------------------------- MODULE SessionProofs ---------------------------
(* Proofs about Session, for any number of sessions and any timeouts. *)
EXTENDS Session, SequenceTheorems, TLAPS

-----------------------------------------------------------------------------
(* The inductive invariant: what the two processes of a session and the    *)
(* socketpair between them can be at once.                                 *)

CmdListen == Message("cmd", "LISTEN")
CmdActive == Message("cmd", "ACTIVE")
CmdAccept == Message("cmd", "ACCEPT")
CmdGet == Message("cmd", "GET")
Addr == Message("str", "ADDR")
Port == Message("int", "PORT")
Yes == Message("int", "YES")
No == Message("int", "NO")
Ok == Message("result", "OK")
Bad == Message("result", "BAD")
Fd == Message("fd", "FD")

(* nobody is at n, having q to read, and has written p that is not read.   *)
At(s, n, q, p) == nobody[s] = n /\ toNobody[s] = q /\ toProto[s] = p

(* proto works by itself; nobody has nothing to do. *)
Alone == {"arm", "read", "setData", "armData", "open", "transfer", "setCtrl", "clear"}

InListen(s) ==
  \/ At(s, "recv", <<CmdListen>>, << >>)
  \/ At(s, "listened", << >>, << >>)
  \/ At(s, "listenPort", << >>, <<Ok>>)
  \/ At(s, "recv", << >>, <<Ok, Port>>)
  \/ At(s, "recv", << >>, << >>)               \* getsockname failed

InHandOver(s) ==
  \/ At(s, "sendOk", << >>, << >>)
  \/ At(s, "sendFd", << >>, <<Ok>>)
  \/ At(s, "recv", << >>, <<Ok, Fd>>)

InConnect(s) ==
  \/ At(s, "recv", <<CmdGet, Addr, Port>>, << >>)
  \/ At(s, "addr", <<Addr, Port>>, << >>)
  \/ At(s, "port", <<Port>>, << >>)
  \/ At(s, "connect", << >>, << >>)
  \/ InHandOver(s)

InAccept(s) ==
  \/ At(s, "recv", <<CmdAccept>>, << >>)
  \/ At(s, "accept", << >>, << >>)
  \/ InHandOver(s)

InFd(s) ==
  \/ At(s, "sendFd", << >>, << >>)
  \/ At(s, "recv", << >>, <<Fd>>)

Both(s) ==
  \/ proto[s] = "new" /\ At(s, "new", << >>, << >>)
  \/ proto[s] \in Alone /\ At(s, "recv", << >>, << >>)
  \/ proto[s] = "pasvRes" /\ InListen(s)
  \/ /\ proto[s] = "pasvPort"
     /\ At(s, "listenPort", << >>, << >>) \/ At(s, "recv", << >>, <<Port>>)
  \/ /\ proto[s] = "active"
     /\ \/ At(s, "recv", <<CmdActive>>, << >>)
        \/ At(s, "recv", << >>, <<Yes>>) \/ At(s, "recv", << >>, <<No>>)
  \/ /\ proto[s] = "portAddr"
     /\ At(s, "recv", <<CmdGet>>, << >>) \/ At(s, "addr", << >>, << >>)
  \/ proto[s] = "portRes" /\ InConnect(s)
  \/ proto[s] = "accRes" /\ InAccept(s)
  \/ proto[s] \in {"portFd", "accFd"} /\ InFd(s)

(* nobody is gone first: only where proto waits for it, and what it has    *)
(* left to read is the result that says so, or nothing.                    *)
NobodyFirst(s) ==
  \/ proto[s] \in {"pasvRes", "portRes"} /\ toProto[s] = << >>
  \/ proto[s] = "accRes" /\ toProto[s] = <<Bad>>

(* proto is gone first: nobody finds its request whole, or the end.        *)
ProtoFirst(s) ==
  \/ nobody[s] = "recv" /\ toNobody[s] \in
       {<< >>, <<CmdListen>>, <<CmdActive>>, <<CmdAccept>>, <<CmdGet>>,
        <<CmdGet, Addr, Port>>}
  \/ nobody[s] = "addr" /\ toNobody[s] \in {<< >>, <<Addr, Port>>}
  \/ nobody[s] = "port" /\ toNobody[s] = <<Port>>
  \/ nobody[s] \in {"listened", "listenPort", "connect", "accept", "sendOk", "sendFd"}

Protocol(s) ==
  \/ ~ProtoGone(s) /\ ~NobodyGone(s) /\ Both(s)
  \/ ~ProtoGone(s) /\ NobodyGone(s) /\ NobodyFirst(s)
  \/ ProtoGone(s) /\ ~NobodyGone(s) /\ ProtoFirst(s)
  \/ ProtoGone(s) /\ NobodyGone(s)

InTransfer ==
  {"active", "portAddr", "portRes", "portFd", "accRes", "accFd", "setData",
   "armData", "open", "transfer", "setCtrl", "clear"}

(* The flags of proto during a transfer. *)
Flags(s) ==
  /\ proto[s] \in {"setCtrl", "clear"} => ~dataFd[s]
  /\ dataFd[s] /\ ~isTrans[s] =>
       proto[s] \in {"setData", "armData", "open", "transfer", "exit"}
  /\ proto[s] \in InTransfer /\ cmd[s] \in Files => isTrans[s]
  /\ proto[s] \in {"armData", "open", "transfer"} => handler[s] = "data"
  /\ proto[s] = "new" => ~alarm[s]

IInv == TypeOK /\ \A s \in Sessions : Protocol(s) /\ Flags(s)

-----------------------------------------------------------------------------
(* Short queues. *)
LEMMA Queue1 ==
  ASSUME NEW a
  PROVE  /\ <<a>> # << >> /\ Head(<<a>>) = a /\ Tail(<<a>>) = << >>
         /\ << >> \o <<a>> = <<a>> /\ Append(<< >>, a) = <<a>>
OBVIOUS

LEMMA Queue2 ==
  ASSUME NEW a, NEW b
  PROVE  /\ <<a, b>> # << >> /\ Head(<<a, b>>) = a /\ Tail(<<a, b>>) = <<b>>
         /\ << >> \o <<a, b>> = <<a, b>> /\ Append(<<a>>, b) = <<a, b>>
<1> DEFINE S == {a, b}
           q == Append(<<a>>, b)
           r == <<a, b>>
<1>1. <<a>> \in Seq(S) /\ r \in Seq(S) /\ Len(r) = 2 /\ Len(<<a>>) = 1
  OBVIOUS
<1>2. q \in Seq(S) /\ Len(q) = 2 /\ q[1] = a /\ q[2] = b
  BY <1>1, AppendProperties
<1>3. r[1] = a /\ r[2] = b
  OBVIOUS
<1>4. q = r
  <2> HIDE DEF q, r, S
  <2>1. \A i \in 1 .. 2 : q[i] = r[i]
    BY <1>2, <1>3
  <2> QED
    BY <1>1, <1>2, <2>1, SeqEqual
<1>5. <<a, b>> # << >> /\ Head(<<a, b>>) = a
  OBVIOUS
<1>6. Tail(<<a, b>>) = <<b>>
  OBVIOUS
<1>7. << >> \o <<a, b>> = <<a, b>>
  OBVIOUS
<1> QED
  BY <1>4, <1>5, <1>6, <1>7

LEMMA Queue3 ==
  ASSUME NEW a, NEW b, NEW c
  PROVE  /\ <<a, b, c>> # << >> /\ Head(<<a, b, c>>) = a
         /\ Tail(<<a, b, c>>) = <<b, c>> /\ <<a>> \o <<b, c>> = <<a, b, c>>
<1> DEFINE S == {a, b, c}
           q == <<a>> \o <<b, c>>
           r == <<a, b, c>>
<1>1. <<a>> \in Seq(S) /\ <<b, c>> \in Seq(S) /\ r \in Seq(S) /\ Len(r) = 3
      /\ Len(<<a>>) = 1 /\ Len(<<b, c>>) = 2
  OBVIOUS
<1>2. q \in Seq(S) /\ Len(q) = 3 /\ q[1] = a /\ q[2] = b /\ q[3] = c
  BY <1>1, ConcatProperties
<1>3. r[1] = a /\ r[2] = b /\ r[3] = c
  OBVIOUS
<1>4. q = r
  <2> HIDE DEF q, r, S
  <2>1. \A i \in 1 .. 3 : q[i] = r[i]
    BY <1>2, <1>3
  <2> QED
    BY <1>1, <1>2, <2>1, SeqEqual
<1>5. <<a, b, c>> # << >> /\ Head(<<a, b, c>>) = a
  OBVIOUS
<1>6. Tail(<<a, b, c>>) = <<b, c>>
  OBVIOUS
<1> QED
  BY <1>4, <1>5, <1>6

(* What is left of the answers and requests, and what is added to them. *)
LEMMA QueueForms ==
  /\ Tail(<<Ok>>) = << >> /\ Tail(<<Ok, Port>>) = <<Port>> /\ Tail(<<Ok, Fd>>) = <<Fd>>
  /\ Append(<<Ok>>, Port) = <<Ok, Port>> /\ Append(<< >>, Port) = <<Port>>
  /\ Append(<<Ok>>, Fd) = <<Ok, Fd>> /\ Append(<< >>, Fd) = <<Fd>>
  /\ Tail(<<CmdGet>>) = << >> /\ Tail(<<CmdGet, Addr, Port>>) = <<Addr, Port>>
BY Queue1, Queue2, Queue3

(* The messages. *)
LEMMA MessageFacts ==
  /\ {CmdListen, CmdActive, CmdAccept, CmdGet, Addr, Port, Yes, No, Ok, Bad, Fd}
       \subseteq Messages
  /\ CmdListen.kind = "cmd" /\ CmdListen.val = "LISTEN"
  /\ CmdActive.kind = "cmd" /\ CmdActive.val = "ACTIVE"
  /\ CmdAccept.kind = "cmd" /\ CmdAccept.val = "ACCEPT"
  /\ CmdGet.kind = "cmd" /\ CmdGet.val = "GET"
  /\ Addr.kind = "str" /\ Addr.val = "ADDR"
  /\ Port.kind = "int" /\ Port.val = "PORT"
  /\ Yes.kind = "int" /\ Yes.val = "YES"
  /\ No.kind = "int" /\ No.val = "NO"
  /\ Ok.kind = "result" /\ Ok.val = "OK"
  /\ Bad.kind = "result" /\ Bad.val = "BAD"
  /\ Fd.kind = "fd" /\ Fd.val = "FD"
BY DEF CmdListen, CmdActive, CmdAccept, CmdGet, Addr, Port, Yes, No, Ok, Bad, Fd,
       Message, Messages, Kinds, Values

-----------------------------------------------------------------------------
(* What the variables range over. *)

LEMMA SendType ==
  ASSUME TypeOK, NEW s \in Sessions, NEW m \in Messages
  PROVE  /\ toNobody[s] \o <<m>> \in Seq(Messages)
         /\ \A n \in Messages : toNobody[s] \o <<m, n>> \in Seq(Messages)
         /\ Append(toProto[s], m) \in Seq(Messages)
         /\ toNobody[s] # << >> => Tail(toNobody[s]) \in Seq(Messages)
         /\ toProto[s] # << >> => Tail(toProto[s]) \in Seq(Messages)
<1>1. toNobody[s] \in Seq(Messages) /\ toProto[s] \in Seq(Messages)
  BY DEF TypeOK
<1>2. <<m>> \in Seq(Messages) /\ \A n \in Messages : <<m, n>> \in Seq(Messages)
  OBVIOUS
<1> QED
  BY <1>1, <1>2, ConcatProperties, AppendProperties, HeadTailProperties

(* The two variables of a sender. *)
LEMMA SendToNobodyType ==
  ASSUME TypeOK, NEW s \in Sessions, NEW next \in DOMAIN ProtoWaits \cup {"portAddr"},
         NEW q \in {<<CmdListen>>, <<CmdActive>>, <<CmdGet>>, <<CmdAccept>>, <<Addr, Port>>},
         SendToNobody(s, next, q)
  PROVE  /\ proto' = [proto EXCEPT ![s] = IF NobodyGone(s) THEN "exit" ELSE next]
         /\ toNobody' = [toNobody EXCEPT ![s] = IF NobodyGone(s) THEN @ ELSE @ \o q]
         /\ toNobody' \in [Sessions -> Seq(Messages)]
<1>1. toNobody[s] \o q \in Seq(Messages)
  BY SendType, MessageFacts
<1>2. CASE NobodyGone(s)
  BY <1>2 DEF SendToNobody, Set, TypeOK
<1>3. CASE ~NobodyGone(s)
  BY <1>1, <1>3 DEF SendToNobody, Set, TypeOK
<1> QED
  BY <1>2, <1>3

LEMMA SendToProtoType ==
  ASSUME TypeOK, NEW s \in Sessions, NEW next, NEW m \in Messages, SendToProto(s, next, m)
  PROVE  /\ nobody' = [nobody EXCEPT ![s] = IF ProtoGone(s) THEN "exit" ELSE next]
         /\ toProto' = [toProto EXCEPT ![s] = IF ProtoGone(s) THEN @ ELSE Append(@, m)]
         /\ toProto' \in [Sessions -> Seq(Messages)]
         /\ listening' \in [Sessions -> BOOLEAN]
<1>1. Append(toProto[s], m) \in Seq(Messages)
  BY SendType
<1>2. CASE ProtoGone(s)
  BY <1>2 DEF SendToProto, Set, TypeOK
<1>3. CASE ~ProtoGone(s)
  BY <1>1, <1>3 DEF SendToProto, Set, TypeOK
<1> QED
  BY <1>2, <1>3

(* The steps of proto that neither send nor receive. *)
LEMMA AloneType ==
  ASSUME TypeOK, NEW s \in Sessions,
         \/ Begin(s) \/ Arm(s) \/ ClientCloses(s) \/ DoSimple(s) \/ ProtoEof(s)
         \/ SetData(s) \/ ArmData(s) \/ OpenUpload(s) \/ OpenDownload(s) \/ OpenList(s)
         \/ FinishUpload(s) \/ FinishDownload(s) \/ FinishList(s) \/ Killed(s)
         \/ SetCtrl(s) \/ Clear(s) \/ Alarm(s)
  PROVE  TypeOK'
<1> USE DEF Proto, Nobody, Set
<1>0. IdleTimeout \in BOOLEAN /\ ConnTimeout \in BOOLEAN
  BY SessionAssumption
<1>1. CASE Begin(s)
  <2>1. \E p \in {"arm", "exit"} : proto' = [proto EXCEPT ![s] = p]
    BY <1>1 DEF Begin
  <2>2. \E n \in {"recv", "exit"} : nobody' = [nobody EXCEPT ![s] = n]
    BY <1>1 DEF Begin
  <2>3. handler' = handler \/ handler' = [handler EXCEPT ![s] = "ctrl"]
    BY <1>1 DEF Begin
  <2> QED
    BY <1>1, <2>1, <2>2, <2>3 DEF Begin, TypeOK, NobodyWaits
<1>2. CASE Arm(s)
  BY <1>0, <1>2 DEF Arm, TypeOK
<1>3. CASE ClientCloses(s)
  BY <1>3 DEF ClientCloses, TypeOK
<1>4. CASE DoSimple(s)
  <2> PICK c \in {"NOOP", "QUIT", "PORT"} :
        /\ proto' = [proto EXCEPT ![s] = IF c = "QUIT" THEN "exit" ELSE "arm"]
        /\ cmd' = [cmd EXCEPT ![s] = c]
        /\ pAddr' = [pAddr EXCEPT ![s] = pAddr[s] \/ c = "PORT"]
    BY <1>4 DEF DoSimple
  <2>1. (pAddr[s] \/ c = "PORT") \in BOOLEAN
    OBVIOUS
  <2> QED
    BY <1>4, <2>1 DEF DoSimple, TypeOK, Commands
<1>5. CASE ProtoEof(s)
  BY <1>5 DEF ProtoEof, TypeOK
<1>6. CASE SetData(s) \/ ArmData(s)
  <2>1. CASE SetData(s)
    BY <2>1 DEF SetData, TypeOK
  <2>2. CASE ArmData(s)
    BY <1>0, <2>2 DEF ArmData, TypeOK
  <2> QED
    BY <1>6, <2>1, <2>2
<1>7. CASE OpenUpload(s) \/ OpenDownload(s) \/ OpenList(s)
  <2>1. \E p \in {"transfer", "arm", "exit"} : proto' = [proto EXCEPT ![s] = p]
    BY <1>7 DEF OpenUpload, OpenDownload, OpenList
  <2>2. UNCHANGED <<cmd, pAddr, dataFd, isTrans, handler, alarm, nobody, listening,
                    toNobody, toProto>>
    BY <1>7 DEF OpenUpload, OpenDownload, OpenList
  <2> QED
    BY <2>1, <2>2 DEF TypeOK
<1>8. CASE FinishUpload(s) \/ FinishDownload(s) \/ FinishList(s)
  BY <1>8 DEF FinishUpload, FinishDownload, FinishList, Finish, TypeOK
<1>9. CASE Killed(s)
  BY <1>9 DEF Killed, TypeOK
<1>10. CASE SetCtrl(s) \/ Clear(s)
  BY <1>10 DEF SetCtrl, Clear, TypeOK
<1>11. CASE Alarm(s)
  <2>1. Rearms(s) \in BOOLEAN
    BY <1>0 DEF Rearms, TypeOK
  <2>2. proto' = proto \/ proto' = [proto EXCEPT ![s] = "exit"]
    BY <1>11 DEF Alarm
  <2>3. alarm' = [alarm EXCEPT ![s] = Rearms(s)]
    BY <1>11 DEF Alarm
  <2> QED
    BY <1>11, <2>1, <2>2, <2>3 DEF Alarm, TypeOK
<1> QED
  BY <1>1, <1>2, <1>3, <1>4, <1>5, <1>6, <1>7, <1>8, <1>9, <1>10, <1>11

(* The steps of proto that send or receive. *)
LEMMA TalkType ==
  ASSUME TypeOK, NEW s \in Sessions,
         \/ DoPasv(s) \/ PasvResult(s) \/ PasvPort(s) \/ DoTransfer(s) \/ Mode(s)
         \/ PortAddr(s) \/ Result(s) \/ DataFd(s)
  PROVE  TypeOK'
<1>0. toProto[s] # << >> =>
        [toProto EXCEPT ![s] = Tail(@)] \in [Sessions -> Seq(Messages)]
  BY SendType, MessageFacts DEF TypeOK
<1>1. CASE DoPasv(s)
  <2>1. SendToNobody(s, "pasvRes", <<CmdListen>>) /\ cmd' = [cmd EXCEPT ![s] = "PASV"]
    BY <1>1 DEF DoPasv, CmdListen, Set
  <2>2. /\ proto' = [proto EXCEPT ![s] = IF NobodyGone(s) THEN "exit" ELSE "pasvRes"]
        /\ toNobody' \in [Sessions -> Seq(Messages)]
    BY <2>1, SendToNobodyType DEF ProtoWaits
  <2> QED
    BY <1>1, <2>1, <2>2 DEF DoPasv, TypeOK, ProtoWaits, Commands
<1>2. CASE PasvResult(s)
  <2>1. proto' = [proto EXCEPT ![s] = IF Got(s, "BAD") THEN "arm" ELSE "pasvPort"]
    BY <1>2 DEF PasvResult, Set
  <2> QED
    BY <1>0, <1>2, <2>1 DEF PasvResult, FromNobody, TypeOK, ProtoWaits
<1>3. CASE PasvPort(s)
  BY <1>0, <1>3 DEF PasvPort, FromNobody, TypeOK, Set
<1>4. CASE DoTransfer(s)
  <2>1. SendToNobody(s, "active", <<CmdActive>>)
    BY <1>4 DEF DoTransfer, CmdActive
  <2>2. /\ proto' = [proto EXCEPT ![s] = IF NobodyGone(s) THEN "exit" ELSE "active"]
        /\ toNobody' \in [Sessions -> Seq(Messages)]
    BY <2>1, SendToNobodyType DEF ProtoWaits
  <2> PICK c \in Transfers :
        /\ cmd' = [cmd EXCEPT ![s] = c]
        /\ isTrans' = [isTrans EXCEPT ![s] = isTrans[s] \/ c \in Files]
    BY <1>4 DEF DoTransfer, Set
  <2>3. (isTrans[s] \/ c \in Files) \in BOOLEAN
    OBVIOUS
  <2> QED
    BY <1>4, <2>2, <2>3 DEF DoTransfer, TypeOK, ProtoWaits, Commands
<1>5. CASE Mode(s)
  <2>1. \/ proto' = [proto EXCEPT ![s] = "exit"] /\ UNCHANGED toNobody
        \/ SendToNobody(s, "portAddr", <<CmdGet>>)
        \/ SendToNobody(s, "accRes", <<CmdAccept>>)
    BY <1>5 DEF Mode, Set, CmdGet, CmdAccept
  <2>2. /\ proto' \in [Sessions -> DOMAIN ProtoWaits \cup
            {"new", "arm", "read", "portAddr", "setData", "armData", "open",
             "transfer", "setCtrl", "clear", "exit"}]
        /\ toNobody' \in [Sessions -> Seq(Messages)]
    <3>1. CASE proto' = [proto EXCEPT ![s] = "exit"] /\ UNCHANGED toNobody
      BY <3>1 DEF TypeOK
    <3>2. CASE SendToNobody(s, "portAddr", <<CmdGet>>)
      <4>1. /\ proto' = [proto EXCEPT ![s] = IF NobodyGone(s) THEN "exit" ELSE "portAddr"]
            /\ toNobody' \in [Sessions -> Seq(Messages)]
        BY <3>2, SendToNobodyType
      <4> QED
        BY <4>1 DEF TypeOK
    <3>3. CASE SendToNobody(s, "accRes", <<CmdAccept>>)
      <4>1. /\ proto' = [proto EXCEPT ![s] = IF NobodyGone(s) THEN "exit" ELSE "accRes"]
            /\ toNobody' \in [Sessions -> Seq(Messages)]
        BY <3>3, SendToNobodyType DEF ProtoWaits
      <4> QED
        BY <4>1 DEF TypeOK, ProtoWaits
    <3> QED
      BY <2>1, <3>1, <3>2, <3>3
  <2> QED
    BY <1>0, <1>5, <2>2 DEF Mode, FromNobody, TypeOK
<1>6. CASE PortAddr(s)
  <2>1. SendToNobody(s, "portRes", <<Addr, Port>>)
    BY <1>6 DEF PortAddr, Addr, Port
  <2>2. /\ proto' = [proto EXCEPT ![s] = IF NobodyGone(s) THEN "exit" ELSE "portRes"]
        /\ toNobody' \in [Sessions -> Seq(Messages)]
    BY <2>1, SendToNobodyType DEF ProtoWaits
  <2> QED
    BY <1>6, <2>2 DEF PortAddr, TypeOK, ProtoWaits
<1>7. CASE Result(s)
  <2>1. \E p \in {"exit", "portFd", "accFd"} : proto' = [proto EXCEPT ![s] = p]
    BY <1>7 DEF Result, Set
  <2>2. toProto' \in [Sessions -> Seq(Messages)]
    BY <1>0, <1>7 DEF Result, FromNobody
  <2> QED
    BY <1>7, <2>1, <2>2 DEF Result, FromNobody, TypeOK, ProtoWaits
<1>8. CASE DataFd(s)
  <2>1. proto' = [proto EXCEPT ![s] = "setData"] /\ dataFd' = [dataFd EXCEPT ![s] = TRUE]
    BY <1>8 DEF DataFd, Set
  <2>2. pAddr' = pAddr \/ pAddr' = [pAddr EXCEPT ![s] = FALSE]
    BY <1>8 DEF DataFd, Set
  <2> QED
    BY <1>0, <1>8, <2>1, <2>2 DEF DataFd, FromNobody, TypeOK
<1> QED
  BY <1>1, <1>2, <1>3, <1>4, <1>5, <1>6, <1>7, <1>8

(* The steps of nobody. *)
LEMMA NobodyType ==
  ASSUME TypeOK, NEW s \in Sessions, NobodyStep(s) \/ Accepted(s) \/ AcceptFails(s)
  PROVE  TypeOK'
<1> USE DEF Nobody, Set
<1>0. toNobody[s] # << >> =>
        [toNobody EXCEPT ![s] = Tail(@)] \in [Sessions -> Seq(Messages)]
  BY SendType, MessageFacts DEF TypeOK
<1>1. CASE Active(s)
  <2>1. SendToProto(s, "recv", IF listening[s] THEN Yes ELSE No)
    BY <1>1 DEF Active, Yes, No
  <2>2. /\ nobody' = [nobody EXCEPT ![s] = IF ProtoGone(s) THEN "exit" ELSE "recv"]
        /\ toProto' \in [Sessions -> Seq(Messages)] /\ listening' \in [Sessions -> BOOLEAN]
    BY <2>1, SendToProtoType, MessageFacts
  <2> QED
    BY <1>0, <1>1, <2>2 DEF Active, FromProto, TypeOK, protoVars, NobodyWaits
<1>2. CASE Listen(s)
  BY <1>0, <1>2 DEF Listen, FromProto, TypeOK, protoVars, NobodyWaits
<1>3. CASE ListenReply(s)
  <2>1. SendToProto(s, "listenPort", Ok) \/ SendToProto(s, "recv", Port)
    BY <1>3 DEF ListenReply, Ok, Port
  <2>2. /\ \E n \in {"exit", "listenPort", "recv"} : nobody' = [nobody EXCEPT ![s] = n]
        /\ toProto' \in [Sessions -> Seq(Messages)] /\ listening' \in [Sessions -> BOOLEAN]
    BY <2>1, SendToProtoType, MessageFacts
  <2>3. nobody' \in [Sessions -> DOMAIN NobodyWaits \cup
          {"new", "listened", "listenPort", "connect", "accept", "sendOk", "sendFd",
           "exit", "abort"}]
    BY <2>2 DEF TypeOK, NobodyWaits
  <2> QED
    BY <1>3, <2>2, <2>3 DEF ListenReply, TypeOK, protoVars
<1>4. CASE GetDataSock(s)
  BY <1>0, <1>4 DEF GetDataSock, FromProto, TypeOK, protoVars, NobodyWaits
<1>5. CASE Connect(s)
  BY <1>5 DEF Connect, TypeOK, protoVars, NobodyWaits
<1>6. CASE Accept(s)
  BY <1>0, <1>6 DEF Accept, FromProto, TypeOK, protoVars, NobodyWaits
<1>7. CASE AcceptFails(s)
  <2>1. toProto' \in [Sessions -> Seq(Messages)]
    BY <1>7, SendType, MessageFacts DEF AcceptFails, TypeOK, Bad
  <2> QED
    BY <1>7, <2>1 DEF AcceptFails, TypeOK, protoVars, NobodyWaits
<1>8. CASE Accepted(s)
  BY <1>8 DEF Accepted, TypeOK, protoVars, NobodyWaits
<1>9. CASE GiveFd(s)
  <2>1. SendToProto(s, "sendFd", Ok) \/ SendToProto(s, "recv", Fd)
    BY <1>9 DEF GiveFd, Ok, Fd
  <2>2. /\ \E n \in {"exit", "sendFd", "recv"} : nobody' = [nobody EXCEPT ![s] = n]
        /\ toProto' \in [Sessions -> Seq(Messages)] /\ listening' \in [Sessions -> BOOLEAN]
    BY <2>1, SendToProtoType, MessageFacts
  <2>3. nobody' \in [Sessions -> DOMAIN NobodyWaits \cup
          {"new", "listened", "listenPort", "connect", "accept", "sendOk", "sendFd",
           "exit", "abort"}]
    BY <2>2 DEF TypeOK, NobodyWaits
  <2> QED
    BY <1>9, <2>2, <2>3 DEF GiveFd, TypeOK, protoVars
<1>10. CASE NobodyEof(s) \/ SigChld(s)
  BY <1>10 DEF NobodyEof, SigChld, TypeOK, protoVars
<1> QED
  BY <1>1, <1>2, <1>3, <1>4, <1>5, <1>6, <1>7, <1>8, <1>9, <1>10 DEF NobodyStep

-----------------------------------------------------------------------------
(* The protocol: which steps keep the two processes in step. *)

LEMMA AloneQuiet ==
  ASSUME NEW s \in Sessions, Protocol(s), proto[s] \in Alone
  PROVE  At(s, "recv", << >>, << >>) /\ ~NobodyGone(s)
BY DEF Protocol, Both, NobodyFirst, Alone, At, ProtoGone, NobodyGone

(* proto goes on by itself, or ends. *)
LEMMA AloneMove ==
  ASSUME NEW s \in Sessions, Protocol(s), proto[s] \in Alone,
         proto'[s] \in Alone \cup {"exit"}, nobody'[s] = nobody[s],
         toNobody'[s] = toNobody[s], toProto'[s] = toProto[s]
  PROVE  Protocol(s)'
<1>1. At(s, "recv", << >>, << >>)
  BY AloneQuiet
<1>2. At(s, "recv", << >>, << >>)'
  BY <1>1 DEF At
<1> QED
  BY <1>2 DEF Protocol, Both, ProtoFirst, Alone, At, ProtoGone, NobodyGone

(* proto ends, wherever it is, what it has read apart. *)
LEMMA ExitMove ==
  ASSUME NEW s \in Sessions, Protocol(s), proto[s] # "new", proto'[s] = "exit",
         nobody'[s] = nobody[s], toNobody'[s] = toNobody[s]
  PROVE  Protocol(s)'
<1>1. ProtoGone(s)'
  BY DEF ProtoGone
<1>2. CASE NobodyGone(s)
  BY <1>1, <1>2 DEF Protocol, NobodyGone
<1>3. CASE ~NobodyGone(s) /\ ProtoGone(s)
  BY <1>1, <1>3 DEF Protocol, NobodyGone, ProtoFirst
<1>4. CASE ~NobodyGone(s) /\ ~ProtoGone(s)
  <2>1. Both(s)
    BY <1>4 DEF Protocol
  <2>2. ProtoFirst(s)
    BY <2>1 DEF Both, ProtoFirst, At, InListen, InConnect, InAccept, InHandOver, InFd
  <2> QED
    BY <1>1, <1>4, <2>2 DEF Protocol, NobodyGone, ProtoFirst
<1> QED
  BY <1>2, <1>3, <1>4

(* nobody ends after proto. *)
LEMMA BothGone ==
  ASSUME NEW s \in Sessions, ProtoGone(s), proto'[s] = proto[s],
         nobody'[s] \in {"exit", "abort"}
  PROVE  Protocol(s)'
BY DEF Protocol, ProtoGone, NobodyGone

(* A session none of whose four parts changes. *)
LEMMA Still ==
  ASSUME NEW s \in Sessions, Protocol(s), proto'[s] = proto[s], nobody'[s] = nobody[s],
         toNobody'[s] = toNobody[s], toProto'[s] = toProto[s]
  PROVE  Protocol(s)'
BY DEF Protocol, Both, NobodyFirst, ProtoFirst, At, InListen, InConnect, InAccept,
       InHandOver, InFd, ProtoGone, NobodyGone

LEMMA AloneProtocol ==
  ASSUME TypeOK, NEW s \in Sessions, Protocol(s), Flags(s),
         \/ Begin(s) \/ Arm(s) \/ ClientCloses(s) \/ DoSimple(s) \/ ProtoEof(s)
         \/ SetData(s) \/ ArmData(s) \/ OpenUpload(s) \/ OpenDownload(s) \/ OpenList(s)
         \/ FinishUpload(s) \/ FinishDownload(s) \/ FinishList(s) \/ Killed(s)
         \/ SetCtrl(s) \/ Clear(s) \/ Alarm(s)
  PROVE  Protocol(s)'
<1> USE DEF Proto, Nobody, Set
<1>0. DOMAIN proto = Sessions /\ DOMAIN nobody = Sessions
  BY DEF TypeOK
<1>1. CASE Begin(s)
  <2>1. proto[s] = "new" /\ nobody[s] = "new"
    BY <1>1 DEF Begin
  <2>2. toNobody[s] = << >> /\ toProto[s] = << >>
    BY <2>1 DEF Protocol, Both, At, Alone, ProtoGone, NobodyGone
  <2>3. toNobody'[s] = << >> /\ toProto'[s] = << >>
    BY <1>1, <2>2 DEF Begin
  <2>4. CASE proto' = [proto EXCEPT ![s] = "arm"] /\ nobody' = [nobody EXCEPT ![s] = "recv"]
    BY <1>0, <2>3, <2>4 DEF Protocol, Both, At, Alone, ProtoGone, NobodyGone
  <2>5. CASE proto' = [proto EXCEPT ![s] = "exit"] /\ nobody' = [nobody EXCEPT ![s] = "exit"]
    BY <1>0, <2>5 DEF Protocol, ProtoGone, NobodyGone
  <2> QED
    BY <1>1, <2>4, <2>5 DEF Begin
<1>2. CASE ProtoEof(s)
  <2>1. /\ proto[s] # "new" /\ proto'[s] = "exit" /\ nobody'[s] = nobody[s]
        /\ toNobody'[s] = toNobody[s]
    BY <1>0, <1>2 DEF ProtoEof, Waiting, ProtoWaits
  <2> QED
    BY <2>1, ExitMove
<1>3. CASE Alarm(s)
  <2>1. proto[s] # "new"
    BY <1>3 DEF Alarm, Flags
  <2>2. nobody'[s] = nobody[s] /\ toNobody'[s] = toNobody[s] /\ toProto'[s] = toProto[s]
    BY <1>3 DEF Alarm
  <2>3. CASE proto' = proto
    BY <2>2, <2>3, Still
  <2>4. CASE proto' = [proto EXCEPT ![s] = "exit"]
    BY <1>0, <2>1, <2>2, <2>4, ExitMove
  <2> QED
    BY <1>3, <2>3, <2>4 DEF Alarm
<1>4. CASE ~(Begin(s) \/ ProtoEof(s) \/ Alarm(s))
  <2>1. nobody'[s] = nobody[s] /\ toNobody'[s] = toNobody[s] /\ toProto'[s] = toProto[s]
    BY <1>4 DEF Arm, ClientCloses, DoSimple, SetData, ArmData, OpenUpload,
       OpenDownload, OpenList, FinishUpload, FinishDownload, FinishList, Finish, Killed,
       SetCtrl, Clear
  <2>2. proto[s] \in Alone
    BY <1>4 DEF Alone, Arm, ClientCloses, DoSimple, SetData, ArmData, OpenUpload,
       OpenDownload, OpenList, FinishUpload, FinishDownload, FinishList, Finish, Killed,
       SetCtrl, Clear
  <2>3. \E p \in Alone \cup {"exit"} : proto' = [proto EXCEPT ![s] = p]
    <3>1. CASE Arm(s) \/ ClientCloses(s) \/ DoSimple(s)
      BY <3>1 DEF Alone, Arm, ClientCloses, DoSimple
    <3>2. CASE SetData(s) \/ ArmData(s) \/ OpenUpload(s) \/ OpenDownload(s) \/ OpenList(s)
      BY <3>2 DEF Alone, SetData, ArmData, OpenUpload, OpenDownload, OpenList
    <3>3. CASE FinishUpload(s) \/ FinishDownload(s) \/ FinishList(s)
      BY <3>3 DEF Alone, FinishUpload, FinishDownload, FinishList, Finish
    <3>4. CASE Killed(s) \/ SetCtrl(s) \/ Clear(s)
      BY <3>4 DEF Alone, Killed, SetCtrl, Clear
    <3> QED
      BY <1>4, <3>1, <3>2, <3>3, <3>4
  <2>4. proto'[s] \in Alone \cup {"exit"}
    BY <1>0, <2>3
  <2> QED
    BY <2>1, <2>2, <2>4, AloneMove
<1> QED
  BY <1>1, <1>2, <1>3, <1>4

(* What proto finds when it waits and there is something to read. *)
LEMMA ProtoFinds ==
  ASSUME NEW s \in Sessions, Protocol(s), Waiting(s), toProto[s] # << >>
  PROVE  /\ proto[s] = "pasvRes" =>
              At(s, "listenPort", << >>, <<Ok>>) \/ At(s, "recv", << >>, <<Ok, Port>>)
         /\ proto[s] = "pasvPort" => At(s, "recv", << >>, <<Port>>)
         /\ proto[s] = "active" =>
              At(s, "recv", << >>, <<Yes>>) \/ At(s, "recv", << >>, <<No>>)
         /\ proto[s] = "portRes" =>
              At(s, "sendFd", << >>, <<Ok>>) \/ At(s, "recv", << >>, <<Ok, Fd>>)
         /\ proto[s] = "accRes" =>
              \/ At(s, "sendFd", << >>, <<Ok>>) \/ At(s, "recv", << >>, <<Ok, Fd>>)
              \/ NobodyGone(s) /\ toProto[s] = <<Bad>>
         /\ proto[s] \in {"portFd", "accFd"} => At(s, "recv", << >>, <<Fd>>)
<1>1. proto[s] \in {"pasvRes", "pasvPort", "active", "portRes", "accRes", "portFd", "accFd"}
  BY DEF Waiting, ProtoWaits
<1>2. CASE NobodyGone(s)
  BY <1>1, <1>2 DEF Protocol, NobodyFirst, ProtoGone
<1>3. CASE ~NobodyGone(s)
  <2>1. Both(s)
    BY <1>1, <1>3 DEF Protocol, ProtoGone
  <2> QED
    BY <1>1, <2>1 DEF Both, At, Alone, InListen, InConnect, InAccept, InHandOver, InFd
<1> QED
  BY <1>2, <1>3

LEMMA TalkProtocol ==
  ASSUME TypeOK, NEW s \in Sessions, Protocol(s),
         \/ DoPasv(s) \/ PasvResult(s) \/ PasvPort(s) \/ DoTransfer(s) \/ Mode(s)
         \/ PortAddr(s) \/ Result(s) \/ DataFd(s)
  PROVE  Protocol(s)'
<1> USE DEF Set
<1>0. DOMAIN proto = Sessions /\ DOMAIN toProto = Sessions /\ DOMAIN toNobody = Sessions
  BY DEF TypeOK
<1>1. CASE DoPasv(s)
  <2>1. proto[s] = "read" /\ SendToNobody(s, "pasvRes", <<CmdListen>>)
    BY <1>1 DEF DoPasv, CmdListen
  <2>2. At(s, "recv", << >>, << >>) /\ ~NobodyGone(s)
    BY <2>1, AloneQuiet DEF Alone
  <2>3. /\ proto' = [proto EXCEPT ![s] = "pasvRes"]
        /\ toNobody' = [toNobody EXCEPT ![s] = @ \o <<CmdListen>>]
    BY <2>1, <2>2 DEF SendToNobody
  <2>4. toNobody'[s] = <<CmdListen>>
    BY <1>0, <2>2, <2>3, Queue1 DEF At
  <2>5. At(s, "recv", <<CmdListen>>, << >>)'
    BY <1>1, <2>2, <2>4 DEF At, DoPasv
  <2> QED
    BY <1>0, <2>3, <2>5 DEF Protocol, Both, InListen, At, ProtoGone, NobodyGone
<1>2. CASE PasvResult(s)
  <2>1. /\ proto[s] = "pasvRes" /\ toProto[s] # << >>
        /\ toProto' = [toProto EXCEPT ![s] = Tail(@)]
        /\ proto' = [proto EXCEPT ![s] = IF Got(s, "BAD") THEN "arm" ELSE "pasvPort"]
        /\ nobody' = nobody /\ toNobody' = toNobody
    BY <1>2 DEF PasvResult, FromNobody
  <2>2. At(s, "listenPort", << >>, <<Ok>>) \/ At(s, "recv", << >>, <<Ok, Port>>)
    BY <2>1, ProtoFinds DEF Waiting, ProtoWaits
  <2>3. Head(toProto[s]) = Ok
    BY <2>2, Queue1, Queue2 DEF At
  <2>4. proto'[s] = "pasvPort"
    BY <1>0, <2>1, <2>3, MessageFacts DEF Got
  <2>5. toProto'[s] = Tail(toProto[s])
    BY <1>0, <2>1
  <2>6. At(s, "listenPort", << >>, << >>)' \/ At(s, "recv", << >>, <<Port>>)'
    BY <2>1, <2>2, <2>5, QueueForms DEF At
  <2> QED
    BY <2>4, <2>6 DEF Protocol, Both, At, ProtoGone, NobodyGone
<1>3. CASE PasvPort(s)
  <2>1. /\ proto[s] = "pasvPort" /\ toProto[s] # << >>
        /\ toProto' = [toProto EXCEPT ![s] = Tail(@)]
        /\ nobody' = nobody /\ toNobody' = toNobody
    BY <1>3 DEF PasvPort, FromNobody
  <2>2. At(s, "recv", << >>, <<Port>>)
    BY <2>1, ProtoFinds DEF Waiting, ProtoWaits
  <2>3. At(s, "recv", << >>, << >>)'
    BY <1>0, <2>1, <2>2, Queue1 DEF At
  <2>4. proto'[s] \in {"arm", "exit"}
    BY <1>0, <1>3 DEF PasvPort
  <2> QED
    BY <2>3, <2>4 DEF Protocol, Both, ProtoFirst, Alone, At, ProtoGone, NobodyGone
<1>4. CASE DoTransfer(s)
  <2>1. proto[s] = "read" /\ SendToNobody(s, "active", <<CmdActive>>)
    BY <1>4 DEF DoTransfer, CmdActive
  <2>2. At(s, "recv", << >>, << >>) /\ ~NobodyGone(s)
    BY <2>1, AloneQuiet DEF Alone
  <2>3. /\ proto' = [proto EXCEPT ![s] = "active"]
        /\ toNobody' = [toNobody EXCEPT ![s] = @ \o <<CmdActive>>]
    BY <2>1, <2>2 DEF SendToNobody
  <2>4. toNobody'[s] = <<CmdActive>>
    BY <1>0, <2>2, <2>3, Queue1 DEF At
  <2>5. At(s, "recv", <<CmdActive>>, << >>)'
    BY <1>4, <2>2, <2>4 DEF At, DoTransfer
  <2> QED
    BY <1>0, <2>3, <2>5 DEF Protocol, Both, At, ProtoGone, NobodyGone
<1>5. CASE Mode(s)
  <2>1. /\ proto[s] = "active" /\ toProto[s] # << >>
        /\ toProto' = [toProto EXCEPT ![s] = Tail(@)] /\ nobody' = nobody
    BY <1>5 DEF Mode, FromNobody
  <2>2. At(s, "recv", << >>, <<Yes>>) \/ At(s, "recv", << >>, <<No>>)
    BY <2>1, ProtoFinds DEF Waiting, ProtoWaits
  <2>3. toProto'[s] = << >> /\ nobody'[s] = "recv" /\ toNobody[s] = << >> /\ ~NobodyGone(s)
    BY <1>0, <2>1, <2>2, Queue1 DEF At, NobodyGone
  <2>4. \/ proto' = [proto EXCEPT ![s] = "exit"] /\ toNobody' = toNobody
        \/ SendToNobody(s, "portAddr", <<CmdGet>>)
        \/ SendToNobody(s, "accRes", <<CmdAccept>>)
    BY <1>5 DEF Mode, CmdGet, CmdAccept
  <2>5. CASE proto' = [proto EXCEPT ![s] = "exit"] /\ toNobody' = toNobody
    BY <1>0, <2>3, <2>5 DEF Protocol, ProtoFirst, ProtoGone, NobodyGone
  <2>6. CASE SendToNobody(s, "portAddr", <<CmdGet>>)
    <3>1. proto'[s] = "portAddr" /\ toNobody'[s] = <<CmdGet>>
      BY <1>0, <2>3, <2>6, Queue1 DEF SendToNobody
    <3> QED
      BY <2>3, <3>1 DEF Protocol, Both, At, ProtoGone, NobodyGone
  <2>7. CASE SendToNobody(s, "accRes", <<CmdAccept>>)
    <3>1. proto'[s] = "accRes" /\ toNobody'[s] = <<CmdAccept>>
      BY <1>0, <2>3, <2>7, Queue1 DEF SendToNobody
    <3> QED
      BY <2>3, <3>1 DEF Protocol, Both, InAccept, At, ProtoGone, NobodyGone
  <2> QED
    BY <2>4, <2>5, <2>6, <2>7
<1>6. CASE PortAddr(s)
  <2>1. /\ proto[s] = "portAddr" /\ SendToNobody(s, "portRes", <<Addr, Port>>)
        /\ nobody' = nobody /\ toProto' = toProto
    BY <1>6 DEF PortAddr, Addr, Port
  <2>2. At(s, "recv", <<CmdGet>>, << >>) \/ At(s, "addr", << >>, << >>)
    BY <2>1 DEF Protocol, Both, NobodyFirst, Alone, At, ProtoGone, NobodyGone
  <2>3. /\ proto' = [proto EXCEPT ![s] = "portRes"]
        /\ toNobody' = [toNobody EXCEPT ![s] = @ \o <<Addr, Port>>]
    BY <2>1, <2>2 DEF SendToNobody, NobodyGone, At
  <2>4. CASE At(s, "recv", <<CmdGet>>, << >>)
    <3>1. toNobody'[s] = <<CmdGet, Addr, Port>>
      BY <1>0, <2>3, <2>4, Queue3 DEF At
    <3>2. At(s, "recv", <<CmdGet, Addr, Port>>, << >>)'
      BY <2>1, <2>4, <3>1 DEF At
    <3> QED
      BY <1>0, <2>3, <3>2 DEF Protocol, Both, InConnect, At, ProtoGone, NobodyGone
  <2>5. CASE At(s, "addr", << >>, << >>)
    <3>1. toNobody'[s] = <<Addr, Port>>
      BY <1>0, <2>3, <2>5, Queue2 DEF At
    <3>2. At(s, "addr", <<Addr, Port>>, << >>)'
      BY <2>1, <2>5, <3>1 DEF At
    <3> QED
      BY <1>0, <2>3, <3>2 DEF Protocol, Both, InConnect, At, ProtoGone, NobodyGone
  <2> QED
    BY <2>2, <2>4, <2>5
<1>7. CASE Result(s)
  <2>1. /\ proto[s] \in {"portRes", "accRes"} /\ toProto[s] # << >>
        /\ toProto' = [toProto EXCEPT ![s] = Tail(@)]
        /\ nobody' = nobody /\ toNobody' = toNobody
    BY <1>7 DEF Result, FromNobody
  <2>2. proto'[s] = IF Got(s, "BAD") THEN "exit"
                    ELSE IF proto[s] = "portRes" THEN "portFd" ELSE "accFd"
    BY <1>0, <1>7 DEF Result, FromNobody
  <2>3. \/ At(s, "sendFd", << >>, <<Ok>>) \/ At(s, "recv", << >>, <<Ok, Fd>>)
        \/ NobodyGone(s) /\ toProto[s] = <<Bad>>
    BY <2>1, ProtoFinds DEF Waiting, ProtoWaits
  <2>4. CASE At(s, "sendFd", << >>, <<Ok>>) \/ At(s, "recv", << >>, <<Ok, Fd>>)
    <3>1. Head(toProto[s]) = Ok
      BY <2>4, Queue1, Queue2 DEF At
    <3>2. proto'[s] \in {"portFd", "accFd"}
      BY <2>2, <3>1, MessageFacts DEF Got
    <3>3. toProto'[s] = Tail(toProto[s])
      BY <1>0, <2>1
    <3>4. At(s, "sendFd", << >>, << >>)' \/ At(s, "recv", << >>, <<Fd>>)'
      BY <2>1, <2>4, <3>3, QueueForms DEF At
    <3> QED
      BY <3>2, <3>4 DEF Protocol, Both, InFd, At, ProtoGone, NobodyGone
  <2>5. CASE NobodyGone(s) /\ toProto[s] = <<Bad>>
    <3>1. Head(toProto[s]) = Bad
      BY <2>5, Queue1
    <3>2. proto'[s] = "exit"
      BY <2>2, <3>1, MessageFacts DEF Got
    <3> QED
      BY <2>1, <2>5, <3>2 DEF Protocol, ProtoGone, NobodyGone
  <2> QED
    BY <2>3, <2>4, <2>5
<1>8. CASE DataFd(s)
  <2>1. /\ proto[s] \in {"portFd", "accFd"} /\ toProto[s] # << >>
        /\ toProto' = [toProto EXCEPT ![s] = Tail(@)] /\ proto'[s] = "setData"
        /\ nobody' = nobody /\ toNobody' = toNobody
    BY <1>0, <1>8 DEF DataFd, FromNobody
  <2>2. At(s, "recv", << >>, <<Fd>>)
    BY <2>1, ProtoFinds DEF Waiting, ProtoWaits
  <2>3. At(s, "recv", << >>, << >>)'
    BY <1>0, <2>1, <2>2, Queue1 DEF At
  <2> QED
    BY <2>1, <2>3 DEF Protocol, Both, Alone, At, ProtoGone, NobodyGone
<1> QED
  BY <1>1, <1>2, <1>3, <1>4, <1>5, <1>6, <1>7, <1>8

(* What heads a request to nobody tells it from the others. *)
LEMMA Distinct ==
  /\ Head(<<CmdListen>>).val = "LISTEN" /\ Head(<<CmdActive>>).val = "ACTIVE"
  /\ Head(<<CmdAccept>>).val = "ACCEPT" /\ Head(<<CmdGet>>).val = "GET"
  /\ Head(<<CmdGet, Addr, Port>>).val = "GET"
  /\ Head(<<Addr, Port>>).val = "ADDR" /\ Head(<<Port>>).val = "PORT"
  /\ Tail(<<CmdGet>>) # Tail(<<CmdGet, Addr, Port>>)
BY MessageFacts, Queue1, Queue2, Queue3

(* What nobody finds when it waits and there is something to read. *)
LEMMA NobodyFinds ==
  ASSUME NEW s \in Sessions, Protocol(s), nobody[s] \in DOMAIN NobodyWaits,
         toNobody[s] # << >>
  PROVE  /\ nobody[s] = "recv" => toNobody[s] \in
              {<<CmdListen>>, <<CmdActive>>, <<CmdAccept>>, <<CmdGet>>,
               <<CmdGet, Addr, Port>>}
         /\ nobody[s] = "addr" => toNobody[s] = <<Addr, Port>>
         /\ nobody[s] = "port" => toNobody[s] = <<Port>>
         /\ ~ProtoGone(s) => /\ toProto[s] = << >>
                             /\ toNobody[s] = <<CmdListen>> => proto[s] = "pasvRes"
                             /\ toNobody[s] = <<CmdActive>> => proto[s] = "active"
                             /\ toNobody[s] = <<CmdAccept>> => proto[s] = "accRes"
                             /\ toNobody[s] = <<CmdGet>> => proto[s] = "portAddr"
                             /\ toNobody[s] \in
                                  {<<CmdGet, Addr, Port>>, <<Addr, Port>>, <<Port>>}
                                  => proto[s] = "portRes"
<1>0. nobody[s] \in {"recv", "addr", "port"} /\ ~NobodyGone(s)
  BY DEF NobodyWaits, NobodyGone
<1>1. CASE ProtoGone(s)
  BY <1>0, <1>1 DEF Protocol, ProtoFirst
<1>2. CASE ~ProtoGone(s)
  <2>1. Both(s)
    BY <1>0, <1>2 DEF Protocol
  <2>2. \/ proto[s] = "pasvRes" /\ At(s, "recv", <<CmdListen>>, << >>)
        \/ proto[s] = "active" /\ At(s, "recv", <<CmdActive>>, << >>)
        \/ proto[s] = "portAddr" /\ At(s, "recv", <<CmdGet>>, << >>)
        \/ proto[s] = "portRes" /\ At(s, "recv", <<CmdGet, Addr, Port>>, << >>)
        \/ proto[s] = "portRes" /\ At(s, "addr", <<Addr, Port>>, << >>)
        \/ proto[s] = "portRes" /\ At(s, "port", <<Port>>, << >>)
        \/ proto[s] = "accRes" /\ At(s, "recv", <<CmdAccept>>, << >>)
    BY <1>0, <2>1 DEF Both, At, Alone, InListen, InConnect, InAccept, InHandOver, InFd
  <2>3. toNobody[s] = <<CmdListen>> => proto[s] = "pasvRes"
    BY <2>2, Distinct DEF At
  <2>4. toNobody[s] = <<CmdActive>> => proto[s] = "active"
    BY <2>2, Distinct DEF At
  <2>5. toNobody[s] = <<CmdAccept>> => proto[s] = "accRes"
    BY <2>2, Distinct DEF At
  <2>6. toNobody[s] = <<CmdGet>> => proto[s] = "portAddr"
    BY <2>2, Distinct DEF At
  <2>7. toNobody[s] \in {<<CmdGet, Addr, Port>>, <<Addr, Port>>, <<Port>>}
          => proto[s] = "portRes"
    BY <2>2, Distinct DEF At
  <2> QED
    BY <1>2, <2>2, <2>3, <2>4, <2>5, <2>6, <2>7 DEF At
<1> QED
  BY <1>1, <1>2

LEMMA NobodyProtocol ==
  ASSUME TypeOK, NEW s \in Sessions, Protocol(s),
         NobodyStep(s) \/ Accepted(s) \/ AcceptFails(s)
  PROVE  Protocol(s)'
<1> USE DEF Nobody, Set
<1>0. /\ DOMAIN proto = Sessions /\ DOMAIN nobody = Sessions
      /\ DOMAIN toProto = Sessions /\ DOMAIN toNobody = Sessions
  BY DEF TypeOK
<1>1. CASE Active(s)
  <2>1. /\ nobody[s] = "recv" /\ toNobody[s] # << >> /\ Head(toNobody[s]).val = "ACTIVE"
        /\ toNobody' = [toNobody EXCEPT ![s] = Tail(@)] /\ proto' = proto
    BY <1>1 DEF Active, FromProto, protoVars
  <2>2. toNobody[s] = <<CmdActive>>
    BY <2>1, NobodyFinds, Distinct DEF NobodyWaits
  <2>3. toNobody'[s] = << >>
    BY <1>0, <2>1, <2>2, Queue1
  <2>4. SendToProto(s, "recv", Yes) \/ SendToProto(s, "recv", No)
    BY <1>1 DEF Active, Yes, No
  <2>5. CASE ProtoGone(s)
    <3>1. nobody'[s] = "exit"
      BY <1>0, <2>4, <2>5 DEF SendToProto
    <3> QED
      BY <2>1, <2>5, <3>1, BothGone
  <2>6. CASE ~ProtoGone(s)
    <3>1. proto[s] = "active" /\ toProto[s] = << >>
      BY <2>1, <2>2, <2>6, NobodyFinds DEF NobodyWaits
    <3>2. nobody'[s] = "recv" /\ toProto'[s] \in {<<Yes>>, <<No>>}
      BY <1>0, <2>4, <2>6, <3>1, Queue1 DEF SendToProto
    <3> QED
      BY <2>1, <2>3, <3>1, <3>2 DEF Protocol, Both, At, ProtoGone, NobodyGone
  <2> QED
    BY <2>5, <2>6
<1>2. CASE Listen(s)
  <2>1. /\ nobody[s] = "recv" /\ toNobody[s] # << >> /\ Head(toNobody[s]).val = "LISTEN"
        /\ toNobody' = [toNobody EXCEPT ![s] = Tail(@)]
        /\ proto' = proto /\ toProto' = toProto
    BY <1>2 DEF Listen, FromProto, protoVars
  <2>2. toNobody[s] = <<CmdListen>>
    BY <2>1, NobodyFinds, Distinct DEF NobodyWaits
  <2>3. toNobody'[s] = << >>
    BY <1>0, <2>1, <2>2, Queue1
  <2>4. nobody'[s] \in {"exit", "listened", "recv"}
    BY <1>0, <1>2 DEF Listen
  <2>5. CASE ProtoGone(s)
    BY <2>1, <2>3, <2>4, <2>5 DEF Protocol, ProtoFirst, ProtoGone, NobodyGone
  <2>6. CASE ~ProtoGone(s)
    <3>1. proto[s] = "pasvRes" /\ toProto[s] = << >>
      BY <2>1, <2>2, <2>6, NobodyFinds DEF NobodyWaits
    <3> QED
      BY <2>1, <2>3, <2>4, <3>1
      DEF Protocol, Both, InListen, NobodyFirst, At, ProtoGone, NobodyGone
  <2> QED
    BY <2>5, <2>6
<1>3. CASE ListenReply(s)
  <2>1. /\ proto' = proto /\ toNobody' = toNobody
        /\ \/ nobody[s] = "listened" /\ SendToProto(s, "listenPort", Ok)
           \/ nobody[s] = "listenPort" /\ SendToProto(s, "recv", Port)
    BY <1>3 DEF ListenReply, protoVars, Ok, Port
  <2>2. CASE ProtoGone(s)
    <3>1. nobody'[s] = "exit"
      BY <1>0, <2>1, <2>2 DEF SendToProto
    <3> QED
      BY <2>1, <2>2, <3>1, BothGone
  <2>3. CASE ~ProtoGone(s) /\ nobody[s] = "listened"
    <3>1. proto[s] = "pasvRes" /\ toNobody[s] = << >> /\ toProto[s] = << >>
      BY <2>3 DEF Protocol, Both, At, Alone, InListen, InConnect, InAccept, InHandOver,
         InFd, NobodyGone
    <3>2. nobody'[s] = "listenPort" /\ toProto'[s] = <<Ok>>
      BY <1>0, <2>1, <2>3, <3>1, Queue1 DEF SendToProto
    <3> QED
      BY <2>1, <3>1, <3>2 DEF Protocol, Both, InListen, At, ProtoGone, NobodyGone
  <2>4. CASE ~ProtoGone(s) /\ nobody[s] = "listenPort"
    <3>1. /\ toNobody[s] = << >>
          /\ \/ proto[s] = "pasvRes" /\ toProto[s] = <<Ok>>
             \/ proto[s] = "pasvPort" /\ toProto[s] = << >>
      BY <2>4 DEF Protocol, Both, At, Alone, InListen, InConnect, InAccept, InHandOver,
         InFd, NobodyGone
    <3>2. nobody'[s] = "recv" /\ toProto'[s] = Append(toProto[s], Port)
      BY <1>0, <2>1, <2>4 DEF SendToProto
    <3>3. \/ proto[s] = "pasvRes" /\ toProto'[s] = <<Ok, Port>>
          \/ proto[s] = "pasvPort" /\ toProto'[s] = <<Port>>
      BY <3>1, <3>2, QueueForms
    <3> QED
      BY <2>1, <3>1, <3>2, <3>3 DEF Protocol, Both, InListen, At, ProtoGone, NobodyGone
  <2> QED
    BY <2>1, <2>2, <2>3, <2>4
<1>4. CASE GetDataSock(s)
  <2>1. /\ proto' = proto /\ toProto' = toProto /\ toNobody[s] # << >>
        /\ toNobody' = [toNobody EXCEPT ![s] = Tail(@)]
        /\ \/ nobody[s] = "recv" /\ Head(toNobody[s]).val = "GET" /\ nobody'[s] = "addr"
           \/ nobody[s] = "addr" /\ Head(toNobody[s]).val = "ADDR" /\ nobody'[s] = "port"
           \/ nobody[s] = "port" /\ Head(toNobody[s]).val = "PORT" /\ nobody'[s] = "connect"
    BY <1>0, <1>4 DEF GetDataSock, FromProto, protoVars
  <2>2. CASE nobody[s] = "recv"
    <3>1. toNobody[s] \in {<<CmdGet>>, <<CmdGet, Addr, Port>>}
      BY <2>1, <2>2, NobodyFinds, Distinct DEF NobodyWaits
    <3>2. \/ toNobody[s] = <<CmdGet>> /\ toNobody'[s] = << >>
          \/ toNobody[s] = <<CmdGet, Addr, Port>> /\ toNobody'[s] = <<Addr, Port>>
      <4>1. toNobody'[s] = Tail(toNobody[s])
        BY <1>0, <2>1
      <4> QED
        BY <3>1, <4>1, QueueForms
    <3>3. ~ProtoGone(s) => toProto[s] = << >>
            /\ (toNobody[s] = <<CmdGet>> => proto[s] = "portAddr")
            /\ (toNobody[s] = <<CmdGet, Addr, Port>> => proto[s] = "portRes")
      BY <2>1, <2>2, NobodyFinds DEF NobodyWaits
    <3> QED
      BY <2>1, <2>2, <3>2, <3>3
      DEF Protocol, Both, InConnect, ProtoFirst, At, ProtoGone, NobodyGone
  <2>3. CASE nobody[s] = "addr"
    <3>1. toNobody[s] = <<Addr, Port>>
      BY <2>1, <2>3, NobodyFinds DEF NobodyWaits
    <3>2. toNobody'[s] = <<Port>>
      BY <1>0, <2>1, <3>1, Queue2
    <3>3. ~ProtoGone(s) => toProto[s] = << >> /\ proto[s] = "portRes"
      BY <2>1, <2>3, <3>1, NobodyFinds DEF NobodyWaits
    <3> QED
      BY <2>1, <2>3, <3>2, <3>3
      DEF Protocol, Both, InConnect, ProtoFirst, At, ProtoGone, NobodyGone
  <2>4. CASE nobody[s] = "port"
    <3>1. toNobody[s] = <<Port>>
      BY <2>1, <2>4, NobodyFinds DEF NobodyWaits
    <3>2. toNobody'[s] = << >>
      BY <1>0, <2>1, <3>1, Queue1
    <3>3. ~ProtoGone(s) => toProto[s] = << >> /\ proto[s] = "portRes"
      BY <2>1, <2>4, <3>1, NobodyFinds DEF NobodyWaits
    <3> QED
      BY <2>1, <2>4, <3>2, <3>3
      DEF Protocol, Both, InConnect, ProtoFirst, At, ProtoGone, NobodyGone
  <2> QED
    BY <2>1, <2>2, <2>3, <2>4
<1>5. CASE Connect(s)
  <2>1. /\ nobody[s] = "connect" /\ nobody'[s] \in {"sendOk", "exit"}
        /\ proto' = proto /\ toNobody' = toNobody /\ toProto' = toProto
    BY <1>0, <1>5 DEF Connect, protoVars
  <2>2. ~ProtoGone(s) => proto[s] = "portRes" /\ toNobody[s] = << >> /\ toProto[s] = << >>
    BY <2>1 DEF Protocol, Both, At, Alone, InListen, InConnect, InAccept, InHandOver,
       InFd, NobodyGone
  <2> QED
    BY <2>1, <2>2 DEF Protocol, Both, InConnect, InHandOver, NobodyFirst, ProtoFirst, At,
       ProtoGone, NobodyGone
<1>6. CASE Accept(s)
  <2>1. /\ nobody[s] = "recv" /\ toNobody[s] # << >> /\ Head(toNobody[s]).val = "ACCEPT"
        /\ toNobody' = [toNobody EXCEPT ![s] = Tail(@)] /\ nobody'[s] = "accept"
        /\ proto' = proto /\ toProto' = toProto
    BY <1>0, <1>6 DEF Accept, FromProto, protoVars
  <2>2. toNobody[s] = <<CmdAccept>>
    BY <2>1, NobodyFinds, Distinct DEF NobodyWaits
  <2>3. toNobody'[s] = << >>
    BY <1>0, <2>1, <2>2, Queue1
  <2>4. ~ProtoGone(s) => proto[s] = "accRes" /\ toProto[s] = << >>
    BY <2>1, <2>2, NobodyFinds DEF NobodyWaits
  <2> QED
    BY <2>1, <2>3, <2>4 DEF Protocol, Both, InAccept, ProtoFirst, At, ProtoGone, NobodyGone
<1>7. CASE Accepted(s) \/ AcceptFails(s)
  <2>1. nobody[s] = "accept" /\ proto' = proto /\ toNobody' = toNobody
    BY <1>7 DEF Accepted, AcceptFails, protoVars
  <2>2. ~ProtoGone(s) => proto[s] = "accRes" /\ toNobody[s] = << >> /\ toProto[s] = << >>
    BY <2>1 DEF Protocol, Both, At, Alone, InListen, InConnect, InAccept, InHandOver,
       InFd, NobodyGone
  <2>3. CASE Accepted(s)
    <3>1. nobody'[s] = "sendOk" /\ toProto' = toProto
      BY <1>0, <2>3 DEF Accepted
    <3> QED
      BY <2>1, <2>2, <3>1 DEF Protocol, Both, InAccept, InHandOver, ProtoFirst, At,
         ProtoGone, NobodyGone
  <2>4. CASE AcceptFails(s)
    <3>1. nobody'[s] = "exit"
      BY <1>0, <2>4 DEF AcceptFails
    <3>2. CASE ProtoGone(s)
      BY <2>1, <3>1, <3>2, BothGone
    <3>3. CASE ~ProtoGone(s)
      <4>1. toProto'[s] = Append(toProto[s], Bad)
        BY <1>0, <2>4, <3>3 DEF AcceptFails, Bad
      <4>2. toProto'[s] = <<Bad>>
        BY <2>2, <3>3, <4>1, Queue1
      <4> QED
        BY <2>1, <2>2, <3>1, <3>3, <4>2 DEF Protocol, NobodyFirst, ProtoGone, NobodyGone
    <3> QED
      BY <3>2, <3>3
  <2> QED
    BY <1>7, <2>3, <2>4
<1>8. CASE GiveFd(s)
  <2>1. /\ proto' = proto /\ toNobody' = toNobody
        /\ \/ nobody[s] = "sendOk" /\ SendToProto(s, "sendFd", Ok)
           \/ nobody[s] = "sendFd" /\ SendToProto(s, "recv", Fd)
    BY <1>8 DEF GiveFd, protoVars, Ok, Fd
  <2>2. CASE ProtoGone(s)
    <3>1. nobody'[s] = "exit"
      BY <1>0, <2>1, <2>2 DEF SendToProto
    <3> QED
      BY <2>1, <2>2, <3>1, BothGone
  <2>3. CASE ~ProtoGone(s) /\ nobody[s] = "sendOk"
    <3>1. /\ proto[s] \in {"portRes", "accRes"}
          /\ toNobody[s] = << >> /\ toProto[s] = << >>
      BY <2>3 DEF Protocol, Both, At, Alone, InListen, InConnect, InAccept, InHandOver,
         InFd, NobodyGone
    <3>2. nobody'[s] = "sendFd" /\ toProto'[s] = <<Ok>>
      BY <1>0, <2>1, <2>3, <3>1, Queue1 DEF SendToProto
    <3> QED
      BY <2>1, <3>1, <3>2 DEF Protocol, Both, InConnect, InAccept, InHandOver, At,
         ProtoGone, NobodyGone
  <2>4. CASE ~ProtoGone(s) /\ nobody[s] = "sendFd"
    <3>1. /\ toNobody[s] = << >>
          /\ \/ proto[s] \in {"portRes", "accRes"} /\ toProto[s] = <<Ok>>
             \/ proto[s] \in {"portFd", "accFd"} /\ toProto[s] = << >>
      BY <2>4 DEF Protocol, Both, At, Alone, InListen, InConnect, InAccept, InHandOver,
         InFd, NobodyGone
    <3>2. nobody'[s] = "recv" /\ toProto'[s] = Append(toProto[s], Fd)
      BY <1>0, <2>1, <2>4 DEF SendToProto
    <3>3. \/ proto[s] \in {"portRes", "accRes"} /\ toProto'[s] = <<Ok, Fd>>
          \/ proto[s] \in {"portFd", "accFd"} /\ toProto'[s] = <<Fd>>
      BY <3>1, <3>2, QueueForms
    <3> QED
      BY <2>1, <3>1, <3>2, <3>3 DEF Protocol, Both, InConnect, InAccept, InHandOver, InFd,
         At, ProtoGone, NobodyGone
  <2> QED
    BY <2>1, <2>2, <2>3, <2>4
<1>9. CASE NobodyEof(s) \/ SigChld(s)
  <2>1. ProtoGone(s) /\ proto' = proto /\ nobody'[s] \in {"exit", "abort"}
    BY <1>0, <1>9 DEF NobodyEof, SigChld, protoVars
  <2> QED
    BY <2>1, BothGone
<1> QED
  BY <1>1, <1>2, <1>3, <1>4, <1>5, <1>6, <1>7, <1>8, <1>9 DEF NobodyStep

-----------------------------------------------------------------------------
(* The flags of proto. *)

LEMMA FlagsStep ==
  ASSUME TypeOK, NEW s \in Sessions, Flags(s),
         Begin(s) \/ ProtoStep(s) \/ ClientStep(s) \/ NobodyStep(s) \/ Alarm(s)
  PROVE  Flags(s)'
<1> USE DEF Proto, Nobody, Set, Flags, InTransfer
<1>0. /\ DOMAIN proto = Sessions /\ DOMAIN cmd = Sessions /\ DOMAIN dataFd = Sessions
      /\ DOMAIN isTrans = Sessions /\ DOMAIN handler = Sessions
  BY DEF TypeOK
<1>1. CASE Begin(s)
  <2>1. proto'[s] \in {"arm", "exit"} /\ proto[s] = "new"
    BY <1>0, <1>1 DEF Begin
  <2> QED
    BY <1>1, <2>1 DEF Begin
<1>2. CASE Arm(s) \/ ClientCloses(s) \/ SetData(s) \/ ArmData(s) \/ ProtoEof(s)
  BY <1>0, <1>2 DEF Arm, ClientCloses, SetData, ArmData, ProtoEof, Waiting, ProtoWaits
<1>3. CASE DoSimple(s)
  <2>1. proto[s] = "read" /\ proto'[s] \in {"arm", "exit"}
    BY <1>0, <1>3 DEF DoSimple
  <2> QED
    BY <1>3, <2>1 DEF DoSimple
<1>4. CASE DoPasv(s)
  <2>1. proto[s] = "read" /\ proto'[s] \in {"pasvRes", "exit"}
    BY <1>0, <1>4 DEF DoPasv, SendToNobody
  <2> QED
    BY <1>4, <2>1 DEF DoPasv
<1>5. CASE PasvResult(s) \/ PasvPort(s)
  <2>1. proto[s] \in {"pasvRes", "pasvPort"} /\ proto'[s] \in {"arm", "pasvPort", "exit"}
    BY <1>0, <1>5 DEF PasvResult, PasvPort, FromNobody
  <2> QED
    BY <1>5, <2>1 DEF PasvResult, PasvPort
<1>6. CASE DoTransfer(s)
  <2>1. proto[s] = "read" /\ proto'[s] \in {"active", "exit"}
    BY <1>0, <1>6 DEF DoTransfer, SendToNobody
  <2> PICK c \in Transfers : /\ cmd' = [cmd EXCEPT ![s] = c]
                            /\ isTrans' = [isTrans EXCEPT ![s] = isTrans[s] \/ c \in Files]
    BY <1>6 DEF DoTransfer
  <2>2. cmd'[s] = c /\ (isTrans[s] => isTrans'[s]) /\ (c \in Files => isTrans'[s])
    BY <1>0
  <2> QED
    BY <1>6, <2>1, <2>2 DEF DoTransfer
<1>7. CASE Mode(s) \/ PortAddr(s) \/ Result(s)
  <2>1. /\ proto[s] \in {"active", "portAddr", "portRes", "accRes"}
        /\ proto'[s] \in {"portAddr", "portRes", "accRes", "portFd", "accFd", "exit"}
    <3>1. CASE Mode(s)
      BY <1>0, <3>1 DEF Mode, FromNobody, SendToNobody
    <3>2. CASE PortAddr(s)
      BY <1>0, <3>2 DEF PortAddr, SendToNobody
    <3>3. CASE Result(s)
      BY <1>0, <3>3 DEF Result, FromNobody
    <3> QED
      BY <1>7, <3>1, <3>2, <3>3
  <2> QED
    BY <1>7, <2>1 DEF Mode, PortAddr, Result
<1>8. CASE DataFd(s)
  <2>1. proto[s] \in {"portFd", "accFd"} /\ proto'[s] = "setData"
    BY <1>0, <1>8 DEF DataFd, FromNobody
  <2> QED
    BY <1>8, <2>1 DEF DataFd
<1>9. CASE OpenUpload(s) \/ OpenDownload(s) \/ OpenList(s)
  <2>1. /\ proto[s] = "open" /\ proto'[s] \in {"transfer", "arm", "exit"}
        /\ proto'[s] = "arm" => cmd[s] \in Files
    BY <1>0, <1>9 DEF OpenUpload, OpenDownload, OpenList, Files
  <2> QED
    BY <1>9, <2>1 DEF OpenUpload, OpenDownload, OpenList
<1>10. CASE FinishUpload(s) \/ FinishDownload(s) \/ FinishList(s)
  <2>1. /\ proto[s] = "transfer" /\ proto'[s] \in {"setCtrl", "arm"} /\ ~dataFd'[s]
    BY <1>0, <1>10 DEF FinishUpload, FinishDownload, FinishList, Finish
  <2> QED
    BY <1>10, <2>1 DEF FinishUpload, FinishDownload, FinishList, Finish
<1>11. CASE Killed(s) \/ SetCtrl(s) \/ Clear(s)
  BY <1>0, <1>11 DEF Killed, SetCtrl, Clear
<1>12. CASE Alarm(s)
  <2>1. proto'[s] = proto[s] \/ proto'[s] = "exit"
    BY <1>0, <1>12 DEF Alarm
  <2>2. proto[s] # "new"
    BY <1>12 DEF Alarm
  <2> QED
    BY <1>12, <2>1, <2>2 DEF Alarm
<1>13. CASE NobodyStep(s) \/ Accepted(s) \/ AcceptFails(s)
  <2>1. UNCHANGED protoVars
    BY <1>13 DEF NobodyStep, Active, Listen, ListenReply, GetDataSock, Connect, Accept,
       Accepted, AcceptFails, GiveFd, NobodyEof, SigChld
  <2> QED
    BY <2>1 DEF protoVars
<1> QED
  BY <1>1, <1>2, <1>3, <1>4, <1>5, <1>6, <1>7, <1>8, <1>9, <1>10, <1>11, <1>12, <1>13
  DEF ProtoStep, ClientStep

-----------------------------------------------------------------------------
(* A step of one session leaves the others as they are. *)

Same(t) ==
  /\ proto'[t] = proto[t] /\ nobody'[t] = nobody[t]
  /\ toNobody'[t] = toNobody[t] /\ toProto'[t] = toProto[t]
  /\ dataFd'[t] = dataFd[t] /\ isTrans'[t] = isTrans[t] /\ cmd'[t] = cmd[t]
  /\ handler'[t] = handler[t] /\ alarm'[t] = alarm[t]

LEMMA Others ==
  ASSUME TypeOK, NEW s \in Sessions, NEW t \in Sessions, t # s,
         Begin(s) \/ ProtoStep(s) \/ ClientStep(s) \/ NobodyStep(s) \/ Alarm(s)
  PROVE  Same(t)
<1> USE DEF Proto, Nobody, Set, Same, FromNobody, FromProto, SendToNobody, SendToProto,
            protoVars
<1>0. /\ DOMAIN proto = Sessions /\ DOMAIN nobody = Sessions
      /\ DOMAIN toProto = Sessions /\ DOMAIN toNobody = Sessions
      /\ DOMAIN cmd = Sessions /\ DOMAIN dataFd = Sessions
      /\ DOMAIN isTrans = Sessions /\ DOMAIN handler = Sessions
      /\ DOMAIN alarm = Sessions
  BY DEF TypeOK
<1>1. CASE Begin(s) \/ Arm(s) \/ ClientCloses(s) \/ SetData(s) \/ ArmData(s)
  BY <1>0, <1>1 DEF Begin, Arm, ClientCloses, SetData, ArmData
<1>2. CASE DoSimple(s) \/ ProtoEof(s) \/ Killed(s) \/ SetCtrl(s) \/ Clear(s) \/ Alarm(s)
  BY <1>0, <1>2 DEF DoSimple, ProtoEof, Killed, SetCtrl, Clear, Alarm
<1>3. CASE DoPasv(s) \/ PasvResult(s) \/ PasvPort(s)
  BY <1>0, <1>3 DEF DoPasv, PasvResult, PasvPort
<1>4. CASE DoTransfer(s) \/ Mode(s)
  BY <1>0, <1>4 DEF DoTransfer, Mode
<1>5. CASE PortAddr(s) \/ Result(s) \/ DataFd(s)
  BY <1>0, <1>5 DEF PortAddr, Result, DataFd
<1>6. CASE OpenUpload(s) \/ OpenDownload(s) \/ OpenList(s)
  BY <1>0, <1>6 DEF OpenUpload, OpenDownload, OpenList
<1>7. CASE FinishUpload(s) \/ FinishDownload(s) \/ FinishList(s)
  BY <1>0, <1>7 DEF FinishUpload, FinishDownload, FinishList, Finish
<1>8. CASE Active(s) \/ Listen(s) \/ ListenReply(s) \/ GetDataSock(s)
  BY <1>0, <1>8 DEF Active, Listen, ListenReply, GetDataSock
<1>9. CASE Connect(s) \/ Accept(s) \/ Accepted(s) \/ AcceptFails(s)
  BY <1>0, <1>9 DEF Connect, Accept, Accepted, AcceptFails
<1>10. CASE GiveFd(s) \/ NobodyEof(s) \/ SigChld(s)
  BY <1>0, <1>10 DEF GiveFd, NobodyEof, SigChld
<1> QED
  BY <1>1, <1>2, <1>3, <1>4, <1>5, <1>6, <1>7, <1>8, <1>9, <1>10
  DEF ProtoStep, ClientStep, NobodyStep

LEMMA IInvInit == Init => IInv
<1> SUFFICES ASSUME Init PROVE IInv
  OBVIOUS
<1>1. << >> \in Seq(Messages)
  OBVIOUS
<1>2. TypeOK
  BY <1>1 DEF Init, TypeOK, Commands
<1>3. ASSUME NEW s \in Sessions PROVE Protocol(s) /\ Flags(s)
  BY DEF Init, Protocol, Both, At, ProtoGone, NobodyGone, Flags, InTransfer
<1> QED
  BY <1>2, <1>3 DEF IInv

LEMMA IInvStep == IInv /\ [Next]_vars => IInv'
<1> SUFFICES ASSUME IInv, [Next]_vars PROVE IInv'
  OBVIOUS
<1>0. TypeOK /\ \A t \in Sessions : Protocol(t) /\ Flags(t)
  BY DEF IInv
<1>1. CASE UNCHANGED vars
  <2>1. TypeOK'
    BY <1>0, <1>1 DEF TypeOK, vars, protoVars
  <2>2. ASSUME NEW t \in Sessions PROVE Protocol(t)' /\ Flags(t)'
    <3>1. Same(t)
      BY <1>1 DEF Same, vars, protoVars
    <3> QED
      BY <1>0, <3>1, Still DEF Same, Flags
  <2> QED
    BY <2>1, <2>2 DEF IInv
<1>2. CASE Next
  <2> PICK s \in Sessions :
        Begin(s) \/ ProtoStep(s) \/ ClientStep(s) \/ NobodyStep(s) \/ Alarm(s)
    BY <1>2 DEF Next
  <2>1. TypeOK'
    BY <1>0, AloneType, TalkType, NobodyType DEF ProtoStep, ClientStep
  <2>2. Protocol(s)'
    BY <1>0, AloneProtocol, TalkProtocol, NobodyProtocol DEF ProtoStep, ClientStep
  <2>3. Flags(s)'
    BY <1>0, FlagsStep
  <2>4. ASSUME NEW t \in Sessions, t # s PROVE Protocol(t)' /\ Flags(t)'
    <3>1. Same(t)
      BY <1>0, <2>4, Others
    <3> QED
      BY <1>0, <3>1, Still DEF Same, Flags
  <2> QED
    BY <2>1, <2>2, <2>3, <2>4 DEF IInv
<1> QED
  BY <1>1, <1>2

LEMMA Invariance == Spec => []IInv
BY IInvInit, IInvStep, PTL DEF Spec

-----------------------------------------------------------------------------
(* Every variable keeps its type: in particular only whole messages are    *)
(* ever in the socketpair. *)
THEOREM TypeCorrect == Spec => []TypeOK
<1>1. IInv => TypeOK
  BY DEF IInv
<1> QED
  BY <1>1, Invariance, PTL

(* Both sides of the unframed socketpair agree on the kind of what is read *)
(* next, for any number of sessions, whoever dies or is interrupted.       *)
THEOREM FramesAgree == Spec => []FramesMatch
<1>1. ASSUME IInv, NEW s \in Sessions, Waiting(s), toProto[s] # << >>
      PROVE  Head(toProto[s]).kind = ProtoWaits[proto[s]]
  <2>1. Protocol(s)
    BY <1>1 DEF IInv
  <2>2. \/ proto[s] \in {"pasvRes", "portRes"} /\ Head(toProto[s]) = Ok
        \/ proto[s] = "pasvPort" /\ Head(toProto[s]) = Port
        \/ proto[s] = "active" /\ Head(toProto[s]) \in {Yes, No}
        \/ proto[s] = "accRes" /\ Head(toProto[s]) \in {Ok, Bad}
        \/ proto[s] \in {"portFd", "accFd"} /\ Head(toProto[s]) = Fd
    <3>1. proto[s] \in
            {"pasvRes", "pasvPort", "active", "portRes", "accRes", "portFd", "accFd"}
      BY <1>1 DEF Waiting, ProtoWaits
    <3> QED
      BY <1>1, <2>1, <3>1, ProtoFinds, Queue1, Queue2 DEF At
  <2> QED
    BY <2>2, MessageFacts DEF ProtoWaits
<1>2. ASSUME IInv, NEW s \in Sessions, nobody[s] \in DOMAIN NobodyWaits,
             toNobody[s] # << >>
      PROVE  Head(toNobody[s]).kind = NobodyWaits[nobody[s]]
  <2>1. Protocol(s)
    BY <1>2 DEF IInv
  <2>2. nobody[s] \in {"recv", "addr", "port"}
    BY <1>2 DEF NobodyWaits
  <2>3. \/ nobody[s] = "recv" /\ Head(toNobody[s]) \in {CmdListen, CmdActive, CmdAccept, CmdGet}
        \/ nobody[s] = "addr" /\ Head(toNobody[s]) = Addr
        \/ nobody[s] = "port" /\ Head(toNobody[s]) = Port
    BY <1>2, <2>1, <2>2, NobodyFinds, Queue1, Queue2, Queue3
  <2> QED
    BY <2>3, MessageFacts DEF NobodyWaits
<1>3. IInv => FramesMatch
  BY <1>1, <1>2 DEF FramesMatch
<1> QED
  BY <1>3, Invariance, PTL

(* When proto turns back to the client, the socketpair is empty and nobody *)
(* has nothing left to do, for any number of sessions. *)
THEOREM ExchangeOver == Spec => []Quiescent
<1>1. ASSUME IInv, NEW s \in Sessions,
             proto[s] \in {"arm", "read", "setData", "armData", "open", "transfer",
                          "setCtrl", "clear"}
      PROVE  nobody[s] = "recv" /\ toNobody[s] = << >> /\ toProto[s] = << >>
  BY <1>1, AloneQuiet DEF IInv, Alone, At
<1>2. IInv => Quiescent
  BY <1>1 DEF Quiescent
<1> QED
  BY <1>2, Invariance, PTL

(* When nobody is gone, proto has ended or is about to read the end. *)
THEOREM NeverHalf == Spec => []NoHalfSession
<1>1. ASSUME IInv, NEW s \in Sessions, NobodyGone(s) PROVE ProtoGone(s) \/ Waiting(s)
  BY <1>1 DEF IInv, Protocol, NobodyFirst, Waiting, ProtoWaits
<1>2. IInv => NoHalfSession
  BY <1>1 DEF NoHalfSession
<1> QED
  BY <1>2, Invariance, PTL

(* Every transfer but a refused upload closes its data connection before   *)
(* the next command is read. *)
THEOREM ConnectionClosed == Spec => []DataFdReleased
<1>1. IInv => DataFdReleased
  BY DEF IInv, Flags, DataFdReleased
<1> QED
  BY <1>1, Invariance, PTL

(* No timer ends a session during the transfer of a file. *)
THEOREM TransferUncut == Spec => []FileNotTimedOut
<1>1. IInv => FileNotTimedOut
  BY DEF IInv, Flags, FileNotTimedOut, TimesOut, InTransfer
<1> QED
  BY <1>1, Invariance, PTL
=============================================================================
