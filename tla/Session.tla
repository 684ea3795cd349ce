------------------------------ MODULE Session -------------------------------
(* The sessions of miniftpd.  Each is two processes: proto, which talks to *)
(* the client (ftp_proto.c, command_map.c, trans_data.c), and its parent   *)
(* nobody, which opens the data connections (ftp_nobody.c,                 *)
(* priv_command.c).  They speak over a socketpair, here two FIFO queues.   *)
(* The SIGALRM handlers of proto (trans_ctrl.c) run between any two of its *)
(* steps, and all sessions share the one data port, 20.                    *)
(*                                                                         *)
(* The client sends any command when proto reads, connects or does not,    *)
(* and lets a transfer proceed or stall.                                   *)
EXTENDS Sequences

CONSTANTS
  Sessions,       \* the sessions that run side by side
  IdleTimeout,    \* TRUE iff tunable_idle_session_timeout > 0
  ConnTimeout,    \* TRUE iff tunable_connect_timeout > 0
  AcceptTimeout,  \* TRUE iff tunable_accept_timeout > 0
  SockNameFails   \* TRUE iff getsockname may fail

ASSUME SessionAssumption ==
  {IdleTimeout, ConnTimeout, AcceptTimeout, SockNameFails} \subseteq BOOLEAN

VARIABLES
  proto,      \* next step of proto
  cmd,        \* the command it executes
  pAddr,      \* p_addr # NULL: PORT was given
  dataFd,     \* data_fd is an open connection
  isTrans,    \* is_translating_data
  handler,    \* which SIGALRM handler is installed
  alarm,      \* an alarm is running
  nobody,     \* next step of nobody
  listening,  \* listen_fd # -1: it listens on the data port
  toNobody,   \* socketpair, from proto to nobody
  toProto     \* socketpair, from nobody to proto

protoVars == <<proto, cmd, pAddr, dataFd, isTrans, handler, alarm>>
vars == <<protoVars, nobody, listening, toNobody, toProto>>

Files == {"RETR", "STOR"}                 \* transfers of a file
Transfers == Files \cup {"LIST"}          \* NLST is a LIST, APPE a STOR
Commands == Transfers \cup {"PORT", "PASV", "NOOP", "QUIT"}

(* What each process reads next, when it waits for the other. *)
ProtoWaits ==
  [pasvRes |-> "result", pasvPort |-> "int", active |-> "int",
   portRes |-> "result", portFd |-> "fd", accRes |-> "result", accFd |-> "fd"]
NobodyWaits == [recv |-> "cmd", addr |-> "str", port |-> "int"]

Waiting(s) == proto[s] \in DOMAIN ProtoWaits
ProtoGone(s) == proto[s] = "exit"
NobodyGone(s) == nobody[s] \in {"exit", "abort"}

Kinds == {"cmd", "str", "int", "result", "fd"}
Message(k, v) == [kind |-> k, val |-> v]
Values == {"LISTEN", "ACTIVE", "ACCEPT", "GET", "ADDR", "PORT", "YES", "NO",
           "OK", "BAD", "FD"}
Messages == [kind : Kinds, val : Values]

TypeOK ==
  /\ proto \in [Sessions -> DOMAIN ProtoWaits \cup
       {"new", "arm", "read", "portAddr", "setData", "armData", "open",
        "transfer", "setCtrl", "clear", "exit"}]
  /\ cmd \in [Sessions -> Commands]
  /\ handler \in [Sessions -> {"none", "ctrl", "data"}]
  /\ pAddr \in [Sessions -> BOOLEAN] /\ dataFd \in [Sessions -> BOOLEAN]
  /\ isTrans \in [Sessions -> BOOLEAN] /\ alarm \in [Sessions -> BOOLEAN]
  /\ listening \in [Sessions -> BOOLEAN]
  /\ nobody \in [Sessions -> DOMAIN NobodyWaits \cup
       {"new", "listened", "listenPort", "connect", "accept", "sendOk", "sendFd",
        "exit", "abort"}]
  /\ toNobody \in [Sessions -> Seq(Messages)]
  /\ toProto \in [Sessions -> Seq(Messages)]

(* session_init, before session_begin forks. *)
Init ==
  /\ proto = [s \in Sessions |-> "new"] /\ nobody = [s \in Sessions |-> "new"]
  /\ cmd = [s \in Sessions |-> "NOOP"]
  /\ handler = [s \in Sessions |-> "none"]
  /\ pAddr = [s \in Sessions |-> FALSE] /\ dataFd = [s \in Sessions |-> FALSE]
  /\ isTrans = [s \in Sessions |-> FALSE] /\ alarm = [s \in Sessions |-> FALSE]
  /\ listening = [s \in Sessions |-> FALSE]
  /\ toNobody = [s \in Sessions |-> << >>] /\ toProto = [s \in Sessions |-> << >>]

Set(f, s, v) == f' = [f EXCEPT ![s] = v]
Proto(s, from, to) == proto[s] = from /\ Set(proto, s, to)
Nobody(s, from, to) == nobody[s] = from /\ Set(nobody, s, to)

(* session_begin: fork gives both processes, or none when it fails (the    *)
(* child then falls back into the accept loop, whose socket it has closed, *)
(* and exits).                                                             *)
Begin(s) ==
  /\ \/ Proto(s, "new", "arm") /\ Nobody(s, "new", "recv") /\ Set(handler, s, "ctrl")
     \/ Proto(s, "new", "exit") /\ Nobody(s, "new", "exit") /\ UNCHANGED handler
  /\ UNCHANGED <<cmd, pAddr, dataFd, isTrans, alarm, listening, toNobody, toProto>>

-----------------------------------------------------------------------------
(* proto *)

(* priv_sock_send_*: to a nobody that is gone it raises SIGPIPE. *)
SendToNobody(s, next, msgs) ==
  IF NobodyGone(s)
  THEN Set(proto, s, "exit") /\ UNCHANGED toNobody
  ELSE Set(proto, s, next) /\ toNobody' = [toNobody EXCEPT ![s] = @ \o msgs]

(* priv_sock_recv_*: the next message, of the kind expected. *)
FromNobody(s, at) ==
  /\ proto[s] = at
  /\ toProto[s] # << >>
  /\ toProto' = [toProto EXCEPT ![s] = Tail(@)]

Got(s, v) == Head(toProto[s]).val = v

(* start_signal_alarm_ctrl_fd, at the head of the command loop. *)
Arm(s) ==
  /\ Proto(s, "arm", "read")
  /\ Set(alarm, s, IdleTimeout)
  /\ UNCHANGED <<cmd, pAddr, dataFd, isTrans, handler, nobody, listening,
                 toNobody, toProto>>

(* readline: the client is gone. *)
ClientCloses(s) ==
  /\ Proto(s, "read", "exit")
  /\ UNCHANGED <<cmd, pAddr, dataFd, isTrans, handler, alarm, nobody, listening,
                 toNobody, toProto>>

(* Commands that need nothing from nobody.  do_port leaves a listening     *)
(* socket alone.                                                           *)
DoSimple(s) ==
  /\ \E c \in {"NOOP", "QUIT", "PORT"} :
       /\ Proto(s, "read", IF c = "QUIT" THEN "exit" ELSE "arm")
       /\ Set(cmd, s, c)
       /\ Set(pAddr, s, pAddr[s] \/ c = "PORT")
  /\ UNCHANGED <<dataFd, isTrans, handler, alarm, nobody, listening, toNobody,
                 toProto>>

(* do_pasv, which leaves p_addr alone ... *)
DoPasv(s) ==
  /\ proto[s] = "read"
  /\ SendToNobody(s, "pasvRes", <<Message("cmd", "LISTEN")>>)
  /\ Set(cmd, s, "PASV")
  /\ UNCHANGED <<pAddr, dataFd, isTrans, handler, alarm, nobody, listening, toProto>>

PasvResult(s) ==
  /\ FromNobody(s, "pasvRes")
  /\ Set(proto, s, IF Got(s, "BAD") THEN "arm" ELSE "pasvPort")
  /\ UNCHANGED <<cmd, pAddr, dataFd, isTrans, handler, alarm, nobody, listening,
                 toNobody>>

(* ... and replies 227 with the port.  The reply may kill proto, as below.  *)
MutPasvPort(s) ==
  /\ Proto(s, "pasvPort", "arm")
  /\ UNCHANGED <<cmd, pAddr, dataFd, isTrans, handler, alarm, nobody, listening,
                 toNobody, toProto>>

PasvPort(s) ==
  /\ FromNobody(s, "pasvPort")
  /\ Set(proto, s, "arm") \/ Set(proto, s, "exit")
  /\ UNCHANGED <<cmd, pAddr, dataFd, isTrans, handler, alarm, nobody, listening,
                 toNobody>>

(* upload_file, download_file, do_list: is_translating_data, then          *)
(* is_pasv_active asks nobody.                                             *)
DoTransfer(s) ==
  /\ proto[s] = "read"
  /\ \E c \in Transfers :
       /\ Set(cmd, s, c)
       /\ Set(isTrans, s, isTrans[s] \/ c \in Files)
  /\ SendToNobody(s, "active", <<Message("cmd", "ACTIVE")>>)
  /\ UNCHANGED <<pAddr, dataFd, handler, alarm, nobody, listening, toProto>>

(* get_trans_data_fd: neither mode replies 425 and exits, both exit.       *)
Mode(s) ==
  /\ FromNobody(s, "active")
  /\ IF pAddr[s] = Got(s, "YES")
     THEN Set(proto, s, "exit") /\ UNCHANGED toNobody
     ELSE IF pAddr[s]
          THEN SendToNobody(s, "portAddr", <<Message("cmd", "GET")>>)
          ELSE SendToNobody(s, "accRes", <<Message("cmd", "ACCEPT")>>)
  /\ UNCHANGED <<cmd, pAddr, dataFd, isTrans, handler, alarm, nobody, listening>>

(* get_port_data_fd: the address and the port of the client. *)
PortAddr(s) ==
  /\ proto[s] = "portAddr"
  /\ SendToNobody(s, "portRes", <<Message("str", "ADDR"), Message("int", "PORT")>>)
  /\ UNCHANGED <<cmd, pAddr, dataFd, isTrans, handler, alarm, nobody, listening,
                 toProto>>

(* get_port_data_fd, get_pasv_data_fd: a bad result exits. *)
Result(s) ==
  /\ \/ /\ FromNobody(s, "portRes")
        /\ Set(proto, s, IF Got(s, "BAD") THEN "exit" ELSE "portFd")
     \/ /\ FromNobody(s, "accRes")
        /\ Set(proto, s, IF Got(s, "BAD") THEN "exit" ELSE "accFd")
  /\ UNCHANGED <<cmd, pAddr, dataFd, isTrans, handler, alarm, nobody, listening,
                 toNobody>>

(* The data connection arrives; p_addr has been used. *)
DataFd(s) ==
  /\ \/ FromNobody(s, "portFd") /\ Set(pAddr, s, FALSE)
     \/ FromNobody(s, "accFd") /\ UNCHANGED pAddr
  /\ Set(proto, s, "setData")
  /\ Set(dataFd, s, TRUE)
  /\ UNCHANGED <<cmd, isTrans, handler, alarm, nobody, listening, toNobody>>

(* priv_sock_recv_*: nobody has closed its end. *)
ProtoEof(s) ==
  /\ Waiting(s) /\ toProto[s] = << >> /\ NobodyGone(s)
  /\ Set(proto, s, "exit")
  /\ UNCHANGED <<cmd, pAddr, dataFd, isTrans, handler, alarm, nobody, listening,
                 toNobody, toProto>>

(* setup_signal_alarm_data_fd *)
MutSetData(s) ==
  /\ Proto(s, "setData", "armData")
  /\ UNCHANGED <<cmd, pAddr, dataFd, isTrans, handler, alarm, nobody, listening,
                 toNobody, toProto>>

SetData(s) ==
  /\ Proto(s, "setData", "armData")
  /\ Set(handler, s, "data")
  /\ UNCHANGED <<cmd, pAddr, dataFd, isTrans, alarm, nobody, listening, toNobody,
                 toProto>>

(* start_signal_alarm_data_fd *)
ArmData(s) ==
  /\ Proto(s, "armData", "open")
  /\ Set(alarm, s, ConnTimeout)
  /\ UNCHANGED <<cmd, pAddr, dataFd, isTrans, handler, nobody, listening, toNobody,
                 toProto>>

(* The file is opened, locked and found regular, and 150 is sent.  A refused *)
(* upload replies 553 and returns with everything as it is; one that        *)
(* cannot lseek dies.                                                       *)
OpenUpload(s) ==
  /\ cmd[s] = "STOR"
  /\ \E next \in {"transfer", "arm", "exit"} : Proto(s, "open", next)
  /\ UNCHANGED <<cmd, pAddr, dataFd, isTrans, handler, alarm, nobody, listening,
                 toNobody, toProto>>

(* A download whose file is not regular replies 550 and goes on; one that   *)
(* cannot be opened dies in fstat.  A read lock may take for ever to get.   *)
OpenDownload(s) ==
  /\ cmd[s] = "RETR"
  /\ \E next \in {"transfer", "exit"} : Proto(s, "open", next)
  /\ UNCHANGED <<cmd, pAddr, dataFd, isTrans, handler, alarm, nobody, listening,
                 toNobody, toProto>>

(* trans_list: opendir, lstat or readlink may fail, and it dies.            *)
OpenList(s) ==
  /\ cmd[s] = "LIST"
  /\ \E next \in {"transfer", "exit"} : Proto(s, "open", next)
  /\ UNCHANGED <<cmd, pAddr, dataFd, isTrans, handler, alarm, nobody, listening,
                 toNobody, toProto>>

(* The transfer ends, well or not, and the data connection is closed.       *)
Finish(s, c, next) ==
  /\ cmd[s] = c
  /\ Proto(s, "transfer", next)
  /\ Set(dataFd, s, FALSE)
  /\ UNCHANGED <<cmd, pAddr, isTrans, handler, alarm, nobody, listening, toNobody,
                 toProto>>

FinishUpload(s) == Finish(s, "STOR", "setCtrl")

FinishDownload(s) == Finish(s, "RETR", "setCtrl")

MutFinishList(s) ==
  /\ cmd[s] = "LIST"
  /\ Proto(s, "transfer", "arm")
  /\ UNCHANGED <<cmd, pAddr, dataFd, isTrans, handler, alarm, nobody, listening,
                 toNobody, toProto>>

(* A listing leaves the handler and the alarm of the data connection as     *)
(* they are.                                                                *)
FinishList(s) == Finish(s, "LIST", "arm")

(* SIGPIPE is not ignored: the final reply, or data, to a connection the   *)
(* client has closed kills proto (as the 150 may, when the file is opened). *)
Killed(s) ==
  /\ Proto(s, "transfer", "exit")
  /\ UNCHANGED <<cmd, pAddr, dataFd, isTrans, handler, alarm, nobody, listening,
                 toNobody, toProto>>

(* setup_signal_alarm_ctrl_fd after the final reply of a file transfer ... *)
MutSetCtrl(s) ==
  /\ Proto(s, "setCtrl", "clear")
  /\ Set(handler, s, "default")
  /\ UNCHANGED <<cmd, pAddr, dataFd, isTrans, alarm, nobody, listening, toNobody,
                 toProto>>

SetCtrl(s) ==
  /\ Proto(s, "setCtrl", "clear")
  /\ Set(handler, s, "ctrl")
  /\ UNCHANGED <<cmd, pAddr, dataFd, isTrans, alarm, nobody, listening, toNobody,
                 toProto>>

(* ... and is_translating_data = 0. *)
Clear(s) ==
  /\ Proto(s, "clear", "arm")
  /\ Set(isTrans, s, FALSE)
  /\ UNCHANGED <<cmd, pAddr, dataFd, handler, alarm, nobody, listening, toNobody,
                 toProto>>

(* handle_signal_data_fd: rearms during a file transfer.  With a zero      *)
(* timeout either handler does nothing.                                    *)
Rearms(s) == handler[s] = "data" /\ ConnTimeout /\ isTrans[s]

TimesOut(s) ==
  IF handler[s] = "ctrl" THEN IdleTimeout ELSE ConnTimeout /\ ~isTrans[s]

(* SIGALRM between two steps of proto; a time out replies 421 and exits.   *)
Alarm(s) ==
  /\ alarm[s] /\ ~ProtoGone(s)
  /\ Set(alarm, s, Rearms(s))
  /\ IF TimesOut(s) THEN Set(proto, s, "exit") ELSE UNCHANGED proto
  /\ UNCHANGED <<cmd, pAddr, dataFd, isTrans, handler, nobody, listening, toNobody,
                 toProto>>

-----------------------------------------------------------------------------
(* nobody *)

(* bind fails while any socket listens on the data port. *)
PortBusy == \E t \in Sessions : listening[t]

SendToProto(s, next, msg) ==
  IF ProtoGone(s)
  THEN Set(nobody, s, "exit") /\ Set(listening, s, FALSE) /\ UNCHANGED toProto
  ELSE /\ Set(nobody, s, next) /\ UNCHANGED listening
       /\ toProto' = [toProto EXCEPT ![s] = Append(@, msg)]

FromProto(s, at, v) ==
  /\ nobody[s] = at
  /\ toNobody[s] # << >> /\ Head(toNobody[s]).val = v
  /\ toNobody' = [toNobody EXCEPT ![s] = Tail(@)]

(* privop_pasv_active *)
Active(s) ==
  /\ FromProto(s, "recv", "ACTIVE")
  /\ SendToProto(s, "recv", Message("int", IF listening[s] THEN "YES" ELSE "NO"))
  /\ UNCHANGED protoVars

(* privop_pasv_listen: tcp_server exits when the port is taken, by another *)
(* session or by this one; getsockname can fail, and nothing is answered.  *)
MutListen(s) ==
  /\ FromProto(s, "recv", "LISTEN")
  /\ \/ PortBusy /\ Set(nobody, s, "recv") /\ UNCHANGED listening
     \/ ~PortBusy /\ Set(nobody, s, "listened") /\ Set(listening, s, TRUE)
  /\ UNCHANGED <<protoVars, toProto>>

Listen(s) ==
  /\ FromProto(s, "recv", "LISTEN")
  /\ \/ PortBusy /\ Set(nobody, s, "exit") /\ Set(listening, s, FALSE)
     \/ ~PortBusy /\ Set(nobody, s, "listened") /\ Set(listening, s, TRUE)
     \/ /\ SockNameFails
        /\ ~PortBusy /\ Set(nobody, s, "recv") /\ Set(listening, s, TRUE)
  /\ UNCHANGED <<protoVars, toProto>>

ListenReply(s) ==
  /\ \/ /\ nobody[s] = "listened"
        /\ SendToProto(s, "listenPort", Message("result", "OK"))
     \/ /\ nobody[s] = "listenPort"
        /\ SendToProto(s, "recv", Message("int", "PORT"))
  /\ UNCHANGED <<protoVars, toNobody>>

(* privop_pasv_get_data_sock: the address and the port are received ...    *)
GetDataSock(s) ==
  /\ \/ FromProto(s, "recv", "GET") /\ Set(nobody, s, "addr")
     \/ FromProto(s, "addr", "ADDR") /\ Set(nobody, s, "port")
     \/ FromProto(s, "port", "PORT") /\ Set(nobody, s, "connect")
  /\ UNCHANGED <<protoVars, listening, toProto>>

(* ... and connected to.  bind and connect exit when they fail, without an *)
(* answer.                                                                 *)
Connect(s) ==
  /\ \/ ~PortBusy /\ Nobody(s, "connect", "sendOk") /\ UNCHANGED listening
     \/ Nobody(s, "connect", "exit") /\ Set(listening, s, FALSE)
  /\ UNCHANGED <<protoVars, toNobody, toProto>>

(* privop_pasv_accept ... *)
Accept(s) ==
  /\ FromProto(s, "recv", "ACCEPT")
  /\ Set(nobody, s, "accept")
  /\ UNCHANGED <<protoVars, listening, toProto>>

(* ... the client connects, and the listening socket is closed ... *)
Accepted(s) ==
  /\ Nobody(s, "accept", "sendOk")
  /\ Set(listening, s, FALSE)
  /\ UNCHANGED <<protoVars, toNobody, toProto>>

(* ... or it does not, until the timeout or for good (ECONNABORTED): a bad *)
(* result, and exit.                                                       *)
AcceptFails(s) ==
  /\ Nobody(s, "accept", "exit")
  /\ Set(listening, s, FALSE)
  /\ toProto' = IF ProtoGone(s) THEN toProto
                ELSE [toProto EXCEPT ![s] = Append(@, Message("result", "BAD"))]
  /\ UNCHANGED <<protoVars, toNobody>>

(* The connection is handed to proto: a result, then the descriptor. *)
MutGiveFd(s) ==
  /\ \/ nobody[s] = "sendOk" /\ SendToProto(s, "sendFd", Message("fd", "FD"))
     \/ nobody[s] = "sendFd" /\ SendToProto(s, "recv", Message("result", "OK"))
  /\ UNCHANGED <<protoVars, toNobody>>

MutGiveFdOnce(s) ==
  /\ \/ nobody[s] = "sendOk" /\ SendToProto(s, "sendFd", Message("result", "OK"))
     \/ nobody[s] = "sendFd" /\ SendToProto(s, "exit", Message("fd", "FD"))
  /\ UNCHANGED <<protoVars, toNobody>>

GiveFd(s) ==
  /\ \/ nobody[s] = "sendOk" /\ SendToProto(s, "sendFd", Message("result", "OK"))
     \/ nobody[s] = "sendFd" /\ SendToProto(s, "recv", Message("fd", "FD"))
  /\ UNCHANGED <<protoVars, toNobody>>

(* priv_sock_recv_*: proto has closed its end. *)
NobodyEof(s) ==
  /\ nobody[s] \in DOMAIN NobodyWaits /\ toNobody[s] = << >> /\ ProtoGone(s)
  /\ Set(nobody, s, "exit") /\ Set(listening, s, FALSE)
  /\ UNCHANGED <<protoVars, toNobody, toProto>>

(* handle_sigchld, inherited from the listener, runs in nobody when proto  *)
(* has exited: proto is not in pid_to_ip, so assert(p_ip != NULL) aborts.  *)
MutSigChld(s) ==
  /\ ProtoGone(s) /\ ~NobodyGone(s)
  /\ UNCHANGED <<protoVars, nobody, listening, toNobody, toProto>>

SigChld(s) ==
  /\ ProtoGone(s) /\ ~NobodyGone(s)
  /\ Set(nobody, s, "abort") /\ Set(listening, s, FALSE)
  /\ UNCHANGED <<protoVars, toNobody, toProto>>

-----------------------------------------------------------------------------
(* What proto does by itself; what waits for the client, or for the lock   *)
(* of a file, is left out. *)
ProtoStep(s) ==
  \/ Arm(s) \/ PasvResult(s) \/ PasvPort(s) \/ Mode(s) \/ PortAddr(s) \/ Result(s)
  \/ DataFd(s) \/ ProtoEof(s) \/ SetData(s) \/ ArmData(s)
  \/ SetCtrl(s) \/ Clear(s)

ClientStep(s) ==
  \/ ClientCloses(s) \/ DoSimple(s) \/ DoPasv(s) \/ DoTransfer(s)
  \/ OpenUpload(s) \/ OpenDownload(s) \/ OpenList(s)
  \/ FinishUpload(s) \/ FinishDownload(s) \/ FinishList(s)
  \/ Killed(s) \/ Accepted(s) \/ AcceptFails(s)

NobodyStep(s) ==
  \/ Active(s) \/ Listen(s) \/ ListenReply(s) \/ GetDataSock(s) \/ Connect(s)
  \/ Accept(s) \/ (AcceptTimeout /\ AcceptFails(s)) \/ GiveFd(s)
  \/ NobodyEof(s) \/ SigChld(s)

Next == \E s \in Sessions :
  Begin(s) \/ ProtoStep(s) \/ ClientStep(s) \/ NobodyStep(s) \/ Alarm(s)

Spec == Init /\ [][Next]_vars

(* Processes are scheduled, alarms ring, signals arrive, accept and connect *)
(* time out; the client may do nothing for ever.                           *)
FairSpec ==
  /\ Spec
  /\ \A s \in Sessions :
       WF_vars(ProtoStep(s)) /\ WF_vars(NobodyStep(s)) /\ WF_vars(Alarm(s))

-----------------------------------------------------------------------------
(* Properties. *)

(* The stream has no framing: each side must read exactly the kinds of     *)
(* messages the other writes, in its order.  What heads a queue is always  *)
(* what its reader is about to read, whoever was interrupted or died.      *)
FramesMatch ==
  \A s \in Sessions :
    /\ Waiting(s) /\ toProto[s] # << >> =>
         Head(toProto[s]).kind = ProtoWaits[proto[s]]
    /\ nobody[s] \in DOMAIN NobodyWaits /\ toNobody[s] # << >> =>
         Head(toNobody[s]).kind = NobodyWaits[nobody[s]]

(* When proto turns to the client, nobody has finished with the request    *)
(* and nothing is left in the socketpair: no answer of one command can be  *)
(* taken for that of the next.                                             *)
Quiescent ==
  \A s \in Sessions :
    proto[s] \in {"arm", "read", "setData", "armData", "open", "transfer",
                 "setCtrl", "clear"}
      => nobody[s] = "recv" /\ toNobody[s] = << >> /\ toProto[s] = << >>

(* A session never lives on half: when nobody is gone, proto has ended, or *)
(* waits for an answer and will read the end of the stream.  (The listener *)
(* has counted the client out by then.)                                    *)
NoHalfSession ==
  \A s \in Sessions : NobodyGone(s) => ProtoGone(s) \/ Waiting(s)

(* Only a refused upload leaves its data connection behind; it also leaves *)
(* is_translating_data set.                                                *)
DataFdReleased ==
  \A s \in Sessions : proto[s] = "read" /\ ~isTrans[s] => ~dataFd[s]

(* A file transfer in progress is never cut by a timer, neither by its own *)
(* nor by one left over from the command loop: should SIGALRM come, it     *)
(* does not end the session.                                               *)
FileNotTimedOut ==
  \A s \in Sessions : proto[s] = "transfer" /\ cmd[s] \in Files => ~TimesOut(s)

(* A session that has ended, even between its PASV and the client's        *)
(* connection, gives the data port back to the others.                     *)
PortFreed == \A s \in Sessions : ProtoGone(s) ~> ~listening[s]

(* proto does not wait for nobody for ever, not even when its timer is     *)
(* disarmed (as a refused upload leaves it): an answer or the end of the   *)
(* stream comes, unless nobody itself waits for the client to connect.     *)
HandshakeEnds ==
  \A s \in Sessions : Waiting(s) ~> (~Waiting(s) \/ nobody[s] = "accept")

(* "The ip must be found", says the assertion of handle_sigchld.  Does not *)
(* hold in nobody, whose only child was never registered.                  *)
NobodyPidFound == \A s \in Sessions : nobody[s] # "abort"

(* "Data transfers that idle are disconnected", says upload_file.  Does    *)
(* not hold: the handler of the data timer only starts it again.           *)
StalledTransferDropped ==
  \A s \in Sessions :
    (proto[s] = "transfer" /\ cmd[s] \in Files) ~> proto[s] # "transfer"

(* A session whose client is idle times out.  Does not hold after a        *)
(* refused upload, which leaves is_translating_data and the handler of the *)
(* data timer behind.                                                      *)
IdleSessionDropped == \A s \in Sessions : proto[s] = "read" ~> proto[s] # "read"
=============================================================================
