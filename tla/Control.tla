------------------------------- MODULE Control ------------------------------
(* The commands of command_map.c that answer at once or work on the        *)
(* directory tree, run by several sessions (the proto processes) on the    *)
(* same directories.  A handler is cut between the system calls at which   *)
(* another session can be noticed: mkdir and getcwd of do_mkd, readdir and *)
(* each lstat of the listings.  PORT, PASV and the data connection are in  *)
(* Session, the contents of files in Transfer.                             *)
(*                                                                         *)
(* Paths are single names, relative to the working directory.  Permissions *)
(* may refuse what the tree allows, and do not change during a command.    *)
EXTENDS Integers, Sequences, FiniteSets

CONSTANTS
  Sessions,
  Users,      \* the accounts besides root
  Names,      \* the names of files and directories
  Dirs,       \* the directories besides Top
  Files,
  Top,        \* the root of the tree, and every home directory
  Root,       \* the account of the server
  LongNames,  \* names that make a path too long for getcwd's tmp[1024]
  None

ASSUME ControlAssumption ==
  /\ Root \notin Users
  /\ Dirs \cap Files = {}
  /\ Top \notin Dirs \cup Files
  /\ None \notin Dirs \cup Files \cup Names \cup {Top}
  /\ LongNames \subseteq Names

VARIABLES
  entry,      \* directory -> name -> node, or None
  user,       \* user_uid
  uid,        \* the effective user of the process
  gid,        \* the account its effective group belongs to
  cwd,        \* the path of directories from Top to the working directory
  rnfr,       \* rnfr_name, or None
  pc,         \* the next step
  todo,       \* names read by readdir and not yet looked at
  due,        \* final replies the client still waits for
  disturbed   \* another session has changed the tree since the command began

session == <<user, uid, gid, cwd, rnfr>>
vars == <<entry, session, pc, todo, due, disturbed>>

Nodes == Dirs \cup Files
Accounts == Users \cup {Root}
Here(s) == cwd[s][Len(cwd[s])]
At(s, n) == entry[Here(s)][n]

Linked(d) == d = Top \/ \E p \in Dirs \cup {Top}, n \in Names : entry[p][n] = d
InUse(d) == Linked(d) \/ \E s \in Sessions : \E k \in DOMAIN cwd[s] : cwd[s][k] = d
Empty(d) == \A n \in Names : entry[d][n] = None

(* getcwd fails in a directory that has been removed, or too far down: the *)
(* length of the path is that of the names the directories have now.       *)
TooLong(s) == \E k \in 2 .. Len(cwd[s]), n \in LongNames : entry[cwd[s][k - 1]][n] = cwd[s][k]
Gets(s) == Linked(Here(s)) /\ ~TooLong(s)

(* How a session ends: QUIT, no data connection, strcmp of the NULL that    *)
(* crypt returns for a locked account, or ERR_EXIT, by the call that fails. *)
Errors == {"chdir", "getcwd", "opendir", "lstat", "fstat", "lseek"}
Ended == {"quit", "data", "crash"} \cup Errors

-----------------------------------------------------------------------------
Set(f, s, v) == f' = [f EXCEPT ![s] = v]

Init ==
  /\ entry = [d \in Dirs \cup {Top} |-> [n \in Names |-> None]]
  /\ user = [s \in Sessions |-> Root]        \* session_init: user_uid = 0
  /\ uid = [s \in Sessions |-> Root] /\ gid = [s \in Sessions |-> Root]
  /\ cwd = [s \in Sessions |-> <<Top>>]
  /\ rnfr = [s \in Sessions |-> None]
  /\ pc = [s \in Sessions |-> "read"]
  /\ todo = [s \in Sessions |-> {}]
  /\ due = [s \in Sessions |-> 0]
  /\ disturbed = [s \in Sessions |-> FALSE]

(* The process has exited, and its place is free for another session.      *)
Gone(s) ==
  /\ Set(user, s, Root) /\ Set(uid, s, Root) /\ Set(gid, s, Root)
  /\ Set(cwd, s, <<Top>>) /\ Set(rnfr, s, None) /\ Set(todo, s, {})

(* The commands without effect here, and those with an empty body. *)
Simple == [TYPE |-> 200, PORT |-> 200, SYST |-> 215, FEAT |-> 211, NOOP |-> 220, REST |-> 350]
Silent == {"STRU", "MODE", "SITE", "ABOR", "SIZE", "STAT", "HELP"}

(* RETR of what is no regular file replies 550 and goes on.                *)
Twice == {"RETR of a directory"}

(* How many final replies a command ought to have, by its handler's text. *)
Wanted(c) == IF c \in Silent THEN 0 ELSE IF c \in Twice THEN 2 ELSE 1

(* The replies of a list that end a command: all but 1xx. *)
Finals(replies) == Cardinality({k \in DOMAIN replies : replies[k] >= 200})

(* Command c is read; it sends replies, and goes on at next. *)
Begin(s, c, replies, next) ==
  /\ pc[s] = "read" /\ Set(pc, s, next)
  /\ Set(due, s, Wanted(c) - Finals(replies))

(* The rest of a command. *)
Continue(s, replies, next) ==
  Set(due, s, due[s] - Finals(replies)) /\ Set(pc, s, next)

(* What a command does to the tree, seen by the sessions in the middle of  *)
(* one of theirs.                                                          *)
Disturb(s) ==
  disturbed' = [t \in Sessions |-> t # s /\ (disturbed[t] \/ pc[t] \in {"mkd", "list"})]
Keep(s) == UNCHANGED entry /\ Set(disturbed, s, FALSE)
Link(s, p, n, x) ==
  /\ entry' = [entry EXCEPT ![p][n] = x]
  /\ Disturb(s)

(* A handler that changes neither the tree nor the session, and one that   *)
(* ends the session.                                                       *)
Reply(s, c, replies) ==
  /\ Begin(s, c, replies, "read")
  /\ Keep(s) /\ UNCHANGED <<session, todo>>
End(s, c, replies, how) ==
  /\ how \in Ended /\ Begin(s, c, replies, how)
  /\ Keep(s) /\ Gone(s)
-----------------------------------------------------------------------------
(* The accounts: getpwnam, then getpwuid, getspnam and crypt. *)
User(s) ==
  \/ Reply(s, "USER", <<530>>)
  \/ \E u \in Accounts :
       /\ Begin(s, "USER", <<331>>, "read")
       /\ Set(user, s, u)
       /\ Keep(s) /\ UNCHANGED <<uid, gid, cwd, rnfr, todo>>

(* Only root can read the shadow passwords.  The home directory may be     *)
(* missing, and the account locked.                                        *)
ReadsShadow(s) == uid[s] = Root

Pass(s) ==
  \/ Reply(s, "PASS", <<530>>)
  \/ \E how \in {"crash", "chdir"} : ReadsShadow(s) /\ End(s, "PASS", << >>, how)
  \/ /\ ReadsShadow(s)
     /\ Begin(s, "PASS", <<230>>, "read") /\ Set(cwd, s, <<Top>>)
     /\ Set(uid, s, user[s]) /\ Set(gid, s, user[s])
     /\ Keep(s) /\ UNCHANGED <<user, rnfr, todo>>
-----------------------------------------------------------------------------
(* Directories. *)
Move(s, c, path) ==
  /\ Begin(s, c, <<250>>, "read")
  /\ Set(cwd, s, path)
  /\ Keep(s) /\ UNCHANGED <<user, uid, gid, rnfr, todo>>

Cwd(s, n) ==
  \/ At(s, n) \in Dirs /\ Move(s, "CWD", Append(cwd[s], At(s, n)))
  \/ Reply(s, "CWD", <<550>>)

(* Mutant: the root directory has a parent. *)
MutCdup(s) == Move(s, "CDUP", SubSeq(cwd[s], 1, Len(cwd[s]) - 1))

Cdup(s) ==
  Move(s, "CDUP", IF Len(cwd[s]) = 1 THEN cwd[s] ELSE SubSeq(cwd[s], 1, Len(cwd[s]) - 1))

Pwd(s) == Reply(s, "PWD", IF Gets(s) THEN <<257>> ELSE <<504>>)

CanCreate(p, n) == Linked(p) /\ entry[p][n] = None

(* Mutant: no return after "Create directory operation failed." *)
MutMkd(s, n) ==
  IF CanCreate(Here(s), n)
  THEN \E d \in Dirs :
         /\ ~InUse(d)
         /\ Begin(s, "MKD", << >>, "mkd")
         /\ Link(s, Here(s), n, d) /\ UNCHANGED <<session, todo>>
  ELSE Begin(s, "MKD", <<550>>, "mkd") /\ Keep(s) /\ UNCHANGED <<session, todo>>

(* An absolute path needs no getcwd for the answer. *)
Mkd(s, n) ==
  \/ Reply(s, "MKD", <<550>>)
  \/ \E absolute \in BOOLEAN, d \in Dirs :
       LET p == IF absolute THEN Top ELSE Here(s) IN
       /\ CanCreate(p, n) /\ ~InUse(d)
       /\ IF absolute THEN Begin(s, "MKD", <<257>>, "read")
                      ELSE Begin(s, "MKD", << >>, "mkd")
       /\ Link(s, p, n, d) /\ UNCHANGED <<session, todo>>

MkdGetcwd(s) ==
  /\ pc[s] = "mkd"
  /\ \/ Gets(s) /\ Continue(s, <<257>>, "read") /\ UNCHANGED <<session, todo>>
     \/ ~Gets(s) /\ Continue(s, << >>, "getcwd") /\ Gone(s)
  /\ UNCHANGED <<entry, disturbed>>

(* rmdir. *)
Removable(s, n) == At(s, n) \in Dirs /\ Empty(At(s, n))

Remove(s, c, n, ok) ==
  \/ /\ ok /\ Begin(s, c, <<250>>, "read")
     /\ Link(s, Here(s), n, None) /\ UNCHANGED <<session, todo>>
  \/ Reply(s, c, <<550>>)

Rmd(s, n) == Remove(s, "RMD", n, Removable(s, n))
Dele(s, n) == Remove(s, "DELE", n, At(s, n) \in Files)
-----------------------------------------------------------------------------
Rnfr(s, n) ==
  /\ Begin(s, "RNFR", <<350>>, "read")
  /\ Set(rnfr, s, n)
  /\ Keep(s) /\ UNCHANGED <<user, uid, gid, cwd, todo>>

(* rename: a directory replaces an empty directory, a file a file.  When   *)
(* it fails, rnfr_name is kept.                                            *)
CanRename(s, a, b) ==
  LET x == At(s, a) IN
  /\ x # None
  /\ \/ a = b \/ At(s, b) = None
     \/ x \in Files /\ At(s, b) \in Files
     \/ x \in Dirs /\ At(s, b) \in Dirs /\ Empty(At(s, b))

Rnto(s, b) ==
  LET a == rnfr[s] IN
  \/ a = None /\ Reply(s, "RNTO", <<503>>)
  \/ a # None /\ Reply(s, "RNTO", <<550>>)
  \/ /\ a # None /\ CanRename(s, a, b)
     /\ Begin(s, "RNTO", <<250>>, "read")
     /\ entry' = [entry EXCEPT ![Here(s)] =
          [n \in Names |-> IF n = b THEN @[a] ELSE IF n = a THEN None ELSE @[n]]]
     /\ Disturb(s)
     /\ Set(rnfr, s, None)
     /\ UNCHANGED <<user, uid, gid, cwd, todo>>
-----------------------------------------------------------------------------
(* get_trans_data_fd exits when there is no data connection to be had. *)
NoData(s) == \E c \in {"LIST", "RETR", "STOR"}, replies \in {<<425>>, << >>} :
  End(s, c, replies, "data")

(* upload_file is refused or transfers, well or not, or lseek fails at the  *)
(* restart offset; a new file stays.                                        *)
Uploads == {<<553>>, <<150, 226>>, <<150, 426>>, <<150, 451>>}

Uploaded(s) ==
  \/ /\ \E replies \in Uploads : Begin(s, "STOR", replies, "read")
     /\ UNCHANGED <<session, todo>>
  \/ Begin(s, "STOR", << >>, "lseek") /\ Gone(s)

Store(s, n) ==
  \/ Reply(s, "STOR", <<553>>)
  \/ At(s, n) \in Files /\ Uploaded(s) /\ Keep(s)
  \/ \E f \in Files :
       /\ CanCreate(Here(s), n) /\ ~Linked(f)
       /\ Uploaded(s) /\ Link(s, Here(s), n, f)

(* download_file: what cannot be opened is answered, and then fstat fails. *)
Downloads == {<<150, 226>>, <<150, 550>>}
DirDownloads == {<<550, 150, 226>>, <<550, 150, 550>>}

Retr(s, n) ==
  \/ End(s, "RETR", <<550>>, "fstat")
  \/ /\ At(s, n) \in Files
     /\ \/ \E replies \in Downloads : Reply(s, "RETR", replies)
        \/ End(s, "RETR", <<150>>, "lseek")
  \/ \E replies \in DirDownloads :
       At(s, n) \in Dirs /\ Reply(s, "RETR of a directory", replies)

(* trans_list, trans_list_simple: opendir, for which the directory must be *)
(* readable, readdir, then lstat of each entry, which must be there.       *)
List(s) ==
  \/ End(s, "LIST", <<150>>, "opendir")
  \/ /\ Begin(s, "LIST", <<150>>, "list")
     /\ Set(todo, s, {n \in Names : At(s, n) # None})
     /\ Keep(s) /\ UNCHANGED session

ListEntry(s) == \E n \in todo[s] :
  /\ pc[s] = "list"
  /\ \/ /\ At(s, n) # None /\ Continue(s, << >>, "list")
        /\ Set(todo, s, todo[s] \ {n}) /\ UNCHANGED session
     \/ At(s, n) = None /\ Continue(s, << >>, "lstat") /\ Gone(s)
  /\ UNCHANGED <<entry, disturbed>>

(* Mutant: no "Directory send OK." *)
MutListEnd(s) ==
  /\ pc[s] = "list" /\ todo[s] = {}
  /\ Continue(s, << >>, "read")
  /\ UNCHANGED <<entry, session, todo, disturbed>>

ListEnd(s) ==
  /\ pc[s] = "list" /\ todo[s] = {}
  /\ Continue(s, <<226>>, "read")
  /\ UNCHANGED <<entry, session, todo, disturbed>>
-----------------------------------------------------------------------------
(* The remaining commands, those without a handler, and the unknown ones. *)
Other(s) ==
  \/ \E c \in DOMAIN Simple : Reply(s, c, <<Simple[c]>>)
  \/ Reply(s, "TYPE", <<500>>)
  \/ \E c \in Silent : Reply(s, c, << >>)
  \/ Reply(s, "ACCT", <<502>>)        \* and SMNT, REIN, STOU, ALLO
  \/ Reply(s, "UNKNOWN", <<500>>)

Quit(s) == End(s, "QUIT", <<221>>, "quit")

(* A session that has ended makes room for another one. *)
Renew(s) ==
  /\ pc[s] \in Ended
  /\ Set(pc, s, "read") /\ Set(due, s, 0)
  /\ Keep(s) /\ UNCHANGED <<session, todo>>

Step(s) ==
  \/ User(s) \/ Pass(s) \/ Cdup(s) \/ Pwd(s)
  \/ MkdGetcwd(s) \/ NoData(s) \/ List(s) \/ ListEntry(s) \/ ListEnd(s)
  \/ Other(s) \/ Quit(s) \/ Renew(s)
  \/ \E n \in Names :
       \/ Cwd(s, n) \/ Mkd(s, n) \/ Rmd(s, n) \/ Dele(s, n)
       \/ Rnfr(s, n) \/ Rnto(s, n) \/ Store(s, n) \/ Retr(s, n)

Next == \E s \in Sessions : Step(s)

Spec == Init /\ [][Next]_vars
-----------------------------------------------------------------------------
(* Variables range over what the code can put into them. *)
TypeOK ==
  /\ entry \in [Dirs \cup {Top} -> [Names -> Nodes \cup {None}]]
  /\ user \in [Sessions -> Accounts]
  /\ uid \in [Sessions -> Accounts] /\ gid \in [Sessions -> Accounts]
  /\ cwd \in [Sessions -> Seq(Dirs \cup {Top}) \ {<< >>}]
  /\ rnfr \in [Sessions -> Names \cup {None}]
  /\ pc \in [Sessions -> {"read", "mkd", "list"} \cup Ended]
  /\ todo \in [Sessions -> SUBSET Names]
  /\ due \in [Sessions -> Int]
  /\ disturbed \in [Sessions -> BOOLEAN]

(* The client and the server stay in step: when the next command is read,  *)
(* the one before has had exactly one final reply, whatever other sessions *)
(* did to the directories meanwhile.  Only the commands with an empty body *)
(* have none, and RETR of what is no regular file has two.                 *)
OneAnswer == \A s \in Sessions : pc[s] = "read" => due[s] = 0

(* The two ERR_EXITs that other sessions can bring about are the ones      *)
(* reached through the tree: an entry read by readdir is gone at its lstat *)
(* only when another session changed the tree during this very command,    *)
(* and so it is with do_mkd's getcwd, but for a path too long for tmp.     *)
(* All other ends are the session's own.                                   *)
FailsByOthers == [][\A s \in Sessions :
  /\ pc[s] = "list" /\ pc'[s] = "lstat" => disturbed[s]
  /\ pc[s] = "mkd" /\ pc'[s] = "getcwd" => disturbed[s] \/ TooLong(s)]_vars
=============================================================================
