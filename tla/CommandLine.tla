---------------------------- MODULE CommandLine -----------------------------
(* How proto gets its commands: readline over the stream of the client,    *)
(* str_trim_crlf, str_split, the table of do_command_map, clean_command.   *)
(* The client's bytes arrive in any portions; SIGALRM restarts the recv.   *)
EXTENDS Naturals, Sequences, SequencesExt

CONSTANTS
  LF, CR, SP,       \* the bytes the code looks for
  Letters,          \* the others
  UpperOf,          \* toupper: Letters -> Letters
  Handled,          \* the commands of ctrl_cmds with a handler
  Unimplemented,    \* and those without
  MaxLine,          \* the size of sess->command
  MaxField,         \* the size of sess->comm, and of sess->args right behind it
  MaxSent           \* bound on what a client sends

LineBytes == {LF, CR, SP} \cup Letters

ASSUME LineAssumption ==
  /\ LF # CR /\ LF # SP /\ CR # SP
  /\ MaxLine \in Nat \ {0, 1} /\ MaxField \in Nat \ {0}
  /\ MaxLine <= 2 * MaxField
  /\ \A c \in Handled \cup Unimplemented : c \in Seq(LineBytes) /\ Len(c) < MaxField

VARIABLES
  sent,       \* all the client has sent (history)
  inbox,      \* of which the socket still holds this
  closed,     \* the client has closed
  lines,      \* the lines readline has returned (history)
  command,    \* sess->command, up to the byte written last
  comm,       \* the string that begins at sess->comm
  args,       \* the string that begins at sess->args
  verdict,    \* what do_command_map made of it
  linePc      \* "readline", "execute", "clean", "exit" or "overrun"

lineVars == <<sent, inbox, closed, lines, command, comm, args, verdict, linePc>>

LineInit ==
  /\ sent = << >> /\ inbox = << >> /\ closed = FALSE
  /\ lines = << >> /\ command = << >>
  /\ comm = << >> /\ args = << >>
  /\ verdict = "none" /\ linePc = "readline"

ClientSends(b) ==
  /\ ~closed /\ Len(sent) < MaxSent
  /\ sent' = Append(sent, b) /\ inbox' = Append(inbox, b)
  /\ UNCHANGED <<closed, lines, command, comm, args, verdict, linePc>>

ClientShuts ==
  /\ ~closed /\ closed' = TRUE
  /\ UNCHANGED <<sent, inbox, lines, command, comm, args, verdict, linePc>>

(* recv_peek shows at most nleft bytes; what is taken from the socket ends *)
(* with the first line feed among them.                                    *)
Shown == LET nleft == MaxLine - 1 - Len(command) IN
  IF Len(inbox) <= nleft THEN inbox ELSE SubSeq(inbox, 1, nleft)

(* Mutant: everything shown is taken. *)
MutTaken == Shown

Taken == LET i == SelectInSeq(Shown, LAMBDA b : b = LF) IN
  IF i = 0 THEN Shown ELSE SubSeq(Shown, 1, i)

(* One turn of the loop of readline, which returns a line that is complete *)
(* or as long as the buffer allows.                                        *)
Readline ==
  /\ linePc = "readline" /\ inbox # << >>
  /\ inbox' = SubSeq(inbox, Len(Taken) + 1, Len(inbox))
  /\ command' = command \o Taken
  /\ IF Last(Taken) = LF \/ Len(command') = MaxLine - 1
     THEN linePc' = "execute" /\ lines' = Append(lines, command')
     ELSE UNCHANGED <<linePc, lines>>
  /\ UNCHANGED <<sent, closed, comm, args, verdict>>

(* End of stream: a line that has only begun is dropped with the session. *)
ReadlineEnds ==
  /\ linePc = "readline" /\ inbox = << >> /\ closed
  /\ linePc' = "exit"
  /\ UNCHANGED <<sent, inbox, closed, lines, command, comm, args, verdict>>

(* str_trim_crlf.  (On a line of nothing else it goes on to the byte       *)
(* before the buffer, the top byte of proto_fd, which is 0.)               *)
Trim(str) ==
  SubSeq(str, 1, SelectLastInSeq(str, LAMBDA b : b \notin {CR, LF}))

(* strncpy of n bytes over an older string puts no end behind them. *)
Over(old, new) == new \o SubSeq(old, Len(new) + 1, Len(old))

UpperCase(str) == [k \in DOMAIN str |-> IF str[k] \in Letters THEN UpperOf[str[k]] ELSE str[k]]

(* str_split at the first space, str_upper and the search of the table.    *)
(* Nothing bounds the copies.  A word that fills comm runs on into args:   *)
(* without a space its end stays there; with one the arguments are copied  *)
(* over it, and comm has no end before theirs.  Arguments that fill args   *)
(* overwrite user_uid and the fields after it; what the session does then  *)
(* is not described.                                                       *)
Execute ==
  LET str == Trim(command)
      p == SelectInSeq(str, LAMBDA b : b = SP)
      rest == SubSeq(str, p + 1, Len(str))
  IN
  /\ linePc = "execute"
  /\ \/ /\ p = 0 /\ Len(str) < MaxField
        /\ comm' = UpperCase(str) /\ UNCHANGED args
     \/ /\ p = 0 /\ Len(str) >= MaxField
        /\ comm' = UpperCase(str)
        /\ args' = UpperCase(SubSeq(str, MaxField + 1, Len(str)))
     \/ /\ p \in 1 .. MaxField
        /\ comm' = UpperCase(Over(comm, SubSeq(str, 1, p - 1)))
        /\ args' = rest
     \/ /\ p > MaxField
        /\ comm' = UpperCase(SubSeq(str, 1, MaxField) \o rest)
        /\ args' = UpperCase(rest)
  /\ verdict' = IF comm' \in Handled THEN "handler"
                ELSE IF comm' \in Unimplemented THEN "502" ELSE "500"
  /\ linePc' = IF Len(args') < MaxField THEN "clean" ELSE "overrun"
  /\ UNCHANGED <<sent, inbox, closed, lines, command>>

(* Mutant: only the line itself is cleared. *)
MutCleanCommand ==
  /\ linePc = "clean"
  /\ command' = << >> /\ verdict' = "none" /\ linePc' = "readline"
  /\ UNCHANGED <<sent, inbox, closed, lines, comm, args>>

(* clean_command: the three buffers are filled with 0. *)
CleanCommand ==
  /\ linePc = "clean"
  /\ command' = << >> /\ comm' = << >> /\ args' = << >>
  /\ verdict' = "none" /\ linePc' = "readline"
  /\ UNCHANGED <<sent, inbox, closed, lines>>

LineNext ==
  \/ \E b \in LineBytes : ClientSends(b)
  \/ ClientShuts \/ Readline \/ ReadlineEnds \/ Execute \/ CleanCommand

LineSpec == LineInit /\ [][LineNext]_lineVars
-----------------------------------------------------------------------------
(* However the bytes arrive, readline neither loses nor repeats one, and   *)
(* cuts the stream where a line ends or is too long, nowhere else.         *)
StreamCut ==
  /\ sent = FlattenSeq(lines) \o (IF linePc \in {"readline", "exit"} THEN command ELSE << >>) \o inbox
  /\ \A k \in DOMAIN lines :
       /\ Len(lines[k]) \in 1 .. MaxLine - 1
       /\ \A i \in 1 .. Len(lines[k]) - 1 : lines[k][i] # LF
       /\ Last(lines[k]) = LF \/ Len(lines[k]) = MaxLine - 1

(* What is executed is the line just read and nothing of an earlier one,   *)
(* although neither comm nor args is given an end or is always written:    *)
(* w bytes without a space, a space, the arguments up to q, the end of     *)
(* line.  A word too long for comm is no command, whatever its arguments   *)
(* have made of it; only arguments too long for args are written behind.   *)
CommandIsLine == linePc \in {"clean", "overrun"} =>
  LET line == Last(lines) IN
  \E q \in 0 .. Len(line) : \E w \in 0 .. q :
    /\ \A i \in q + 1 .. Len(line) : line[i] \in {CR, LF}
    /\ q > 0 => line[q] \notin {CR, LF}
    /\ \A i \in 1 .. w : line[i] # SP
    /\ w < q => line[w + 1] = SP
    /\ w < MaxField => /\ comm = UpperCase(SubSeq(line, 1, w))
                       /\ args = SubSeq(line, w + 2, q)
    /\ w >= MaxField => verdict = "500"
    /\ linePc = "overrun" <=> w < MaxField /\ q - w > MaxField
=============================================================================
