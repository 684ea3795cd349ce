------------------------- MODULE CommandLineProofs --------------------------
(* CommandLine for all letters, commands, sizes of the buffers and ways    *)
(* the bytes arrive.                                                       *)
EXTENDS CommandLine, RecursionLemmas

LineTypeOK ==
  /\ sent \in Seq(LineBytes) /\ inbox \in Seq(LineBytes) /\ command \in Seq(LineBytes)
  /\ lines \in Seq(Seq(LineBytes))
  /\ linePc \in {"readline", "execute", "clean", "exit", "overrun"}

(* The line that is being read is not complete yet. *)
Pending == linePc \in {"readline", "exit"} =>
  Len(command) < MaxLine - 1 /\ \A i \in 1 .. Len(command) : command[i] # LF

(* The line that is being executed is the last one. *)
Complete == linePc \in {"execute", "clean", "overrun"} => lines # << >> /\ Last(lines) = command

(* Between two lines the buffers are empty. *)
Emptied == linePc \notin {"clean", "overrun"} => comm = << >> /\ args = << >>

IInv == LineTypeOK /\ StreamCut /\ Pending /\ Complete /\ Emptied /\ CommandIsLine

(* A line may be returned: it has no line feed but at its end, and has one *)
(* or fills the buffer.                                                    *)
Cut(line) ==
  /\ Len(line) \in 1 .. MaxLine - 1
  /\ \A i \in 1 .. Len(line) - 1 : line[i] # LF
  /\ Last(line) = LF \/ Len(line) = MaxLine - 1

LEMMA IInvInit == LineInit => IInv
<1> SUFFICES ASSUME LineInit PROVE IInv
  OBVIOUS
<1>1. LineTypeOK
  BY DEF LineInit, LineTypeOK
<1>2. FlattenSeq(lines) = << >>
  BY DEF LineInit, FlattenSeq
<1>3. StreamCut
  BY <1>2 DEF LineInit, StreamCut
<1> QED
  BY <1>1, <1>3, LineAssumption DEF LineInit, IInv, Pending, Complete, Emptied, CommandIsLine

(* What one turn of readline takes from the socket. *)
LEMMA TakenIs ==
  ASSUME IInv, linePc = "readline", inbox # << >>
  PROVE  \E t \in 1 .. Len(inbox) :
           /\ Taken = SubSeq(inbox, 1, t) /\ t + Len(command) <= MaxLine - 1
           /\ \A i \in 1 .. t - 1 : inbox[i] # LF
<1> DEFINE nleft == MaxLine - 1 - Len(command)
<1>1. inbox \in Seq(LineBytes) /\ Len(inbox) \in Nat \ {0} /\ nleft \in Nat \ {0}
  BY LineAssumption DEF IInv, LineTypeOK, Pending
<1>2. PICK s \in 1 .. Len(inbox) : Shown = SubSeq(inbox, 1, s) /\ s <= nleft
  <2>1. CASE Len(inbox) <= nleft
    BY <1>1, <2>1, SubSeqFull DEF Shown
  <2>2. CASE ~(Len(inbox) <= nleft)
    BY <1>1, <2>2 DEF Shown
  <2> QED
    BY <2>1, <2>2
<1>3. /\ Shown \in Seq(LineBytes) /\ Len(Shown) = s
      /\ \A i \in 1 .. s : Shown[i] = inbox[i]
  BY <1>1, <1>2
<1>4. s + Len(command) <= MaxLine - 1
  <2>1. Len(command) \in Nat /\ MaxLine \in Nat
    BY LineAssumption DEF IInv, LineTypeOK
  <2> QED
    BY <1>1, <1>2, <2>1
<1> DEFINE I == {i \in 1 .. Len(Shown) : Shown[i] = LF}
<1>5. CASE I = {}
  <2>1. Taken = Shown
    BY <1>5 DEF Taken, SelectInSeq
  <2>2. \A i \in 1 .. s - 1 : inbox[i] # LF
    BY <1>3, <1>5
  <2> QED
    BY <1>2, <1>4, <2>1, <2>2
<1>6. CASE I # {}
  <2> DEFINE m == Min(I)
  <2>1. m \in I /\ \A i \in I : m <= i
    <3>1. I \in SUBSET Nat
      OBVIOUS
    <3> HIDE DEF I
    <3> QED
      BY <1>6, <3>1, MinIsLeast
  <2>2. Taken = SubSeq(Shown, 1, m)
    <3>1. m # 0
      BY <2>1
    <3> QED
      BY <1>6, <3>1 DEF Taken, SelectInSeq
  <2> HIDE DEF m
  <2>3. m \in 1 .. s
    BY <1>3, <2>1
  <2>4. \A i \in 1 .. m - 1 : inbox[i] # LF
    BY <1>3, <2>1, <2>3
  <2>5. SubSeq(Shown, 1, m) = SubSeq(inbox, 1, m)
    BY <1>1, <1>2, <2>3, SubSeqOfSubSeq
  <2>6. m \in 1 .. Len(inbox) /\ m + Len(command) <= MaxLine - 1
    <3>1. Len(command) \in Nat /\ MaxLine \in Nat
      BY LineAssumption DEF IInv, LineTypeOK
    <3> QED
      BY <1>1, <1>4, <2>3, <3>1
  <2> QED
    BY <2>2, <2>4, <2>5, <2>6
<1> QED
  BY <1>5, <1>6

(* The turn itself: bytes move from the socket to the line. *)
LEMMA ReadlineMoves ==
  ASSUME IInv, Readline
  PROVE  /\ command' \in Seq(LineBytes) /\ inbox' \in Seq(LineBytes)
         /\ (FlattenSeq(lines) \o command) \o inbox = (FlattenSeq(lines) \o command') \o inbox'
         /\ Len(command') \in 1 .. MaxLine - 1
         /\ \A i \in 1 .. Len(command') - 1 : command'[i] # LF
         /\ Last(Taken) = Last(command')
         /\ FlattenSeq(lines) \in Seq(LineBytes)
         /\ FlattenSeq(Append(lines, command')) = FlattenSeq(lines) \o command'
<1>1. /\ linePc = "readline" /\ inbox # << >>
      /\ inbox' = SubSeq(inbox, Len(Taken) + 1, Len(inbox))
      /\ command' = command \o Taken
  BY DEF Readline
<1>2. /\ inbox \in Seq(LineBytes) /\ command \in Seq(LineBytes)
      /\ lines \in Seq(Seq(LineBytes)) /\ << >> \in Seq(LineBytes)
  BY DEF IInv, LineTypeOK
<1>3. PICK t \in 1 .. Len(inbox) :
        /\ Taken = SubSeq(inbox, 1, t) /\ t + Len(command) <= MaxLine - 1
        /\ \A i \in 1 .. t - 1 : inbox[i] # LF
  BY <1>1, TakenIs
<1>4. /\ Taken \in Seq(LineBytes) /\ Len(Taken) = t
      /\ \A i \in 1 .. t : Taken[i] = inbox[i]
  BY <1>2, <1>3
<1>5. inbox' \in Seq(LineBytes) /\ inbox = Taken \o inbox'
  BY <1>1, <1>2, <1>3, <1>4, SMTT(30)
<1>6. command' \in Seq(LineBytes) /\ Len(command') = Len(command) + t
      /\ \A i \in 1 .. Len(command) + t :
           command'[i] = IF i <= Len(command) THEN command[i] ELSE Taken[i - Len(command)]
  <2> DEFINE c == command \o Taken
  <2>1. c \in Seq(LineBytes) /\ Len(c) = Len(command) + Len(Taken)
        /\ \A i \in 1 .. Len(command) + Len(Taken) :
             c[i] = IF i <= Len(command) THEN command[i] ELSE Taken[i - Len(command)]
    BY <1>2, <1>4, ConcatProperties
  <2> HIDE DEF c
  <2>2. command' = c
    BY <1>1 DEF c
  <2> QED
    BY <1>4, <2>1, <2>2
<1>7. /\ FlattenSeq(lines) \in Seq(LineBytes)
      /\ FlattenSeq(Append(lines, command')) = FlattenSeq(lines) \o command'
  BY <1>2, <1>6, FlattenAppend
<1>8. (FlattenSeq(lines) \o command) \o inbox = (FlattenSeq(lines) \o command') \o inbox'
  <2> DEFINE f == FlattenSeq(lines)
             t2 == Taken
             r == inbox'
  <2>1. f \in Seq(LineBytes) /\ t2 \in Seq(LineBytes) /\ r \in Seq(LineBytes)
        /\ command \in Seq(LineBytes)
    BY <1>2, <1>4, <1>5, <1>7
  <2>2. inbox = t2 \o r /\ command' = command \o t2
    BY <1>1, <1>5
  <2> HIDE DEF f, t2, r
  <2>3. (f \o command) \o (t2 \o r) = (f \o (command \o t2)) \o r
    BY <2>1, SMTT(60)
  <2>4. (f \o command) \o inbox = (f \o command') \o r
    <3>1. (f \o command) \o inbox = (f \o command) \o (t2 \o r)
      BY <2>2
    <3>2. (f \o command') \o r = (f \o (command \o t2)) \o r
      BY <2>2
    <3> QED
      BY <2>3, <3>1, <3>2, Zenon
  <2> QED
    BY <2>4, Zenon DEF f, r
<1>9. Len(command') \in 1 .. MaxLine - 1
  <2>1. Len(command) \in Nat /\ t \in Nat \ {0} /\ MaxLine \in Nat
    BY <1>2, <1>3, LineAssumption
  <2> QED
    BY <1>3, <1>6, <2>1
<1>10. \A i \in 1 .. Len(command') - 1 : command'[i] # LF
  <2>1. Len(command) \in Nat /\ t \in Nat /\ \A i \in 1 .. Len(command) : command[i] # LF
    BY <1>1, <1>2, <1>3 DEF IInv, Pending
  <2> SUFFICES ASSUME NEW i \in 1 .. Len(command) + t - 1 PROVE command'[i] # LF
    BY <1>6
  <2>2. CASE i <= Len(command)
    BY <1>6, <2>1, <2>2
  <2>3. CASE ~(i <= Len(command))
    <3>1. i - Len(command) \in 1 .. t - 1 /\ i \in 1 .. Len(command) + t
      BY <2>1, <2>3
    <3>2. command'[i] = Taken[i - Len(command)]
      BY <1>6, <2>3, <3>1
    <3>3. i - Len(command) \in 1 .. t
      BY <2>1, <3>1
    <3> QED
      BY <1>3, <1>4, <3>1, <3>2, <3>3
  <2> QED
    BY <2>2, <2>3
<1>11. Last(Taken) = Last(command')
  <2>1. Len(command) \in Nat /\ t \in Nat \ {0}
    BY <1>2, <1>3
  <2> QED
    BY <1>4, <1>6, <2>1 DEF Last
<1> QED
  BY <1>5, <1>6, <1>7, <1>8, <1>9, <1>10, <1>11

LEMMA ReadlineStep ==
  ASSUME IInv, Readline
  PROVE  IInv'
<1>1. /\ linePc = "readline"
      /\ IF Last(Taken) = LF \/ Len(command') = MaxLine - 1
         THEN linePc' = "execute" /\ lines' = Append(lines, command')
         ELSE linePc' = linePc /\ lines' = lines
      /\ UNCHANGED <<sent, closed, comm, args, verdict>>
  BY DEF Readline
<1>2. /\ command' \in Seq(LineBytes) /\ inbox' \in Seq(LineBytes)
      /\ (FlattenSeq(lines) \o command) \o inbox = (FlattenSeq(lines) \o command') \o inbox'
      /\ Len(command') \in 1 .. MaxLine - 1
      /\ \A i \in 1 .. Len(command') - 1 : command'[i] # LF
      /\ Last(Taken) = Last(command')
      /\ FlattenSeq(lines) \in Seq(LineBytes)
      /\ FlattenSeq(Append(lines, command')) = FlattenSeq(lines) \o command'
  BY ReadlineMoves
<1>3. sent' = (FlattenSeq(lines) \o command') \o inbox' /\ sent \in Seq(LineBytes)
  BY <1>1, <1>2 DEF IInv, StreamCut, LineTypeOK
<1>4. Emptied' /\ CommandIsLine'
  BY <1>1 DEF IInv, Emptied, CommandIsLine
<1>5. lines \in Seq(Seq(LineBytes))
  BY DEF IInv, LineTypeOK
<1>6. CASE linePc' = "execute"
  <2>1. lines' = Append(lines, command') /\ (Last(command') = LF \/ Len(command') = MaxLine - 1)
    BY <1>1, <1>2, <1>6
  <2>2. /\ lines' \in Seq(Seq(LineBytes)) /\ Len(lines') = Len(lines) + 1
        /\ Len(lines) \in Nat
        /\ \A k \in 1 .. Len(lines) : lines'[k] = lines[k]
        /\ lines'[Len(lines) + 1] = command' /\ lines' # << >>
    BY <1>2, <1>5, <2>1, AppendProperties
  <2>3. LineTypeOK'
    BY <1>1, <1>2, <1>3, <1>6, <2>2 DEF LineTypeOK
  <2>4. sent' = (FlattenSeq(lines') \o << >>) \o inbox'
    <3>1. FlattenSeq(lines') = FlattenSeq(lines) \o command' /\ FlattenSeq(lines') \in Seq(LineBytes)
      BY <1>2, <2>1, ConcatProperties
    <3> QED
      BY <1>3, <3>1, ConcatEmptySeq
  <2>5. \A k \in DOMAIN lines' : Cut(lines'[k])
    <3>1. \A k \in 1 .. Len(lines) : Cut(lines[k])
      BY <1>5 DEF IInv, StreamCut, Cut
    <3>2. Cut(command')
      BY <1>2, <2>1 DEF Cut
    <3>3. DOMAIN lines' = 1 .. Len(lines) + 1
      BY <2>2
    <3> QED
      BY <2>2, <3>1, <3>2, <3>3, SMTT(30)
  <2>6. StreamCut'
    BY <1>6, <2>4, <2>5 DEF StreamCut, Cut
  <2>7. Complete' /\ Pending'
    BY <1>6, <2>2 DEF Complete, Pending, Last
  <2> QED
    BY <1>4, <2>3, <2>6, <2>7 DEF IInv
<1>7. CASE linePc' # "execute"
  <2>1. linePc' = "readline" /\ lines' = lines /\ Last(command') # LF /\ Len(command') # MaxLine - 1
    BY <1>1, <1>2, <1>7
  <2>2. LineTypeOK'
    BY <1>1, <1>2, <1>3, <1>5, <2>1 DEF LineTypeOK
  <2>3. StreamCut'
    BY <1>3, <2>1 DEF IInv, StreamCut
  <2>4. Pending'
    <3>1. Len(command') \in Nat /\ MaxLine \in Nat /\ Len(command') < MaxLine - 1
      BY <1>2, <2>1, LineAssumption
    <3> QED
      BY <1>2, <2>1, <3>1 DEF Pending, Last
  <2>5. Complete'
    BY <2>1 DEF Complete
  <2> QED
    BY <1>4, <2>2, <2>3, <2>4, <2>5 DEF IInv
<1> QED
  BY <1>6, <1>7

(* str_trim_crlf cuts the line before its end. *)
LEMMA TrimIs ==
  ASSUME NEW str \in Seq(LineBytes)
  PROVE  \E q \in 0 .. Len(str) :
           /\ Trim(str) = SubSeq(str, 1, q)
           /\ \A i \in q + 1 .. Len(str) : str[i] \in {CR, LF}
           /\ q > 0 => str[q] \notin {CR, LF}
<1> DEFINE I == {i \in 1 .. Len(str) : str[i] \notin {CR, LF}}
<1>1. Len(str) \in Nat
  OBVIOUS
<1>2. CASE I = {}
  <2>1. Trim(str) = SubSeq(str, 1, 0)
    BY <1>2 DEF Trim, SelectLastInSeq
  <2>2. \A i \in 1 .. Len(str) : str[i] \in {CR, LF}
    BY <1>2
  <2> QED
    BY <1>1, <2>1, <2>2
<1>3. CASE I # {}
  <2> DEFINE m == Max(I)
  <2>1. m \in I /\ \A i \in I : i <= m
    <3>1. I \in SUBSET (0 .. Len(str))
      OBVIOUS
    <3> HIDE DEF I
    <3> QED
      BY <1>1, <1>3, <3>1, MaxIsGreatest
  <2>2. Trim(str) = SubSeq(str, 1, m)
    BY <1>3 DEF Trim, SelectLastInSeq
  <2> HIDE DEF m
  <2>3. /\ \A i \in m + 1 .. Len(str) : str[i] \in {CR, LF}
        /\ str[m] \notin {CR, LF}
    BY <1>1, <2>1
  <2> QED
    BY <1>1, <2>1, <2>2, <2>3
<1> QED
  BY <1>2, <1>3

(* str_split cuts a string at its first space. *)
LEMMA SplitIs ==
  ASSUME NEW str \in Seq(LineBytes)
  PROVE  LET p == SelectInSeq(str, LAMBDA b : b = SP) IN
         /\ p \in 0 .. Len(str)
         /\ p = 0 => \A i \in 1 .. Len(str) : str[i] # SP
         /\ p > 0 => str[p] = SP /\ \A i \in 1 .. p - 1 : str[i] # SP
<1> DEFINE p == SelectInSeq(str, LAMBDA b : b = SP)
           I == {i \in 1 .. Len(str) : str[i] = SP}
<1>1. CASE I = {}
  <2>1. p = 0
    BY <1>1 DEF SelectInSeq
  <2>2. \A i \in 1 .. Len(str) : str[i] # SP
    BY <1>1
  <2> HIDE DEF p
  <2> QED
    BY <2>1, <2>2 DEF p
<1>2. CASE I # {}
  <2>1. p = Min(I)
    BY <1>2 DEF SelectInSeq
  <2>2. Min(I) \in I /\ \A i \in I : Min(I) <= i
    <3>1. I \in SUBSET Nat
      OBVIOUS
    <3> HIDE DEF I
    <3> QED
      BY <1>2, <3>1, MinIsLeast
  <2> HIDE DEF p
  <2>3. p \in I /\ \A i \in I : p <= i
    BY <2>1, <2>2
  <2>4. p \in 1 .. Len(str) /\ str[p] = SP /\ \A i \in 1 .. p - 1 : str[i] # SP
    BY <2>3
  <2>5. /\ p \in 0 .. Len(str)
        /\ p = 0 => \A i \in 1 .. Len(str) : str[i] # SP
        /\ p > 0 => str[p] = SP /\ \A i \in 1 .. p - 1 : str[i] # SP
    BY <2>4
  <2> QED
    BY <2>5, Zenon DEF p
<1> QED
  BY <1>1, <1>2

(* str_upper keeps the length. *)
LEMMA UpperLen ==
  ASSUME NEW str \in Seq(LineBytes), NEW c, c = UpperCase(str)
  PROVE  Len(c) = Len(str)
<1> DEFINE T == {c[k] : k \in 1 .. Len(str)}
<1>1. c = [k \in 1 .. Len(str) |-> c[k]] /\ Len(str) \in Nat
  BY DEF UpperCase
<1>2. c \in [1 .. Len(str) -> T]
  <2>1. \A k \in 1 .. Len(str) : c[k] \in T
    OBVIOUS
  <2> HIDE DEF T
  <2> QED
    BY <1>1, <2>1
<1> HIDE DEF T
<1>3. c \in Seq(T) /\ DOMAIN c = 1 .. Len(str)
  BY <1>1, <1>2
<1> QED
  BY <1>1, <1>3

(* No command of the table fills comm. *)
LEMMA LongIsNone ==
  ASSUME NEW str \in Seq(LineBytes), Len(str) >= MaxField, NEW c, c = UpperCase(str)
  PROVE  c \notin Handled \cup Unimplemented
<1> SUFFICES ASSUME c \in Handled \cup Unimplemented PROVE FALSE
  OBVIOUS
<1>1. c \in Seq(LineBytes) /\ Len(c) < MaxField /\ MaxField \in Nat
  BY LineAssumption
<1>2. Len(c) = Len(str)
  BY UpperLen
<1> QED
  BY <1>1, <1>2

LEMMA ExecuteStep ==
  ASSUME IInv, Execute
  PROVE  IInv'
<1> DEFINE str == Trim(command)
           p == SelectInSeq(str, LAMBDA b : b = SP)
           rest == SubSeq(str, p + 1, Len(str))
<1>1. /\ linePc = "execute" /\ linePc' = IF Len(args') < MaxField THEN "clean" ELSE "overrun"
      /\ verdict' = IF comm' \in Handled THEN "handler"
                    ELSE IF comm' \in Unimplemented THEN "502" ELSE "500"
      /\ UNCHANGED <<sent, inbox, closed, lines, command>>
  BY DEF Execute
<1>2. \/ /\ p = 0 /\ Len(str) < MaxField
         /\ comm' = UpperCase(str) /\ args' = args
      \/ /\ p = 0 /\ Len(str) >= MaxField
         /\ comm' = UpperCase(str)
         /\ args' = UpperCase(SubSeq(str, MaxField + 1, Len(str)))
      \/ /\ p \in 1 .. MaxField
         /\ comm' = UpperCase(Over(comm, SubSeq(str, 1, p - 1)))
         /\ args' = rest
      \/ /\ p > MaxField
         /\ comm' = UpperCase(SubSeq(str, 1, MaxField) \o rest)
         /\ args' = UpperCase(rest)
  BY DEF Execute
<1>3. /\ lines # << >> /\ Last(lines) = command /\ comm = << >> /\ args = << >>
      /\ command \in Seq(LineBytes) /\ lines \in Seq(Seq(LineBytes))
  BY <1>1 DEF IInv, Complete, Emptied, LineTypeOK
<1>4. Len(command) <= MaxLine - 1
  <2>1. Len(lines) \in DOMAIN lines
    BY <1>3
  <2>2. Len(lines[Len(lines)]) \in 1 .. MaxLine - 1
    BY <2>1 DEF IInv, StreamCut
  <2> QED
    BY <1>3, <2>2, LineAssumption DEF Last
<1>5. PICK q \in 0 .. Len(command) :
        /\ str = SubSeq(command, 1, q)
        /\ \A i \in q + 1 .. Len(command) : command[i] \in {CR, LF}
        /\ q > 0 => command[q] \notin {CR, LF}
  BY <1>3, TrimIs
<1>6. /\ str \in Seq(LineBytes) /\ Len(str) = q /\ q \in Nat
      /\ \A i \in 1 .. q : str[i] = command[i]
  <2> HIDE DEF str
  <2> QED
    BY <1>3, <1>5
<1>7. /\ p \in 0 .. q
      /\ p = 0 => \A i \in 1 .. q : command[i] # SP
      /\ p > 0 => command[p] = SP /\ \A i \in 1 .. p - 1 : command[i] # SP
  <2>1. /\ p \in 0 .. Len(str)
        /\ p = 0 => \A i \in 1 .. Len(str) : str[i] # SP
        /\ p > 0 => str[p] = SP /\ \A i \in 1 .. p - 1 : str[i] # SP
    <3> HIDE DEF str
    <3> QED
      BY <1>6, SplitIs
  <2> HIDE DEF p, str
  <2> QED
    BY <1>6, <2>1
<1>8. MaxField \in Nat \ {0} /\ q <= 2 * MaxField - 1
  BY <1>3, <1>4, <1>6, LineAssumption
<1> HIDE DEF str, p
<1>9. rest \in Seq(LineBytes) /\ Len(rest) = q - p
  BY <1>6, <1>7
<1>10. p > 0 => rest = SubSeq(command, p + 1, q)
  <2> SUFFICES ASSUME p > 0 PROVE rest = SubSeq(command, p + 1, q)
    OBVIOUS
  <2>1. SubSeq(SubSeq(command, 1, q), p + 1, q) = SubSeq(command, p + 1, q)
    <3>1. \A i \in 1 .. q : SubSeq(command, 1, q)[i] = command[i]
      BY <1>5, <1>6
    <3>2. /\ SubSeq(command, p + 1, q) \in Seq(LineBytes)
          /\ Len(SubSeq(command, p + 1, q)) = q - p
          /\ \A i \in 1 .. q - p : SubSeq(command, p + 1, q)[i] = command[i + p]
      BY <1>3, <1>5, <1>7
    <3>3. \A i \in 1 .. q - p : rest[i] = command[i + p]
      BY <1>6, <1>7
    <3> DEFINE a == rest
               b == SubSeq(command, p + 1, q)
    <3>4. a \in Seq(LineBytes) /\ b \in Seq(LineBytes) /\ Len(a) = Len(b)
          /\ \A i \in 1 .. Len(a) : a[i] = b[i]
      BY <1>7, <1>9, <3>2, <3>3
    <3> HIDE DEF a, b
    <3>5. a = b
      BY <3>4, SeqEqual
    <3> QED
      BY <1>5, <1>6, <3>5 DEF a, b
  <2> QED
    BY <1>5, <1>6, <2>1
<1> HIDE DEF rest
<1> DEFINE w == IF p = 0 THEN q ELSE p - 1
<1>11. /\ w \in 0 .. q
       /\ \A i \in 1 .. w : command[i] # SP
       /\ w < q => command[w + 1] = SP
  BY <1>6, <1>7
<1>12. /\ w < MaxField => /\ comm' = UpperCase(SubSeq(command, 1, w))
                          /\ args' = SubSeq(command, w + 2, q)
       /\ w >= MaxField => comm' \notin Handled \cup Unimplemented
       /\ Len(args') >= MaxField <=> w < MaxField /\ q - w > MaxField
  <2>1. CASE p = 0 /\ q < MaxField
    <3>1. w = q /\ comm' = UpperCase(SubSeq(command, 1, w)) /\ args' = << >>
      <4>1. p = 0 /\ Len(str) < MaxField
        BY <1>6, <2>1
      <4>2. comm' = UpperCase(str) /\ args' = args
        BY <1>2, <1>8, <4>1
      <4>3. w = q
        BY <2>1
      <4> HIDE DEF w
      <4> QED
        BY <1>3, <1>5, <4>2, <4>3
    <3>2. SubSeq(command, w + 2, q) = << >>
      BY <1>3, <1>6, <3>1, SubSeqEmpty
    <3>3. Len(args') = 0
      BY <3>1
    <3> QED
      BY <1>6, <1>8, <2>1, <3>1, <3>2, <3>3
  <2>2. CASE p = 0 /\ q >= MaxField
    <3>1. w = q /\ comm' = UpperCase(str) /\ args' = UpperCase(SubSeq(str, MaxField + 1, q))
      BY <1>2, <1>6, <1>8, <2>2
    <3>2. comm' \notin Handled \cup Unimplemented
      BY <1>6, <2>2, <3>1, LongIsNone
    <3>3. Len(args') = q - MaxField
      <4>1. SubSeq(str, MaxField + 1, q) \in Seq(LineBytes) /\ Len(SubSeq(str, MaxField + 1, q)) = q - MaxField
        BY <1>6, <1>8, <2>2
      <4> QED
        BY <3>1, <4>1, UpperLen
    <3> QED
      BY <1>6, <1>8, <2>2, <3>1, <3>2, <3>3
  <2>3. CASE p \in 1 .. MaxField
    <3>1. /\ comm' = UpperCase(Over(<< >>, SubSeq(str, 1, p - 1)))
          /\ args' = rest /\ w = p - 1
      BY <1>2, <1>3, <1>8, <2>3
    <3>2. SubSeq(str, 1, p - 1) = SubSeq(command, 1, p - 1)
      <4>1. 1 <= p /\ p <= q
        BY <1>7, <2>3
      <4> DEFINE a == SubSeq(str, 1, p - 1)
                 b == SubSeq(command, 1, p - 1)
      <4>2. a \in Seq(LineBytes) /\ b \in Seq(LineBytes) /\ Len(a) = p - 1 /\ Len(b) = p - 1
            /\ \A i \in 1 .. p - 1 : a[i] = str[i] /\ b[i] = command[i]
        <5>1. p - 1 \in 0 .. Len(str) /\ p - 1 \in 0 .. Len(command) /\ p \in Nat
          BY <1>3, <1>6, <1>7, <4>1
        <5>2. a \in Seq(LineBytes) /\ Len(a) = p - 1 /\ \A i \in 1 .. p - 1 : a[i] = str[i]
          BY <1>6, <5>1
        <5>3. b \in Seq(LineBytes) /\ Len(b) = p - 1 /\ \A i \in 1 .. p - 1 : b[i] = command[i]
          BY <1>3, <5>1
        <5> HIDE DEF a, b
        <5> QED
          BY <5>2, <5>3
      <4> HIDE DEF a, b
      <4>3. \A i \in 1 .. Len(a) : a[i] = b[i]
        BY <1>6, <1>7, <4>1, <4>2
      <4>4. a = b
        BY <4>2, <4>3, SeqEqual
      <4> QED
        BY <4>4 DEF a, b
    <3>3. Over(<< >>, SubSeq(str, 1, p - 1)) = SubSeq(str, 1, p - 1)
      <4> DEFINE a == SubSeq(str, 1, p - 1)
      <4>1. a \in Seq(LineBytes) /\ Len(a) \in Nat
        BY <1>6, <1>7, <2>3
      <4> HIDE DEF a
      <4>2. SubSeq(<< >>, Len(a) + 1, Len(<< >>)) = << >>
        <5>1. Len(<< >>) = 0 /\ Len(a) + 1 \in Int /\ 0 \in Int /\ 0 < Len(a) + 1
          BY <4>1
        <5> QED
          BY <5>1, SubSeqEmpty
      <4>3. Over(<< >>, a) = a
        BY <4>1, <4>2, ConcatEmptySeq DEF Over
      <4> QED
        BY <4>3 DEF a
    <3>4. comm' = UpperCase(SubSeq(command, 1, w)) /\ args' = SubSeq(command, w + 2, q)
      <4>1. w + 2 = p + 1 /\ p > 0
        BY <1>7, <2>3, <3>1
      <4> HIDE DEF w
      <4> QED
        BY <1>10, <3>1, <3>2, <3>3, <4>1
    <3>5. Len(args') = q - p
      BY <1>9, <3>1
    <3> QED
      BY <1>6, <1>7, <1>8, <2>3, <3>1, <3>4, <3>5
  <2>4. CASE p > MaxField
    <3>1. /\ comm' = UpperCase(SubSeq(str, 1, MaxField) \o rest)
          /\ args' = UpperCase(rest) /\ w = p - 1
      BY <1>2, <1>8, <2>4
    <3>2. comm' \notin Handled \cup Unimplemented
      <4> DEFINE a == SubSeq(str, 1, MaxField)
                 b == a \o rest
      <4>1. a \in Seq(LineBytes) /\ Len(a) = MaxField
        BY <1>6, <1>7, <1>8, <2>4
      <4> HIDE DEF a
      <4>2. b \in Seq(LineBytes) /\ Len(b) = MaxField + (q - p)
        BY <1>9, <4>1, ConcatProperties
      <4> HIDE DEF b
      <4>3. Len(b) >= MaxField
        BY <1>6, <1>7, <1>8, <4>2
      <4> QED
        BY <3>1, <4>2, <4>3, LongIsNone DEF a, b
    <3>3. Len(args') = q - p
      BY <1>9, <3>1, UpperLen
    <3> QED
      BY <1>6, <1>7, <1>8, <2>4, <3>1, <3>2, <3>3
  <2> QED
    BY <1>7, <1>8, <1>6, <2>1, <2>2, <2>3, <2>4
<1>13. CommandIsLine'
  <2>1. Last(lines') = command
    BY <1>1, <1>3
  <2>2. w >= MaxField => verdict' = "500"
    BY <1>1, <1>12
  <2>3. linePc' = "overrun" <=> Len(args') >= MaxField
    <3>1. Len(args') \in Int /\ MaxField \in Int
      <4>1. Len(args') \in Int
        BY <1>2, <1>3, <1>6, <1>7, <1>8, <1>9, UpperLen
      <4> QED
        BY <1>8, <4>1
    <3> QED
      BY <1>1, <3>1
  <2> HIDE DEF w
  <2>4. linePc' = "overrun" <=> w < MaxField /\ q - w > MaxField
    BY <1>12, <2>3
  <2> QED
    BY <1>5, <1>11, <1>12, <2>1, <2>2, <2>4 DEF CommandIsLine
<1>14. LineTypeOK' /\ StreamCut'
  BY <1>1 DEF IInv, LineTypeOK, StreamCut
<1>15. Pending' /\ Complete' /\ Emptied'
  BY <1>1, <1>3 DEF Pending, Complete, Emptied
<1> QED
  BY <1>13, <1>14, <1>15 DEF IInv

LEMMA ClientSendsStep ==
  ASSUME IInv, NEW b \in LineBytes, ClientSends(b)
  PROVE  IInv'
<1>1. /\ sent' = Append(sent, b) /\ inbox' = Append(inbox, b)
      /\ UNCHANGED <<closed, lines, command, comm, args, verdict, linePc>>
  BY DEF ClientSends
<1>2. /\ sent \in Seq(LineBytes) /\ inbox \in Seq(LineBytes) /\ command \in Seq(LineBytes)
      /\ lines \in Seq(Seq(LineBytes)) /\ << >> \in Seq(LineBytes)
  BY DEF IInv, LineTypeOK
<1>3. LineTypeOK'
  BY <1>1, <1>2 DEF IInv, LineTypeOK
<1>4. StreamCut'
  <2> DEFINE before == FlattenSeq(lines) \o (IF linePc \in {"readline", "exit"} THEN command ELSE << >>)
  <2>1. before \in Seq(LineBytes)
    <3>1. FlattenSeq(lines) \in Seq(LineBytes)
      BY <1>2, FlattenAppend
    <3> QED
      BY <1>2, <3>1, ConcatProperties
  <2>2. sent = before \o inbox
    BY DEF IInv, StreamCut
  <2> HIDE DEF before
  <2>3. Append(sent, b) = before \o Append(inbox, b)
    <3>1. Append(sent, b) = sent \o <<b>> /\ Append(inbox, b) = inbox \o <<b>>
      BY <1>2, AppendIsConcat
    <3>2. (before \o inbox) \o <<b>> = before \o (inbox \o <<b>>)
      BY <1>2, <2>1, SMTT(60)
    <3> QED
      BY <2>2, <3>1, <3>2
  <2>4. sent' = before \o inbox'
    BY <1>1, <2>3
  <2> QED
    BY <1>1, <2>4 DEF before, IInv, StreamCut
<1>5. Pending' /\ Complete' /\ Emptied' /\ CommandIsLine'
  BY <1>1 DEF IInv, Pending, Complete, Emptied, CommandIsLine
<1> QED
  BY <1>3, <1>4, <1>5 DEF IInv

LEMMA CleanCommandStep ==
  ASSUME IInv, CleanCommand
  PROVE  IInv'
<1>1. /\ linePc = "clean" /\ command' = << >> /\ comm' = << >> /\ args' = << >>
      /\ linePc' = "readline" /\ UNCHANGED <<sent, inbox, closed, lines>>
  BY DEF CleanCommand
<1>2. LineTypeOK' /\ StreamCut'
  BY <1>1 DEF IInv, LineTypeOK, StreamCut
<1>3. Pending' /\ Complete' /\ Emptied' /\ CommandIsLine'
  BY <1>1, LineAssumption DEF Pending, Complete, Emptied, CommandIsLine
<1> QED
  BY <1>2, <1>3 DEF IInv

LEMMA IInvStep == IInv /\ [LineNext]_lineVars => IInv'
<1> SUFFICES ASSUME IInv, [LineNext]_lineVars PROVE IInv'
  OBVIOUS
<1>1. CASE ClientShuts \/ UNCHANGED lineVars
  BY <1>1 DEF ClientShuts, lineVars, IInv, LineTypeOK, StreamCut, Pending, Complete,
              Emptied, CommandIsLine
<1>2. CASE ReadlineEnds
  <2>1. /\ linePc = "readline" /\ linePc' = "exit"
        /\ UNCHANGED <<sent, inbox, closed, lines, command, comm, args, verdict>>
    BY <1>2 DEF ReadlineEnds
  <2> QED
    BY <2>1 DEF IInv, LineTypeOK, StreamCut, Pending, Complete, Emptied, CommandIsLine
<1> QED
  BY <1>1, <1>2, ClientSendsStep, ReadlineStep, ExecuteStep, CleanCommandStep DEF LineNext

(* readline neither loses nor repeats a byte of the client's stream, and   *)
(* cuts it where a line ends or is too long, nowhere else, in whatever     *)
(* portions the bytes arrive and however large the buffer is.              *)
THEOREM StreamIsCut == LineSpec => []StreamCut
<1>1. IInv => StreamCut
  BY DEF IInv
<1> QED
  BY <1>1, IInvInit, IInvStep, PTL DEF LineSpec

(* do_command_map works on the command and the arguments of the line just  *)
(* read, although str_split leaves what it does not write of an earlier    *)
(* command (clean_command has emptied the buffers before), and although a  *)
(* long word runs from comm into args: then there is no command at all.    *)
(* Only arguments that do not fit args are written behind it.              *)
THEOREM CommandFollowsLine == LineSpec => []CommandIsLine
<1>1. IInv => CommandIsLine
  BY DEF IInv
<1> QED
  BY <1>1, IInvInit, IInvStep, PTL DEF LineSpec
=============================================================================
