------------------------------- MODULE Config -------------------------------
(* parse_conf.c: ftp.conf is read line by line into the tunables, before   *)
(* the server starts.  A line is blank or a comment, or a setting: a key   *)
(* and a value: a sequence of digits and of other numbers, which stand for *)
(* the characters that are neither a digit nor a sign nor a space.         *)
EXTENDS Integers, Sequences, SequencesExt

CONSTANTS
  StrKeys,      \* parseconf_str_array
  BoolKeys,     \* parseconf_bool_array
  UintKeys,     \* parseconf_uint_array
  OtherKeys,    \* names in none of them (a misspelt one, one followed by a space)
  TrueValues,   \* the values taken for TRUE, in capitals
  FalseValues,
  ConfValues,   \* the values that occur
  Default,      \* key -> value before the file is read (configure.c)
  UintMod,      \* the values of an unsigned, counted
  LongMax,      \* the largest long
  MaxValue,     \* the size of the buffer a value is copied to
  MaxLines      \* bound on the length of the file

(* Every name stands in one table, and has a default. *)
ASSUME ConfAssumption ==
  /\ "" \notin StrKeys \cup BoolKeys \cup UintKeys
  /\ \A k \in BoolKeys : k \notin StrKeys
  /\ \A k \in UintKeys : k \notin StrKeys \cup BoolKeys
  /\ \A k \in OtherKeys : k \notin StrKeys \cup BoolKeys \cup UintKeys
  /\ ConfValues \subseteq Seq(Nat)
  /\ Default = [k \in StrKeys \cup BoolKeys \cup UintKeys |-> Default[k]]
  /\ UintMod \in Nat \ {0} /\ LongMax \in Nat /\ MaxValue \in Nat

VARIABLES
  file,         \* the lines read (history)
  tunable,      \* key -> value
  confPc        \* "reading", "loaded", "exit" or "overrun"

confVars == <<file, tunable, confPc>>

Keys == StrKeys \cup BoolKeys \cup UintKeys
BlankLine == [key |-> "", value |-> << >>]
Lines == {BlankLine} \cup [key : Keys \cup OtherKeys, value : ConfValues]

(* How many digits of a base a value begins with. *)
Digits(v, base) == SelectInSeq(Append(v, base), LAMBDA d : d >= base) - 1

(* str_octal_to_uint: the shifts drop what does not fit. *)
Octal(v) ==
  LET result[i \in 0 .. Digits(v, 8)] ==
        IF i = 0 THEN 0 ELSE (result[i - 1] * 8 + v[i]) % UintMod
  IN result[Digits(v, 8)]

(* What strtol makes of a number: the largest long if it is too large. *)
Long(x) == IF x > LongMax THEN LongMax ELSE x

(* atoi, into an unsigned: strtol, reduced to an int. *)
Atoi(v) ==
  LET result[i \in 0 .. Digits(v, 10)] ==
        IF i = 0 THEN 0 ELSE result[i - 1] * 10 + v[i]
  IN Long(result[Digits(v, 10)]) % UintMod

(* Mutant: no octal numbers. *)
MutNumber(v) == Atoi(v)

Number(v) == IF v[1] = 0 THEN Octal(v) ELSE Atoi(v)

ConfInit ==
  /\ file = << >> /\ tunable = Default /\ confPc = "reading"

(* parseconf_load_setting: the tables are searched one after the other. *)
Setting(l) ==
  CASE l.key \in StrKeys -> tunable' = [tunable EXCEPT ![l.key] = l.value]
    [] l.key \in BoolKeys ->
         tunable' = [tunable EXCEPT ![l.key] = IF l.value \in TrueValues THEN 1 ELSE 0]
    [] l.key \in UintKeys -> tunable' = [tunable EXCEPT ![l.key] = Number(l.value)]
    [] OTHER -> UNCHANGED tunable

(* A missing value, or no boolean: exit. *)
Bad(l) ==
  \/ l # BlankLine /\ l.value = << >>
  \/ l.key \in BoolKeys /\ l.value \notin TrueValues \cup FalseValues

(* str_split copies the value without a bound: one that fills the buffer   *)
(* writes behind it, and what the program does then is not described.      *)
Overruns(l) == Len(l.value) >= MaxValue

LoadLine(l) ==
  /\ confPc = "reading" /\ Len(file) < MaxLines
  /\ file' = Append(file, l)
  /\ IF Overruns(l) \/ Bad(l)
     THEN confPc' = (IF Overruns(l) THEN "overrun" ELSE "exit") /\ UNCHANGED tunable
     ELSE Setting(l) /\ UNCHANGED confPc

EndOfFile ==
  /\ confPc = "reading"
  /\ confPc' = "loaded"
  /\ UNCHANGED <<file, tunable>>

ConfNext == EndOfFile \/ \E l \in Lines : LoadLine(l)

ConfSpec == ConfInit /\ [][ConfNext]_confVars
-----------------------------------------------------------------------------
(* 1, base, base^2, ... *)
Places(base, n) ==
  LET place[i \in 0 .. n] == IF i = 0 THEN 1 ELSE base * place[i - 1] IN place

(* The number a value denotes, by place values; a decimal one is at most   *)
(* the largest long.                                                       *)
Denotes(v) ==
  LET base == IF v[1] = 0 THEN 8 ELSE 10
      n == CHOOSE n \in 0 .. Len(v) :
             /\ \A i \in 1 .. n : v[i] < base
             /\ n < Len(v) => v[n + 1] >= base
      sum[i \in 0 .. n] ==
        IF i = 0 THEN 0 ELSE sum[i - 1] + v[i] * Places(base, n)[n - i]
  IN (IF base = 8 THEN sum[n] ELSE Long(sum[n])) % UintMod

(* Once the file is loaded, each tunable has the value of the last line    *)
(* that sets it, and its default when there is none.                       *)
LastSettingWins == confPc = "loaded" => \A k \in Keys :
  LET settings == {i \in DOMAIN file : file[i].key = k} IN
  /\ settings = {} => tunable[k] = Default[k]
  /\ \A i \in settings : (\A j \in settings : j <= i) =>
       CASE k \in StrKeys -> tunable[k] = file[i].value
         [] k \in BoolKeys -> tunable[k] = 1 <=> file[i].value \in TrueValues
         [] k \in UintKeys -> tunable[k] = Denotes(file[i].value)
=============================================================================
