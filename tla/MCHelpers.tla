----------------------------- MODULE MCHelpers ------------------------------
(* Model checking of the four small machines CommandLine, RateLimit,       *)
(* Listing and Config.  They share nothing: each behaviour runs one of     *)
(* them, and the others stay as they begin.                                *)
EXTENDS CommandLine, RateLimit, Listing, Config

VARIABLE machine

Init ==
  /\ machine \in {"line", "rate", "list", "conf"}
  /\ LineInit /\ RateInit /\ ListInit /\ ConfInit

Line == LineNext /\ UNCHANGED <<rateVars, listVars, confVars>>
Rate == RateNext /\ UNCHANGED <<lineVars, listVars, confVars>>
List == ListNext /\ UNCHANGED <<lineVars, rateVars, confVars>>
Conf == ConfNext /\ UNCHANGED <<lineVars, rateVars, listVars>>

Next ==
  /\ \/ machine = "line" /\ Line
     \/ machine = "rate" /\ Rate
     \/ machine = "list" /\ List
     \/ machine = "conf" /\ Conf
  /\ UNCHANGED machine

Spec == Init /\ [][Next]_<<machine, lineVars, rateVars, listVars, confVars>>

(* CommandLine: a small and a capital letter; a known command of one       *)
(* letter, an unimplemented one of two; lines of five bytes, which have    *)
(* room for words and arguments that fill their field.                     *)
Capital == [a |-> "A", A |-> "A"]
Known == {<<"A">>}
NoHandler == {<<"A", "A">>}

(* Listing: every way the bits of a class can follow each other; a plain   *)
(* file, a directory, a link.                                              *)
Modes == [type : {"-", "d"}, r : {{}, {"user"}}, w : {{}, {"other"}},
          x : {{}, {"user"}, {"user", "other"}}, s : {{}, {"user"}, {"group", "other"}}]

(* Config: a value that starts with 0 is octal; 9 is no octal digit, 10 is *)
(* no digit at all.  99 (octal 143) and 75 do not fit an unsigned of 64    *)
(* values, 200 no long up to 127, five bytes not the buffer.               *)
Values == {<< >>, <<0>>, <<1>>, <<0, 1, 4, 3>>, <<0, 7, 9, 1>>, <<7, 5>>, <<2, 0, 0>>,
           <<3, 10, 1>>, <<10>>, <<1, 2, 3, 4, 5>>}
Yes == {<<1>>}
No == {<<0>>}
Before == [addr |-> << >>, pasv |-> 1, umask |-> 63, port |-> 21]
=============================================================================
