------------------------------ MODULE Listing -------------------------------
(* statbuf_get_perms of trans_data.c: the type and permissions of an entry *)
(* of a listing, written into a static buffer that is "----------" when    *)
(* the process starts and is never reset.                                  *)
CONSTANT FileModes   \* the modes of the files that are listed

VARIABLES
  perms,      \* the static buffer
  mode        \* the mode of the entry listed last

listVars == <<perms, mode>>

Classes == {"user", "group", "other"}

(* A mode is its type, the classes that may read, write and execute, and   *)
(* those whose special bit is set (suid, sgid, sticky).                    *)
ASSUME ListAssumption == \A m \in FileModes :
  /\ DOMAIN m = {"type", "r", "w", "x", "s"}
  /\ m.x \subseteq Classes /\ m.s \subseteq Classes

(* In the place of x, "s" and "S" also stand for t and T. *)
Dashes == [type |-> "-", r |-> {}, w |-> {}, x |-> [c \in Classes |-> "-"]]

(* Mutant: the special bit hides x. *)
MutWithX(old, m, c) == IF c \in m.s THEN "S" ELSE IF c \in m.x THEN "x" ELSE old

WithX(old, m, c) ==
  LET x == IF c \in m.x THEN "x" ELSE old IN
  IF c \notin m.s THEN x ELSE IF x = "x" THEN "s" ELSE "S"

Written(buf, m) ==
  [type |-> m.type, r |-> buf.r \cup m.r, w |-> buf.w \cup m.w,
   x |-> [c \in Classes |-> WithX(buf.x[c], m, c)]]

ListInit ==
  /\ perms = Dashes
  /\ mode = [type |-> "-", r |-> {}, w |-> {}, x |-> {}, s |-> {}]

GetPerms == \E m \in FileModes :
  /\ mode' = m
  /\ perms' = Written(perms, m)

ListNext == GetPerms

ListSpec == ListInit /\ [][ListNext]_listVars
-----------------------------------------------------------------------------
(* An entry shows its own type and at least its own permissions, after     *)
(* whatever the entries before it left in the buffer.  (The converse holds *)
(* for the first entry of a process only.)                                 *)
ShowsAll ==
  /\ perms.type = mode.type
  /\ mode.r \subseteq perms.r /\ mode.w \subseteq perms.w
  /\ \A c \in mode.x : perms.x[c] \in {"x", "s"}
  /\ \A c \in mode.s : perms.x[c] \in {"s", "S"}
=============================================================================
