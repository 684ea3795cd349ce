------------------------------ MODULE AssocMap ------------------------------
(* What the hash tables of the listener promise (hash.h): a map from keys  *)
(* to values.  Adding a key that is there already hides its older value,   *)
(* which comes back when the newer one is freed.                           *)
EXTENDS Sequences

CONSTANTS Keys, Values, NoValue

VARIABLES
  map,    \* for each key its values, the newest first
  found   \* what the last lookup returned

Init ==
  /\ map = [k \in Keys |-> << >>]
  /\ found = NoValue

Lookup(k) ==
  /\ found' = IF map[k] = << >> THEN NoValue ELSE Head(map[k])
  /\ UNCHANGED map

Add(k, v) ==
  /\ map' = [map EXCEPT ![k] = <<v>> \o @]
  /\ UNCHANGED found

(* A value is changed through the pointer a lookup returned. *)
Update(k, v) ==
  /\ map[k] # << >>
  /\ map' = [map EXCEPT ![k] = <<v>> \o Tail(@)]
  /\ UNCHANGED found

Free(k) ==
  /\ map[k] # << >>
  /\ map' = [map EXCEPT ![k] = Tail(@)]
  /\ UNCHANGED found

Clear ==
  /\ map' = [k \in Keys |-> << >>]
  /\ UNCHANGED found

Next ==
  \/ \E k \in Keys : Lookup(k) \/ Free(k)
  \/ \E k \in Keys, v \in Values : Add(k, v) \/ Update(k, v)
  \/ Clear

Spec == Init /\ [][Next]_<<map, found>>
=============================================================================
