----------------------------- MODULE RateLimit ------------------------------
(* limit_curr_rate of trans_ctrl.c: after a portion of a transfer, sleep   *)
(* as long as the portion went faster than the configured rate.  The loop  *)
(* of a download is left after its last block without that call.           *)
(*                                                                         *)
(* Time is counted in ticks, the time a byte takes at the configured rate. *)
(* gettimeofday reads a clock that may be set back while a transfer runs.  *)
EXTENDS Integers

CONSTANTS
  Download,   \* TRUE for a download, FALSE for an upload
  Limited,    \* TRUE iff limits_max_upload (or _download) > 0
  Portions,   \* how much one read or sendfile can move
  Delays,     \* how long it can take
  Setbacks,   \* how far the clock can be set back
  Floor,      \* the 0.001 s put for an interval of 0, in ticks
  MaxMoved,   \* bound on what is moved
  MaxBehind   \* bound on the setbacks

ASSUME RateAssumption ==
  /\ Download \in BOOLEAN /\ Limited \in BOOLEAN
  /\ Portions \subseteq Nat /\ Delays \subseteq Nat /\ Setbacks \subseteq Nat
  /\ Floor \in Nat

VARIABLES
  now,        \* the time
  behind,     \* how much the clock is behind it
  start,      \* start_time_sec, start_time_usec
  moved,      \* bytes moved since the transfer began
  nbytes,     \* the portion moved last
  floors,     \* portions that took no time on the clock (history)
  ratePc      \* "move", "limit"; after the loop "last" (nleft = 0) or "ended"

rateVars == <<now, behind, start, moved, nbytes, floors, ratePc>>

Clock == now - behind

RateInit ==
  /\ now = 0 /\ behind = 0 /\ start = 0
  /\ moved = 0 /\ nbytes = 0 /\ floors = 0 /\ ratePc = "move"

SetBack(k) ==
  /\ behind < MaxBehind
  /\ behind' = behind + k
  /\ UNCHANGED <<now, start, moved, nbytes, floors, ratePc>>

(* read and writen, or sendfile; a download knows its last block. *)
MovePortion(n, d) ==
  /\ ratePc = "move" /\ moved < MaxMoved
  /\ now' = now + d
  /\ nbytes' = n /\ moved' = moved + n
  /\ \/ ratePc' = "limit"
     \/ Download /\ ratePc' = "last"
  /\ UNCHANGED <<behind, start, floors>>

(* The end of an upload, or an error. *)
LeaveLoop ==
  /\ ratePc = "move"
  /\ ratePc' = "ended"
  /\ UNCHANGED <<now, behind, start, moved, nbytes, floors>>

Elapsed == IF Clock <= start THEN Floor ELSE Clock - start

(* (rate / limit - 1) * elapsed. *)
Pause == IF Limited /\ nbytes > Elapsed THEN nbytes - Elapsed ELSE 0

(* Mutant: the interval starts anew only after a sleep. *)
MutLimitCurrRate ==
  /\ ratePc = "limit"
  /\ now' = now + Pause
  /\ start' = IF Pause > 0 THEN now' - behind ELSE start
  /\ floors' = IF Clock <= start THEN floors + 1 ELSE floors
  /\ ratePc' = "move"
  /\ UNCHANGED <<behind, moved, nbytes>>

(* The sleep is a relative one: setting the clock does not change it, a    *)
(* signal only splits it.  Then the next interval starts.                  *)
LimitCurrRate ==
  /\ ratePc = "limit"
  /\ now' = now + Pause
  /\ start' = now' - behind
  /\ floors' = IF Clock <= start THEN floors + 1 ELSE floors
  /\ ratePc' = "move"
  /\ UNCHANGED <<behind, moved, nbytes>>

RateNext ==
  \/ \E k \in Setbacks : SetBack(k)
  \/ \E n \in Portions, d \in Delays : MovePortion(n, d)
  \/ LimitCurrRate
  \/ LeaveLoop

RateSpec == RateInit /\ [][RateNext]_rateVars
-----------------------------------------------------------------------------
(* The portion whose pause is still to come, or never will. *)
Unpaused == IF ratePc \in {"limit", "last"} THEN nbytes ELSE 0

(* But for the portion in progress, and at the end the last block of a     *)
(* download, which limit_curr_rate never sees, a limited transfer does not *)
(* run ahead of its rate over its whole length, whatever the portions, the *)
(* delays and the clock set back; each portion that the clock did not see  *)
(* to take time can add the 0.001 s the code puts in its place.            *)
RateKept == Limited => moved - Unpaused <= now + floors * Floor
=============================================================================
