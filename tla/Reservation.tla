----------------------------- MODULE Reservation -----------------------------
(***************************************************************************)
(* What the bookings table promises the marketplace.  A booking claims     *)
(* cells, an asset on a day.  A session takes hold of bookings one by one, *)
(* never of one that another session holds, and then publishes new claims  *)
(* for all it holds in one step, or drops them unchanged.  Whatever is     *)
(* published, no cell is claimed by two bookings.  How a conflict between  *)
(* two sessions is noticed and settled is left to the implementation.      *)
(***************************************************************************)
CONSTANTS Session, Booking, Cell

VARIABLES
  claims,     \* claims[b]: the cells published for booking b
  held        \* held[s]: the bookings session s may republish

vars == <<claims, held>>

ConflictFree(c) ==
  \A b1, b2 \in Booking : b1 # b2 => c[b1] \cap c[b2] = {}

Init ==
  /\ claims = [b \in Booking |-> {}]
  /\ held = [s \in Session |-> {}]

Hold(s, b) ==
  /\ \A t \in Session \ {s} : b \notin held[t]
  /\ held' = [held EXCEPT ![s] = @ \cup {b}]
  /\ UNCHANGED claims

Publish(s) ==
  /\ claims' \in [Booking -> SUBSET Cell]
  /\ \A b \in Booking \ held[s] : claims'[b] = claims[b]
  /\ ConflictFree(claims')
  /\ held' = [held EXCEPT ![s] = {}]

Drop(s) ==
  /\ held' = [held EXCEPT ![s] = {}]
  /\ UNCHANGED claims

DropAll ==
  /\ held' = [s \in Session |-> {}]
  /\ UNCHANGED claims

Next ==
  \/ \E s \in Session : Publish(s) \/ Drop(s) \/ \E b \in Booking : Hold(s, b)
  \/ DropAll

Spec == Init /\ [][Next]_vars

=============================================================================
