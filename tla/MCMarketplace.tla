---------------------------- MODULE MCMarketplace -----------------------------
(* Instances of Marketplace for TLC. *)
EXTENDS Marketplace, TLC

CONSTANT v1

Shown ==
  [vendor |-> v1, category |-> "camera", daily_rate |-> 2, city |-> "lagos",
   is_available |-> TRUE, deleted |-> FALSE, listing_status |-> "active"]

OneListing == {Shown}
NoData == {}

ThreeDays == 1..3
TwoStays == {<<1, 2>>, <<2, 3>>}
PendingOrConfirmed == {"pending", "confirmed"}

Rows ==
  {[asset |-> a, starts_on |-> stay[1], ends_on |-> stay[2], status |-> st] :
     a \in Asset, stay \in {<<1, 2>>, <<2, 3>>}, st \in PendingOrConfirmed}

\* No definition tells one session from another, nor one booking.
Symmetry == Permutations(Session) \cup Permutations(Booking)

DatedOrNot ==
  {[category |-> NoRow, min_daily_rate |-> NoRow, max_daily_rate |-> NoRow,
    dates |-> d] : d \in {<<1, 1>>, NoRow}}
===============================================================================
