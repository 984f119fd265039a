----------------------------- MODULE MCBookings -----------------------------
(* Instances of Bookings for TLC. *)
EXTENDS Bookings

CONSTANTS a1, b1, b2, s1, s2

OneAsset == {a1}

\* Days 1..3: a stay, one that meets it on its last day, and an inverted range
\* for the CHECK constraint.
ThreeDays == 1..3
Stays == {<<1, 2>>, <<2, 3>>, <<3, 2>>}

AllReserving == {"pending", "confirmed", "active"}

=============================================================================
