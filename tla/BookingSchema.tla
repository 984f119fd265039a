---------------------------- MODULE BookingSchema ----------------------------
(***************************************************************************)
(* Rows of the bookings table and the constraints PostgreSQL evaluates on  *)
(* them: the CHECK on the date range and the partial GiST exclusion        *)
(* constraint.  Money, notes and party columns are abstracted away: none   *)
(* of them takes part in the constraints on dates.                         *)
(***************************************************************************)
EXTENDS Integers

CONSTANTS
  Asset,      \* identifiers of assets
  Day,        \* calendar days, as numbers
  NoRow       \* "there is no such row"

BookingStatus ==
  {"pending", "confirmed", "active", "completed", "cancelled", "disputed"}

\* The statuses for which a booking takes the asset out of circulation.
ReservingStatus == {"confirmed", "active"}

Row == [asset : Asset, starts_on : Day, ends_on : Day, status : BookingStatus]

ASSUME DayAssumption == Day \subseteq Int
ASSUME NoRowAssumption == NoRow \notin Row

-----------------------------------------------------------------------------

\* ck_bookings_valid_date_range
ValidDateRange(row) == row.starts_on <= row.ends_on

StoredRow == {row \in Row : ValidDateRange(row)}

\* The partial predicate of the exclusion constraint.
Reserves(row) == row.status \in ReservingStatus

\* A fault: daterange without its third argument excludes the end point.
NightsOnly(row) == row.starts_on .. row.ends_on - 1

\* daterange(starts_on, ends_on, '[]'): both end points are included.
StayDays(row) == row.starts_on .. row.ends_on

\* ex_bookings_no_active_asset_overlap: "=" on the asset, "&&" on the ranges.
Excludes(row1, row2) ==
  /\ Reserves(row1)
  /\ Reserves(row2)
  /\ row1.asset = row2.asset
  /\ StayDays(row1) \cap StayDays(row2) # {}

=============================================================================
