----------------------------- MODULE MCInventory -----------------------------
(* Instances of Inventory for TLC. *)
EXTENDS Inventory

CONSTANT v1

\* A listing that every public query shows, and single departures from it.
Shown ==
  [vendor |-> v1, category |-> "camera", daily_rate |-> 2, city |-> "lagos",
   is_available |-> TRUE, deleted |-> FALSE, listing_status |-> "active"]

ShownOrPaused == {Shown, [Shown EXCEPT !.listing_status = "paused"]}

\* Listings that depart from it in one column each.
Departures ==
  {Shown,
   [Shown EXCEPT !.category = "lens"],
   [Shown EXCEPT !.daily_rate = 1],
   [Shown EXCEPT !.daily_rate = 3],
   [Shown EXCEPT !.city = "abuja"],
   [Shown EXCEPT !.is_available = FALSE],
   [Shown EXCEPT !.deleted = TRUE],
   [Shown EXCEPT !.listing_status = "review"]}

NoFilter ==
  [category |-> NoRow, min_daily_rate |-> NoRow, max_daily_rate |-> NoRow,
   dates |-> NoRow]

Unfiltered == {NoFilter}

\* By category, by rate, and by dates.
Filtered ==
  {[NoFilter EXCEPT !.category = "camera"],
   [NoFilter EXCEPT !.min_daily_rate = 2, !.max_daily_rate = 2],
   [NoFilter EXCEPT !.dates = <<2, 3>>]}

TwoDays == 1..2
FourDays == 1..4
NoData == {}

\* A blocked and an open window that touch the dates asked.
Windows ==
  [asset : {1}, starts_at : {1}, ends_at : {2}, is_blocked : BOOLEAN]

\* Stays that touch the dates asked and that follow them, in a reserving and in
\* an almost reserving status.
Stay(starts_on, ends_on, status) ==
  [asset |-> 1, starts_on |-> starts_on, ends_on |-> ends_on, status |-> status]

Stays == {Stay(1, 2, "active"), Stay(1, 2, "pending"), Stay(4, 4, "confirmed")}

=============================================================================
