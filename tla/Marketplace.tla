----------------------------- MODULE Marketplace ------------------------------
(***************************************************************************)
(* The search API and the booking sessions over one bookings table: the    *)
(* clients of Inventory page through listings while the transactions of    *)
(* Bookings insert and change bookings, wait for each other and fail.  A   *)
(* page reads what is committed; the exclusion constraint also sees what   *)
(* is not.                                                                 *)
(***************************************************************************)
EXTENDS Inventory

CONSTANTS
  Session,    \* database sessions that write bookings
  Status,     \* the statuses they write
  Stay,       \* the <<starts_on, ends_on>> pairs they write
  NoBooking   \* "no statement is running"

VARIABLES phase, target, writes

session == <<phase, target, writes>>

Table == INSTANCE Bookings WITH table <- booking

ASSUME SessionAssumption ==
  Status \subseteq BookingStatus /\ Stay \subseteq Day \X Day /\ NoBooking \notin Booking

\* BookingData bounds the rows of Inventory's own WriteBookings: here it covers
\* what the sessions write.
ASSUME BookingDataAssumption == Table!NewRows \cap StoredRow \subseteq BookingData

marketVars == <<now, asset, vendor, window, booking, query, cursor, finished, seen, again,
                steady, ever, phase, target, writes>>

-----------------------------------------------------------------------------

MarketInit == Init /\ Table!Init

\* A fault: bookings refer to anything.
ReferencesNothing == TRUE

\* ForeignKey("assets.id") of bookings.asset_id is checked when the statement
\* completes; a statement that refers to no asset fails.
ReferencesAsset ==
  \A s \in Session :
    phase[s] = "check" /\ phase'[s] = "open" => Exists(writes[s][target[s]].asset)

\* A step of the sessions: the catalogue stays as it is.
SessionStep ==
  /\ Table!Next
  /\ ReferencesAsset
  /\ UNCHANGED <<now, asset, vendor, window, traversal>>
  /\ Observe

\* A step of the operators and of the API's clients.
CatalogueStep ==
  /\ \/ Tick
     \/ \E a \in Asset : InsertAsset(a) \/ UpdateAsset(a)
     \/ \E v \in Vendor : UpdateVendor(v)
     \/ \E w \in Window : WriteWindow(w)
     \/ \E c \in Client : StartTraversal(c) \/ FetchPage(c)
  /\ UNCHANGED session

MarketNext == SessionStep \/ CatalogueStep

MarketSpec == MarketInit /\ [][MarketNext]_marketVars

-----------------------------------------------------------------------------
(* Properties *)

\* The sessions, with their row locks, checks, waits and partial transactions,
\* are to the clients of the search what Inventory's WriteBookings is: one step
\* that changes any number of bookings and leaves no conflict.  Everything shown
\* of Inventory holds with real booking transactions underneath.
ImplementsInventory == Spec

\* bookings.asset_id: every committed booking is of an asset that exists, though
\* the reference is checked long before the COMMIT and in another session's time.
BookingsReferToAssets ==
  \A b \in Booking : booking[b] # NoRow => Exists(booking[b].asset)

\* The pending version conflicts with another version of its own transaction.
OwnConflict(s) ==
  \E b \in Booking \ {target[s]} :
    writes[s][b] # NoRow /\ Excludes(Table!Pending(s), writes[s][b])

\* Search and constraint agree between transactions too: a reservation is refused
\* for an overlap only if the search, at that moment, hides the asset on these
\* dates, or if the session itself has just booked it.
RefusedOnlyIfHidden ==
  [][\A s \in Session :
       Table!CheckFail(s) /\ ~OwnConflict(s) =>
         LET p == Table!Pending(s) IN ActiveBooking(p.asset, p.starts_on, p.ends_on)]_marketVars

===============================================================================
