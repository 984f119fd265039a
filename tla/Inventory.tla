------------------------------ MODULE Inventory ------------------------------
(***************************************************************************)
(* The public inventory API over a database that operators change: search  *)
(* with keyset pagination and date filter, and asset detail.  Every page   *)
(* is one SELECT over one snapshot, so a page is one step; between two     *)
(* pages anything may be inserted, edited, hidden or booked.               *)
(*                                                                         *)
(* Asset identifiers are numbers because ORDER BY compares them; they say  *)
(* nothing about the order of creation (gen_random_uuid).  created_at is   *)
(* the time the inserting transaction STARTED (now()), so a row may appear *)
(* with a time up to TxnSpan in the past.                                  *)
(***************************************************************************)
EXTENDS BookingSchema, FiniteSets

CONSTANTS
  Vendor,         \* users that own assets
  Window,         \* identifiers of availability windows
  Booking,        \* identifiers of bookings
  Client,         \* API clients
  AssetData,      \* the column values operators give to assets
  WindowData,     \* the rows operators give to availability windows
  BookingData,    \* the rows operators give to bookings
  Query,          \* the search filters clients use
  Limit,          \* the page sizes clients ask for
  MAX_PAGE_LIMIT,
  MaxTime,        \* bound on the clock
  TxnSpan         \* bound on the age of an inserting transaction

AssetCategory == {"camera", "lens", "lighting", "audio", "drone", "gimbal", "other"}
City == {"lagos", "abuja"}
ListingStatus == {"draft", "review", "active", "paused", "rejected"}

\* The columns the public queries read, created_at aside.
AssetColumns ==
  [vendor : Vendor, category : AssetCategory, daily_rate : Nat, city : City,
   is_available : BOOLEAN, deleted : BOOLEAN, listing_status : ListingStatus]

AssetRow == [created_at : Nat, data : AssetColumns]

UserRow == [is_active : BOOLEAN, deleted : BOOLEAN]

WindowRow ==
  {w \in [asset : Asset, starts_at : Day, ends_at : Day, is_blocked : BOOLEAN] :
     w.starts_at <= w.ends_at}

\* NoRow in place of a filter value: the parameter is absent.
Filter ==
  [category : AssetCategory \cup {NoRow},
   min_daily_rate : Nat \cup {NoRow},
   max_daily_rate : Nat \cup {NoRow},
   dates : {r \in Day \X Day : r[1] <= r[2]} \cup {NoRow}]

\* A cursor: the JSON object that is base64-encoded for the client.
Cursor == [created_at : Nat, id : Asset]

ASSUME AssetAssumption == Asset \subseteq Int /\ IsFiniteSet(Asset)
ASSUME DataAssumption ==
  /\ AssetData \subseteq AssetColumns
  /\ WindowData \subseteq WindowRow
  /\ BookingData \subseteq StoredRow
ASSUME QueryAssumption == Query \subseteq Filter
ASSUME LimitAssumption == Limit \subseteq Nat \ {0} /\ MAX_PAGE_LIMIT \in Nat \ {0}
ASSUME TimeAssumption == MaxTime \in Nat /\ TxnSpan \in Nat
ASSUME NoRowIsNoValue ==
  /\ NoRow \notin AssetRow
  /\ NoRow \notin WindowRow
  /\ NoRow \notin Cursor
  /\ NoRow \notin Query

VARIABLES
  now,        \* the database clock
  asset,      \* asset[a]: the row of asset a, or NoRow
  vendor,     \* vendor[v]: the columns of user v that listings depend on
  window,     \* window[w]: the row of availability window w, or NoRow
  booking,    \* booking[b]: the row of booking b, or NoRow
  query,      \* query[c]: the filters of the traversal of client c, or NoRow
  cursor,     \* cursor[c]: the cursor c sends next; NoRow: send none
  finished,   \* finished[c]: the last response had no next_cursor
  seen,       \* seen[c]: the assets c has received in this traversal
  again,      \* again[c]: the assets c has received more than once in it
  steady,     \* steady[c]: assets on offer ever since the traversal began
  ever        \* ever[c]: assets on offer at some time since it began

database == <<now, asset, vendor, window, booking>>
traversal == <<query, cursor, finished, seen, again>>
history == <<steady, ever>>
vars == <<now, asset, vendor, window, booking,
          query, cursor, finished, seen, again, steady, ever>>

TypeOK ==
  /\ now \in Nat
  /\ asset \in [Asset -> AssetRow \cup {NoRow}]
  /\ vendor \in [Vendor -> UserRow]
  /\ window \in [Window -> WindowRow \cup {NoRow}]
  /\ booking \in [Booking -> StoredRow \cup {NoRow}]
  /\ query \in [Client -> Query \cup {NoRow}]
  /\ cursor \in [Client -> Cursor \cup {NoRow}]
  /\ finished \in [Client -> BOOLEAN]
  /\ seen \in [Client -> SUBSET Asset]
  /\ again \in [Client -> SUBSET Asset]
  /\ steady \in [Client -> SUBSET Asset]
  /\ ever \in [Client -> SUBSET Asset]

-----------------------------------------------------------------------------
(* What the queries select *)

Exists(a) == asset[a] # NoRow

\* A fault: the listings of a deleted vendor stay up.
VisibleDespiteDeletedVendor(a) ==
  /\ Exists(a)
  /\ asset[a].data.listing_status = "active"
  /\ asset[a].data.is_available
  /\ ~asset[a].data.deleted
  /\ asset[a].data.city = "lagos"
  /\ vendor[asset[a].data.vendor].is_active

\* _public_visibility_clauses
PubliclyVisible(a) ==
  /\ Exists(a)
  /\ asset[a].data.listing_status = "active"
  /\ asset[a].data.is_available
  /\ ~asset[a].data.deleted
  /\ asset[a].data.city = "lagos"
  /\ vendor[asset[a].data.vendor].is_active
  /\ ~vendor[asset[a].data.vendor].deleted

\* Faults of the overlap test: touching days do not count, or any window blocks.
BlockedWindowExclusive(a, starts_on, ends_on) ==
  \E w \in Window :
    /\ window[w] # NoRow
    /\ window[w].asset = a
    /\ window[w].is_blocked
    /\ window[w].starts_at < ends_on
    /\ window[w].ends_at > starts_on

BlockedWindowOfAnyKind(a, starts_on, ends_on) ==
  \E w \in Window :
    /\ window[w] # NoRow
    /\ window[w].asset = a
    /\ window[w].starts_at <= ends_on
    /\ window[w].ends_at >= starts_on

\* _date_overlap_clauses, the blocked windows
BlockedWindow(a, starts_on, ends_on) ==
  \E w \in Window :
    /\ window[w] # NoRow
    /\ window[w].asset = a
    /\ window[w].is_blocked
    /\ window[w].starts_at <= ends_on
    /\ window[w].ends_at >= starts_on

\* A fault: only a stay that covers all the dates asked counts.
ActiveBookingCovering(a, starts_on, ends_on) ==
  \E b \in Booking :
    /\ booking[b] # NoRow
    /\ booking[b].asset = a
    /\ booking[b].status \in {"confirmed", "active"}
    /\ booking[b].starts_on <= starts_on
    /\ booking[b].ends_on >= ends_on

\* _date_overlap_clauses, the reserving bookings
ActiveBooking(a, starts_on, ends_on) ==
  \E b \in Booking :
    /\ booking[b] # NoRow
    /\ booking[b].asset = a
    /\ booking[b].status \in {"confirmed", "active"}
    /\ booking[b].starts_on <= ends_on
    /\ booking[b].ends_on >= starts_on

\* A fault: the lower rate bound is exclusive.
MatchesAboveMinimum(q) ==
  {a \in Asset :
     /\ PubliclyVisible(a)
     /\ q.category # NoRow => asset[a].data.category = q.category
     /\ q.min_daily_rate # NoRow => asset[a].data.daily_rate > q.min_daily_rate
     /\ q.max_daily_rate # NoRow => asset[a].data.daily_rate <= q.max_daily_rate
     /\ q.dates # NoRow => /\ ~BlockedWindow(a, q.dates[1], q.dates[2])
                           /\ ~ActiveBooking(a, q.dates[1], q.dates[2])}

\* The assets a search with filters q selects, before the cursor.
Matches(q) ==
  {a \in Asset :
     /\ PubliclyVisible(a)
     /\ q.category # NoRow => asset[a].data.category = q.category
     /\ q.min_daily_rate # NoRow => asset[a].data.daily_rate >= q.min_daily_rate
     /\ q.max_daily_rate # NoRow => asset[a].data.daily_rate <= q.max_daily_rate
     /\ q.dates # NoRow => /\ ~BlockedWindow(a, q.dates[1], q.dates[2])
                           /\ ~ActiveBooking(a, q.dates[1], q.dates[2])}

-----------------------------------------------------------------------------
(* Pages *)

\* ORDER BY created_at ASC, id ASC
Precedes(a1, a2) ==
  \/ asset[a1].created_at < asset[a2].created_at
  \/ asset[a1].created_at = asset[a2].created_at /\ a1 < a2

\* LIMIT n over a set in that order: the members with fewer than n before them.
First(S, n) == {a \in S : Cardinality({x \in S : Precedes(x, a)}) < n}

Last(S) == CHOOSE a \in S : \A x \in S : x = a \/ Precedes(x, a)

\* A fault: the cursor names the owner of the last item.
EncodeOwner(a) == [created_at |-> asset[a].created_at, id |-> asset[a].data.vendor]

EncodeCursor(a) == [created_at |-> asset[a].created_at, id |-> a]

\* Faults of the tie-break: rows as old as the cursor come again, or never.
AtOrAfterCursor(a, cur) == cur # NoRow => asset[a].created_at >= cur.created_at
YoungerThanCursor(a, cur) == cur # NoRow => asset[a].created_at > cur.created_at

\* The keyset condition: strictly after the decoded position.
AfterCursor(a, cur) ==
  cur # NoRow =>
    /\ asset[a].created_at >= cur.created_at
    /\ ~(asset[a].created_at = cur.created_at /\ a <= cur.id)

Clamp(limit) == IF limit <= MAX_PAGE_LIMIT THEN limit ELSE MAX_PAGE_LIMIT

\* A fault: no row is fetched beyond the page.
FetchedNoExtra(q, cur, n) == First({a \in Matches(q) : AfterCursor(a, cur)}, n)

\* The rows fetched for a page of n: one more than n, if there is one.
FetchedRows(q, cur, n) == First({a \in Matches(q) : AfterCursor(a, cur)}, n + 1)

HasMore(rows, n) == Cardinality(rows) > n

Items(rows, n) == IF HasMore(rows, n) THEN First(rows, n) ELSE rows

\* next_cursor: present only when a further row was fetched.
NextCursor(rows, n) ==
  IF HasMore(rows, n) THEN EncodeCursor(Last(Items(rows, n))) ELSE NoRow

-----------------------------------------------------------------------------
(* What search promises (schemas/assets.py): the reference the clients'    *)
(* history is kept in, stated day by day and without the query.            *)

\* None of the days is blocked by the vendor or taken by a reserving booking.
Free(a, dates) ==
  \A day \in dates[1] .. dates[2] :
    /\ \A w \in Window :
         window[w] # NoRow /\ window[w].asset = a /\ window[w].is_blocked
           => day \notin window[w].starts_at .. window[w].ends_at
    /\ \A b \in Booking :
         booking[b] # NoRow /\ booking[b].asset = a /\ Reserves(booking[b])
           => day \notin StayDays(booking[b])

\* A listing of Lagos that is up, of a vendor in good standing.
Listed(row) ==
  LET owner == vendor[row.vendor]
  IN /\ row.listing_status = "active" /\ row.is_available /\ ~row.deleted
     /\ row.city = "lagos"
     /\ owner.is_active /\ ~owner.deleted

InRange(rate, q) ==
  /\ q.min_daily_rate = NoRow \/ q.min_daily_rate <= rate
  /\ q.max_daily_rate = NoRow \/ rate <= q.max_daily_rate

\* The assets on offer to a client with filters q.
OnOffer(q) ==
  {a \in Asset :
     /\ Exists(a)
     /\ Listed(asset[a].data)
     /\ q.category \in {NoRow, asset[a].data.category}
     /\ InRange(asset[a].data.daily_rate, q)
     /\ q.dates = NoRow \/ Free(a, q.dates)}

-----------------------------------------------------------------------------
(* Steps of the database: the operators' transactions, each at its COMMIT *)

\* The history of every running traversal follows what is on offer now.
Observe ==
  /\ steady' = [c \in Client |->
                  IF query[c] = NoRow THEN {} ELSE steady[c] \cap OnOffer(query[c])']
  /\ ever' = [c \in Client |->
                  IF query[c] = NoRow THEN {} ELSE ever[c] \cup OnOffer(query[c])']

Tick ==
  /\ now < MaxTime
  /\ now' = now + 1
  /\ UNCHANGED <<asset, vendor, window, booking, traversal, history>>

InsertAsset(a) ==
  /\ ~Exists(a)
  /\ \E age \in 0 .. TxnSpan, d \in AssetData :
       /\ age <= now
       /\ asset' = [asset EXCEPT ![a] = [created_at |-> now - age, data |-> d]]
  /\ UNCHANGED <<now, vendor, window, booking, traversal>>
  /\ Observe

\* Review, pause, soft-delete, reprice, move...: never created_at.
UpdateAsset(a) ==
  /\ Exists(a)
  /\ \E d \in AssetData : asset' = [asset EXCEPT ![a].data = d]
  /\ UNCHANGED <<now, vendor, window, booking, traversal>>
  /\ Observe

UpdateVendor(v) ==
  /\ \E row \in UserRow : vendor' = [vendor EXCEPT ![v] = row]
  /\ UNCHANGED <<now, asset, window, booking, traversal>>
  /\ Observe

\* Insert, change or delete an availability window.
WriteWindow(w) ==
  /\ \E row \in WindowData \cup {NoRow} : window' = [window EXCEPT ![w] = row]
  /\ UNCHANGED <<now, asset, vendor, booking, traversal>>
  /\ Observe

\* The COMMIT of a transaction on bookings (module Bookings): it inserts and
\* changes any number of rows, deletes none, and leaves no conflict.
WriteBookings ==
  /\ booking' \in [Booking -> BookingData \cup {NoRow}]
  /\ \A b \in Booking : booking[b] # NoRow => booking'[b] # NoRow
  /\ \A b1, b2 \in Booking :
       b1 # b2 /\ booking'[b1] # NoRow /\ booking'[b2] # NoRow
         => ~Excludes(booking'[b1], booking'[b2])
  /\ UNCHANGED <<now, asset, vendor, window, traversal>>
  /\ Observe

-----------------------------------------------------------------------------
(* Steps of the clients *)

\* A client settles on filters and starts from the first page.
StartTraversal(c) ==
  /\ query[c] = NoRow \/ finished[c]
  /\ \E q \in Query :
       /\ query' = [query EXCEPT ![c] = q]
       /\ steady' = [steady EXCEPT ![c] = OnOffer(q)]
       /\ ever' = [ever EXCEPT ![c] = OnOffer(q)]
  /\ cursor' = [cursor EXCEPT ![c] = NoRow]
  /\ finished' = [finished EXCEPT ![c] = FALSE]
  /\ seen' = [seen EXCEPT ![c] = {}]
  /\ again' = [again EXCEPT ![c] = {}]
  /\ UNCHANGED database

\* search_public_assets: the next page of the traversal, of any size.
FetchPage(c) ==
  /\ query[c] # NoRow
  /\ ~finished[c]
  /\ \E limit \in Limit :
       LET n == Clamp(limit)
           rows == FetchedRows(query[c], cursor[c], n)
       IN /\ seen' = [seen EXCEPT ![c] = @ \cup Items(rows, n)]
          /\ again' = [again EXCEPT ![c] = @ \cup (seen[c] \cap Items(rows, n))]
          /\ cursor' = [cursor EXCEPT ![c] = NextCursor(rows, n)]
          /\ finished' = [finished EXCEPT ![c] = ~HasMore(rows, n)]
  /\ UNCHANGED <<query, database, history>>

-----------------------------------------------------------------------------

Init ==
  /\ now = 0
  /\ asset = [a \in Asset |-> NoRow]
  /\ vendor = [v \in Vendor |-> [is_active |-> TRUE, deleted |-> FALSE]]
  /\ window = [w \in Window |-> NoRow]
  /\ booking = [b \in Booking |-> NoRow]
  /\ query = [c \in Client |-> NoRow]
  /\ cursor = [c \in Client |-> NoRow]
  /\ finished = [c \in Client |-> FALSE]
  /\ seen = [c \in Client |-> {}]
  /\ again = [c \in Client |-> {}]
  /\ steady = [c \in Client |-> {}]
  /\ ever = [c \in Client |-> {}]

Next ==
  \/ Tick
  \/ \E a \in Asset : InsertAsset(a) \/ UpdateAsset(a)
  \/ \E v \in Vendor : UpdateVendor(v)
  \/ \E w \in Window : WriteWindow(w)
  \/ WriteBookings
  \/ \E c \in Client : StartTraversal(c) \/ FetchPage(c)

Spec == Init /\ [][Next]_vars

\* A client that has received a cursor follows it.
FairSpec == Spec /\ \A c \in Client : WF_vars(FetchPage(c))

-----------------------------------------------------------------------------
(* Properties *)

Running(c) == query[c] # NoRow /\ ~finished[c]

\* Following next_cursor to the end returns every asset that was on offer
\* throughout, and nothing that never was, whatever the operators did
\* meanwhile and however the client varied the page size.
NothingSkippedNorInvented ==
  \A c \in Client :
    /\ query[c] # NoRow /\ finished[c] => steady[c] \subseteq seen[c]
    /\ seen[c] \subseteq ever[c]

\* No asset is delivered twice in a traversal.
NoDuplicates == \A c \in Client : again[c] = {}

\* The inductive reason: the cursor splits the order.  What was delivered lies
\* at or before it; what is still owed lies after it.
CursorSplits ==
  \A c \in Client :
    Running(c) =>
      /\ \A a \in seen[c] : Exists(a) /\ cursor[c] # NoRow /\ ~AfterCursor(a, cursor[c])
      /\ \A a \in steady[c] \ seen[c] : AfterCursor(a, cursor[c])

\* The bookings for which the date filter hides an asset are those for which the
\* exclusion constraint would refuse a confirmed booking of the same dates: the
\* comparisons of the service and the range of the table agree.  The filter's other
\* half, the blocked windows, hides assets the constraint would let be booked.
DateFilterAgreesWithConstraint ==
  \A a \in Asset : \A r \in {r \in Day \X Day : r[1] <= r[2]} :
    LET request == [asset |-> a, starts_on |-> r[1], ends_on |-> r[2],
                    status |-> "confirmed"]
    IN ActiveBooking(a, r[1], r[2]) <=>
         \E b \in Booking : booking[b] # NoRow /\ Excludes(request, booking[b])

\* What a page delivers to c.
Delivered(c) == seen[c]' \ seen[c]

\* Whatever changed since the page before, what a page delivers is on offer to
\* the client at that moment: a listing paused, moved or repriced, whose vendor
\* was suspended, or that was blocked or booked on one of the days, is not.
DeliveredIsOnOffer ==
  [][\A c \in Client : \A a \in Delivered(c) : a \in OnOffer(query[c])]_vars

\* A traversal comes to an end even while rows are added behind and ahead of it.
TraversalEnds == \A c \in Client : Running(c) ~> ~Running(c)

=============================================================================
