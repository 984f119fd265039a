--------------------------- MODULE InventoryProofs ---------------------------
(***************************************************************************)
(* What holds of module Inventory for every set of assets, windows,        *)
(* bookings, clients and filters and every page size: its types, that the  *)
(* queries select what is on offer, and that walking the pages skips       *)
(* nothing and repeats nothing.                                            *)
(***************************************************************************)
EXTENDS Inventory, FiniteSetTheorems, FunctionTheorems, TLAPS

(***************************************************************************)
(* Ranges of days                                                          *)
(***************************************************************************)

\* The comparison the service makes says that two ranges share a day.
LEMMA OverlapIsSharedDay ==
  ASSUME NEW s1 \in Int, NEW e1 \in Int, NEW s2 \in Int, NEW e2 \in Int,
         s1 <= e1, s2 <= e2
  PROVE  (s1 <= e2 /\ e1 >= s2) <=> \E day \in s2 .. e2 : day \in s1 .. e1
<1>1. ASSUME s1 <= e2, e1 >= s2
      PROVE  \E day \in s2 .. e2 : day \in s1 .. e1
  <2>1. CASE s1 <= s2
    BY <1>1, <2>1, s2 \in s2 .. e2, s2 \in s1 .. e1
  <2>2. CASE s2 < s1
    BY <1>1, <2>2, s1 \in s2 .. e2, s1 \in s1 .. e1
  <2>3. QED
    BY <2>1, <2>2
<1>2. ASSUME NEW day \in s2 .. e2, day \in s1 .. e1
      PROVE  s1 <= e2 /\ e1 >= s2
  BY <1>2
<1>3. QED
  BY <1>1, <1>2

LEMMA WindowDays ==
  ASSUME TypeOK, NEW w \in Window, window[w] # NoRow
  PROVE  /\ window[w].starts_at \in Int /\ window[w].ends_at \in Int
         /\ window[w].starts_at <= window[w].ends_at
<1>1. window[w] \in WindowRow
  BY DEF TypeOK
<1>2. QED
  BY <1>1, DayAssumption DEF WindowRow

LEMMA BookingDays ==
  ASSUME TypeOK, NEW b \in Booking, booking[b] # NoRow
  PROVE  /\ booking[b].starts_on \in Int /\ booking[b].ends_on \in Int
         /\ booking[b].starts_on <= booking[b].ends_on
<1>1. booking[b] \in StoredRow
  BY DEF TypeOK
<1>2. QED
  BY <1>1, DayAssumption DEF StoredRow, Row, ValidDateRange

LEMMA BlockedWindowByDay ==
  ASSUME TypeOK, NEW a \in Asset, NEW s \in Int, NEW e \in Int, s <= e
  PROVE  BlockedWindow(a, s, e) <=>
           \E day \in s .. e : \E w \in Window :
             /\ window[w] # NoRow /\ window[w].asset = a /\ window[w].is_blocked
             /\ day \in window[w].starts_at .. window[w].ends_at
<1>1. ASSUME NEW w \in Window, window[w] # NoRow
      PROVE  (window[w].starts_at <= e /\ window[w].ends_at >= s) <=>
               \E day \in s .. e : day \in window[w].starts_at .. window[w].ends_at
  BY <1>1, WindowDays, OverlapIsSharedDay
<1>2. QED
  BY <1>1 DEF BlockedWindow

LEMMA ActiveBookingByDay ==
  ASSUME TypeOK, NEW a \in Asset, NEW s \in Int, NEW e \in Int, s <= e
  PROVE  ActiveBooking(a, s, e) <=>
           \E day \in s .. e : \E b \in Booking :
             /\ booking[b] # NoRow /\ booking[b].asset = a /\ Reserves(booking[b])
             /\ day \in StayDays(booking[b])
<1>1. ASSUME NEW b \in Booking, booking[b] # NoRow
      PROVE  (booking[b].starts_on <= e /\ booking[b].ends_on >= s) <=>
               \E day \in s .. e : day \in StayDays(booking[b])
  BY <1>1, BookingDays, OverlapIsSharedDay DEF StayDays
<1>2. QED
  BY <1>1 DEF ActiveBooking, Reserves, ReservingStatus

\* The query selects what is on offer, no more and no less.
LEMMA MatchesOnOffer ==
  ASSUME TypeOK, NEW q \in Query
  PROVE  Matches(q) = OnOffer(q)
<1>1. q \in Filter
  BY QueryAssumption
<1>2. ASSUME NEW a \in Asset, q.dates # NoRow
      PROVE  Free(a, q.dates) <=> /\ ~BlockedWindow(a, q.dates[1], q.dates[2])
                                  /\ ~ActiveBooking(a, q.dates[1], q.dates[2])
  <2>1. /\ q.dates[1] \in Int /\ q.dates[2] \in Int
        /\ q.dates[1] <= q.dates[2]
    BY <1>1, <1>2, DayAssumption DEF Filter
  <2>2. QED
    BY <2>1, BlockedWindowByDay, ActiveBookingByDay DEF Free
<1>3. ASSUME NEW a \in Asset
      PROVE  PubliclyVisible(a) <=> Exists(a) /\ Listed(asset[a].data)
  BY DEF PubliclyVisible, Listed
<1>4. ASSUME NEW a \in Asset, Exists(a)
      PROVE  /\ q.category # NoRow => asset[a].data.category = q.category
             /\ q.min_daily_rate # NoRow => asset[a].data.daily_rate >= q.min_daily_rate
             /\ q.max_daily_rate # NoRow => asset[a].data.daily_rate <= q.max_daily_rate
             <=> /\ q.category \in {NoRow, asset[a].data.category}
                 /\ InRange(asset[a].data.daily_rate, q)
  <2>1. asset[a] \in AssetRow
    BY <1>4 DEF TypeOK, Exists
  <2>2. asset[a].data.daily_rate \in Nat
    BY <2>1 DEF AssetRow, AssetColumns
  <2>3. q.min_daily_rate \in Nat \cup {NoRow} /\ q.max_daily_rate \in Nat \cup {NoRow}
    BY <1>1 DEF Filter
  <2>4. QED
    BY <2>2, <2>3 DEF InRange
<1>5. QED
  BY <1>2, <1>3, <1>4 DEF Matches, OnOffer

(***************************************************************************)
(* The order of the pages                                                  *)
(***************************************************************************)

Listings == {a \in Asset : Exists(a)}

LEMMA CreatedAtType ==
  ASSUME TypeOK, NEW a \in Listings
  PROVE  asset[a].created_at \in Nat /\ a \in Int
<1>1. asset[a] \in AssetRow
  BY DEF TypeOK, Listings, Exists
<1>2. QED
  BY <1>1, AssetAssumption DEF AssetRow, Listings

\* ORDER BY created_at, id is a strict total order on the rows.
LEMMA PrecedesOrder ==
  ASSUME TypeOK
  PROVE  /\ \A a \in Listings : ~Precedes(a, a)
         /\ \A a, b \in Listings : a = b \/ Precedes(a, b) \/ Precedes(b, a)
         /\ \A a, b, c \in Listings : Precedes(a, b) /\ Precedes(b, c) => Precedes(a, c)
BY CreatedAtType DEF Precedes

\* The number of rows of S before a.
Rank(S, a) == Cardinality({x \in S : Precedes(x, a)})

LEMMA RankType ==
  ASSUME TypeOK, NEW S \in SUBSET Listings, NEW a
  PROVE  /\ IsFiniteSet(S) /\ Cardinality(S) \in Nat
         /\ IsFiniteSet({x \in S : Precedes(x, a)})
         /\ Rank(S, a) \in Nat
<1>1. IsFiniteSet(S)
  <2>1. S \in SUBSET Asset
    BY DEF Listings
  <2>2. QED
    BY <2>1, AssetAssumption, FS_Subset
<1>2. {x \in S : Precedes(x, a)} \in SUBSET S
  OBVIOUS
<1>3. IsFiniteSet({x \in S : Precedes(x, a)})
  BY <1>1, <1>2, FS_Subset
<1>4. QED
  BY <1>1, <1>3, FS_CardinalityType DEF Rank

LEMMA RankMonotone ==
  ASSUME TypeOK, NEW S \in SUBSET Listings, NEW a \in S, NEW b \in S, Precedes(a, b)
  PROVE  Rank(S, a) < Rank(S, b)
<1> DEFINE A == {x \in S : Precedes(x, a)}
           B == {x \in S : Precedes(x, b)}
<1>1. A \in SUBSET B /\ a \in B /\ a \notin A
  BY PrecedesOrder
<1>2. IsFiniteSet(B) /\ Cardinality(A) \in Nat /\ Cardinality(B) \in Nat
  BY RankType DEF Rank
<1>3. Cardinality(A) <= Cardinality(B) /\ Cardinality(A) # Cardinality(B)
  BY <1>1, <1>2, FS_Subset
<1>4. QED
  BY <1>2, <1>3 DEF Rank

\* The ranks of n rows are 0 .. n-1, each taken once.
LEMMA RankSurjective ==
  ASSUME TypeOK, NEW S \in SUBSET Listings, NEW r \in 0 .. Cardinality(S) - 1
  PROVE  \E a \in S : Rank(S, a) = r
<1> DEFINE n == Cardinality(S)
           f == [a \in S |-> Rank(S, a)]
<1>1. IsFiniteSet(S) /\ n \in Nat
  BY RankType
<1>2. \A a \in S : Rank(S, a) \in 0 .. n - 1
  <2> SUFFICES ASSUME NEW a \in S PROVE Rank(S, a) \in 0 .. n - 1
    OBVIOUS
  <2>1. {x \in S : Precedes(x, a)} \in SUBSET S /\ a \notin {x \in S : Precedes(x, a)}
    BY PrecedesOrder
  <2>2. Rank(S, a) <= n /\ Rank(S, a) # n
    BY <1>1, <2>1, FS_Subset DEF Rank
  <2>3. Rank(S, a) \in Nat
    BY RankType
  <2>4. QED
    BY <1>1, <2>2, <2>3
<1>3. \A a, b \in S : f[a] = f[b] => a = b
  <2> SUFFICES ASSUME NEW a \in S, NEW b \in S, a # b PROVE f[a] # f[b]
    OBVIOUS
  <2>1. Precedes(a, b) \/ Precedes(b, a)
    BY PrecedesOrder
  <2>2. Rank(S, a) < Rank(S, b) \/ Rank(S, b) < Rank(S, a)
    BY <2>1, RankMonotone
  <2>3. Rank(S, a) \in Nat /\ Rank(S, b) \in Nat
    BY RankType
  <2>4. QED
    BY <2>2, <2>3
<1>4. f \in Injection(S, 0 .. n - 1)
  <2>1. f \in [S -> 0 .. n - 1]
    BY <1>2
  <2> HIDE DEF f
  <2>2. QED
    BY <1>3, <2>1, Fun_IsInj
<1>5. IsFiniteSet(0 .. n - 1) /\ Cardinality(0 .. n - 1) = n
  BY <1>1, FS_Interval
<1>6. f \in Surjection(S, 0 .. n - 1)
  <2> HIDE DEF f
  <2>1. QED
    BY <1>4, <1>5, FS_Injection
<1>7. QED
  BY <1>6 DEF Surjection

\* A page is closed under going back in the order.
LEMMA FirstIsClosed ==
  ASSUME TypeOK, NEW S \in SUBSET Listings, NEW n \in Nat
  PROVE  /\ First(S, n) \subseteq S
         /\ \A a \in First(S, n), b \in S : b \in First(S, n) \/ Precedes(a, b)
<1>1. First(S, n) = {a \in S : Rank(S, a) < n}
  BY DEF First, Rank
<1>2. ASSUME NEW a \in First(S, n), NEW b \in S, ~Precedes(a, b)
      PROVE  b \in First(S, n)
  <2>1. a = b \/ Precedes(b, a)
    BY <1>1, <1>2, PrecedesOrder
  <2>2. /\ Rank(S, a) \in Nat /\ Rank(S, b) \in Nat
        /\ Rank(S, a) < n
        /\ a = b \/ Rank(S, b) < Rank(S, a)
    BY <1>1, <1>2, <2>1, RankMonotone, RankType
  <2>3. QED
    BY <1>1, <2>2
<1>3. QED
  BY <1>1, <1>2

\* LIMIT n returns n rows, or all of them.
LEMMA FirstIsAllOrFull ==
  ASSUME TypeOK, NEW S \in SUBSET Listings, NEW n \in Nat
  PROVE  First(S, n) = S \/ Cardinality(First(S, n)) = n
<1> SUFFICES ASSUME First(S, n) # S PROVE Cardinality(First(S, n)) = n
  OBVIOUS
<1>1. First(S, n) = {a \in S : Rank(S, a) < n}
  BY DEF First, Rank
<1>2. PICK b \in S : ~(Rank(S, b) < n)
  BY <1>1
<1>3. n \in 0 .. Cardinality(S) - 1
  <2>1. {x \in S : Precedes(x, b)} \in SUBSET S /\ b \notin {x \in S : Precedes(x, b)}
    BY PrecedesOrder
  <2>2. Rank(S, b) <= Cardinality(S) /\ Rank(S, b) # Cardinality(S)
    BY <2>1, RankType, FS_Subset DEF Rank
  <2>3. Rank(S, b) \in Nat /\ Cardinality(S) \in Nat
    BY RankType
  <2>4. QED
    BY <1>2, <2>2, <2>3
<1>4. PICK a \in S : Rank(S, a) = n
  BY <1>3, RankSurjective
<1>5. First(S, n) = {x \in S : Precedes(x, a)}
  <2>1. ASSUME NEW x \in S PROVE Rank(S, x) < n <=> Precedes(x, a)
    <3>1. x = a \/ Precedes(x, a) \/ Precedes(a, x)
      BY PrecedesOrder
    <3>2. Rank(S, x) \in Nat
      BY RankType
    <3>3. Precedes(x, a) => Rank(S, x) < n
      BY <1>4, RankMonotone
    <3>4. Precedes(a, x) => n < Rank(S, x)
      BY <1>4, RankMonotone
    <3>5. QED
      BY <1>4, <3>1, <3>2, <3>3, <3>4
  <2>2. QED
    BY <1>1, <2>1
<1>6. QED
  BY <1>4, <1>5 DEF Rank

\* A nonempty page has a last item.
LEMMA LastItem ==
  ASSUME TypeOK, NEW S \in SUBSET Listings, S # {}
  PROVE  Last(S) \in S /\ \A x \in S : x = Last(S) \/ Precedes(x, Last(S))
<1>1. IsFiniteSet(S) /\ Cardinality(S) \in Nat /\ Cardinality(S) # 0
  BY RankType, FS_EmptySet
<1>2. PICK a \in S : Rank(S, a) = Cardinality(S) - 1
  BY <1>1, RankSurjective
<1>3. {x \in S : Precedes(x, a)} = S \ {a}
  <2>1. {x \in S : Precedes(x, a)} \in SUBSET (S \ {a})
    BY PrecedesOrder
  <2>2. IsFiniteSet(S \ {a}) /\ Cardinality(S \ {a}) = Cardinality(S) - 1
    BY <1>1, FS_RemoveElement
  <2>3. QED
    BY <1>2, <2>1, <2>2, FS_Subset DEF Rank
<1>4. \E y \in S : \A x \in S : x = y \/ Precedes(x, y)
  BY <1>3
<1>5. QED
  BY <1>4 DEF Last

(***************************************************************************)
(* Pages                                                                   *)
(***************************************************************************)

\* The rows the statement selects before ORDER BY and LIMIT.
Candidates(q, cur) == {a \in Matches(q) : AfterCursor(a, cur)}

LEMMA CandidatesAreListings ==
  ASSUME NEW q, NEW cur
  PROVE  Candidates(q, cur) \in SUBSET Listings
BY DEF Candidates, Matches, PubliclyVisible, Listings

LEMMA ClampType ==
  ASSUME NEW limit \in Limit
  PROVE  Clamp(limit) \in Nat \ {0}
BY LimitAssumption DEF Clamp

\* What one page returns: a beginning of the candidates, all of them when there
\* is no next cursor, and the position of its last item when there is one.
LEMMA PageFacts ==
  ASSUME TypeOK, NEW q, NEW cur, NEW n \in Nat \ {0}, NEW rows,
         rows = FetchedRows(q, cur, n)
  PROVE  /\ Items(rows, n) \subseteq Candidates(q, cur)
         /\ ~HasMore(rows, n) => Items(rows, n) = Candidates(q, cur)
         /\ HasMore(rows, n) =>
              \E last \in Items(rows, n) :
                /\ NextCursor(rows, n) = EncodeCursor(last)
                /\ \A x \in Items(rows, n) : x = last \/ Precedes(x, last)
                /\ \A x \in Candidates(q, cur) \ Items(rows, n) : Precedes(last, x)
<1> DEFINE S == Candidates(q, cur)
<1>1. S \in SUBSET Listings
  BY CandidatesAreListings
<1>2. rows = First(S, n + 1) /\ n + 1 \in Nat
  BY DEF FetchedRows, Candidates
<1> HIDE DEF S
<1>3. rows \subseteq S /\ \A a \in rows, b \in S : b \in rows \/ Precedes(a, b)
  BY <1>1, <1>2, FirstIsClosed
<1>4. rows \in SUBSET Listings /\ IsFiniteSet(rows) /\ Cardinality(rows) \in Nat
  BY <1>1, <1>3, RankType
<1>5. CASE ~HasMore(rows, n)
  <2>1. Cardinality(rows) # n + 1
    BY <1>4, <1>5 DEF HasMore
  <2>2. rows = S
    BY <1>1, <1>2, <2>1, FirstIsAllOrFull
  <2>3. QED
    BY <1>5, <2>2 DEF Items, S
<1>6. CASE HasMore(rows, n)
  <2> DEFINE I == First(rows, n)
  <2>1. Items(rows, n) = I
    BY <1>6 DEF Items
  <2>2. I \subseteq rows /\ \A a \in I, b \in rows : b \in I \/ Precedes(a, b)
    BY <1>4, FirstIsClosed
  <2>3. I # {}
    <3>1. 0 \in 0 .. Cardinality(rows) - 1
      BY <1>4, <1>6 DEF HasMore
    <3>2. PICK a \in rows : Rank(rows, a) = 0
      BY <1>4, <3>1, RankSurjective
    <3>3. a \in I
      BY <3>2 DEF First, Rank
    <3>4. QED
      BY <3>3
  <2>4. I \in SUBSET Listings
    BY <1>4, <2>2
  <2> HIDE DEF I
  <2>5. Last(I) \in I /\ \A x \in I : x = Last(I) \/ Precedes(x, Last(I))
    BY <2>3, <2>4, LastItem
  <2>6. \A x \in S \ I : Precedes(Last(I), x)
    BY <1>3, <2>2, <2>5
  <2>7. NextCursor(rows, n) = EncodeCursor(Last(I))
    BY <1>6, <2>1 DEF NextCursor
  <2>8. QED
    BY <1>3, <1>6, <2>1, <2>2, <2>5, <2>6, <2>7 DEF S
<1>7. QED
  BY <1>5, <1>6

\* The keyset condition on the position of b asks for the rows that follow b.
LEMMA AfterEncodedCursor ==
  ASSUME TypeOK, NEW a \in Listings, NEW b \in Listings
  PROVE  /\ EncodeCursor(b) \in Cursor /\ EncodeCursor(b) # NoRow
         /\ AfterCursor(a, EncodeCursor(b)) <=> Precedes(b, a)
<1>1. EncodeCursor(b) \in Cursor
  BY CreatedAtType DEF EncodeCursor, Cursor, Listings
<1>2. EncodeCursor(b) # NoRow
  BY <1>1, NoRowIsNoValue
<1>3. QED
  BY <1>1, <1>2, CreatedAtType DEF AfterCursor, EncodeCursor, Precedes

\* A row that is not after a cursor precedes every row that is.
LEMMA CursorSeparates ==
  ASSUME TypeOK, NEW cur \in Cursor, NEW a \in Listings, NEW b \in Listings,
         ~AfterCursor(a, cur), AfterCursor(b, cur)
  PROVE  Precedes(a, b)
<1>1. cur # NoRow /\ cur.created_at \in Nat /\ cur.id \in Int
  BY NoRowIsNoValue, AssetAssumption DEF Cursor
<1>2. QED
  BY <1>1, CreatedAtType DEF AfterCursor, Precedes

(***************************************************************************)
(* Type correctness                                                        *)
(***************************************************************************)

LEMMA MatchesType == \A q : Matches(q) \subseteq Asset
BY DEF Matches

LEMMA InitType == Init => TypeOK
BY NoRowIsNoValue DEF Init, TypeOK, UserRow

LEMMA ObserveType ==
  ASSUME TypeOK, Observe
  PROVE  steady' \in [Client -> SUBSET Asset] /\ ever' \in [Client -> SUBSET Asset]
<1>1. \A c \in Client : OnOffer(query[c])' \subseteq Asset
  BY DEF OnOffer
<1>2. QED
  BY <1>1 DEF TypeOK, Observe

LEMMA InsertAssetType ==
  ASSUME TypeOK, NEW a \in Asset, InsertAsset(a)
  PROVE  /\ asset' \in [Asset -> AssetRow \cup {NoRow}]
         /\ \A x \in Listings : asset'[x] = asset[x]
<1>1. PICK age \in 0 .. TxnSpan, d \in AssetData :
        /\ age <= now
        /\ asset' = [asset EXCEPT ![a] = [created_at |-> now - age, data |-> d]]
  BY DEF InsertAsset
<1>2. now - age \in Nat
  BY <1>1, TimeAssumption DEF TypeOK
<1>3. [created_at |-> now - age, data |-> d] \in AssetRow
  BY <1>2, DataAssumption DEF AssetRow
<1>4. QED
  BY <1>1, <1>3 DEF TypeOK, InsertAsset, Listings, Exists

LEMMA UpdateAssetType ==
  ASSUME TypeOK, NEW a \in Asset, UpdateAsset(a)
  PROVE  /\ asset' \in [Asset -> AssetRow \cup {NoRow}]
         /\ \A x \in Listings : x \in Listings' /\ asset'[x].created_at = asset[x].created_at
<1>1. PICK d \in AssetData : asset' = [asset EXCEPT ![a].data = d]
  BY DEF UpdateAsset
<1>2. asset[a] \in AssetRow
  BY DEF UpdateAsset, Exists, TypeOK
<1>3. [asset[a] EXCEPT !.data = d] \in AssetRow
  BY <1>2, DataAssumption DEF AssetRow
<1>4. [asset[a] EXCEPT !.data = d].created_at = asset[a].created_at
  BY <1>2 DEF AssetRow
<1>5. asset' = [asset EXCEPT ![a] = [asset[a] EXCEPT !.data = d]]
  BY <1>1
<1>6. QED
  BY <1>3, <1>4, <1>5, NoRowIsNoValue DEF TypeOK, Listings, Exists

LEMMA FetchPageType ==
  ASSUME TypeOK, NEW c \in Client, FetchPage(c)
  PROVE  TypeOK'
<1>1. PICK limit \in Limit :
        LET n == Clamp(limit)
            rows == FetchedRows(query[c], cursor[c], n)
        IN /\ seen' = [seen EXCEPT ![c] = @ \cup Items(rows, n)]
           /\ again' = [again EXCEPT ![c] = @ \cup (seen[c] \cap Items(rows, n))]
           /\ cursor' = [cursor EXCEPT ![c] = NextCursor(rows, n)]
           /\ finished' = [finished EXCEPT ![c] = ~HasMore(rows, n)]
  BY DEF FetchPage
<1> DEFINE n == Clamp(limit)
           rows == FetchedRows(query[c], cursor[c], n)
<1>2. n \in Nat \ {0}
  BY ClampType
<1>3. Items(rows, n) \subseteq Listings
  BY <1>2, PageFacts, CandidatesAreListings
<1>4. NextCursor(rows, n) \in Cursor \cup {NoRow}
  <2>1. CASE HasMore(rows, n)
    <3>1. PICK last \in Items(rows, n) : NextCursor(rows, n) = EncodeCursor(last)
      BY <1>2, <2>1, PageFacts
    <3>2. QED
      BY <1>3, <3>1, AfterEncodedCursor
  <2>2. CASE ~HasMore(rows, n)
    BY <2>2 DEF NextCursor
  <2>3. QED
    BY <2>1, <2>2
<1>5. HasMore(rows, n) \in BOOLEAN
  BY DEF HasMore
<1> HIDE DEF n, rows
<1>6. UNCHANGED <<now, asset, vendor, window, booking, query, steady, ever>>
  BY DEF FetchPage, database, history
<1>7. /\ seen' \in [Client -> SUBSET Asset] /\ again' \in [Client -> SUBSET Asset]
      /\ cursor' \in [Client -> Cursor \cup {NoRow}] /\ finished' \in [Client -> BOOLEAN]
  BY <1>1, <1>3, <1>4, <1>5 DEF TypeOK, Listings, n, rows
<1>8. QED
  BY <1>6, <1>7 DEF TypeOK

LEMMA NextType == TypeOK /\ [Next]_vars => TypeOK'
<1> SUFFICES ASSUME TypeOK, [Next]_vars PROVE TypeOK'
  OBVIOUS
<1>1. CASE Tick
  BY <1>1, TimeAssumption DEF Tick, TypeOK, traversal, history
<1>2. ASSUME NEW a \in Asset, InsertAsset(a) PROVE TypeOK'
  BY <1>2, InsertAssetType, ObserveType DEF InsertAsset, TypeOK, traversal
<1>3. ASSUME NEW a \in Asset, UpdateAsset(a) PROVE TypeOK'
  BY <1>3, UpdateAssetType, ObserveType DEF UpdateAsset, TypeOK, traversal
<1>4. ASSUME NEW v \in Vendor, UpdateVendor(v) PROVE TypeOK'
  BY <1>4, ObserveType DEF UpdateVendor, TypeOK, traversal
<1>5. ASSUME NEW w \in Window, WriteWindow(w) PROVE TypeOK'
  BY <1>5, ObserveType, DataAssumption DEF WriteWindow, TypeOK, traversal
<1>6. CASE WriteBookings
  <2>1. booking' \in [Booking -> StoredRow \cup {NoRow}]
    BY <1>6, DataAssumption DEF WriteBookings
  <2>2. QED
    BY <1>6, <2>1, ObserveType DEF WriteBookings, TypeOK, traversal
<1>7. ASSUME NEW c \in Client, StartTraversal(c) PROVE TypeOK'
  <2>1. \A q : OnOffer(q) \in SUBSET Asset
    BY DEF OnOffer
  <2>2. QED
    BY <1>7, <2>1 DEF StartTraversal, TypeOK, database
<1>8. ASSUME NEW c \in Client, FetchPage(c) PROVE TypeOK'
  BY <1>8, FetchPageType
<1>9. CASE UNCHANGED vars
  BY <1>9 DEF vars, TypeOK
<1>10. QED
  BY <1>1, <1>2, <1>3, <1>4, <1>5, <1>6, <1>7, <1>8, <1>9 DEF Next

\* Every reachable state is well typed: rows satisfy their CHECK constraints and
\* next_cursor, when present, is always the (created_at, id) pair of a row.
THEOREM TypeCorrect == Spec => []TypeOK
BY InitType, NextType, PTL DEF Spec

(***************************************************************************)
(* The date filter                                                         *)
(***************************************************************************)

LEMMA DateFilterAgrees == TypeOK => DateFilterAgreesWithConstraint
<1> SUFFICES ASSUME TypeOK, NEW a \in Asset, NEW r \in Day \X Day, r[1] <= r[2]
             PROVE  LET request == [asset |-> a, starts_on |-> r[1], ends_on |-> r[2],
                                    status |-> "confirmed"]
                    IN ActiveBooking(a, r[1], r[2]) <=>
                         \E b \in Booking : booking[b] # NoRow /\ Excludes(request, booking[b])
  BY DEF DateFilterAgreesWithConstraint
<1> DEFINE request == [asset |-> a, starts_on |-> r[1], ends_on |-> r[2],
                       status |-> "confirmed"]
<1>1. r[1] \in Int /\ r[2] \in Int
  BY DayAssumption
<1>2. ASSUME NEW b \in Booking
      PROVE  Excludes(request, booking[b]) <=>
               /\ booking[b].asset = a /\ Reserves(booking[b])
               /\ \E day \in r[1] .. r[2] : day \in StayDays(booking[b])
  BY DEF Excludes, Reserves, ReservingStatus, StayDays
<1>3. QED
  BY <1>1, <1>2, ActiveBookingByDay

\* For every table and every range of dates, the booking half of the date filter
\* hides an asset exactly when the exclusion constraint would refuse a confirmed
\* booking.  Blocked windows, the other half, are unknown to the constraint.
THEOREM DateFilterIsTheConstraint == Spec => []DateFilterAgreesWithConstraint
BY TypeCorrect, DateFilterAgrees, PTL

(***************************************************************************)
(* Walking the pages                                                       *)
(***************************************************************************)

\* What the history of a client knows: steady listings are on offer, and what is
\* on offer is recorded.
HistoryFollows ==
  \A c \in Client :
    /\ query[c] = NoRow => seen[c] = {}
    /\ query[c] # NoRow => /\ steady[c] \subseteq OnOffer(query[c])
                           /\ OnOffer(query[c]) \subseteq ever[c]

PagingInv ==
  HistoryFollows /\ NothingSkippedNorInvented /\ NoDuplicates /\ CursorSplits

LEMMA InitPaging == Init => PagingInv
BY DEF Init, PagingInv, HistoryFollows, NothingSkippedNorInvented, NoDuplicates,
       CursorSplits, Running

\* Steps of the database take listings out of steady and put them into ever.
LEMMA DatabaseStepPaging ==
  ASSUME TypeOK, PagingInv, UNCHANGED traversal, Observe,
         \A x \in Listings : x \in Listings' /\ asset'[x].created_at = asset[x].created_at
  PROVE  PagingInv'
<1>1. UNCHANGED <<query, cursor, finished, seen, again>>
  BY DEF traversal
<1>2. ASSUME NEW c \in Client, query[c] = NoRow
      PROVE  steady'[c] = {} /\ ever'[c] = {}
  BY <1>2 DEF Observe
<1>3. ASSUME NEW c \in Client, query[c] # NoRow
      PROVE  /\ steady'[c] = steady[c] \cap OnOffer(query[c])'
             /\ ever'[c] = ever[c] \cup OnOffer(query[c])'
  BY <1>3 DEF Observe
<1>4. HistoryFollows'
  BY <1>1, <1>3 DEF PagingInv, HistoryFollows
<1>5. NothingSkippedNorInvented'
  BY <1>1, <1>2, <1>3 DEF PagingInv, NothingSkippedNorInvented, HistoryFollows
<1>6. NoDuplicates'
  BY <1>1 DEF PagingInv, NoDuplicates
<1>7. CursorSplits'
  <2> SUFFICES ASSUME NEW c \in Client, Running(c)
               PROVE  /\ \A a \in seen[c] : Exists(a)' /\ cursor[c] # NoRow
                                             /\ ~AfterCursor(a, cursor[c])'
                      /\ \A a \in steady'[c] \ seen[c] : AfterCursor(a, cursor[c])'
    BY <1>1 DEF CursorSplits, Running
  <2>1. query[c] # NoRow
    BY DEF Running
  <2>2. steady'[c] \subseteq steady[c]
    BY <1>3, <2>1
  <2>3. seen[c] \subseteq Listings /\ steady[c] \subseteq Listings
    BY <2>1 DEF PagingInv, CursorSplits, HistoryFollows, OnOffer, Listings, TypeOK
  <2>4. \A a \in Listings : AfterCursor(a, cursor[c])' <=> AfterCursor(a, cursor[c])
    BY <1>1 DEF AfterCursor
  <2>5. \A a \in seen[c] : Exists(a)' /\ cursor[c] # NoRow /\ ~AfterCursor(a, cursor[c])
    BY <2>3 DEF PagingInv, CursorSplits, Listings
  <2>6. \A a \in steady[c] \ seen[c] : AfterCursor(a, cursor[c])
    BY DEF PagingInv, CursorSplits
  <2>7. QED
    BY <2>2, <2>3, <2>4, <2>5, <2>6
<1>8. QED
  BY <1>4, <1>5, <1>6, <1>7 DEF PagingInv

LEMMA StartTraversalPaging ==
  ASSUME TypeOK, PagingInv, NEW c \in Client, StartTraversal(c)
  PROVE  PagingInv'
<1>1. PICK q \in Query :
        /\ query' = [query EXCEPT ![c] = q]
        /\ steady' = [steady EXCEPT ![c] = OnOffer(q)]
        /\ ever' = [ever EXCEPT ![c] = OnOffer(q)]
  BY DEF StartTraversal
<1>2. /\ cursor' = [cursor EXCEPT ![c] = NoRow]
      /\ finished' = [finished EXCEPT ![c] = FALSE]
      /\ seen' = [seen EXCEPT ![c] = {}]
      /\ again' = [again EXCEPT ![c] = {}]
      /\ UNCHANGED <<now, asset, vendor, window, booking>>
  BY DEF StartTraversal, database
<1>3. \A a : Exists(a)' <=> Exists(a)
  BY <1>2 DEF Exists
<1>4. \A d \in Client \ {c} :
        /\ query'[d] = query[d] /\ cursor'[d] = cursor[d] /\ finished'[d] = finished[d]
        /\ seen'[d] = seen[d] /\ again'[d] = again[d]
        /\ steady'[d] = steady[d] /\ ever'[d] = ever[d]
  BY <1>1, <1>2 DEF TypeOK
<1>5. /\ query'[c] = q /\ cursor'[c] = NoRow /\ finished'[c] = FALSE
      /\ seen'[c] = {} /\ again'[c] = {}
      /\ steady'[c] = OnOffer(q) /\ ever'[c] = OnOffer(q)
  BY <1>1, <1>2 DEF TypeOK
<1>6. q # NoRow
  BY NoRowIsNoValue
<1>7. /\ \A d \in Client \ {c} : OnOffer(query[d])' = OnOffer(query[d])
      /\ OnOffer(query[c])' = OnOffer(q)
  BY <1>2, <1>4, <1>5 DEF OnOffer, Exists, Listed, InRange, Free
<1>8. HistoryFollows'
  BY <1>4, <1>5, <1>6, <1>7 DEF PagingInv, HistoryFollows
<1>9. NothingSkippedNorInvented'
  BY <1>4, <1>5 DEF PagingInv, NothingSkippedNorInvented
<1>10. NoDuplicates'
  BY <1>4, <1>5 DEF PagingInv, NoDuplicates
<1>11. CursorSplits'
  <2>1. \A d \in Client \ {c} : \A a : AfterCursor(a, cursor[d])' <=> AfterCursor(a, cursor[d])
    BY <1>2, <1>4 DEF AfterCursor
  <2>2. \A a : AfterCursor(a, cursor[c])'
    BY <1>5 DEF AfterCursor
  <2>3. QED
    BY <1>3, <1>4, <1>5, <2>1, <2>2 DEF PagingInv, CursorSplits, Running
<1>12. QED
  BY <1>8, <1>9, <1>10, <1>11 DEF PagingInv

LEMMA FetchPagePaging ==
  ASSUME TypeOK, PagingInv, NEW c \in Client, FetchPage(c)
  PROVE  PagingInv'
<1>1. PICK limit \in Limit :
        LET n == Clamp(limit)
            rows == FetchedRows(query[c], cursor[c], n)
        IN /\ seen' = [seen EXCEPT ![c] = @ \cup Items(rows, n)]
           /\ again' = [again EXCEPT ![c] = @ \cup (seen[c] \cap Items(rows, n))]
           /\ cursor' = [cursor EXCEPT ![c] = NextCursor(rows, n)]
           /\ finished' = [finished EXCEPT ![c] = ~HasMore(rows, n)]
  BY DEF FetchPage
<1> DEFINE n == Clamp(limit)
           rows == FetchedRows(query[c], cursor[c], n)
           items == Items(rows, n)
           found == Candidates(query[c], cursor[c])
<1>2. /\ items \subseteq found
      /\ ~HasMore(rows, n) => items = found
      /\ HasMore(rows, n) =>
           \E last \in items :
             /\ NextCursor(rows, n) = EncodeCursor(last)
             /\ \A x \in items : x = last \/ Precedes(x, last)
             /\ \A x \in found \ items : Precedes(last, x)
  BY ClampType, PageFacts
<1>3. /\ seen'[c] = seen[c] \cup items
      /\ again'[c] = again[c] \cup (seen[c] \cap items)
      /\ cursor'[c] = NextCursor(rows, n)
      /\ finished'[c] = ~HasMore(rows, n)
  BY <1>1 DEF TypeOK
<1> HIDE DEF n, rows, items
<1>4. UNCHANGED <<now, asset, vendor, window, booking, query, steady, ever>>
  BY DEF FetchPage, database, history
<1>5. \A d \in Client \ {c} : /\ seen'[d] = seen[d] /\ again'[d] = again[d]
                              /\ cursor'[d] = cursor[d] /\ finished'[d] = finished[d]
  BY <1>1 DEF TypeOK
<1>6. query[c] # NoRow /\ ~finished[c] /\ query[c] \in Query /\ Running(c)
  BY DEF FetchPage, TypeOK, Running
<1>7. found = {a \in OnOffer(query[c]) : AfterCursor(a, cursor[c])} /\ found \subseteq Listings
  BY <1>6, MatchesOnOffer, CandidatesAreListings DEF Candidates
<1> HIDE DEF found
<1>8. /\ \A a \in seen[c] : a \in Listings /\ cursor[c] # NoRow /\ ~AfterCursor(a, cursor[c])
      /\ \A a \in steady[c] \ seen[c] : a \in found
  BY <1>6, <1>7 DEF PagingInv, CursorSplits, HistoryFollows, Listings, TypeOK
<1>9. HistoryFollows'
  <2>1. \A d \in Client : OnOffer(query[d])' = OnOffer(query[d])
    BY <1>4 DEF OnOffer, Exists, Listed, InRange, Free
  <2>2. QED
    BY <1>4, <1>5, <1>6, <2>1 DEF PagingInv, HistoryFollows
<1>10. NothingSkippedNorInvented'
  <2>1. items \subseteq ever[c]
    BY <1>2, <1>6, <1>7 DEF PagingInv, HistoryFollows
  <2>2. finished'[c] => steady[c] \subseteq seen'[c]
    BY <1>2, <1>3, <1>8
  <2>3. QED
    BY <1>3, <1>4, <1>5, <2>1, <2>2 DEF PagingInv, NothingSkippedNorInvented
<1>11. NoDuplicates'
  <2>1. seen[c] \cap items = {}
    BY <1>2, <1>7, <1>8
  <2>2. QED
    BY <1>3, <1>5, <2>1 DEF PagingInv, NoDuplicates
<1>12. CursorSplits'
  <2>1. ASSUME HasMore(rows, n)
        PROVE  /\ \A a \in seen'[c] : Exists(a)' /\ cursor'[c] # NoRow
                                        /\ ~AfterCursor(a, cursor[c])'
               /\ \A a \in steady[c] \ seen'[c] : AfterCursor(a, cursor[c])'
    <3>1. PICK last \in items :
            /\ NextCursor(rows, n) = EncodeCursor(last)
            /\ \A x \in items : x = last \/ Precedes(x, last)
            /\ \A x \in found \ items : Precedes(last, x)
      BY <1>2, <2>1
    <3>2. last \in Listings /\ last \in found
      BY <1>2, <1>7
    <3>3. \A a : AfterCursor(a, cursor[c])' <=> AfterCursor(a, EncodeCursor(last))
      BY <1>3, <1>4, <3>1 DEF AfterCursor
    <3>4. \A a \in seen[c] : Precedes(a, last)
      BY <1>7, <1>8, <3>2, CursorSeparates DEF TypeOK
    <3>5. \A a \in seen'[c] : a \in Listings /\ (a = last \/ Precedes(a, last))
      BY <1>2, <1>3, <1>7, <1>8, <3>1, <3>4
    <3>6. \A a \in seen'[c] : ~Precedes(last, a)
      BY <3>2, <3>5, PrecedesOrder
    <3>7. \A a \in steady[c] \ seen'[c] : a \in Listings /\ Precedes(last, a)
      BY <1>3, <1>7, <1>8, <3>1
    <3>8. cursor'[c] # NoRow
      BY <1>3, <3>1, <3>2, AfterEncodedCursor
    <3>9. \A a \in seen'[c] : Exists(a)'
      BY <1>4, <3>5 DEF Listings, Exists
    <3>10. QED
      BY <3>2, <3>3, <3>5, <3>6, <3>7, <3>8, <3>9, AfterEncodedCursor
  <2>2. ASSUME NEW d \in Client \ {c}, Running(d)'
        PROVE  /\ \A a \in seen'[d] : Exists(a)' /\ cursor'[d] # NoRow
                                        /\ ~AfterCursor(a, cursor[d])'
               /\ \A a \in steady[d] \ seen'[d] : AfterCursor(a, cursor[d])'
    <3>1. Running(d)
      BY <1>4, <1>5, <2>2 DEF Running
    <3>2. \A a : /\ AfterCursor(a, cursor[d])' <=> AfterCursor(a, cursor[d])
                 /\ Exists(a)' <=> Exists(a)
      BY <1>4, <1>5 DEF AfterCursor, Exists
    <3>3. QED
      BY <1>5, <3>1, <3>2 DEF PagingInv, CursorSplits
  <2>3. Running(c)' => HasMore(rows, n)
    BY <1>3 DEF Running
  <2>4. QED
    BY <1>4, <2>1, <2>2, <2>3 DEF CursorSplits
<1>13. QED
  BY <1>9, <1>10, <1>11, <1>12 DEF PagingInv

LEMMA NextPaging == TypeOK /\ PagingInv /\ [Next]_vars => PagingInv'
<1> SUFFICES ASSUME TypeOK, PagingInv, [Next]_vars PROVE PagingInv'
  OBVIOUS
<1>1. CASE UNCHANGED <<asset, vendor, window, booking, traversal, history>>
  <2>1. UNCHANGED <<query, cursor, finished, seen, again, steady, ever>>
    BY <1>1 DEF traversal, history
  <2>2. \A c \in Client : OnOffer(query[c])' = OnOffer(query[c])
    BY <1>1, <2>1 DEF OnOffer, Exists, Listed, InRange, Free
  <2>3. \A c \in Client : \A a : /\ AfterCursor(a, cursor[c])' <=> AfterCursor(a, cursor[c])
                                 /\ Exists(a)' <=> Exists(a)
    BY <1>1, <2>1 DEF AfterCursor, Exists
  <2>4. HistoryFollows'
    BY <2>1, <2>2 DEF PagingInv, HistoryFollows
  <2>5. CursorSplits'
    BY <2>1, <2>3 DEF PagingInv, CursorSplits, Running
  <2>6. QED
    BY <2>1, <2>4, <2>5 DEF PagingInv, NothingSkippedNorInvented, NoDuplicates
<1>2. ASSUME NEW a \in Asset, InsertAsset(a) PROVE PagingInv'
  <2>1. \A x \in Listings : x \in Listings' /\ asset'[x].created_at = asset[x].created_at
    BY <1>2, InsertAssetType DEF Listings, Exists
  <2>2. QED
    BY <1>2, <2>1, DatabaseStepPaging DEF InsertAsset
<1>3. ASSUME NEW a \in Asset, UpdateAsset(a) PROVE PagingInv'
  BY <1>3, UpdateAssetType, DatabaseStepPaging DEF UpdateAsset
<1>4. ASSUME UNCHANGED <<asset, traversal>>, Observe PROVE PagingInv'
  BY <1>4, DatabaseStepPaging DEF Listings, Exists
<1>5. ASSUME NEW c \in Client, StartTraversal(c) \/ FetchPage(c) PROVE PagingInv'
  BY <1>5, StartTraversalPaging, FetchPagePaging
<1>6. QED
  BY <1>1, <1>2, <1>3, <1>4, <1>5
     DEF Next, Tick, UpdateVendor, WriteWindow, WriteBookings, vars, traversal, history

\* For any assets, filters and page sizes, and whatever operators change between
\* the pages: following next_cursor to the end delivers every listing that stayed
\* on offer and none that never was.
THEOREM WalkIsComplete == Spec => []NothingSkippedNorInvented
BY TypeCorrect, InitPaging, NextPaging, PTL DEF Spec, PagingInv

\* ... delivers no listing twice, even when many were created at the same time.
THEOREM WalkRepeatsNothing == Spec => []NoDuplicates
BY TypeCorrect, InitPaging, NextPaging, PTL DEF Spec, PagingInv

\* ... because the cursor always separates what was delivered from what is owed.
THEOREM CursorAlwaysSplits == Spec => []CursorSplits
BY TypeCorrect, InitPaging, NextPaging, PTL DEF Spec, PagingInv

LEMMA DeliveryStep ==
  TypeOK /\ [Next]_vars => \A c \in Client : \A a \in Delivered(c) : a \in OnOffer(query[c])
<1> SUFFICES ASSUME TypeOK, [Next]_vars, NEW c \in Client
             PROVE  seen'[c] \ seen[c] \subseteq OnOffer(query[c])
  BY DEF Delivered
<1>1. CASE UNCHANGED seen
  BY <1>1
<1>2. ASSUME NEW d \in Client, StartTraversal(d)
      PROVE  seen'[c] \ seen[c] \subseteq OnOffer(query[c])
  BY <1>2 DEF StartTraversal, TypeOK
<1>3. ASSUME NEW d \in Client, FetchPage(d)
      PROVE  seen'[c] \ seen[c] \subseteq OnOffer(query[c])
  <2>1. PICK limit \in Limit :
          seen' = [seen EXCEPT ![d] =
            @ \cup Items(FetchedRows(query[d], cursor[d], Clamp(limit)), Clamp(limit))]
    BY <1>3 DEF FetchPage
  <2>2. Items(FetchedRows(query[d], cursor[d], Clamp(limit)), Clamp(limit))
          \subseteq Candidates(query[d], cursor[d])
    BY ClampType, PageFacts
  <2>3. query[d] \in Query
    BY <1>3 DEF FetchPage, TypeOK
  <2>4. Candidates(query[d], cursor[d]) \subseteq OnOffer(query[d])
    BY <2>3, MatchesOnOffer DEF Candidates
  <2>5. QED
    BY <2>1, <2>2, <2>4 DEF TypeOK
<1>4. QED
  BY <1>1, <1>2, <1>3
     DEF Next, Tick, InsertAsset, UpdateAsset, UpdateVendor, WriteWindow, WriteBookings,
         vars, traversal

\* Every page, whatever its cursor, holds only listings on offer at that moment.
THEOREM PagesAreOnOffer == Spec => DeliveredIsOnOffer
BY TypeCorrect, DeliveryStep, PTL DEF Spec, DeliveredIsOnOffer
=============================================================================
