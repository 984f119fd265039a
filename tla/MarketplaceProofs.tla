-------------------------- MODULE MarketplaceProofs ---------------------------
(***************************************************************************)
(* The composition of the search and the booking sessions, for any number  *)
(* of both: the sessions implement what module Inventory assumes of them,  *)
(* so what is proved there and in BookingsProofs holds of the whole; the   *)
(* references to assets hold; and refusals agree with the search.          *)
(***************************************************************************)
EXTENDS Marketplace, InventoryProofs

Proved == INSTANCE BookingsProofs WITH table <- booking

(***************************************************************************)
(* The table of module Marketplace is the one BookingsProofs is about      *)
(***************************************************************************)

LEMMA TableAssumptions ==
  /\ Status \subseteq Proved!BookingStatus
  /\ Stay \subseteq Day \X Day
  /\ NoBooking \notin Booking
  /\ Day \subseteq Int
  /\ NoRow \notin Proved!Row
BY SessionAssumption, DayAssumption, NoRowAssumption
   DEF Row, BookingStatus, Proved!Row, Proved!BookingStatus

LEMMA SameRows ==
  /\ Table!NewRows = Proved!NewRows
  /\ \A row : Table!Updated(row) = Proved!Updated(row)
  /\ StoredRow = Proved!StoredRow
<1>1. Table!NewRows = Proved!NewRows
  BY DEF Table!NewRows, Proved!NewRows
<1>2. \A row : Table!Updated(row) = Proved!Updated(row)
  BY DEF Table!Updated, Proved!Updated
<1>3. StoredRow = Proved!StoredRow
  BY DEF StoredRow, Row, BookingStatus, ValidDateRange, Proved!StoredRow, Proved!Row,
         Proved!BookingStatus, Proved!ValidDateRange
<1>4. QED
  BY <1>1, <1>2, <1>3

LEMMA SameExcludes ==
  \A row1, row2 :
    /\ Table!Excludes(row1, row2) <=> Proved!Excludes(row1, row2)
    /\ Excludes(row1, row2) <=> Proved!Excludes(row1, row2)
BY Zenon DEF Excludes, Reserves, ReservingStatus, StayDays,
   Table!Excludes, Table!Reserves, Table!ReservingStatus, Table!StayDays,
   Proved!Excludes, Proved!Reserves, Proved!ReservingStatus, Proved!StayDays

LEMMA SameNext == Table!Next => Proved!Next
<1>1. \A s \in Session, b \in Booking :
        Table!Insert(s, b) \/ Table!Update(s, b) => Proved!Insert(s, b) \/ Proved!Update(s, b)
  BY SameRows, Zenon
     DEF Table!Insert, Table!Update, Table!Write, Table!Place, Table!ValidDateRange,
         Table!Abort, Table!NoWrites, Table!Wrote, Table!Current,
         Proved!Insert, Proved!Update, Proved!Write, Proved!Place, Proved!ValidDateRange,
         Proved!Abort, Proved!NoWrites, Proved!Wrote, Proved!Current
<1>2. \A s \in Session : Table!Lock(s) => Proved!Lock(s)
  BY SameRows, Zenon
     DEF Table!Lock, Table!Write, Table!Place, Table!ValidDateRange, Table!Abort,
         Table!NoWrites, Table!OthersWrote, Table!Wrote, Table!Current,
         Proved!Lock, Proved!Write, Proved!Place, Proved!ValidDateRange, Proved!Abort,
         Proved!NoWrites, Proved!OthersWrote, Proved!Wrote, Proved!Current
<1>3. \A s \in Session :
        Table!CheckPass(s) \/ Table!CheckFail(s) => Proved!CheckPass(s) \/ Proved!CheckFail(s)
  BY SameExcludes, Zenon
     DEF Table!CheckPass, Table!CheckFail, Table!Abort, Table!NoWrites, Table!LiveConflict,
         Table!BusyConflict, Table!Pending, Table!OthersWrote, Table!Wrote, Table!Current,
         Proved!CheckPass, Proved!CheckFail, Proved!Abort, Proved!NoWrites,
         Proved!LiveConflict, Proved!BusyConflict, Proved!Pending, Proved!OthersWrote,
         Proved!Wrote, Proved!Current
<1>4. \A s \in Session :
        Table!Detect(s) \/ Table!StatementFails(s) => Proved!Detect(s) \/ Proved!StatementFails(s)
  BY SameExcludes, Zenon
     DEF Table!Detect, Table!StatementFails, Table!Abort, Table!NoWrites, Table!Deadlocked,
         Table!WaitsFor, Table!BusyConflict, Table!Pending, Table!Wrote,
         Proved!Detect, Proved!StatementFails, Proved!Abort, Proved!NoWrites,
         Proved!Deadlocked, Proved!WaitsFor, Proved!BusyConflict, Proved!Pending, Proved!Wrote
<1>5. \A s \in Session :
        Table!Begin(s) \/ Table!Commit(s) \/ Table!Rollback(s)
          => Proved!Begin(s) \/ Proved!Commit(s) \/ Proved!Rollback(s)
  BY Zenon
     DEF Table!Begin, Table!Commit, Table!Rollback, Table!End, Table!NoWrites, Table!Current,
         Table!Wrote, Proved!Begin, Proved!Commit, Proved!Rollback, Proved!End,
         Proved!NoWrites, Proved!Current, Proved!Wrote
<1>6. Table!Crash => Proved!Crash
  BY Zenon DEF Table!Crash, Table!NoWrites, Proved!Crash, Proved!NoWrites
<1>7. QED
  BY <1>1, <1>2, <1>3, <1>4, <1>5, <1>6, Zenon DEF Table!Next, Proved!Next

\* The operators and the clients of the search do not touch the sessions' state.
LEMMA CatalogueLeavesTable ==
  ASSUME CatalogueStep
  PROVE  UNCHANGED Proved!vars
<1>1. UNCHANGED booking
  BY DEF CatalogueStep, Tick, InsertAsset, UpdateAsset, UpdateVendor, WriteWindow,
         StartTraversal, FetchPage, database
<1>2. QED
  BY <1>1 DEF CatalogueStep, session, Proved!vars

LEMMA TableStep == [MarketNext]_marketVars => [Proved!Next]_(Proved!vars)
BY SameNext, CatalogueLeavesTable DEF MarketNext, SessionStep, marketVars, Proved!vars

TableInv == Proved!TypeOK /\ Proved!IInv

LEMMA InitTable == MarketInit => TableInv
<1>1. MarketInit => Proved!Init
  BY DEF MarketInit, Table!Init, Table!NoWrites, Proved!Init, Proved!NoWrites
<1>2. QED
  BY <1>1, TableAssumptions, Proved!InitType, Proved!InitIInv DEF TableInv

LEMMA NextTable == TableInv /\ [MarketNext]_marketVars => TableInv'
BY TableAssumptions, TableStep, Proved!NextType, Proved!NextIInv DEF TableInv

(***************************************************************************)
(* The rows the sessions write are the ones module Inventory expects       *)
(***************************************************************************)

RowInv ==
  /\ \A b \in Booking : booking[b] \in Proved!NewRows \cup {NoRow}
  /\ \A s \in Session : \A b \in Booking : writes[s][b] \in Proved!NewRows \cup {NoRow}

LEMMA UpdatedAreNew ==
  ASSUME NEW row \in Proved!NewRows
  PROVE  Proved!Updated(row) \subseteq Proved!NewRows
<1>1. PICK a \in Asset, stay \in Stay, st \in Status :
        row = [asset |-> a, starts_on |-> stay[1], ends_on |-> stay[2], status |-> st]
  BY DEF Proved!NewRows
<1>2. \A t \in Status : [row EXCEPT !.status = t] \in Proved!NewRows
  BY <1>1 DEF Proved!NewRows
<1>3. \A r \in Stay : [row EXCEPT !.starts_on = r[1], !.ends_on = r[2]] \in Proved!NewRows
  <2> SUFFICES ASSUME NEW r \in Stay
               PROVE  [row EXCEPT !.starts_on = r[1], !.ends_on = r[2]] \in Proved!NewRows
    OBVIOUS
  <2>1. [row EXCEPT !.starts_on = r[1], !.ends_on = r[2]]
          = [asset |-> a, starts_on |-> r[1], ends_on |-> r[2], status |-> st]
    <3> DEFINE new == [row EXCEPT !.starts_on = r[1], !.ends_on = r[2]]
    <3>1. row \in [asset : Asset, starts_on : Day, ends_on : Day, status : Status]
      BY <1>1, SessionAssumption
    <3>2. r[1] \in Day /\ r[2] \in Day
      BY SessionAssumption
    <3>3. new \in [asset : Asset, starts_on : Day, ends_on : Day, status : Status]
      BY <3>1, <3>2
    <3>4. new.asset = a /\ new.starts_on = r[1] /\ new.ends_on = r[2] /\ new.status = st
      BY <1>1, <3>1
    <3> HIDE DEF new
    <3>5. new = [asset |-> a, starts_on |-> r[1], ends_on |-> r[2], status |-> st]
      BY <3>3, <3>4
    <3>6. QED
      BY <3>5 DEF new
  <2>2. [asset |-> a, starts_on |-> r[1], ends_on |-> r[2], status |-> st] \in Proved!NewRows
    BY DEF Proved!NewRows
  <2>3. QED
    BY <2>1, <2>2, Zenon
<1>4. \A x \in Asset : [row EXCEPT !.asset = x] \in Proved!NewRows
  BY <1>1 DEF Proved!NewRows
<1>5. QED
  BY <1>2, <1>3, <1>4 DEF Proved!Updated

LEMMA WriteRow ==
  ASSUME Proved!TypeOK, RowInv, NEW s \in Session, NEW b \in Booking,
         NEW row \in Proved!NewRows, Proved!Write(s, b, row)
  PROVE  RowInv'
<1>1. UNCHANGED booking
  BY DEF Proved!Write, Proved!Place, Proved!Abort
<1>2. \A t \in Session, c \in Booking : writes'[t][c] \in {writes[t][c], row, NoRow}
  BY DEF Proved!Write, Proved!Place, Proved!Abort, Proved!NoWrites, Proved!TypeOK
<1>3. QED
  BY <1>1, <1>2 DEF RowInv, Proved!NewRows

LEMMA DiscardRow ==
  ASSUME Proved!TypeOK, RowInv, UNCHANGED booking,
         \A s \in Session : writes'[s] = writes[s] \/ writes'[s] = Proved!NoWrites
  PROVE  RowInv'
BY DEF Proved!NoWrites, RowInv, Proved!NewRows

LEMMA NextRow ==
  ASSUME Proved!TypeOK, RowInv, [Proved!Next]_(Proved!vars)
  PROVE  RowInv'
<1>1. ASSUME NEW s \in Session, NEW b \in Booking, Proved!Insert(s, b) PROVE RowInv'
  BY <1>1, WriteRow DEF Proved!Insert
<1>2. ASSUME NEW s \in Session, Proved!Lock(s) PROVE RowInv'
  <2>1. target[s] \in Booking
    BY <1>2 DEF Proved!TypeOK, Proved!Lock
  <2>2. Proved!Current(s, target[s]) \in Proved!NewRows
    BY <1>2, <2>1 DEF Proved!TypeOK, Proved!Lock, Proved!Current, Proved!Wrote, RowInv
  <2>3. QED
    BY <1>2, <2>1, <2>2, UpdatedAreNew, WriteRow DEF Proved!Lock
<1>3. ASSUME NEW s \in Session,
             \/ Proved!CheckFail(s) \/ Proved!Detect(s) \/ Proved!StatementFails(s)
             \/ Proved!Rollback(s)
      PROVE  RowInv'
  BY <1>3, DiscardRow
     DEF Proved!CheckFail, Proved!Detect, Proved!StatementFails, Proved!Rollback,
         Proved!Abort, Proved!End, Proved!TypeOK
<1>4. ASSUME NEW s \in Session, NEW b \in Booking,
             Proved!Begin(s) \/ Proved!Update(s, b) \/ Proved!CheckPass(s)
      PROVE  RowInv'
  BY <1>4, DiscardRow DEF Proved!Begin, Proved!Update, Proved!CheckPass
<1>5. ASSUME NEW s \in Session, Proved!Begin(s) \/ Proved!CheckPass(s) PROVE RowInv'
  BY <1>5, DiscardRow DEF Proved!Begin, Proved!CheckPass
<1>6. ASSUME NEW s \in Session, Proved!Commit(s) PROVE RowInv'
  <2>1. \A b \in Booking : booking'[b] \in Proved!NewRows \cup {NoRow}
    BY <1>6 DEF Proved!Commit, Proved!Current, RowInv
  <2>2. \A t \in Session, b \in Booking : writes'[t][b] \in {writes[t][b], NoRow}
    BY <1>6 DEF Proved!Commit, Proved!End, Proved!NoWrites, Proved!TypeOK
  <2>3. QED
    BY <2>1, <2>2 DEF RowInv, Proved!NewRows
<1>7. CASE Proved!Crash
  BY <1>7, DiscardRow DEF Proved!Crash
<1>8. CASE UNCHANGED Proved!vars
  BY <1>8, DiscardRow DEF Proved!vars
<1>9. QED
  BY <1>1, <1>2, <1>3, <1>4, <1>5, <1>6, <1>7, <1>8 DEF Proved!Next

LEMMA InitRow == MarketInit => RowInv
BY DEF MarketInit, Init, Table!Init, Table!NoWrites, RowInv

\* The table and its sessions are as BookingsProofs shows them.
THEOREM TableHolds == MarketSpec => [](TableInv /\ RowInv)
<1>1. TableInv /\ RowInv /\ [MarketNext]_marketVars => RowInv'
  BY TableStep, NextRow DEF TableInv
<1>2. QED
  BY <1>1, InitTable, NextTable, InitRow, PTL DEF MarketSpec

(***************************************************************************)
(* The sessions implement WriteBookings                                    *)
(***************************************************************************)

\* No step of the table deletes a committed row.
LEMMA RowsStay ==
  ASSUME Proved!Next, NEW b \in Booking, booking[b] # NoRow
  PROVE  booking'[b] # NoRow
<1>1. CASE \E s \in Session : Proved!Commit(s)
  BY <1>1 DEF Proved!Commit, Proved!Current, Proved!Wrote
<1>2. CASE ~\E s \in Session : Proved!Commit(s)
  <2>1. UNCHANGED booking
    BY <1>2 DEF Proved!Next, Proved!Begin, Proved!Insert, Proved!Update, Proved!Lock,
       Proved!CheckPass, Proved!CheckFail, Proved!Detect, Proved!StatementFails,
       Proved!Rollback, Proved!Crash, Proved!Write, Proved!Place, Proved!Abort
  <2>2. QED
    BY <2>1
<1>3. QED
  BY <1>1, <1>2

LEMMA SessionWritesBookings ==
  ASSUME TableInv', RowInv', SessionStep
  PROVE  WriteBookings
<1>1. booking' \in [Booking -> BookingData \cup {NoRow}]
  <2>1. booking' \in [Booking -> StoredRow \cup {NoRow}]
    BY SameRows DEF TableInv, Proved!TypeOK
  <2>2. \A b \in Booking : booking'[b] \in BookingData \cup {NoRow}
    BY <2>1, SameRows, BookingDataAssumption DEF RowInv
  <2>3. QED
    BY <2>1, <2>2
<1>2. \A b \in Booking : booking[b] # NoRow => booking'[b] # NoRow
  BY SameNext, RowsStay DEF SessionStep
<1>3. \A b1, b2 \in Booking :
        b1 # b2 /\ booking'[b1] # NoRow /\ booking'[b2] # NoRow
          => ~Excludes(booking'[b1], booking'[b2])
  BY SameExcludes DEF TableInv, Proved!IInv, Proved!TableFits
<1>4. QED
  BY <1>1, <1>2, <1>3 DEF SessionStep, WriteBookings

LEMMA MarketStep ==
  ASSUME TableInv', RowInv', [MarketNext]_marketVars
  PROVE  [Next]_vars
<1>1. CASE SessionStep
  BY <1>1, SessionWritesBookings DEF Next
<1>2. CASE CatalogueStep
  BY <1>2 DEF CatalogueStep, Next
<1>3. CASE UNCHANGED marketVars
  BY <1>3 DEF marketVars, vars
<1>4. QED
  BY <1>1, <1>2, <1>3 DEF MarketNext

\* Real booking transactions, with their locks, waits, deadlocks and crashes, are to
\* the search one step each that leaves no conflict.
THEOREM MarketImplementsInventory == MarketSpec => ImplementsInventory
BY TableHolds, MarketStep, PTL DEF MarketSpec, MarketInit, Spec, ImplementsInventory

(***************************************************************************)
(* What follows for the whole                                              *)
(***************************************************************************)

\* Clients of the search see what module Inventory promises while bookings are made.
THEOREM MarketWalkIsComplete == MarketSpec => []NothingSkippedNorInvented
BY MarketImplementsInventory, WalkIsComplete, PTL DEF ImplementsInventory

\* Every page a client gets while sessions book is of assets on offer when its
\* statement ran.
THEOREM MarketPagesAreOnOffer == MarketSpec => DeliveredIsOnOffer
BY MarketImplementsInventory, PagesAreOnOffer, PTL DEF ImplementsInventory

LEMMA MarketTypes == MarketSpec => []TypeOK
BY MarketImplementsInventory, TypeCorrect, PTL DEF ImplementsInventory

(***************************************************************************)
(* References to assets                                                    *)
(***************************************************************************)

\* The versions whose reference has been checked refer to assets that exist.
RefInv ==
  /\ BookingsReferToAssets
  /\ \A s \in Session : \A b \in Booking :
       Proved!Settled(s, b) => Exists(writes[s][b].asset)

\* An asset that exists goes on existing.
LEMMA ListingsStay ==
  ASSUME TypeOK, [MarketNext]_marketVars, NEW a \in Asset, asset[a] # NoRow
  PROVE  asset'[a] # NoRow
<1>1. ASSUME NEW x \in Asset, InsertAsset(x) PROVE asset'[a] # NoRow
  BY <1>1, InsertAssetType DEF Listings, Exists
<1>2. ASSUME NEW x \in Asset, UpdateAsset(x) PROVE asset'[a] # NoRow
  BY <1>2, UpdateAssetType DEF Listings, Exists
<1>3. CASE UNCHANGED asset
  BY <1>3
<1>4. QED
  BY <1>1, <1>2, <1>3
     DEF MarketNext, marketVars, SessionStep, CatalogueStep, Tick, UpdateVendor, WriteWindow,
         StartTraversal, FetchPage, database

\* Every row is of an asset of the schema.
LEMMA RowAsset ==
  ASSUME TableInv
  PROVE  /\ \A b \in Booking : booking[b] # NoRow => booking[b].asset \in Asset
         /\ \A s \in Session, b \in Booking :
              writes[s][b] # NoRow => writes[s][b].asset \in Asset
BY DEF TableInv, Proved!TypeOK, Proved!StoredRow, Proved!Row

LEMMA SettledStay ==
  ASSUME TypeOK, TableInv, RefInv, [MarketNext]_marketVars, UNCHANGED booking,
         \A s \in Session : \A b \in Booking :
           Proved!Settled(s, b)' => Proved!Settled(s, b) /\ writes'[s][b] = writes[s][b]
  PROVE  RefInv'
<1>1. \A b \in Booking : booking'[b] # NoRow => asset'[booking'[b].asset] # NoRow
  BY RowAsset, ListingsStay DEF RefInv, BookingsReferToAssets, Exists
<1>2. \A s \in Session : \A b \in Booking :
        Proved!Settled(s, b)' => asset'[writes'[s][b].asset] # NoRow
  BY RowAsset, ListingsStay DEF RefInv, Exists, Proved!Settled, Proved!Wrote
<1>3. QED
  BY <1>1, <1>2 DEF RefInv, BookingsReferToAssets, Exists

LEMMA WriteRef ==
  ASSUME TypeOK, TableInv, RefInv, [MarketNext]_marketVars,
         NEW s \in Session, NEW b \in Booking, NEW row, phase[s] # "check",
         Proved!Write(s, b, row)
  PROVE  RefInv'
<1>1. UNCHANGED booking
  BY DEF Proved!Write, Proved!Place, Proved!Abort
<1>2. CASE Proved!Place(s, b, row)
  BY <1>1, <1>2, SettledStay
     DEF Proved!Place, Proved!Settled, Proved!Wrote, TableInv, Proved!TypeOK
<1>3. CASE Proved!Abort(s)
  BY <1>1, <1>3, SettledStay
     DEF Proved!Abort, Proved!NoWrites, Proved!Settled, Proved!Wrote, TableInv, Proved!TypeOK
<1>4. QED
  BY <1>2, <1>3 DEF Proved!Write

LEMMA CheckPassRef ==
  ASSUME TypeOK, TableInv, RefInv, SessionStep, NEW s \in Session, Proved!CheckPass(s)
  PROVE  RefInv'
<1>1. UNCHANGED <<asset, booking, writes>>
  BY DEF SessionStep, Proved!CheckPass
<1>2. phase[s] = "check" /\ phase'[s] = "open" /\ target[s] \in Booking
  BY DEF Proved!CheckPass, TableInv, Proved!TypeOK
<1>3. Exists(writes[s][target[s]].asset)
  BY <1>2 DEF SessionStep, ReferencesAsset
<1>4. \A t \in Session, b \in Booking :
        Proved!Settled(t, b)' => Proved!Settled(t, b) \/ (t = s /\ b = target[s])
  <2>1. \A t \in Session \ {s} : phase'[t] = phase[t] /\ target'[t] = target[t]
    BY DEF Proved!CheckPass, TableInv, Proved!TypeOK
  <2>2. QED
    BY <1>1, <2>1 DEF Proved!Settled, Proved!Wrote
<1>5. QED
  BY <1>1, <1>3, <1>4 DEF RefInv, BookingsReferToAssets, Exists

LEMMA CommitRef ==
  ASSUME TypeOK, TableInv, RefInv, SessionStep, NEW s \in Session, Proved!Commit(s)
  PROVE  RefInv'
<1>1. UNCHANGED asset
  BY DEF SessionStep
<1>2. \A b \in Booking : Proved!Wrote(s, b) => Proved!Settled(s, b)
  BY DEF Proved!Commit, Proved!Settled
<1>3. \A b \in Booking : booking'[b] # NoRow => Exists(booking'[b].asset)
  BY <1>2 DEF Proved!Commit, Proved!Current, RefInv, BookingsReferToAssets
<1>4. \A t \in Session, b \in Booking :
        Proved!Settled(t, b)' => Proved!Settled(t, b) /\ writes'[t][b] = writes[t][b]
  BY DEF Proved!Commit, Proved!End, Proved!NoWrites, Proved!Settled, Proved!Wrote, TableInv,
         Proved!TypeOK
<1>5. QED
  BY <1>1, <1>3, <1>4 DEF RefInv, BookingsReferToAssets, Exists

LEMMA NextRef ==
  ASSUME TypeOK, TableInv, RefInv, [MarketNext]_marketVars
  PROVE  RefInv'
<1>1. CASE UNCHANGED Proved!vars
  BY <1>1, SettledStay DEF Proved!vars, Proved!Settled, Proved!Wrote
<1>2. CASE SessionStep /\ Proved!Next
  <2>1. ASSUME NEW s \in Session, NEW b \in Booking, Proved!Insert(s, b) PROVE RefInv'
    BY <2>1, WriteRef DEF Proved!Insert
  <2>2. ASSUME NEW s \in Session, Proved!Lock(s) PROVE RefInv'
    BY <2>2, WriteRef DEF Proved!Lock, TableInv, Proved!TypeOK
  <2>3. ASSUME NEW s \in Session,
               Proved!Begin(s) \/ \E b \in Booking : Proved!Update(s, b)
        PROVE  RefInv'
    BY <2>3, SettledStay
       DEF Proved!Begin, Proved!Update, Proved!Settled, Proved!Wrote, TableInv, Proved!TypeOK
  <2>4. ASSUME NEW s \in Session,
               \/ Proved!CheckFail(s) \/ Proved!Detect(s) \/ Proved!StatementFails(s)
               \/ Proved!Rollback(s)
        PROVE  RefInv'
    BY <2>4, SettledStay
       DEF Proved!CheckFail, Proved!Detect, Proved!StatementFails, Proved!Rollback,
           Proved!Abort, Proved!End, Proved!NoWrites, Proved!Settled, Proved!Wrote, TableInv,
           Proved!TypeOK
  <2>5. ASSUME NEW s \in Session, Proved!CheckPass(s) PROVE RefInv'
    BY <1>2, <2>5, CheckPassRef
  <2>6. ASSUME NEW s \in Session, Proved!Commit(s) PROVE RefInv'
    BY <1>2, <2>6, CommitRef
  <2>7. CASE Proved!Crash
    BY <2>7, SettledStay DEF Proved!Crash, Proved!NoWrites, Proved!Settled, Proved!Wrote
  <2>8. QED
    BY <1>2, <2>1, <2>2, <2>3, <2>4, <2>5, <2>6, <2>7 DEF Proved!Next
<1>3. QED
  BY <1>1, <1>2, SameNext, CatalogueLeavesTable DEF MarketNext, SessionStep, marketVars, Proved!vars

\* Whatever the sessions and the operators do between the check of a reference and
\* the COMMIT, a committed booking is of an asset that exists.
THEOREM ReferencesHold == MarketSpec => []BookingsReferToAssets
<1>1. MarketInit => RefInv
  BY DEF MarketInit, Init, Table!Init, Table!NoWrites, RefInv, BookingsReferToAssets,
         Proved!Settled, Proved!Wrote
<1>2. TypeOK /\ TableInv /\ RefInv /\ [MarketNext]_marketVars => RefInv'
  BY NextRef
<1>3. RefInv => BookingsReferToAssets
  BY DEF RefInv
<1>4. QED
  BY <1>1, <1>2, <1>3, MarketTypes, TableHolds, PTL DEF MarketSpec

(***************************************************************************)
(* Refusals                                                                *)
(***************************************************************************)

LEMMA RefusalStep ==
  ASSUME TypeOK, TableInv, NEW s \in Session, Table!CheckFail(s), ~OwnConflict(s)
  PROVE  LET p == Table!Pending(s) IN ActiveBooking(p.asset, p.starts_on, p.ends_on)
<1> DEFINE p == Table!Pending(s)
<1>1. p \in Proved!StoredRow
  BY DEF Table!CheckFail, Table!Pending, TableInv, Proved!TypeOK
<1>2. PICK b \in Booking \ {target[s]} :
        Table!Current(s, b) # NoRow /\ Excludes(p, Table!Current(s, b))
  BY SameExcludes DEF Table!CheckFail, Table!LiveConflict
<1>3. Table!Current(s, b) = booking[b]
  BY <1>2 DEF OwnConflict, Table!Current, Table!Wrote
<1>4. /\ booking[b] # NoRow /\ booking[b].asset = p.asset
      /\ booking[b].status \in {"confirmed", "active"}
      /\ \E day \in p.starts_on .. p.ends_on : day \in booking[b].starts_on .. booking[b].ends_on
  BY <1>2, <1>3 DEF Excludes, Reserves, ReservingStatus, StayDays
<1>5. /\ p.starts_on \in Int /\ p.ends_on \in Int /\ p.starts_on <= p.ends_on
  BY <1>1, DayAssumption DEF Proved!StoredRow, Proved!Row, Proved!ValidDateRange
<1>6. booking[b].starts_on <= p.ends_on /\ booking[b].ends_on >= p.starts_on
  BY <1>4, <1>5, BookingDays, OverlapIsSharedDay
<1>7. QED
  BY <1>4, <1>6 DEF ActiveBooking

\* A reservation is refused only for what the search hides at that moment, or for
\* what the session has booked itself.
THEOREM RefusalsAgreeWithSearch == MarketSpec => RefusedOnlyIfHidden
<1>1. TypeOK /\ TableInv =>
        \A s \in Session :
          Table!CheckFail(s) /\ ~OwnConflict(s) =>
            LET p == Table!Pending(s) IN ActiveBooking(p.asset, p.starts_on, p.ends_on)
  BY RefusalStep
<1>2. QED
  BY <1>1, MarketTypes, TableHolds, PTL DEF MarketSpec, RefusedOnlyIfHidden

===============================================================================
