--------------------------- MODULE BookingsProofs ---------------------------
(***************************************************************************)
(* The type invariant of module Bookings, the absence of double bookings,  *)
(* and the implementation of module Reservation, for any number of         *)
(* sessions, bookings, assets and days.                                    *)
(***************************************************************************)
EXTENDS Bookings, TLAPS

(***************************************************************************)
(* Lemmas about rows                                                       *)
(***************************************************************************)

\* The sessions write rows: what INSERT builds is a Row.
LEMMA NewRowsAreRows == NewRows \subseteq Row
BY StatusAssumption, StayAssumption DEF NewRows, Row

\* An UPDATE of a row makes a Row.
LEMMA UpdatedAreRows ==
  ASSUME NEW row \in Row
  PROVE  Updated(row) \subseteq Row
BY StatusAssumption, StayAssumption DEF Updated, Row

\* The exclusion constraint is symmetric.
LEMMA ExcludesSymmetric ==
  ASSUME NEW row1, NEW row2
  PROVE  Excludes(row1, row2) <=> Excludes(row2, row1)
BY DEF Excludes

(***************************************************************************)
(* Type correctness                                                        *)
(***************************************************************************)

LEMMA NoWritesType == NoWrites \in [Booking -> StoredRow \cup {NoRow}]
BY DEF NoWrites

LEMMA AbortType ==
  ASSUME TypeOK, NEW s \in Session, Abort(s)
  PROVE  TypeOK'
BY NoWritesType, NoBookingAssumption DEF TypeOK, Abort, Phase, NoWrites

LEMMA PlaceType ==
  ASSUME TypeOK, NEW s \in Session, NEW b \in Booking, NEW row \in Row,
         Place(s, b, row)
  PROVE  TypeOK'
<1>1. row \in StoredRow /\ row # NoRow
  BY NoRowAssumption DEF Place, StoredRow
<1>2. writes' \in [Session -> [Booking -> StoredRow \cup {NoRow}]]
  BY <1>1 DEF TypeOK, Place
<1>3. writes'[s][b] = row
  BY DEF TypeOK, Place
<1>4. \A t \in Session \ {s} : writes'[t] = writes[t] /\ phase'[t] = phase[t]
                                 /\ target'[t] = target[t]
  BY DEF TypeOK, Place
<1>5. phase'[s] = "check" /\ target'[s] = b
  BY DEF TypeOK, Place
<1>6. phase' \in [Session -> Phase] /\ target' \in [Session -> Booking \cup {NoBooking}]
      /\ table' = table
  BY DEF TypeOK, Place, Phase
<1>7. QED
  BY <1>1, <1>2, <1>3, <1>4, <1>5, <1>6, NoBookingAssumption DEF TypeOK

LEMMA WriteType ==
  ASSUME TypeOK, NEW s \in Session, NEW b \in Booking, NEW row \in Row,
         Write(s, b, row)
  PROVE  TypeOK'
BY AbortType, PlaceType DEF Write

\* The version a session sees is a stored row, or none.
LEMMA CurrentType ==
  ASSUME TypeOK, NEW s \in Session, NEW b \in Booking
  PROVE  Current(s, b) \in StoredRow \cup {NoRow}
BY DEF TypeOK, Current

LEMMA InitType == Init => TypeOK
BY NoWritesType, NoBookingAssumption DEF Init, TypeOK, Phase, NoWrites

\* Leaving a transaction preserves the types if no row is lost.
LEMMA EndType ==
  ASSUME TypeOK, NEW s \in Session, End(s),
         table' \in [Booking -> StoredRow \cup {NoRow}],
         \A b \in Booking : table[b] # NoRow => table'[b] # NoRow
  PROVE  TypeOK'
BY NoWritesType, NoBookingAssumption DEF TypeOK, End, Phase, NoWrites

LEMMA NextType == TypeOK /\ [Next]_vars => TypeOK'
<1> SUFFICES ASSUME TypeOK, [Next]_vars PROVE TypeOK'
  OBVIOUS
<1>1. ASSUME NEW s \in Session, Begin(s) PROVE TypeOK'
  BY <1>1, NoBookingAssumption DEF TypeOK, Begin, Phase
<1>2. ASSUME NEW s \in Session, NEW b \in Booking, Insert(s, b) PROVE TypeOK'
  BY <1>2, NewRowsAreRows, WriteType DEF Insert
<1>3. ASSUME NEW s \in Session, NEW b \in Booking, Update(s, b) PROVE TypeOK'
  BY <1>3, NoBookingAssumption DEF TypeOK, Update, Current, Wrote, Phase
<1>4. ASSUME NEW s \in Session, Lock(s) PROVE TypeOK'
  <2>1. target[s] \in Booking
    BY <1>4 DEF TypeOK, Lock
  <2>2. Current(s, target[s]) \in StoredRow
    BY <1>4, <2>1, CurrentType DEF TypeOK, Lock, Current, Wrote
  <2>3. PICK row \in Updated(Current(s, target[s])) : Write(s, target[s], row)
    BY <1>4 DEF Lock
  <2>4. QED
    BY <2>1, <2>2, <2>3, UpdatedAreRows, WriteType DEF StoredRow
<1>5. ASSUME NEW s \in Session, CheckPass(s) PROVE TypeOK'
  BY <1>5, NoBookingAssumption DEF TypeOK, CheckPass, Phase
<1>6. ASSUME NEW s \in Session, CheckFail(s) \/ Detect(s) \/ StatementFails(s) PROVE TypeOK'
  BY <1>6, AbortType DEF CheckFail, Detect, StatementFails
<1>7. ASSUME NEW s \in Session, Commit(s) PROVE TypeOK'
  <2>1. table' \in [Booking -> StoredRow \cup {NoRow}]
    BY <1>7, CurrentType DEF Commit
  <2>2. \A b \in Booking : table[b] # NoRow => table'[b] # NoRow
    BY <1>7 DEF Commit, Current, Wrote
  <2>3. QED
    BY <1>7, <2>1, <2>2, EndType DEF Commit
<1>8. ASSUME NEW s \in Session, Rollback(s) PROVE TypeOK'
  BY <1>8, EndType DEF Rollback, TypeOK
<1>9. CASE Crash
  BY <1>9, NoWritesType, NoBookingAssumption DEF TypeOK, Crash, Phase, NoWrites
<1>10. CASE UNCHANGED vars
  BY <1>10 DEF TypeOK, vars, Phase
<1>11. QED
  BY <1>1, <1>2, <1>3, <1>4, <1>5, <1>6, <1>7, <1>8, <1>9, <1>10 DEF Next

\* Every reachable state is well typed; in particular every row of the table,
\* and every version a transaction has written, satisfies
\* ck_bookings_valid_date_range.
THEOREM TypeCorrect == Spec => []TypeOK
BY InitType, NextType, PTL DEF Spec

(***************************************************************************)
(* No double bookings.  The invariant is inductive together with           *)
(* CommitNeedsNoCheck; the lemmas below take the steps by what they do to  *)
(* the versions: nothing, place one, discard some, settle one, publish.    *)
(***************************************************************************)

\* The table satisfies the exclusion constraint.
TableFits ==
  \A b1, b2 \in Booking :
    b1 # b2 /\ table[b1] # NoRow /\ table[b2] # NoRow => ~Excludes(table[b1], table[b2])

IInv == TableFits /\ CommitNeedsNoCheck

\* Two ranges of days that do not meet lie one before the other.
LEMMA DisjointRanges ==
  ASSUME NEW s1 \in Int, NEW e1 \in Int, NEW s2 \in Int, NEW e2 \in Int,
         s1 <= e1, s2 <= e2, (s1 .. e1) \cap (s2 .. e2) = {}
  PROVE  e1 < s2 \/ e2 < s1
<1> SUFFICES ASSUME s2 <= e1, s1 <= e2 PROVE FALSE
  OBVIOUS
<1>1. CASE s1 <= s2
  BY <1>1, s2 \in s1 .. e1, s2 \in s2 .. e2
<1>2. CASE s2 < s1
  BY <1>2, s1 \in s1 .. e1, s1 \in s2 .. e2
<1>3. QED
  BY <1>1, <1>2

\* On valid rows the constraint is the promise.
LEMMA FittingIsNoDoubleBooking == TypeOK /\ TableFits => NoDoubleBooking
<1> SUFFICES ASSUME TypeOK, TableFits, NEW b1 \in Booking, NEW b2 \in Booking,
                    b1 # b2, table[b1] # NoRow, table[b2] # NoRow,
                    table[b1].asset = table[b2].asset,
                    {table[b1].status, table[b2].status} \subseteq {"confirmed", "active"}
             PROVE  \/ table[b1].ends_on < table[b2].starts_on
                    \/ table[b2].ends_on < table[b1].starts_on
  BY DEF NoDoubleBooking
<1>1. table[b1] \in StoredRow /\ table[b2] \in StoredRow
  BY DEF TypeOK
<1>2. /\ table[b1].starts_on \in Int /\ table[b1].ends_on \in Int
      /\ table[b2].starts_on \in Int /\ table[b2].ends_on \in Int
      /\ table[b1].starts_on <= table[b1].ends_on
      /\ table[b2].starts_on <= table[b2].ends_on
  BY <1>1, DayAssumption DEF StoredRow, Row, ValidDateRange
<1>3. StayDays(table[b1]) \cap StayDays(table[b2]) = {}
  BY DEF TableFits, Excludes, Reserves, ReservingStatus
<1>4. QED
  BY <1>2, <1>3, DisjointRanges DEF StayDays

LEMMA InitIInv == Init => IInv
BY DEF Init, IInv, TableFits, CommitNeedsNoCheck, OneWriterPerRow,
       SettledFitsTable, SettledFitSettled, Settled, Wrote, NoWrites

\* A step that keeps the table and after which every version was there, and
\* was checked if it is now, and by which no row loses its writer while the
\* writer keeps checked versions.
LEMMA ShrinkIInv ==
  ASSUME IInv, UNCHANGED table,
         \A s \in Session : \A b \in Booking :
           Wrote(s, b)' => Wrote(s, b),
         \A s \in Session : \A b, c \in Booking :
           /\ Settled(s, b)' => Settled(s, b) /\ writes'[s][b] = writes[s][b]
           /\ Settled(s, b)' /\ ~Wrote(s, c)' => ~Wrote(s, c)
  PROVE  IInv'
<1>1. TableFits'
  BY DEF IInv, TableFits
<1>2. OneWriterPerRow'
  BY DEF IInv, CommitNeedsNoCheck, OneWriterPerRow
<1>3. SettledFitsTable'
  BY DEF IInv, CommitNeedsNoCheck, SettledFitsTable
<1>4. SettledFitSettled'
  BY DEF IInv, CommitNeedsNoCheck, SettledFitSettled
<1>5. QED
  BY <1>1, <1>2, <1>3, <1>4 DEF IInv, CommitNeedsNoCheck

\* Discarding all the versions of some sessions, the others keeping theirs.
LEMMA DiscardIInv ==
  ASSUME IInv, UNCHANGED table,
         \A s \in Session :
           \/ writes'[s] = NoWrites
           \/ /\ writes'[s] = writes[s]
              /\ phase'[s] = phase[s]
              /\ target'[s] = target[s]
  PROVE  IInv'
<1>1. \A s \in Session : \A b \in Booking : Wrote(s, b)' => Wrote(s, b)
  BY DEF Wrote, NoWrites
<1>2. ASSUME NEW s \in Session, NEW b \in Booking, NEW c \in Booking
      PROVE  /\ Settled(s, b)' => Settled(s, b) /\ writes'[s][b] = writes[s][b]
             /\ Settled(s, b)' /\ ~Wrote(s, c)' => ~Wrote(s, c)
  BY DEF Settled, Wrote, NoWrites
<1>3. QED
  BY <1>1, <1>2, ShrinkIInv

LEMMA AbortIInv ==
  ASSUME TypeOK, IInv, NEW s \in Session, Abort(s)
  PROVE  IInv'
<1>1. \A t \in Session :
        \/ writes'[t] = NoWrites
        \/ writes'[t] = writes[t] /\ phase'[t] = phase[t] /\ target'[t] = target[t]
  BY DEF Abort, TypeOK
<1>2. QED
  BY <1>1, DiscardIInv DEF Abort

\* Placing an unchecked version of a row that nobody else has written.
LEMMA PlaceIInv ==
  ASSUME TypeOK, IInv, NEW s \in Session, NEW b \in Booking, NEW row \in Row,
         phase[s] # "check", ~OthersWrote(s, b), Place(s, b, row)
  PROVE  IInv'
<1>1. \A t \in Session \ {s} : /\ writes'[t] = writes[t]
                                /\ phase'[t] = phase[t]
                                /\ target'[t] = target[t]
  BY DEF Place, TypeOK
<1>2. \A c \in Booking \ {b} : writes'[s][c] = writes[s][c]
  BY DEF Place, TypeOK
<1>3. phase'[s] = "check" /\ target'[s] = b /\ Wrote(s, b)' /\ table' = table
  BY PlaceType, NoRowAssumption DEF Place, TypeOK, Wrote
<1>4. TableFits'
  BY <1>3 DEF IInv, TableFits
<1>5. OneWriterPerRow'
  BY <1>1, <1>2 DEF IInv, CommitNeedsNoCheck, OneWriterPerRow, OthersWrote, Wrote
<1>6. ASSUME NEW t \in Session, NEW c \in Booking, Settled(t, c)'
      PROVE  /\ Settled(t, c)
             /\ writes'[t][c] = writes[t][c]
             /\ \A d \in Booking : ~Wrote(t, d)' => ~Wrote(t, d)
  <2>1. CASE t = s
    BY <1>2, <1>3, <1>6, <2>1 DEF Settled, Wrote
  <2>2. CASE t # s
    BY <1>1, <1>6, <2>2 DEF Settled, Wrote
  <2>3. QED
    BY <2>1, <2>2
<1>7. SettledFitsTable'
  BY <1>3, <1>6 DEF IInv, CommitNeedsNoCheck, SettledFitsTable
<1>8. SettledFitSettled'
  BY <1>6 DEF IInv, CommitNeedsNoCheck, SettledFitSettled
<1>9. QED
  BY <1>4, <1>5, <1>7, <1>8 DEF IInv, CommitNeedsNoCheck

LEMMA WriteIInv ==
  ASSUME TypeOK, IInv, NEW s \in Session, NEW b \in Booking, NEW row \in Row,
         phase[s] # "check", ~OthersWrote(s, b), Write(s, b, row)
  PROVE  IInv'
BY PlaceIInv, AbortIInv DEF Write

\* The exclusion check passes: the pending version becomes a checked one.
LEMMA CheckPassIInv ==
  ASSUME TypeOK, IInv, NEW s \in Session, CheckPass(s)
  PROVE  IInv'
<1> DEFINE p == target[s]
<1>1. p \in Booking /\ Wrote(s, p)
  BY DEF CheckPass, TypeOK, Wrote
<1>2. writes' = writes /\ table' = table
  BY DEF CheckPass
<1>3. \A t \in Session, b \in Booking :
        Settled(t, b)' <=> (Settled(t, b) \/ (t = s /\ b = p))
  <2>1. \A t \in Session \ {s} : phase'[t] = phase[t] /\ target'[t] = target[t]
    BY DEF CheckPass, TypeOK
  <2>2. phase'[s] = "open" /\ phase[s] = "check"
    BY DEF CheckPass, TypeOK
  <2>3. QED
    BY <1>1, <1>2, <2>1, <2>2 DEF Settled, Wrote
<1>4. ~LiveConflict(s) /\ \A t \in Session \ {s} : ~BusyConflict(s, t)
  BY DEF CheckPass
<1>5. \A b \in Booking \ {p} : ~Wrote(s, b) /\ table[b] # NoRow
        => ~Excludes(writes[s][p], table[b])
  <2>1. ASSUME NEW b \in Booking \ {p}, ~Wrote(s, b), table[b] # NoRow
        PROVE  ~Excludes(writes[s][p], table[b])
    <3>1. CASE OthersWrote(s, b)
      BY <1>4, <2>1, <3>1 DEF OthersWrote, BusyConflict, Pending
    <3>2. CASE ~OthersWrote(s, b)
      BY <1>4, <2>1, <3>2 DEF LiveConflict, Current, Pending
    <3>3. QED
      BY <3>1, <3>2
  <2>2. QED
    BY <2>1
<1>6. \A t \in Session, b \in Booking \ {p} : Wrote(t, b)
        => ~Excludes(writes[s][p], writes[t][b])
  <2>1. ASSUME NEW b \in Booking \ {p}, Wrote(s, b)
        PROVE  ~Excludes(writes[s][p], writes[s][b])
    <3>1. ~OthersWrote(s, b)
      BY <2>1 DEF OthersWrote, IInv, CommitNeedsNoCheck, OneWriterPerRow
    <3>2. QED
      BY <1>4, <2>1, <3>1 DEF LiveConflict, Current, Pending, Wrote
  <2>2. ASSUME NEW t \in Session \ {s}, NEW b \in Booking \ {p}, Wrote(t, b)
        PROVE  ~Excludes(writes[s][p], writes[t][b])
    BY <1>4, <2>2 DEF BusyConflict, Pending
  <2>3. QED
    BY <2>1, <2>2
<1>7. TableFits' /\ OneWriterPerRow'
  BY <1>2 DEF IInv, CommitNeedsNoCheck, TableFits, OneWriterPerRow, Wrote
<1>8. SettledFitsTable'
  BY <1>2, <1>3, <1>5 DEF IInv, CommitNeedsNoCheck, SettledFitsTable, Wrote
<1>9. SettledFitSettled'
  <2>1. ASSUME NEW t \in Session, NEW u \in Session, NEW b \in Booking,
               NEW c \in Booking, b # c, Settled(t, b)', Settled(u, c)'
        PROVE  ~Excludes(writes[t][b], writes[u][c])
    <3>1. CASE Settled(t, b) /\ Settled(u, c)
      BY <2>1, <3>1 DEF IInv, CommitNeedsNoCheck, SettledFitSettled
    <3>2. CASE t = s /\ b = p
      BY <1>2, <1>6, <2>1, <3>2 DEF Settled, Wrote
    <3>3. CASE u = s /\ c = p
      BY <1>2, <1>6, <2>1, <3>3, ExcludesSymmetric DEF Settled, Wrote
    <3>4. QED
      BY <1>3, <2>1, <3>1, <3>2, <3>3
  <2>2. QED
    BY <1>2, <2>1 DEF SettledFitSettled
<1>10. QED
  BY <1>7, <1>8, <1>9 DEF IInv, CommitNeedsNoCheck

\* COMMIT publishes checked versions only.
LEMMA CommitIInv ==
  ASSUME TypeOK, IInv, NEW s \in Session, Commit(s)
  PROVE  IInv'
<1>1. \A b \in Booking : table'[b] = Current(s, b)
  BY DEF Commit
<1>2. \A b \in Booking : Wrote(s, b) => Settled(s, b)
  BY DEF Commit, Settled
<1>3. \A b \in Booking : ~Wrote(s, b)'
  BY DEF Commit, End, TypeOK, Wrote, NoWrites
<1>4. \A t \in Session \ {s}, b \in Booking :
        /\ writes'[t][b] = writes[t][b]
        /\ Settled(t, b)' <=> Settled(t, b)
        /\ Wrote(t, b)' <=> Wrote(t, b)
  BY DEF Commit, End, TypeOK, Settled, Wrote
<1>5. TableFits'
  <2>1. ASSUME NEW b \in Booking, NEW c \in Booking, b # c,
               Current(s, b) # NoRow, Current(s, c) # NoRow
        PROVE  ~Excludes(Current(s, b), Current(s, c))
    <3>1. CASE Wrote(s, b) /\ Wrote(s, c)
      BY <1>2, <2>1, <3>1 DEF Current, IInv, CommitNeedsNoCheck, SettledFitSettled
    <3>2. CASE Wrote(s, b) /\ ~Wrote(s, c)
      BY <1>2, <2>1, <3>2 DEF Current, IInv, CommitNeedsNoCheck, SettledFitsTable
    <3>3. CASE ~Wrote(s, b) /\ Wrote(s, c)
      BY <1>2, <2>1, <3>3, ExcludesSymmetric
         DEF Current, IInv, CommitNeedsNoCheck, SettledFitsTable
    <3>4. CASE ~Wrote(s, b) /\ ~Wrote(s, c)
      BY <2>1, <3>4 DEF Current, IInv, TableFits
    <3>5. QED
      BY <3>1, <3>2, <3>3, <3>4
  <2>2. QED
    BY <1>1, <2>1 DEF TableFits
<1>6. OneWriterPerRow'
  BY <1>3, <1>4 DEF IInv, CommitNeedsNoCheck, OneWriterPerRow
<1>7. SettledFitsTable'
  <2>1. ASSUME NEW t \in Session, NEW b \in Booking, NEW c \in Booking,
               b # c, Settled(t, b)', ~Wrote(t, c)', table'[c] # NoRow
        PROVE  ~Excludes(writes'[t][b], table'[c])
    <3>1. t # s
      BY <1>3, <2>1 DEF Settled, Wrote
    <3>2. Settled(t, b) /\ ~Wrote(t, c) /\ writes'[t][b] = writes[t][b]
      BY <1>4, <2>1, <3>1
    <3>3. CASE Wrote(s, c)
      BY <1>1, <1>2, <2>1, <3>2, <3>3
         DEF Current, IInv, CommitNeedsNoCheck, SettledFitSettled
    <3>4. CASE ~Wrote(s, c)
      BY <1>1, <2>1, <3>2, <3>4
         DEF Current, IInv, CommitNeedsNoCheck, SettledFitsTable
    <3>5. QED
      BY <3>3, <3>4
  <2>2. QED
    BY <2>1 DEF SettledFitsTable
<1>8. SettledFitSettled'
  <2>1. \A t \in Session, b \in Booking :
          Settled(t, b)' => Settled(t, b) /\ writes'[t][b] = writes[t][b]
    BY <1>3, <1>4 DEF Settled, Wrote
  <2>2. QED
    BY <2>1 DEF IInv, CommitNeedsNoCheck, SettledFitSettled
<1>9. QED
  BY <1>5, <1>6, <1>7, <1>8 DEF IInv, CommitNeedsNoCheck

LEMMA NextIInv == TypeOK /\ IInv /\ [Next]_vars => IInv'
<1> SUFFICES ASSUME TypeOK, IInv, [Next]_vars PROVE IInv'
  OBVIOUS
<1>1. ASSUME NEW s \in Session, Begin(s) PROVE IInv'
  <2>1. writes' = writes /\ table' = table /\ phase'[s] = "open" /\ phase[s] = "idle"
    BY <1>1 DEF Begin, TypeOK
  <2>2. \A t \in Session : target'[t] = target[t] /\ (t # s => phase'[t] = phase[t])
    BY <1>1 DEF Begin, TypeOK
  <2>3. QED
    BY <2>1, <2>2, ShrinkIInv DEF Settled, Wrote
<1>2. ASSUME NEW s \in Session, NEW b \in Booking, Insert(s, b) PROVE IInv'
  BY <1>2, NewRowsAreRows, WriteIInv DEF Insert, OthersWrote
<1>3. ASSUME NEW s \in Session, NEW b \in Booking, Update(s, b) PROVE IInv'
  <2>1. writes' = writes /\ table' = table /\ phase'[s] = "lock" /\ phase[s] = "open"
    BY <1>3 DEF Update, TypeOK
  <2>2. \A t \in Session \ {s} : target'[t] = target[t] /\ phase'[t] = phase[t]
    BY <1>3 DEF Update, TypeOK
  <2>3. QED
    BY <2>1, <2>2, ShrinkIInv DEF Settled, Wrote
<1>4. ASSUME NEW s \in Session, Lock(s) PROVE IInv'
  <2>1. target[s] \in Booking
    BY <1>4 DEF TypeOK, Lock
  <2>2. Current(s, target[s]) \in StoredRow
    BY <1>4, <2>1, CurrentType DEF TypeOK, Lock, Current, Wrote
  <2>3. PICK row \in Updated(Current(s, target[s])) : Write(s, target[s], row)
    BY <1>4 DEF Lock
  <2>4. row \in Row
    BY <2>2, <2>3, UpdatedAreRows DEF StoredRow
  <2>5. QED
    BY <1>4, <2>1, <2>3, <2>4, WriteIInv DEF Lock
<1>5. ASSUME NEW s \in Session, CheckPass(s) PROVE IInv'
  BY <1>5, CheckPassIInv
<1>6. ASSUME NEW s \in Session, CheckFail(s) \/ Detect(s) \/ StatementFails(s) PROVE IInv'
  BY <1>6, AbortIInv DEF CheckFail, Detect, StatementFails
<1>7. ASSUME NEW s \in Session, Commit(s) PROVE IInv'
  BY <1>7, CommitIInv
<1>8. ASSUME NEW s \in Session, Rollback(s) PROVE IInv'
  <2>1. \A t \in Session :
          \/ writes'[t] = NoWrites
          \/ writes'[t] = writes[t] /\ phase'[t] = phase[t] /\ target'[t] = target[t]
    BY <1>8 DEF Rollback, End, TypeOK
  <2>2. QED
    BY <1>8, <2>1, DiscardIInv DEF Rollback
<1>9. CASE Crash
  BY <1>9, DiscardIInv DEF Crash
<1>10. CASE UNCHANGED vars
  BY <1>10, ShrinkIInv DEF vars, Settled, Wrote
<1>11. QED
  BY <1>1, <1>2, <1>3, <1>4, <1>5, <1>6, <1>7, <1>8, <1>9, <1>10 DEF Next

\* No interleaving of transactions, aborts and crashes ever commits two
\* reserving bookings of one asset that share a day.
THEOREM DoubleBookingNeverHappens == Spec => []NoDoubleBooking
BY TypeCorrect, InitIInv, NextIInv, FittingIsNoDoubleBooking, PTL DEF Spec, IInv

\* Every checked version can be committed as it is, in any order.
THEOREM CommitsNeedNoCheck == Spec => []CommitNeedsNoCheck
BY TypeCorrect, InitIInv, NextIInv, PTL DEF Spec, IInv

(***************************************************************************)
(* The table implements the calendar of module Reservation: placing a      *)
(* version is Hold, COMMIT is Publish, the ways to lose a transaction are  *)
(* Drop and DropAll, and everything else is invisible.                     *)
(***************************************************************************)

LEMMA InitCalendar == Init => Calendar!Init
BY DEF Init, Calendar!Init, published, underChange, Claim, Wrote, NoWrites

\* Rows that do not exclude each other claim different cells.
LEMMA ClaimsDisjoint ==
  ASSUME NEW row1, NEW row2,
         row1 # NoRow /\ row2 # NoRow => ~Excludes(row1, row2)
  PROVE  Claim(row1) \cap Claim(row2) = {}
BY DEF Claim, Excludes

LEMMA PublishedConflictFree == TableFits => Calendar!ConflictFree(published)
BY ClaimsDisjoint DEF TableFits, Calendar!ConflictFree, published

\* A step that changes neither the table nor who has written what stutters.
LEMMA InvisibleStep ==
  ASSUME UNCHANGED <<table, writes>>
  PROVE  UNCHANGED Calendar!vars
BY DEF Calendar!vars, published, underChange, Wrote

LEMMA WriteHoldsOrDrops ==
  ASSUME TypeOK, NEW s \in Session, NEW b \in Booking, NEW row \in Row,
         ~OthersWrote(s, b), Write(s, b, row)
  PROVE  Calendar!Hold(s, b) \/ Calendar!Drop(s)
<1>1. published' = published
  BY DEF Write, Place, Abort, published
<1>2. CASE Place(s, b, row)
  <2>1. underChange' = [underChange EXCEPT ![s] = @ \cup {b}]
    <3>1. Wrote(s, b)'
      BY <1>2, NoRowAssumption DEF Place, TypeOK, Wrote
    <3>2. \A t \in Session, c \in Booking : t # s \/ c # b => Wrote(t, c)' = Wrote(t, c)
      BY <1>2 DEF Place, TypeOK, Wrote
    <3>3. \A t \in Session \ {s} :
            {c \in Booking : Wrote(t, c)}' = {c \in Booking : Wrote(t, c)}
      BY <3>2
    <3>4. {c \in Booking : Wrote(s, c)}' = {c \in Booking : Wrote(s, c)} \cup {b}
      BY <3>1, <3>2
    <3>5. QED
      BY <3>3, <3>4 DEF underChange
  <2>2. QED
    BY <1>1, <2>1 DEF Calendar!Hold, underChange, OthersWrote
<1>3. CASE Abort(s)
  <2>1. \A t \in Session, c \in Booking :
          Wrote(t, c)' <=> (t # s /\ Wrote(t, c))
    BY <1>3 DEF Abort, TypeOK, Wrote, NoWrites
  <2>2. underChange' = [underChange EXCEPT ![s] = {}]
    BY <2>1 DEF underChange
  <2>3. QED
    BY <1>1, <2>2 DEF Calendar!Drop
<1>4. QED
  BY <1>2, <1>3 DEF Write

\* Losing the versions of s, and nothing else, is Drop.
LEMMA LosingIsDrop ==
  ASSUME TypeOK, NEW s \in Session, UNCHANGED table,
         writes' = [writes EXCEPT ![s] = NoWrites]
  PROVE  Calendar!Drop(s)
<1>1. \A t \in Session, c \in Booking : Wrote(t, c)' <=> (t # s /\ Wrote(t, c))
  BY DEF TypeOK, Wrote, NoWrites
<1>2. underChange' = [underChange EXCEPT ![s] = {}]
  BY <1>1 DEF underChange
<1>3. QED
  BY <1>2 DEF Calendar!Drop, published

LEMMA CommitPublishes ==
  ASSUME TypeOK, IInv, NEW s \in Session, Commit(s)
  PROVE  Calendar!Publish(s)
<1>1. underChange' = [underChange EXCEPT ![s] = {}]
  <2>1. \A t \in Session, c \in Booking : Wrote(t, c)' <=> (t # s /\ Wrote(t, c))
    BY DEF Commit, End, TypeOK, Wrote, NoWrites
  <2>2. QED
    BY <2>1 DEF underChange
<1>2. published' \in [Booking -> SUBSET Cell]
  BY DEF published, Claim
<1>3. \A b \in Booking \ underChange[s] : published'[b] = published[b]
  BY DEF Commit, Current, published, underChange
<1>4. Calendar!ConflictFree(published')
  <2>1. TableFits'
    BY CommitIInv DEF IInv
  <2>2. \A b1, b2 \in Booking : b1 # b2 => published'[b1] \cap published'[b2] = {}
    BY <2>1, ClaimsDisjoint DEF TableFits, published
  <2>3. QED
    BY <2>2 DEF Calendar!ConflictFree
<1>5. QED
  BY <1>1, <1>2, <1>3, <1>4 DEF Calendar!Publish

LEMMA NextCalendar ==
  TypeOK /\ IInv /\ [Next]_vars => [Calendar!Next]_Calendar!vars
<1> SUFFICES ASSUME TypeOK, IInv, [Next]_vars
             PROVE  [Calendar!Next]_Calendar!vars
  OBVIOUS
<1>1. ASSUME NEW s \in Session, Begin(s) PROVE UNCHANGED Calendar!vars
  BY <1>1, InvisibleStep DEF Begin
<1>2. ASSUME NEW s \in Session, NEW b \in Booking, Insert(s, b)
      PROVE  Calendar!Hold(s, b) \/ Calendar!Drop(s)
  BY <1>2, NewRowsAreRows, WriteHoldsOrDrops DEF Insert, OthersWrote
<1>3. ASSUME NEW s \in Session, NEW b \in Booking, Update(s, b)
      PROVE  UNCHANGED Calendar!vars
  BY <1>3, InvisibleStep DEF Update
<1>4. ASSUME NEW s \in Session, Lock(s)
      PROVE  \/ Calendar!Drop(s)
             \/ \E b \in Booking : Calendar!Hold(s, b)
  <2>1. target[s] \in Booking
    BY <1>4 DEF TypeOK, Lock
  <2>2. Current(s, target[s]) \in StoredRow
    BY <1>4, <2>1, CurrentType DEF TypeOK, Lock, Current, Wrote
  <2>3. PICK row \in Updated(Current(s, target[s])) : Write(s, target[s], row)
    BY <1>4 DEF Lock
  <2>4. row \in Row
    BY <2>2, <2>3, UpdatedAreRows DEF StoredRow
  <2>5. QED
    BY <1>4, <2>1, <2>3, <2>4, WriteHoldsOrDrops DEF Lock
<1>5. ASSUME NEW s \in Session, CheckPass(s) PROVE UNCHANGED Calendar!vars
  BY <1>5, InvisibleStep DEF CheckPass
<1>6. ASSUME NEW s \in Session, CheckFail(s) \/ Detect(s) \/ StatementFails(s) PROVE Calendar!Drop(s)
  BY <1>6, LosingIsDrop DEF CheckFail, Detect, StatementFails, Abort
<1>7. ASSUME NEW s \in Session, Commit(s) PROVE Calendar!Publish(s)
  BY <1>7, CommitPublishes
<1>8. ASSUME NEW s \in Session, Rollback(s) PROVE Calendar!Drop(s)
  BY <1>8, LosingIsDrop DEF Rollback, End
<1>9. CASE Crash
  <2>1. \A t \in Session, c \in Booking : ~Wrote(t, c)'
    BY <1>9 DEF Crash, Wrote, NoWrites
  <2>2. Calendar!DropAll
    BY <1>9, <2>1 DEF Crash, Calendar!DropAll, published, underChange
  <2>3. QED
    BY <2>2 DEF Calendar!Next
<1>10. CASE UNCHANGED vars
  BY <1>10, InvisibleStep DEF vars
<1>11. QED
  BY <1>1, <1>2, <1>3, <1>4, <1>5, <1>6, <1>7, <1>8, <1>9, <1>10
     DEF Next, Calendar!Next

\* The bookings table, its locks and its exclusion constraint implement the
\* shared calendar: at COMMIT, with no check left to make, the claims that
\* appear are free of conflicts with everything published before.
THEOREM TableImplementsCalendar == Spec => ImplementsReservation
BY TypeCorrect, InitIInv, NextIInv, InitCalendar, NextCalendar, PTL
   DEF Spec, ImplementsReservation, Calendar!Spec

=============================================================================
