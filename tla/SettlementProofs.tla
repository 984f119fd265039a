-------------------------- MODULE SettlementProofs --------------------------
(***************************************************************************)
(* Proofs about Settlement for any number of bookings, payments and        *)
(* sessions.  The inductive invariant says what a session's stale copies   *)
(* still prove: a booking it read as completed, and a completed return it  *)
(* read, were so at some time since the session began, whatever is written *)
(* after it has read them.                                                 *)
(***************************************************************************)
EXTENDS Settlement, TLAPS

Settled(row) == row.payout_status \in {"eligible", "paid"}

\* Every stored record satisfies its constraints.
RecordsFit ==
  \A k \in Booking \X HandoverDirection :
    handovers[k] # None =>
      /\ CompletedRequirements(handovers[k])
      /\ SignersAreParties(handovers[k], bookings[k[1]])

\* A lifecycle that changed left its start behind.
MovedOn(loaded, mine) ==
  /\ mine.payout_status # loaded.payout_status => Settled(mine)
  /\ mine.deposit_status # loaded.deposit_status => mine.deposit_status # "held"

\* What session s holds was true since it began, when C and R are the sessions that saw
\* their booking completed and returned; and its copy only moves on.
ReadsFit(s, held, C, R) ==
  /\ held.status = "completed" => s \in C
  /\ \A c \in held.copies : IsCompletedReturn(c, held.mine.booking) => s \in R
  /\ Settled(held.mine) => s \in C \cap R \/ (held.loaded # None /\ Settled(held.loaded))
  /\ held.loaded # None => MovedOn(held.loaded, held.mine)

\* A session sees its booking as it is now.
Sees(s, held, C, R) ==
  /\ Completed(held.mine.booking) => s \in C
  /\ Returned(held.mine.booking) => s \in R

\* A payment that was loaded is still there, with the same booking, and is settled
\* for good; a new one is nobody else's.
RowFits(s, held) ==
  /\ held.loaded # None =>
       /\ payments[held.id] # None /\ payments[held.id].booking = held.mine.booking
       /\ Settled(held.loaded) => Settled(payments[held.id])
  /\ held.loaded = None =>
       /\ payments[held.id] = None
       /\ \A t \in Session : t # s /\ session[t] # None => session[t].id # held.id

SessionsFit ==
  \A s \in Session : session[s] # None =>
    /\ ReadsFit(s, session[s], sawCompleted, sawReturned)
    /\ Sees(s, session[s], sawCompleted, sawReturned)
    /\ RowFits(s, session[s])

IInv ==
  /\ TypeOK
  /\ RecordsFit
  /\ SessionsFit

-----------------------------------------------------------------------------

\* What is flushed is a row of the session's booking.  It is settled if the stored row
\* or the session's copy is, and only then.
LEMMA FlushedRow ==
  ASSUME NEW held \in Held, NEW current \in PaymentRow \cup {None},
         held.loaded # None =>
           /\ current # None /\ current.booking = held.mine.booking
           /\ Settled(held.loaded) => Settled(current)
           /\ MovedOn(held.loaded, held.mine)
  PROVE  /\ Flushed(held, current) \in PaymentRow
         /\ Flushed(held, current).booking = held.mine.booking
         /\ Settled(held.mine) => Settled(Flushed(held, current))
         /\ held.loaded # None /\ Settled(current) => Settled(Flushed(held, current))
         /\ Settled(Flushed(held, current)) =>
              \/ Settled(held.mine) /\ (held.loaded # None => ~ Settled(held.loaded))
              \/ held.loaded # None /\ Settled(current)
<1>1. CASE held.loaded = None
  BY <1>1 DEF Flushed, Held
<1>2. CASE held.loaded # None
  <2>1. current \in PaymentRow /\ current.booking = held.mine.booking
    BY <1>2
  <2>2. held.mine \in PaymentRow
    BY DEF Held
  <2>. QED
    BY <1>2, <2>1, <2>2 DEF Flushed, PaymentRow, Settled, MovedOn
<1>. QED
  BY <1>1, <1>2

\* Nothing is stored and no session is open.
LEMMA InitIInv == Init => IInv
<1>. SUFFICES ASSUME Init PROVE IInv
  OBVIOUS
<1>1. TypeOK
  BY NoneAssumption, InstanceAssumption
  DEF Init, TypeOK, BookingRow, BookingStatus
<1>2. RecordsFit /\ SessionsFit
  BY DEF Init, RecordsFit, SessionsFit
<1>. QED
  BY <1>1, <1>2 DEF IInv

-----------------------------------------------------------------------------
(* Steps of the other tables *)

\* Sessions hold the same and see more when rows of a booking are written.
LEMMA WitnessIInv ==
  ASSUME IInv, NEW b \in Booking, Witness(b), UNCHANGED <<payments, session>>,
         \A a \in Booking \ {b} :
           bookings'[a] = bookings[a] /\ handovers'[<<a, "return">>] = handovers[<<a, "return">>]
  PROVE  /\ sawCompleted' \cup sawReturned' \subseteq {s \in Session : session'[s] # None}
         /\ SessionsFit'
<1>. DEFINE holders == {s \in Session : session[s] # None /\ session[s].mine.booking = b}
<1>1. /\ sawCompleted' = IF Completed(b)' THEN sawCompleted \cup holders ELSE sawCompleted
      /\ sawReturned' = IF Returned(b)' THEN sawReturned \cup holders ELSE sawReturned
  BY DEF Witness
<1>2. sawCompleted \subseteq sawCompleted' /\ sawReturned \subseteq sawReturned'
  BY <1>1
<1>3. ASSUME NEW s \in Session, session[s] # None
      PROVE  /\ ReadsFit(s, session[s], sawCompleted', sawReturned')
             /\ Completed(session[s].mine.booking)' => s \in sawCompleted'
             /\ Returned(session[s].mine.booking)' => s \in sawReturned'
             /\ RowFits(s, session[s])
  <2>1. /\ ReadsFit(s, session[s], sawCompleted, sawReturned)
        /\ Sees(s, session[s], sawCompleted, sawReturned)
        /\ RowFits(s, session[s])
    BY <1>3 DEF IInv, SessionsFit
  <2>2. session[s].mine.booking \in Booking
    BY <1>3 DEF IInv, TypeOK, Held, PaymentRow
  <2>3. ReadsFit(s, session[s], sawCompleted', sawReturned')
    BY <1>2, <2>1 DEF ReadsFit
  <2>4. CASE session[s].mine.booking = b
    <3>1. s \in holders
      BY <1>3, <2>4
    <3>2. session'[s].mine.booking = b
      BY <2>4
    <3>. QED
      BY <1>1, <2>1, <2>3, <2>4, <3>1, <3>2
  <2>5. CASE session[s].mine.booking # b
    <3>1. /\ Completed(session[s].mine.booking)' => Completed(session[s].mine.booking)
          /\ Returned(session[s].mine.booking)' => Returned(session[s].mine.booking)
      BY <2>2, <2>5 DEF Completed, Returned
    <3>. QED
      BY <1>2, <2>1, <2>3, <3>1 DEF Sees
  <2>. QED
    BY <2>4, <2>5
<1>4. SessionsFit'
  BY <1>3 DEF SessionsFit, Sees, ReadsFit, RowFits
<1>5. sawCompleted' \cup sawReturned' \subseteq {s \in Session : session'[s] # None}
  BY <1>1 DEF IInv, TypeOK
<1>. QED
  BY <1>4, <1>5

\* A record that is written satisfies its constraints.
LEMMA WriteHandoverIInv ==
  ASSUME IInv, NEW b \in Booking, NEW d \in HandoverDirection, WriteHandover(b, d)
  PROVE  IInv'
<1>1. PICK h \in Form :
        /\ CompletedRequirements(h)
        /\ SignersAreParties(h, bookings[b])
        /\ handovers' = [handovers EXCEPT ![<<b, d>>] = h]
  BY DEF WriteHandover
<1>2. UNCHANGED <<bookings, payments, session>> /\ Witness(b)
  BY DEF WriteHandover
<1>3. h \in Handover
  BY InstanceAssumption
<1>4. ASSUME NEW k \in Booking \X HandoverDirection, k # <<b, d>>
      PROVE  handovers'[k] = handovers[k]
  BY <1>1, <1>4 DEF IInv, TypeOK
<1>5. /\ sawCompleted' \cup sawReturned' \subseteq {s \in Session : session'[s] # None}
      /\ SessionsFit'
  <2>1. \A a \in Booking \ {b} : handovers'[<<a, "return">>] = handovers[<<a, "return">>]
    BY <1>4 DEF HandoverDirection
  <2>. QED
    BY <1>2, <2>1, WitnessIInv
<1>6. TypeOK'
  BY <1>1, <1>2, <1>3, <1>5 DEF IInv, TypeOK
<1>7. RecordsFit'
  <2>. SUFFICES ASSUME NEW k \in Booking \X HandoverDirection, handovers'[k] # None
       PROVE  /\ CompletedRequirements(handovers'[k])
              /\ SignersAreParties(handovers'[k], bookings[k[1]])
    BY <1>2 DEF RecordsFit, CompletedRequirements, SignersAreParties
  <2>1. CASE k = <<b, d>>
    BY <1>1, <2>1 DEF IInv, TypeOK
  <2>2. CASE k # <<b, d>>
    BY <1>4, <2>2 DEF IInv, RecordsFit
  <2>. QED
    BY <2>1, <2>2
<1>. QED
  BY <1>5, <1>6, <1>7 DEF IInv

\* A booking that is written keeps the signers of its records.
LEMMA UpdateBookingIInv ==
  ASSUME IInv, NEW b \in Booking, UpdateBooking(b)
  PROVE  IInv'
<1>1. PICK status \in Progress, party \in Party :
        LET row == [vendor |-> party[1], renter |-> party[2], status |-> status] IN
        /\ \A k \in Records : k[1] = b => SignersAreParties(handovers[k], row)
        /\ bookings' = [bookings EXCEPT ![b] = row]
  BY DEF UpdateBooking
<1>. DEFINE row == [vendor |-> party[1], renter |-> party[2], status |-> status]
<1>2. UNCHANGED <<handovers, payments, session>> /\ Witness(b)
  BY DEF UpdateBooking
<1>3. row \in BookingRow
  BY InstanceAssumption DEF BookingRow
<1>. HIDE DEF row
<1>4. /\ sawCompleted' \cup sawReturned' \subseteq {s \in Session : session'[s] # None}
      /\ SessionsFit'
  <2>1. \A a \in Booking \ {b} : bookings'[a] = bookings[a]
    BY <1>1 DEF IInv, TypeOK
  <2>. QED
    BY <1>2, <2>1, WitnessIInv
<1>5. TypeOK'
  BY <1>1, <1>2, <1>3, <1>4 DEF IInv, TypeOK, row
<1>6. RecordsFit'
  <2>. SUFFICES ASSUME NEW k \in Booking \X HandoverDirection, handovers[k] # None
       PROVE  SignersAreParties(handovers[k], bookings'[k[1]])
    BY <1>2 DEF IInv, RecordsFit, CompletedRequirements, SignersAreParties
  <2>1. k \in Records
    BY DEF IInv, TypeOK, Records
  <2>2. CASE k[1] = b
    BY <1>1, <2>1, <2>2 DEF IInv, TypeOK
  <2>3. CASE k[1] # b
    BY <1>1, <2>3 DEF IInv, TypeOK, RecordsFit
  <2>. QED
    BY <2>2, <2>3
<1>. QED
  BY <1>4, <1>5, <1>6 DEF IInv

-----------------------------------------------------------------------------
(* Steps of sessions *)

\* A session may hold anything that fits, of a payment no other session is
\* creating, if the others have seen what they had.
LEMMA SetSession ==
  ASSUME IInv, NEW s \in Session, NEW held \in Held,
         session' = [session EXCEPT ![s] = held],
         UNCHANGED <<bookings, handovers, payments>>,
         sawCompleted' \cup sawReturned' \subseteq sawCompleted \cup sawReturned \cup {s},
         sawCompleted \subseteq sawCompleted', sawReturned \subseteq sawReturned',
         ReadsFit(s, held, sawCompleted', sawReturned'),
         Sees(s, held, sawCompleted', sawReturned'), RowFits(s, held),
         \A t \in Session : t # s /\ session[t] # None /\ session[t].loaded = None
           => session[t].id # held.id
  PROVE  IInv'
<1>1. session'[s] = held /\ \A u \in Session \ {s} : session'[u] = session[u]
  BY DEF IInv, TypeOK
<1>2. TypeOK'
  <2>1. session' \in [Session -> Held \cup {None}]
    BY DEF IInv, TypeOK
  <2>2. held # None
    BY NoneAssumption DEF Held
  <2>3. sawCompleted' \cup sawReturned' \subseteq {u \in Session : session'[u] # None}
    BY <1>1, <2>2 DEF IInv, TypeOK
  <2>. QED
    BY <2>1, <2>3 DEF IInv, TypeOK
<1>3. SessionsFit'
  <2>. SUFFICES ASSUME NEW t \in Session, session'[t] # None
       PROVE  /\ ReadsFit(t, session'[t], sawCompleted', sawReturned')
              /\ Sees(t, session[t], sawCompleted, sawReturned)'
              /\ RowFits(t, session[t])'
    BY DEF SessionsFit, ReadsFit
  <2>1. CASE t = s
    BY <1>1, <2>1 DEF Sees, Completed, Returned, RowFits
  <2>2. CASE t # s
    <3>1. session'[t] = session[t]
      BY <1>1, <2>2
    <3>2. /\ ReadsFit(t, session[t], sawCompleted, sawReturned)
          /\ Sees(t, session[t], sawCompleted, sawReturned)
          /\ RowFits(t, session[t])
      BY <3>1 DEF IInv, SessionsFit
    <3>3. ReadsFit(t, session'[t], sawCompleted', sawReturned')
      BY <3>1, <3>2 DEF ReadsFit
    <3>4. Sees(t, session[t], sawCompleted, sawReturned)'
      BY <3>1, <3>2 DEF Sees, Completed, Returned
    <3>5. RowFits(t, session[t])'
      BY <1>1, <2>2, <3>1, <3>2 DEF RowFits
    <3>. QED
      BY <3>3, <3>4, <3>5
  <2>. QED
    BY <2>1, <2>2
<1>4. RecordsFit'
  BY DEF IInv, RecordsFit
<1>. QED
  BY <1>2, <1>3, <1>4 DEF IInv

\* A session that only changes what it read or its copy, of the same booking,
\* keeps its payment.
LEMMA AmendSession ==
  ASSUME IInv, NEW s \in Session, session[s] # None, NEW held \in Held,
         session' = [session EXCEPT ![s] = held],
         UNCHANGED <<bookings, handovers, payments, history>>,
         held.id = session[s].id, held.loaded = session[s].loaded,
         held.mine.booking = session[s].mine.booking,
         ReadsFit(s, held, sawCompleted, sawReturned)
  PROVE  IInv'
<1>1. RowFits(s, session[s]) /\ Sees(s, session[s], sawCompleted, sawReturned)
  BY DEF IInv, SessionsFit
<1>2. RowFits(s, held) /\ Sees(s, held, sawCompleted, sawReturned)
  BY <1>1 DEF RowFits, Sees
<1>3. ASSUME NEW t \in Session, t # s, session[t] # None, session[t].loaded = None
      PROVE  session[t].id # held.id
  BY <1>3 DEF IInv, SessionsFit, RowFits
<1>4. sawCompleted' = sawCompleted /\ sawReturned' = sawReturned
  BY DEF history
<1>. QED
  BY <1>2, <1>3, <1>4, SetSession

\* A session that ends leaves the others as they are.
LEMMA CloseIInv ==
  ASSUME IInv, NEW s \in Session, session' = [session EXCEPT ![s] = None], EndWitness(s),
         UNCHANGED <<bookings, handovers, payments>>
  PROVE  IInv'
<1>1. \A u \in Session \ {s} : session'[u] = session[u]
  BY DEF IInv, TypeOK
<1>2. session'[s] = None
  BY DEF IInv, TypeOK
<1>3. TypeOK'
  BY <1>1 DEF IInv, TypeOK, EndWitness
<1>4. SessionsFit'
  <2>. SUFFICES ASSUME NEW u \in Session, session'[u] # None
       PROVE  /\ ReadsFit(u, session'[u], sawCompleted', sawReturned')
              /\ Sees(u, session[u], sawCompleted, sawReturned)'
              /\ RowFits(u, session[u])'
    BY DEF SessionsFit, ReadsFit
  <2>1. u # s /\ session'[u] = session[u]
    BY <1>1, <1>2
  <2>2. /\ ReadsFit(u, session[u], sawCompleted, sawReturned)
        /\ Sees(u, session[u], sawCompleted, sawReturned)
        /\ RowFits(u, session[u])
    BY <2>1 DEF IInv, SessionsFit
  <2>3. ReadsFit(u, session'[u], sawCompleted', sawReturned')
    BY <2>1, <2>2 DEF ReadsFit, EndWitness
  <2>4. Sees(u, session[u], sawCompleted, sawReturned)'
    BY <2>1, <2>2 DEF Sees, EndWitness, Completed, Returned
  <2>5. RowFits(u, session[u])'
    BY <1>1, <1>2, <2>1, <2>2 DEF RowFits
  <2>. QED
    BY <2>3, <2>4, <2>5
<1>5. RecordsFit'
  BY DEF IInv, RecordsFit
<1>. QED
  BY <1>3, <1>4, <1>5 DEF IInv
-----------------------------------------------------------------------------
(* What the session's operations hold afterwards *)

\* What the invariant says of one open session.
LEMMA HeldFits ==
  ASSUME IInv, NEW s \in Session, session[s] # None
  PROVE  /\ session[s] \in Held
         /\ ReadsFit(s, session[s], sawCompleted, sawReturned)
         /\ Sees(s, session[s], sawCompleted, sawReturned)
         /\ RowFits(s, session[s])
BY DEF IInv, TypeOK, SessionsFit

\* A session begins with what its booking is at that moment.
LEMMA StartWitnessFits ==
  ASSUME NEW s \in Session, NEW b \in Booking, StartWitness(s, b)
  PROVE  /\ sawCompleted' \cup sawReturned' \subseteq sawCompleted \cup sawReturned \cup {s}
         /\ sawCompleted \subseteq sawCompleted' /\ sawReturned \subseteq sawReturned'
         /\ Completed(b) => s \in sawCompleted'
         /\ Returned(b) => s \in sawReturned'
BY DEF StartWitness

\* A new payment is nobody else's and its payout has not begun.
LEMMA NewIInv ==
  ASSUME IInv, NEW s \in Session, NEW p \in Payment, New(s, p)
  PROVE  IInv'
<1>1. PICK b \in Booking, type \in PaymentType :
        /\ session' = [session EXCEPT ![s] = Opened(p, None,
             [booking |-> b, type |-> type, payout_status |-> None,
              deposit_status |-> IF type = "deposit" THEN "held" ELSE None,
              stamps |-> IF type = "deposit" THEN {"deposit_held_at"} ELSE {}])]
        /\ StartWitness(s, b)
  BY DEF New
<1>. DEFINE mine == [booking |-> b, type |-> type, payout_status |-> None,
                     deposit_status |-> IF type = "deposit" THEN "held" ELSE None,
                     stamps |-> IF type = "deposit" THEN {"deposit_held_at"} ELSE {}]
            held == Opened(p, None, mine)
<1>2. mine \in PaymentRow
  BY DEF PaymentRow, DepositStatus, Stamp
<1>3. ~ Settled(mine) /\ mine.booking = b
  BY NoneAssumption DEF Settled, PayoutStatus
<1>. HIDE DEF mine
<1>4. held \in Held /\ held.mine.booking = b
  BY <1>2, <1>3 DEF Opened, Held
<1>5. ReadsFit(s, held, sawCompleted', sawReturned')
  BY <1>3, NoneAssumption DEF ReadsFit, Opened, BookingStatus
<1>6. /\ payments[p] = None
      /\ \A t \in Session : session[t] # None => session[t].id # p
      /\ UNCHANGED <<bookings, handovers, payments>>
  BY DEF New
<1>7. RowFits(s, held) /\ held.id = p
  BY <1>6 DEF RowFits, Opened
<1>8. session' = [session EXCEPT ![s] = held]
  BY <1>1 DEF mine
<1>. HIDE DEF held
<1>9. Sees(s, held, sawCompleted', sawReturned')
  BY <1>1, <1>4, StartWitnessFits DEF Sees
<1>10. /\ sawCompleted' \cup sawReturned' \subseteq sawCompleted \cup sawReturned \cup {s}
       /\ sawCompleted \subseteq sawCompleted' /\ sawReturned \subseteq sawReturned'
  BY <1>1, StartWitnessFits
<1>11. /\ UNCHANGED <<bookings, handovers, payments>>
       /\ \A t \in Session : t # s /\ session[t] # None /\ session[t].loaded = None
            => session[t].id # held.id
  BY <1>6, <1>7
<1>. QED
  BY <1>4, <1>5, <1>7, <1>8, <1>9, <1>10, <1>11, SetSession

\* A payment that is loaded is what it is in the table.
LEMMA LoadPaymentIInv ==
  ASSUME IInv, NEW s \in Session, NEW p \in Payment, LoadPayment(s, p)
  PROVE  IInv'
<1>. DEFINE held == Opened(p, payments[p], payments[p])
<1>1. /\ payments[p] # None
      /\ session' = [session EXCEPT ![s] = held]
      /\ StartWitness(s, payments[p].booking)
      /\ UNCHANGED <<bookings, handovers, payments>>
  BY DEF LoadPayment
<1>2. payments[p] \in PaymentRow /\ payments[p].booking \in Booking
  BY <1>1 DEF IInv, TypeOK, PaymentRow
<1>3. held \in Held /\ held.id = p /\ held.mine = payments[p]
  BY <1>2 DEF Opened, Held
<1>4. ReadsFit(s, held, sawCompleted', sawReturned')
  BY <1>1, NoneAssumption DEF ReadsFit, Opened, BookingStatus, MovedOn
<1>5. RowFits(s, held)
  BY <1>1, <1>2, NoneAssumption DEF RowFits, Opened
<1>6. ASSUME NEW t \in Session, t # s, session[t] # None, session[t].loaded = None
      PROVE  session[t].id # held.id
  BY <1>1, <1>3, <1>6, HeldFits DEF RowFits
<1>. HIDE DEF held
<1>7. Sees(s, held, sawCompleted', sawReturned')
  BY <1>1, <1>2, <1>3, StartWitnessFits DEF Sees
<1>8. /\ sawCompleted' \cup sawReturned' \subseteq sawCompleted \cup sawReturned \cup {s}
      /\ sawCompleted \subseteq sawCompleted' /\ sawReturned \subseteq sawReturned'
  BY <1>1, <1>2, StartWitnessFits
<1>9. session' = [session EXCEPT ![s] = held] /\ UNCHANGED <<bookings, handovers, payments>>
  BY <1>1 DEF held
<1>. QED
  BY <1>3, <1>4, <1>5, <1>6, <1>7, <1>8, <1>9, SetSession

\* A payout that becomes pending is not settled.
LEMMA SetPendingIInv ==
  ASSUME IInv, NEW s \in Session, SetPending(s)
  PROVE  IInv'
<1>. DEFINE held == [session[s] EXCEPT !.mine.payout_status = "pending"]
<1>1. /\ session[s] # None
      /\ session' = [session EXCEPT ![s] = held]
      /\ UNCHANGED <<bookings, handovers, payments, history>>
      /\ session[s].loaded = None
  BY DEF SetPending
<1>2. session[s] \in Held /\ ReadsFit(s, session[s], sawCompleted, sawReturned)
  BY <1>1, HeldFits
<1>3. /\ held \in Held /\ held.id = session[s].id /\ held.loaded = session[s].loaded
      /\ held.mine.booking = session[s].mine.booking
      /\ held.mine.payout_status = "pending"
      /\ held.status = session[s].status /\ held.copies = session[s].copies
  BY <1>2 DEF Held, PaymentRow, PayoutStatus
<1>. HIDE DEF held
<1>4. ReadsFit(s, held, sawCompleted, sawReturned)
  BY <1>1, <1>2, <1>3 DEF ReadsFit, Settled
<1>. QED
  BY <1>1, <1>3, <1>4, AmendSession

\* A status that is read as completed is one the session sees.
LEMMA LoadBookingIInv ==
  ASSUME IInv, NEW s \in Session, LoadBooking(s)
  PROVE  IInv'
<1>. DEFINE held == [session[s] EXCEPT !.status = bookings[session[s].mine.booking].status]
<1>1. /\ session[s] # None
      /\ session' = [session EXCEPT ![s] = held]
      /\ UNCHANGED <<bookings, handovers, payments, history>>
  BY DEF LoadBooking
<1>2. /\ session[s] \in Held
      /\ ReadsFit(s, session[s], sawCompleted, sawReturned)
      /\ Sees(s, session[s], sawCompleted, sawReturned)
  BY <1>1, HeldFits
<1>3. session[s].mine.booking \in Booking
  BY <1>2 DEF Held, PaymentRow
<1>4. held \in Held /\ held.id = session[s].id /\ held.loaded = session[s].loaded
      /\ held.mine = session[s].mine /\ held.copies = session[s].copies
      /\ held.status = bookings[session[s].mine.booking].status
  BY <1>2, <1>3 DEF IInv, TypeOK, BookingRow, Held
<1>. HIDE DEF held
<1>5. ReadsFit(s, held, sawCompleted, sawReturned)
  BY <1>2, <1>4 DEF ReadsFit, Sees, Completed
<1>. QED
  BY <1>1, <1>4, <1>5, AmendSession

\* A completed return that is stored has the evidence and the signers the history asks for.
LEMMA LoadHandoversIInv ==
  ASSUME IInv, NEW s \in Session, LoadHandovers(s)
  PROVE  IInv'
<1>1. PICK B \in {{session[s].mine.booking}, Booking} :
        session' = [session EXCEPT ![s].copies = {CopyOf(k) : k \in {r \in Records : r[1] \in B}}]
  BY DEF LoadHandovers
<1>. DEFINE copies == {CopyOf(k) : k \in {r \in Records : r[1] \in B}}
            held == [session[s] EXCEPT !.copies = copies]
<1>2. /\ session[s] # None
      /\ session' = [session EXCEPT ![s] = held]
      /\ UNCHANGED <<bookings, handovers, payments, history>>
  BY <1>1 DEF LoadHandovers
<1>3. ASSUME NEW c \in copies
      PROVE  c \in Copy /\ \A b : IsCompletedReturn(c, b) => Returned(b)
  <2>1. PICK k \in Records : c = CopyOf(k)
    BY <1>3
  <2>2. k \in Booking \X HandoverDirection /\ handovers[k] # None /\ handovers[k] \in Handover
    BY DEF Records, IInv, TypeOK
  <2>3. c = [booking |-> k[1], direction |-> k[2], record |-> handovers[k]]
    BY <2>1 DEF CopyOf
  <2>4. ASSUME NEW b, IsCompletedReturn(c, b)
        PROVE  Returned(b)
    <3>1. k = <<b, "return">> /\ handovers[k].status = "completed"
      BY <2>2, <2>3, <2>4 DEF IsCompletedReturn
    <3>2. CompletedRequirements(handovers[k]) /\ SignersAreParties(handovers[k], bookings[b])
      BY <2>2, <3>1 DEF IInv, RecordsFit
    <3>. QED
      BY <2>2, <3>1, <3>2 DEF Returned, CompletedRequirements, SignersAreParties
  <2>. QED
    BY <2>2, <2>3, <2>4 DEF Copy
<1>4. /\ session[s] \in Held
      /\ ReadsFit(s, session[s], sawCompleted, sawReturned)
      /\ Sees(s, session[s], sawCompleted, sawReturned)
  BY <1>2, HeldFits
<1>. HIDE DEF copies
<1>5. held \in Held /\ held.id = session[s].id /\ held.loaded = session[s].loaded
      /\ held.mine = session[s].mine /\ held.status = session[s].status /\ held.copies = copies
  BY <1>3, <1>4 DEF Held
<1>. HIDE DEF held
<1>6. ReadsFit(s, held, sawCompleted, sawReturned)
  BY <1>3, <1>4, <1>5 DEF ReadsFit, Sees
<1>. QED
  BY <1>2, <1>5, <1>6, AmendSession

\* The heart of the matter: what the policy accepts was true since the session began.
LEMMA MarkPayoutEligibleIInv ==
  ASSUME IInv, NEW s \in Session, NEW onHold \in BOOLEAN, MarkPayoutEligible(s, onHold)
  PROVE  IInv'
<1>. DEFINE held == [session[s] EXCEPT !.mine.payout_status = "eligible",
                                       !.mine.stamps = @ \cup {"payout_eligible_at"}]
<1>1. /\ session[s] # None
      /\ session' = [session EXCEPT ![s] = held]
      /\ UNCHANGED <<bookings, handovers, payments, history>>
      /\ IsPayoutEligible(session[s].mine, session[s].copies, session[s].status, onHold)
  BY DEF MarkPayoutEligible
<1>2. session[s] \in Held /\ ReadsFit(s, session[s], sawCompleted, sawReturned)
  BY <1>1, HeldFits
<1>3. s \in sawCompleted \cap sawReturned
  <2>1. session[s].status = "completed"
    BY <1>1 DEF IsPayoutEligible
  <2>2. PICK c \in session[s].copies : IsCompletedReturn(c, session[s].mine.booking)
    BY <1>1 DEF IsPayoutEligible
  <2>. QED
    BY <1>2, <2>1, <2>2 DEF ReadsFit
<1>4. /\ held \in Held /\ held.id = session[s].id /\ held.loaded = session[s].loaded
      /\ held.mine.booking = session[s].mine.booking
      /\ held.mine.payout_status = "eligible"
      /\ held.mine.deposit_status = session[s].mine.deposit_status
      /\ held.status = session[s].status /\ held.copies = session[s].copies
  BY <1>2 DEF Held, PaymentRow, PayoutStatus, Stamp
<1>. HIDE DEF held
<1>5. ReadsFit(s, held, sawCompleted, sawReturned)
  BY <1>2, <1>3, <1>4 DEF ReadsFit, MovedOn, Settled
<1>. QED
  BY <1>1, <1>4, <1>5, AmendSession

\* A payout that is paid was eligible before, in the session's copy.
LEMMA MarkPaidIInv ==
  ASSUME IInv, NEW s \in Session, MarkPaid(s)
  PROVE  IInv'
<1>. DEFINE held == [session[s] EXCEPT !.mine.payout_status = "paid",
                                       !.mine.stamps = @ \cup {"paid_at"}]
<1>1. /\ session[s] # None
      /\ session' = [session EXCEPT ![s] = held]
      /\ UNCHANGED <<bookings, handovers, payments, history>>
      /\ session[s].mine.payout_status = "eligible"
  BY DEF MarkPaid, PayoutCanTransitionTo
<1>2. session[s] \in Held /\ ReadsFit(s, session[s], sawCompleted, sawReturned)
  BY <1>1, HeldFits
<1>3. /\ held \in Held /\ held.id = session[s].id /\ held.loaded = session[s].loaded
      /\ held.mine.booking = session[s].mine.booking
      /\ held.mine.payout_status = "paid"
      /\ held.mine.deposit_status = session[s].mine.deposit_status
      /\ held.status = session[s].status /\ held.copies = session[s].copies
  BY <1>2 DEF Held, PaymentRow, PayoutStatus, Stamp
<1>. HIDE DEF held
<1>4. ReadsFit(s, held, sawCompleted, sawReturned)
  BY <1>1, <1>2, <1>3 DEF ReadsFit, MovedOn, Settled
<1>. QED
  BY <1>1, <1>3, <1>4, AmendSession

\* A deposit's copy moves on and leaves the payout as it is.
LEMMA DisposeOfDepositIInv ==
  ASSUME IInv, NEW s \in Session, DisposeOfDeposit(s)
  PROVE  IInv'
<1>1. PICK to \in DepositStatus :
        /\ to # "held"
        /\ session' = [session EXCEPT ![s].mine.deposit_status = to,
                      ![s].mine.stamps = @ \cup
                        {IF to = "released" THEN "deposit_released_at" ELSE "deposit_claimed_at"}]
  BY DEF DisposeOfDeposit, DepositCanTransitionTo
<1>. DEFINE stamp == IF to = "released" THEN "deposit_released_at" ELSE "deposit_claimed_at"
            held == [session[s] EXCEPT !.mine.deposit_status = to, !.mine.stamps = @ \cup {stamp}]
<1>2. /\ session[s] # None
      /\ session' = [session EXCEPT ![s] = held]
      /\ UNCHANGED <<bookings, handovers, payments, history>>
  BY <1>1 DEF DisposeOfDeposit
<1>3. session[s] \in Held /\ ReadsFit(s, session[s], sawCompleted, sawReturned)
  BY <1>2, HeldFits
<1>4. stamp \in Stamp
  BY DEF Stamp
<1>. HIDE DEF stamp
<1>5. /\ held \in Held /\ held.id = session[s].id /\ held.loaded = session[s].loaded
      /\ held.mine.booking = session[s].mine.booking
      /\ held.mine.payout_status = session[s].mine.payout_status
      /\ held.mine.deposit_status = to
      /\ held.status = session[s].status /\ held.copies = session[s].copies
  BY <1>3, <1>4 DEF Held, PaymentRow
<1>. HIDE DEF held
<1>6. ReadsFit(s, held, sawCompleted, sawReturned)
  BY <1>1, <1>3, <1>5 DEF ReadsFit, MovedOn, Settled
<1>. QED
  BY <1>2, <1>5, <1>6, AmendSession

\* What a commit of a row that the constraints accept does to the table.
LEMMA CommitWrites ==
  ASSUME IInv, NEW s \in Session, session[s] # None,
         Storable(Flushed(session[s], payments[session[s].id])),
         payments' = [payments EXCEPT ![session[s].id] =
                        Flushed(session[s], payments[session[s].id])]
  PROVE  /\ session[s].id \in Payment
         /\ payments' \in [Payment -> PaymentRow \cup {None}]
         /\ \A q \in Payment \ {session[s].id} : payments'[q] = payments[q]
         /\ payments'[session[s].id] # None
         /\ payments'[session[s].id].booking = session[s].mine.booking
         /\ Storable(payments'[session[s].id])
         /\ Settled(session[s].mine) => Settled(payments'[session[s].id])
         /\ session[s].loaded # None /\ Settled(payments[session[s].id])
              => Settled(payments'[session[s].id])
         /\ Settled(payments'[session[s].id]) =>
              \/ s \in sawCompleted \cap sawReturned
              \/ session[s].loaded # None /\ Settled(payments[session[s].id])
<1>. DEFINE p == session[s].id
            row == Flushed(session[s], payments[p])
<1>1. /\ session[s] \in Held
      /\ ReadsFit(s, session[s], sawCompleted, sawReturned)
      /\ RowFits(s, session[s])
  BY HeldFits
<1>2. p \in Payment /\ payments[p] \in PaymentRow \cup {None}
  BY <1>1 DEF Held, IInv, TypeOK
<1>3. session[s].loaded # None =>
        /\ payments[p] # None /\ payments[p].booking = session[s].mine.booking
        /\ Settled(session[s].loaded) => Settled(payments[p])
        /\ MovedOn(session[s].loaded, session[s].mine)
  BY <1>1 DEF ReadsFit, RowFits
<1>4. /\ row \in PaymentRow
      /\ row.booking = session[s].mine.booking
      /\ Settled(session[s].mine) => Settled(row)
      /\ session[s].loaded # None /\ Settled(payments[p]) => Settled(row)
      /\ Settled(row) =>
           \/ Settled(session[s].mine) /\ (session[s].loaded # None => ~ Settled(session[s].loaded))
           \/ session[s].loaded # None /\ Settled(payments[p])
  BY <1>1, <1>2, <1>3, FlushedRow
<1>. HIDE DEF row
<1>5. payments' = [payments EXCEPT ![p] = row] /\ Storable(row)
  BY DEF row
<1>6. row # None
  BY <1>4, NoneAssumption
<1>7. payments'[p] = row /\ \A q \in Payment \ {p} : payments'[q] = payments[q]
  BY <1>2, <1>5 DEF IInv, TypeOK
<1>8. payments' \in [Payment -> PaymentRow \cup {None}]
  BY <1>2, <1>4, <1>5 DEF IInv, TypeOK
<1>9. Settled(row) =>
        \/ s \in sawCompleted \cap sawReturned
        \/ session[s].loaded # None /\ Settled(payments[p])
  BY <1>1, <1>4 DEF ReadsFit
<1>. QED
  BY <1>2, <1>4, <1>5, <1>6, <1>7, <1>8, <1>9

\* A commit that is accepted leaves every session's copy of the payment fitting.
LEMMA AcceptedCommitIInv ==
  ASSUME IInv, NEW s \in Session, session[s] # None,
         Storable(Flushed(session[s], payments[session[s].id])),
         payments' = [payments EXCEPT ![session[s].id] =
                        Flushed(session[s], payments[session[s].id])],
         session' = [session EXCEPT ![s].loaded = session[s].mine],
         UNCHANGED <<bookings, handovers, history>>
  PROVE  IInv'
<1>. DEFINE p == session[s].id
<1>1. /\ p \in Payment
      /\ payments' \in [Payment -> PaymentRow \cup {None}]
      /\ \A q \in Payment \ {p} : payments'[q] = payments[q]
      /\ payments'[p] # None
      /\ payments'[p].booking = session[s].mine.booking
      /\ Storable(payments'[p])
      /\ Settled(session[s].mine) => Settled(payments'[p])
      /\ session[s].loaded # None /\ Settled(payments[p]) => Settled(payments'[p])
      /\ Settled(payments'[p]) =>
           \/ s \in sawCompleted \cap sawReturned
           \/ session[s].loaded # None /\ Settled(payments[p])
  BY CommitWrites
<1>2. /\ session[s] \in Held
      /\ ReadsFit(s, session[s], sawCompleted, sawReturned)
      /\ Sees(s, session[s], sawCompleted, sawReturned)
      /\ RowFits(s, session[s])
  BY HeldFits
<1>. DEFINE held == [session[s] EXCEPT !.loaded = session[s].mine]
<1>3. /\ held \in Held /\ held.id = p /\ held.loaded = session[s].mine
      /\ held.mine = session[s].mine /\ held.status = session[s].status
      /\ held.copies = session[s].copies
  BY <1>2 DEF Held
<1>4. session' = [session EXCEPT ![s] = held]
  OBVIOUS
<1>. HIDE DEF held, p
<1>5. session'[s] = held /\ \A u \in Session \ {s} : session'[u] = session[u]
  BY <1>4 DEF IInv, TypeOK
<1>6. held # None /\ held.loaded # None
  BY <1>2, <1>3, NoneAssumption DEF Held
<1>7. sawCompleted' = sawCompleted /\ sawReturned' = sawReturned
  BY DEF history
<1>8. TypeOK'
  <2>1. session' \in [Session -> Held \cup {None}]
    BY <1>3, <1>4 DEF IInv, TypeOK
  <2>2. ASSUME NEW q \in Payment, payments'[q] # None
        PROVE  LifecycleMatchesType(payments'[q]) /\ StatusHasTimestamps(payments'[q])
    BY <1>1, <2>2 DEF IInv, TypeOK, Storable
  <2>3. sawCompleted' \cup sawReturned' \subseteq {u \in Session : session'[u] # None}
    BY <1>5, <1>6, <1>7 DEF IInv, TypeOK
  <2>. QED
    BY <1>1, <2>1, <2>2, <2>3 DEF IInv, TypeOK, LifecycleMatchesType, StatusHasTimestamps
<1>9. SessionsFit'
  <2>. SUFFICES ASSUME NEW t \in Session, session'[t] # None
       PROVE  /\ ReadsFit(t, session'[t], sawCompleted, sawReturned)
              /\ Sees(t, session[t], sawCompleted, sawReturned)'
              /\ RowFits(t, session[t])'
    BY <1>7 DEF SessionsFit, ReadsFit
  <2>1. CASE t = s
    <3>1. ReadsFit(s, held, sawCompleted, sawReturned)
      BY <1>2, <1>3, <1>6 DEF ReadsFit, MovedOn
    <3>2. Sees(s, session[s], sawCompleted, sawReturned)'
      BY <1>2, <1>3, <1>5, <1>7 DEF Sees, Completed, Returned
    <3>3. RowFits(s, session[s])'
      BY <1>1, <1>3, <1>5, <1>6 DEF RowFits
    <3>. QED
      BY <1>5, <2>1, <3>1, <3>2, <3>3
  <2>2. CASE t # s
    <3>1. session'[t] = session[t]
      BY <1>5, <2>2
    <3>2. /\ session[t] \in Held
          /\ ReadsFit(t, session[t], sawCompleted, sawReturned)
          /\ Sees(t, session[t], sawCompleted, sawReturned)
          /\ RowFits(t, session[t])
      BY <3>1, HeldFits
    <3>3. Sees(t, session[t], sawCompleted, sawReturned)'
      BY <1>7, <3>1, <3>2 DEF Sees, Completed, Returned
    <3>4. session[t].id \in Payment
      BY <3>2 DEF Held
    <3>5. RowFits(t, session[t])'
      <4>1. CASE session[t].loaded # None
        <5>1. /\ payments[session[t].id] # None
              /\ payments[session[t].id].booking = session[t].mine.booking
              /\ Settled(session[t].loaded) => Settled(payments[session[t].id])
          BY <3>2, <4>1 DEF RowFits
        <5>2. session[t].id = p =>
                session[s].loaded # None /\ payments[p].booking = session[s].mine.booking
          BY <1>2, <5>1 DEF RowFits, p
        <5>3. /\ payments'[session[t].id] # None
              /\ payments'[session[t].id].booking = session[t].mine.booking
              /\ Settled(session[t].loaded) => Settled(payments'[session[t].id])
          <6>1. CASE session[t].id = p
            BY <1>1, <5>1, <5>2, <6>1
          <6>2. CASE session[t].id # p
            BY <1>1, <3>4, <5>1, <6>2
          <6>. QED
            BY <6>1, <6>2
        <5>. QED
          BY <3>1, <4>1, <5>3 DEF RowFits
      <4>2. CASE session[t].loaded = None
        <5>1. /\ payments[session[t].id] = None
              /\ \A u \in Session : u # t /\ session[u] # None => session[u].id # session[t].id
          BY <3>2, <4>2 DEF RowFits
        <5>2. session[t].id # p
          BY <2>2, <5>1 DEF p
        <5>3. payments'[session[t].id] = None
          BY <1>1, <3>4, <5>1, <5>2
        <5>4. ASSUME NEW u \in Session, u # t, session'[u] # None
              PROVE  session'[u].id # session[t].id
          BY <1>3, <1>5, <5>1, <5>2, <5>4
        <5>. QED
          BY <3>1, <4>2, <5>3, <5>4 DEF RowFits
      <4>. QED
        BY <4>1, <4>2
    <3>. QED
      BY <3>1, <3>2, <3>3, <3>5
  <2>. QED
    BY <2>1, <2>2
<1>10. RecordsFit'
  BY DEF IInv, RecordsFit
<1>. QED
  BY <1>8, <1>9, <1>10 DEF IInv

\* A commit is accepted, and the session stays, or refused, and it ends.
LEMMA CommitIInv ==
  ASSUME IInv, NEW s \in Session, Commit(s)
  PROVE  IInv'
<1>. DEFINE row == Flushed(session[s], payments[session[s].id])
<1>1. session[s] # None /\ UNCHANGED <<bookings, handovers>>
  BY DEF Commit
<1>2. CASE /\ Storable(row)
           /\ payments' = [payments EXCEPT ![session[s].id] = row]
           /\ session' = [session EXCEPT ![s].loaded = session[s].mine]
           /\ UNCHANGED history
  BY <1>1, <1>2, AcceptedCommitIInv
<1>3. CASE session' = [session EXCEPT ![s] = None] /\ EndWitness(s) /\ UNCHANGED payments
  BY <1>1, <1>3, CloseIInv
<1>. QED
  BY <1>2, <1>3 DEF Commit

-----------------------------------------------------------------------------

\* Every step keeps the invariant.
LEMMA NextIInv == IInv /\ [Next]_vars => IInv'
<1>. SUFFICES ASSUME IInv, [Next]_vars PROVE IInv'
  OBVIOUS
<1>1. ASSUME NEW b \in Booking, UpdateBooking(b) PROVE IInv'
  BY <1>1, UpdateBookingIInv
<1>2. ASSUME NEW b \in Booking, NEW d \in HandoverDirection, WriteHandover(b, d) PROVE IInv'
  BY <1>2, WriteHandoverIInv
<1>3. ASSUME NEW s \in Session, NEW p \in Payment, New(s, p) PROVE IInv'
  BY <1>3, NewIInv
<1>4. ASSUME NEW s \in Session, NEW p \in Payment, LoadPayment(s, p) PROVE IInv'
  BY <1>4, LoadPaymentIInv
<1>5. ASSUME NEW s \in Session, SetPending(s) PROVE IInv'
  BY <1>5, SetPendingIInv
<1>6. ASSUME NEW s \in Session, LoadBooking(s) PROVE IInv'
  BY <1>6, LoadBookingIInv
<1>7. ASSUME NEW s \in Session, LoadHandovers(s) PROVE IInv'
  BY <1>7, LoadHandoversIInv
<1>8. ASSUME NEW s \in Session, NEW onHold \in BOOLEAN, MarkPayoutEligible(s, onHold) PROVE IInv'
  BY <1>8, MarkPayoutEligibleIInv
<1>9. ASSUME NEW s \in Session, MarkPaid(s) PROVE IInv'
  BY <1>9, MarkPaidIInv
<1>10. ASSUME NEW s \in Session, DisposeOfDeposit(s) PROVE IInv'
  BY <1>10, DisposeOfDepositIInv
<1>11. ASSUME NEW s \in Session, Commit(s) PROVE IInv'
  BY <1>11, CommitIInv
<1>12. ASSUME NEW s \in Session, Close(s) PROVE IInv'
  BY <1>12, CloseIInv DEF Close
<1>13. CASE UNCHANGED vars
  BY <1>13 DEF vars, history, IInv, TypeOK, RecordsFit, SessionsFit, ReadsFit, Sees, RowFits,
               Settled, MovedOn, Completed, Returned, CompletedRequirements, SignersAreParties,
               IsCompletedReturn, LifecycleMatchesType, StatusHasTimestamps
<1>. QED
  BY <1>1, <1>2, <1>3, <1>4, <1>5, <1>6, <1>7, <1>8, <1>9, <1>10, <1>11, <1>12, <1>13 DEF Next

\* The tables and the sessions are well typed, and every stored payment satisfies
\* the constraints of its table.
THEOREM TypeCorrect == Spec => []TypeOK
<1>1. IInv => TypeOK
  BY DEF IInv
<1>. QED
  BY <1>1, InitIInv, NextIInv, PTL DEF Spec

\* A payout that becomes eligible, or at once paid, is committed by a session that saw
\* its booking completed and its return co-signed with evidence: what was so before the
\* session began, and is no longer, does not count.
THEOREM PayoutsAreEarned == Spec => PayoutFollowsReturn
<1>. DEFINE Becomes(p) ==
              /\ payments'[p] # None /\ payments'[p].payout_status \in {"eligible", "paid"}
              /\ payments[p] = None \/ payments[p].payout_status \notin {"eligible", "paid"}
            Earned ==
              \A p \in Payment : Becomes(p) =>
                \E s \in sawCompleted \cap sawReturned : Commit(s) /\ session[s].id = p
<1>1. IInv /\ [Next]_vars => [Earned]_vars
  <2>. SUFFICES ASSUME IInv, Next PROVE Earned
    OBVIOUS
  <2>1. CASE UNCHANGED payments
    BY <2>1
  <2>2. ASSUME NEW s \in Session, Commit(s) PROVE Earned
    <3>. SUFFICES ASSUME NEW p \in Payment, Becomes(p)
         PROVE  \E t \in sawCompleted \cap sawReturned : Commit(t) /\ session[t].id = p
      OBVIOUS
    <3>1. /\ session[s] # None
          /\ Storable(Flushed(session[s], payments[session[s].id]))
          /\ payments' = [payments EXCEPT ![session[s].id] =
                            Flushed(session[s], payments[session[s].id])]
      BY <2>2 DEF Commit
    <3>2. /\ \A q \in Payment \ {session[s].id} : payments'[q] = payments[q]
          /\ Settled(payments'[session[s].id]) =>
               \/ s \in sawCompleted \cap sawReturned
               \/ session[s].loaded # None /\ Settled(payments[session[s].id])
      BY <3>1, CommitWrites
    <3>3. p = session[s].id
      BY <3>2
    <3>4. session[s].loaded # None => payments[p] # None
      BY <3>1, <3>3, HeldFits DEF RowFits
    <3>5. s \in sawCompleted \cap sawReturned
      BY <3>2, <3>3, <3>4 DEF Settled
    <3>. QED
      BY <2>2, <3>3, <3>5
  <2>. QED
    BY <2>1, <2>2 DEF Next, UpdateBooking, WriteHandover, New, LoadPayment, SetPending,
                      LoadBooking, LoadHandovers, MarkPayoutEligible, MarkPaid,
                      DisposeOfDeposit, Close
<1>. QED
  BY <1>1, InitIInv, NextIInv, PTL DEF Spec, PayoutFollowsReturn

\* A completed handover record is signed by the two parties of its booking.
THEOREM PartiesSign == Spec => []SignedByItsParties
<1>1. IInv => SignedByItsParties
  <2>. SUFFICES ASSUME IInv, NEW k \in Records, handovers[k].status = "completed"
       PROVE  /\ handovers[k].vendor_signer = bookings[k[1]].vendor
              /\ handovers[k].renter_signer = bookings[k[1]].renter
    BY DEF SignedByItsParties
  <2>1. k \in Booking \X HandoverDirection /\ handovers[k] # None
    BY DEF Records, IInv, TypeOK
  <2>. QED
    BY <2>1 DEF IInv, RecordsFit, CompletedRequirements, SignersAreParties
<1>. QED
  BY <1>1, InitIInv, NextIInv, PTL DEF Spec

\* Every return the table lets be completed is one the payout policy accepts.
THEOREM PolicyAcceptsCompletedReturns == Spec => []CompletedReturnsCount
<1>1. IInv => CompletedReturnsCount
  <2>. SUFFICES ASSUME IInv, NEW k \in Records, k[2] = "return",
                       handovers[k].status = "completed"
       PROVE  IsCompletedReturn(CopyOf(k), k[1])
    BY DEF CompletedReturnsCount
  <2>1. k \in Booking \X HandoverDirection /\ handovers[k] # None
    BY DEF Records, IInv, TypeOK
  <2>. QED
    BY <2>1 DEF IInv, RecordsFit, CompletedRequirements, IsCompletedReturn, CopyOf
<1>. QED
  BY <1>1, InitIInv, NextIInv, PTL DEF Spec

\* No session, whatever it overwrites, takes a time stamp from a payment, a payout
\* back to pending or a deposit back to held.
LEMMA CommitKeepsMilestones ==
  ASSUME IInv, NEW s \in Session, Commit(s), NEW p \in Payment, payments[p] # None
  PROVE  /\ payments'[p] # None
         /\ payments[p].stamps \subseteq payments'[p].stamps
         /\ payments[p].payout_status # "pending" => payments'[p].payout_status # "pending"
         /\ payments[p].deposit_status # "held" => payments'[p].deposit_status # "held"
<1>. DEFINE row == Flushed(session[s], payments[session[s].id])
<1>1. /\ session[s] # None
      /\ payments' = IF Storable(row) THEN [payments EXCEPT ![session[s].id] = row] ELSE payments
  BY DEF Commit
<1>2. /\ session[s] \in Held
      /\ ReadsFit(s, session[s], sawCompleted, sawReturned)
      /\ RowFits(s, session[s])
  BY <1>1, HeldFits
<1>3. CASE ~ (Storable(row) /\ p = session[s].id)
  <2>1. payments'[p] = payments[p]
    BY <1>1, <1>3 DEF IInv, TypeOK
  <2>. QED
    BY <2>1
<1>4. CASE Storable(row) /\ p = session[s].id
  <2>1. payments'[p] = row
    BY <1>1, <1>4 DEF IInv, TypeOK
  <2>2. session[s].loaded # None /\ payments[p].booking = session[s].mine.booking
    BY <1>2, <1>4 DEF RowFits
  <2>3. /\ row.stamps = payments[p].stamps \cup session[s].mine.stamps
        /\ \/ row.payout_status = payments[p].payout_status
           \/ row.payout_status = session[s].mine.payout_status
                /\ session[s].mine.payout_status # session[s].loaded.payout_status
        /\ \/ row.deposit_status = payments[p].deposit_status
           \/ row.deposit_status = session[s].mine.deposit_status
                /\ session[s].mine.deposit_status # session[s].loaded.deposit_status
    BY <1>4, <2>2 DEF Flushed
  <2>4. payments[p] \in PaymentRow
    BY DEF IInv, TypeOK
  <2>5. row # None
    BY <1>2, <1>4, <2>2, <2>4, FlushedRow, NoneAssumption DEF ReadsFit, RowFits
  <2>6. MovedOn(session[s].loaded, session[s].mine)
    BY <1>2, <2>2 DEF ReadsFit
  <2>. HIDE DEF row
  <2>. QED
    BY <2>1, <2>3, <2>5, <2>6 DEF MovedOn, Settled
<1>. QED
  BY <1>3, <1>4

\* What has happened to a payment stays on record.
THEOREM MilestonesStay == Spec => MilestonesAreKept
<1>. DEFINE Kept ==
       \A p \in Payment : payments[p] # None =>
         /\ payments'[p] # None
         /\ payments[p].stamps \subseteq payments'[p].stamps
         /\ payments[p].payout_status # "pending" => payments'[p].payout_status # "pending"
         /\ payments[p].deposit_status # "held" => payments'[p].deposit_status # "held"
<1>1. IInv /\ [Next]_vars => [Kept]_vars
  <2>. SUFFICES ASSUME IInv, Next PROVE Kept
    OBVIOUS
  <2>1. CASE UNCHANGED payments
    BY <2>1
  <2>2. ASSUME NEW s \in Session, Commit(s) PROVE Kept
    BY <2>2, CommitKeepsMilestones
  <2>. QED
    BY <2>1, <2>2 DEF Next, UpdateBooking, WriteHandover, New, LoadPayment, SetPending,
                      LoadBooking, LoadHandovers, MarkPayoutEligible, MarkPaid,
                      DisposeOfDeposit, Close
<1>. QED
  BY <1>1, InitIInv, NextIInv, PTL DEF Spec, MilestonesAreKept
=============================================================================
