----------------------------- MODULE Settlement -----------------------------
(***************************************************************************)
(* Handover records, and deposits and payouts of bookings.  The code has   *)
(* the tables with their constraints and the methods of Payment that move  *)
(* a deposit or a payout along its lifecycle; the services that will call  *)
(* them are planned.  A caller is modelled by the one way these methods    *)
(* can be used: a session loads rows, each at its own moment, calls the    *)
(* methods on its copies, and writes the changed columns at commit, after  *)
(* which its copies stay as they are.  No row carries a version, so the    *)
(* write does not notice what others wrote in between.                     *)
(***************************************************************************)
EXTENDS FiniteSets

CONSTANTS
  Booking,    \* identifiers of bookings
  Payment,    \* identifiers of payments
  User,
  Session,    \* sessions that change payments
  Party,      \* the pairs <<vendor, renter>> bookings can have
  Form,       \* the forms in which handover records are written
  Progress,   \* the booking statuses of the instance
  None        \* NULL, "no such row", "not read", "no session"

BookingStatus ==
  {"pending", "confirmed", "active", "completed", "cancelled", "disputed"}

HandoverDirection == {"pickup", "return"}
HandoverStatus == {"draft", "vendor_signed", "renter_signed", "completed"}

\* evidence_urls: NULL or JSON null, JSON that is no array, [], a filled array.
Evidence == {"missing", "no_array", "empty", "filled"}

\* signed: the parties whose ..._signed_at is set.
Handover ==
  [status : HandoverStatus, vendor_signer : User \cup {None}, renter_signer : User \cup {None},
   signed : SUBSET {"vendor", "renter"}, evidence : Evidence]

\* The types of payment that have a lifecycle, and one of those that have none.
PaymentType == {"deposit", "payout", "refund"}
DepositStatus == {"held", "released", "claimed"}
PayoutStatus == {"pending", "eligible", "paid"}
Stamp == {"deposit_held_at", "deposit_released_at", "deposit_claimed_at",
          "payout_eligible_at", "paid_at"}

\* stamps: the time stamps that are set.
PaymentRow ==
  [booking : Booking, type : PaymentType, deposit_status : DepositStatus \cup {None},
   payout_status : PayoutStatus \cup {None}, stamps : SUBSET Stamp]

BookingRow == [vendor : User, renter : User, status : BookingStatus]

\* A handover record with its key, as a session holds it.
Copy == [booking : Booking, direction : HandoverDirection, record : Handover]

\* id, loaded: the payment and its row as loaded, None when it is new.  mine: the
\* session's copy.  status, copies: what it read of the booking and the handovers.
Held ==
  [id : Payment, loaded : PaymentRow \cup {None}, mine : PaymentRow,
   status : BookingStatus \cup {None}, copies : SUBSET Copy]

ASSUME NoneAssumption ==
  /\ None \notin User \cup DepositStatus \cup PayoutStatus \cup BookingStatus
  /\ None \notin Handover /\ None \notin PaymentRow /\ None \notin Held
ASSUME InstanceAssumption ==
  /\ Party \subseteq User \X User
  /\ Form \subseteq Handover
  /\ Progress \subseteq BookingStatus

VARIABLES
  bookings,      \* bookings[b]: the row of booking b
  handovers,     \* handovers[b, d]: its record of direction d, or None
  payments,      \* payments[p]: the row of payment p, or None
  session,       \* session[s]: what session s holds, or None
  sawCompleted,  \* history: the sessions during which their booking was completed
  sawReturned    \* history: those during which its return was completed

history == <<sawCompleted, sawReturned>>
vars == <<bookings, handovers, payments, session, history>>

-----------------------------------------------------------------------------
(* Constraints of the tables *)

\* A fault: evidence that is there, whatever it is.
AnyEvidence(h) ==
  h.status = "completed" =>
    /\ h.vendor_signer # None /\ h.renter_signer # None
    /\ h.signed = {"vendor", "renter"}
    /\ h.evidence # "missing"

\* ck_handover_records_completed_requirements
CompletedRequirements(h) ==
  h.status = "completed" =>
    /\ h.vendor_signer # None /\ h.renter_signer # None
    /\ h.signed = {"vendor", "renter"}
    /\ h.evidence = "filled"

\* A fault: foreign keys to users only.
SignersAreUsers(h, booking) == {h.vendor_signer, h.renter_signer} \subseteq User \cup {None}

\* fk_handover_records_booking_vendor and ..._booking_renter
SignersAreParties(h, booking) ==
  /\ h.vendor_signer \in {None, booking.vendor}
  /\ h.renter_signer \in {None, booking.renter}

\* ck_payments_deposit_lifecycle_type, ck_payments_payout_lifecycle_type
LifecycleMatchesType(row) ==
  /\ IF row.type = "deposit"
     THEN row.deposit_status # None
     ELSE /\ row.deposit_status = None
          /\ row.stamps \cap {"deposit_held_at", "deposit_released_at", "deposit_claimed_at"} = {}
  /\ IF row.type = "payout"
     THEN row.payout_status # None
     ELSE row.payout_status = None /\ row.stamps \cap {"payout_eligible_at", "paid_at"} = {}

\* ck_payments_deposit_status_timestamps, ck_payments_payout_status_timestamps
StatusHasTimestamps(row) ==
  /\ row.deposit_status # None => "deposit_held_at" \in row.stamps
  /\ row.deposit_status = "released" => "deposit_released_at" \in row.stamps
  /\ row.deposit_status = "claimed" => "deposit_claimed_at" \in row.stamps
  /\ row.payout_status \in {"eligible", "paid"} => "payout_eligible_at" \in row.stamps
  /\ row.payout_status = "paid" => "paid_at" \in row.stamps

\* A fault: a table without ck_payments_..._lifecycle_type.
StorableOfAnyType(row) == StatusHasTimestamps(row)

Storable(row) == LifecycleMatchesType(row) /\ StatusHasTimestamps(row)

\* Every stored payment satisfies its constraints.
TypeOK ==
  /\ bookings \in [Booking -> BookingRow]
  /\ handovers \in [Booking \X HandoverDirection -> Handover \cup {None}]
  /\ payments \in [Payment -> PaymentRow \cup {None}]
  /\ \A p \in Payment : payments[p] # None =>
       LifecycleMatchesType(payments[p]) /\ StatusHasTimestamps(payments[p])
  /\ session \in [Session -> Held \cup {None}]
  /\ sawCompleted \cup sawReturned \subseteq {s \in Session : session[s] # None}

-----------------------------------------------------------------------------
(* The policy of Payment *)

DepositCanTransitionTo(from, to) == from = "held" /\ to \in {"released", "claimed"}

PayoutCanTransitionTo(from, to) ==
  <<from, to>> \in {<<"pending", "eligible">>, <<"eligible", "paid">>}

\* The generator expression of is_payout_eligible; bool(evidence_urls).
IsCompletedReturn(copy, booking) ==
  /\ copy.booking = booking
  /\ copy.direction = "return"
  /\ copy.record.status = "completed"
  /\ copy.record.vendor_signer # None /\ copy.record.renter_signer # None
  /\ copy.record.signed = {"vendor", "renter"}
  /\ copy.record.evidence \in {"no_array", "filled"}

\* A fault: a dispute does not hold the payout back.
IsPayoutEligibleInDispute(row, copies, status, onHold) ==
  /\ row.type = "payout"
  /\ status \in {"completed", "disputed"}
  /\ ~ onHold
  /\ \E copy \in copies : IsCompletedReturn(copy, row.booking)

IsPayoutEligible(row, copies, status, onHold) ==
  /\ row.type = "payout"
  /\ status = "completed"
  /\ ~ onHold
  /\ \E copy \in copies : IsCompletedReturn(copy, row.booking)

-----------------------------------------------------------------------------
(* The other tables *)

Records == {k \in DOMAIN handovers : handovers[k] # None}
CopyOf(k) == [booking |-> k[1], direction |-> k[2], record |-> handovers[k]]

\* What a payout waits for: its booking is completed, and so is a return record with
\* evidence and the signatures of the parties.
Completed(b) == bookings[b].status = "completed"
Returned(b) ==
  LET h == handovers[<<b, "return">>] IN
  /\ h # None
  /\ h.status = "completed" /\ h.evidence = "filled"
  /\ h.vendor_signer = bookings[b].vendor /\ h.renter_signer = bookings[b].renter

\* The sessions that hold a payment of b see the rows as they are now written.
Witness(b) ==
  LET holders == {s \in Session : session[s] # None /\ session[s].mine.booking = b} IN
  /\ sawCompleted' = IF Completed(b)' THEN sawCompleted \cup holders ELSE sawCompleted
  /\ sawReturned' = IF Returned(b)' THEN sawReturned \cup holders ELSE sawReturned

\* An INSERT or UPDATE of a handover record, when its constraints hold.
WriteHandover(b, d) ==
  /\ \E h \in Form :
       /\ CompletedRequirements(h)
       /\ SignersAreParties(h, bookings[b])
       /\ handovers' = [handovers EXCEPT ![<<b, d>>] = h]
  /\ UNCHANGED <<bookings, payments, session>>
  /\ Witness(b)

\* An UPDATE of a booking's status or parties; a party that a handover record
\* refers to cannot change.
UpdateBooking(b) ==
  /\ \E status \in Progress, party \in Party :
       LET row == [vendor |-> party[1], renter |-> party[2], status |-> status] IN
       /\ \A k \in Records : k[1] = b => SignersAreParties(handovers[k], row)
       /\ bookings' = [bookings EXCEPT ![b] = row]
  /\ UNCHANGED <<handovers, payments, session>>
  /\ Witness(b)

-----------------------------------------------------------------------------
(* Sessions *)

Opened(p, loaded, mine) ==
  [id |-> p, loaded |-> loaded, mine |-> mine, status |-> None, copies |-> {}]

\* What session s, which opens for a payment of b or ends, has seen of a booking.
StartWitness(s, b) ==
  /\ sawCompleted' = IF Completed(b) THEN sawCompleted \cup {s} ELSE sawCompleted
  /\ sawReturned' = IF Returned(b) THEN sawReturned \cup {s} ELSE sawReturned

EndWitness(s) ==
  /\ sawCompleted' = sawCompleted \ {s}
  /\ sawReturned' = sawReturned \ {s}

\* Payment(...): a new row, with a deposit that is held or without a status.
New(s, p) ==
  /\ session[s] = None
  /\ payments[p] = None
  /\ \A t \in Session : session[t] # None => session[t].id # p
  /\ \E b \in Booking, type \in PaymentType :
       LET held == type = "deposit" IN
       /\ session' = [session EXCEPT ![s] = Opened(p, None,
         [booking |-> b, type |-> type, payout_status |-> None,
          deposit_status |-> IF held THEN "held" ELSE None,
          stamps |-> IF held THEN {"deposit_held_at"} ELSE {}])]
       /\ StartWitness(s, b)
  /\ UNCHANGED <<bookings, handovers, payments>>

\* payout_status = PayoutStatus.pending on a new payout.
SetPending(s) ==
  /\ session[s] # None
  /\ session[s].loaded = None
  /\ session[s].mine.type = "payout"
  /\ session[s].mine.payout_status = None
  /\ session' = [session EXCEPT ![s].mine.payout_status = "pending"]
  /\ UNCHANGED <<bookings, handovers, payments, history>>

LoadPayment(s, p) ==
  /\ session[s] = None
  /\ payments[p] # None
  /\ session' = [session EXCEPT ![s] = Opened(p, payments[p], payments[p])]
  /\ StartWitness(s, payments[p].booking)
  /\ UNCHANGED <<bookings, handovers, payments>>

\* The status that is_payout_eligible is asked with; it refuses other types of payment
\* whatever was read.
LoadBooking(s) ==
  /\ session[s] # None
  /\ session[s].mine.type = "payout"
  /\ session[s].status = None
  /\ session' = [session EXCEPT ![s].status = bookings[session[s].mine.booking].status]
  /\ UNCHANGED <<bookings, handovers, payments, history>>

\* The records of the payment's booking, or of all bookings.
LoadHandovers(s) ==
  /\ session[s] # None
  /\ session[s].mine.type = "payout"
  /\ session[s].copies = {}
  /\ \E B \in {{session[s].mine.booking}, Booking} :
       session' = [session EXCEPT ![s].copies = {CopyOf(k) : k \in {r \in Records : r[1] \in B}}]
  /\ UNCHANGED <<bookings, handovers, payments, history>>

\* mark_payout_eligible: it changes nothing when it raises.
MarkPayoutEligible(s, onHold) ==
  /\ session[s] # None
  /\ session[s].status # None
  /\ IsPayoutEligible(session[s].mine, session[s].copies, session[s].status, onHold)
  /\ session[s].mine.payout_status \in {None, "pending"}
  /\ session' = [session EXCEPT ![s].mine.payout_status = "eligible",
                                ![s].mine.stamps = @ \cup {"payout_eligible_at"}]
  /\ UNCHANGED <<bookings, handovers, payments, history>>

\* PayoutStatus.can_transition_to, asked before the payout is recorded as paid.
MarkPaid(s) ==
  /\ session[s] # None
  /\ PayoutCanTransitionTo(session[s].mine.payout_status, "paid")
  /\ session' = [session EXCEPT ![s].mine.payout_status = "paid",
                                ![s].mine.stamps = @ \cup {"paid_at"}]
  /\ UNCHANGED <<bookings, handovers, payments, history>>

\* DepositStatus.can_transition_to, asked before the deposit is disposed of.
DisposeOfDeposit(s) ==
  /\ session[s] # None
  /\ \E to \in DepositStatus :
       /\ DepositCanTransitionTo(session[s].mine.deposit_status, to)
       /\ session' = [session EXCEPT ![s].mine.deposit_status = to,
                        ![s].mine.stamps = @ \cup
                          {IF to = "released" THEN "deposit_released_at" ELSE "deposit_claimed_at"}]
  /\ UNCHANGED <<bookings, handovers, payments, history>>

\* A fault: a flush that writes every column.
FlushedWhole(held, current) == held.mine

\* A flush inserts a new row, or writes the columns that changed since loading.
Flushed(held, current) ==
  IF held.loaded = None THEN held.mine
  ELSE [booking |-> current.booking, type |-> current.type,
        deposit_status |-> IF held.mine.deposit_status = held.loaded.deposit_status
                           THEN current.deposit_status ELSE held.mine.deposit_status,
        payout_status |-> IF held.mine.payout_status = held.loaded.payout_status
                          THEN current.payout_status ELSE held.mine.payout_status,
        stamps |-> current.stamps \cup held.mine.stamps]

\* Commit: the constraints accept the row, and the session goes on with its copies,
\* which expire_on_commit=False leaves as they are; or they refuse it.
Commit(s) ==
  /\ session[s] # None
  /\ LET p == session[s].id
         row == Flushed(session[s], payments[p])
     IN \/ /\ Storable(row)
           /\ payments' = [payments EXCEPT ![p] = row]
           /\ session' = [session EXCEPT ![s].loaded = session[s].mine]
           /\ UNCHANGED history
        \/ /\ ~ Storable(row)
           /\ session' = [session EXCEPT ![s] = None]
           /\ EndWitness(s)
           /\ UNCHANGED payments
  /\ UNCHANGED <<bookings, handovers>>

Close(s) ==
  /\ session[s] # None
  /\ session' = [session EXCEPT ![s] = None]
  /\ EndWitness(s)
  /\ UNCHANGED <<bookings, handovers, payments>>

-----------------------------------------------------------------------------

Init ==
  /\ \E party \in Party :
       bookings = [b \in Booking |-> [vendor |-> party[1], renter |-> party[2],
                                      status |-> "pending"]]
  /\ handovers = [k \in Booking \X HandoverDirection |-> None]
  /\ payments = [p \in Payment |-> None]
  /\ session = [s \in Session |-> None]
  /\ sawCompleted = {}
  /\ sawReturned = {}

Next ==
  \/ \E b \in Booking : UpdateBooking(b) \/ \E d \in HandoverDirection : WriteHandover(b, d)
  \/ \E s \in Session :
       \/ \E p \in Payment : New(s, p) \/ LoadPayment(s, p)
       \/ SetPending(s) \/ LoadBooking(s) \/ LoadHandovers(s)
       \/ \E onHold \in BOOLEAN : MarkPayoutEligible(s, onHold)
       \/ MarkPaid(s) \/ DisposeOfDeposit(s) \/ Commit(s) \/ Close(s)

Spec == Init /\ [][Next]_vars

-----------------------------------------------------------------------------
(* Properties *)

\* handover.py, the composite foreign keys: a completed record is signed by the
\* vendor and the renter its booking has now, whichever of the two rows is
\* written last.
SignedByItsParties ==
  \A k \in Records :
    handovers[k].status = "completed" =>
      /\ handovers[k].vendor_signer = bookings[k[1]].vendor
      /\ handovers[k].renter_signer = bookings[k[1]].renter

\* payment.py, is_payout_eligible, and handover.py, the CHECK: the policy accepts
\* every return the table lets be completed, so none leaves its vendor without a
\* payout.
CompletedReturnsCount ==
  \A k \in Records :
    k[2] = "return" /\ handovers[k].status = "completed" => IsCompletedReturn(CopyOf(k), k[1])

\* payment.py, mark_payout_eligible, and docs/ARCHITECTURE.md, 5.4: the session that
\* makes a payout eligible, or at once paid, has seen its booking completed and its
\* return co-signed with evidence.  A booking that was completed at some time before
\* and has been disputed since is not enough, nor is another booking's return.
PayoutFollowsReturn ==
  [][\A p \in Payment :
       /\ payments'[p] # None /\ payments'[p].payout_status \in {"eligible", "paid"}
       /\ payments[p] = None \/ payments[p].payout_status \notin {"eligible", "paid"}
       => \E s \in sawCompleted \cap sawReturned : Commit(s) /\ session[s].id = p]_vars

\* payment.py: what has happened to a payment stays on record.  No time stamp is
\* lost, no payout is pending again and no deposit held again, though sessions
\* write copies that others have overtaken.
MilestonesAreKept ==
  [][\A p \in Payment : payments[p] # None =>
       /\ payments'[p] # None
       /\ payments[p].stamps \subseteq payments'[p].stamps
       /\ payments[p].payout_status # "pending" => payments'[p].payout_status # "pending"
       /\ payments[p].deposit_status # "held" => payments'[p].deposit_status # "held"]_vars

\* docs/SCHEMA.md, payment, deposit, and payout: payouts go from pending to
\* eligible to paid, and deposits from held to released or to claimed.
LifecyclesGoForward ==
  [][\A p \in Payment : payments[p] # None =>
       /\ \/ payments'[p].payout_status = payments[p].payout_status
          \/ PayoutCanTransitionTo(payments[p].payout_status, payments'[p].payout_status)
       /\ \/ payments'[p].deposit_status = payments[p].deposit_status
          \/ DepositCanTransitionTo(payments[p].deposit_status, payments'[p].deposit_status)]_vars
=============================================================================
