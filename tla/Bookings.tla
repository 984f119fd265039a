------------------------------ MODULE Bookings ------------------------------
(***************************************************************************)
(* The bookings table under concurrent transactions.  The repository       *)
(* declares the constraints and leaves every write to database sessions    *)
(* (operators, scripts, tests); this module is the table, the sessions and *)
(* the way PostgreSQL runs INSERT and UPDATE against an exclusion          *)
(* constraint at READ COMMITTED:                                           *)
(*                                                                         *)
(*   - an UPDATE first waits until no other transaction has written the    *)
(*     row, then applies to the latest committed version;                  *)
(*   - the new version is placed in the heap and in the index first, where *)
(*     other sessions' checks can see it, and only then checked;           *)
(*   - a check fails on a conflict with a live version, and waits on a     *)
(*     conflict with a version that an open transaction created or is      *)
(*     about to replace;                                                   *)
(*   - a session that waits in a cycle is aborted by the deadlock detector;*)
(*   - any error aborts the whole transaction.                             *)
(***************************************************************************)
EXTENDS BookingSchema

CONSTANTS
  Session,    \* database sessions
  Booking,    \* booking identifiers (gen_random_uuid, never reused)
  Status,     \* the statuses the sessions write
  Stay,       \* the <<starts_on, ends_on>> pairs the sessions write
  NoBooking   \* "no statement is running"

ASSUME StatusAssumption == Status \subseteq BookingStatus
ASSUME StayAssumption == Stay \subseteq Day \X Day
ASSUME NoBookingAssumption == NoBooking \notin Booking

VARIABLES
  table,      \* table[b]: the committed version of row b
  phase,      \* phase[s]: where session s is in its transaction
  target,     \* target[s]: the row the running statement of s writes
  writes      \* writes[s][b]: the version of b that s has written so far

vars == <<table, phase, target, writes>>

\* idle: no transaction.  open: between statements.  lock: an UPDATE waiting
\* for the row.  check: a version written and not yet checked.  failed: the
\* transaction is aborted and the client has not rolled back yet.
Phase == {"idle", "open", "lock", "check", "failed"}

NoWrites == [b \in Booking |-> NoRow]

TypeOK ==
  /\ table \in [Booking -> StoredRow \cup {NoRow}]
  /\ phase \in [Session -> Phase]
  /\ target \in [Session -> Booking \cup {NoBooking}]
  /\ writes \in [Session -> [Booking -> StoredRow \cup {NoRow}]]
  /\ \A s \in Session : phase[s] \in {"lock", "check"} <=> target[s] # NoBooking
  /\ \A s \in Session :
       phase[s] = "lock" => table[target[s]] # NoRow \/ writes[s][target[s]] # NoRow
  /\ \A s \in Session : phase[s] = "check" => writes[s][target[s]] # NoRow

-----------------------------------------------------------------------------
(* Conflicts of the version that session s has written and not yet checked *)

Wrote(s, b) == writes[s][b] # NoRow

OthersWrote(s, b) == \E t \in Session \ {s} : Wrote(t, b)

\* The version of b that session s itself sees.
Current(s, b) == IF Wrote(s, b) THEN writes[s][b] ELSE table[b]

Pending(s) == writes[s][target[s]]

\* A fault: the check does not see the other rows of its own transaction.
LiveConflictInTable(s) ==
  \E b \in Booking \ {target[s]} :
    /\ ~OthersWrote(s, b)
    /\ table[b] # NoRow
    /\ Excludes(Pending(s), table[b])

\* Some live version of another row excludes the pending one.
LiveConflict(s) ==
  \E b \in Booking \ {target[s]} :
    /\ ~OthersWrote(s, b)
    /\ Current(s, b) # NoRow
    /\ Excludes(Pending(s), Current(s, b))

\* Transaction t created a version that excludes the pending one, or is
\* replacing one that does: its outcome decides, so s waits for it.
BusyConflict(s, t) ==
  \E b \in Booking \ {target[s]} :
    /\ Wrote(t, b)
    /\ \/ Excludes(Pending(s), writes[t][b])
       \/ table[b] # NoRow /\ Excludes(Pending(s), table[b])

\* A fault: the detector sees row locks only, not waits for a conflicting row.
WaitsForRowLock(s, t) == s # t /\ phase[s] = "lock" /\ Wrote(t, target[s])

WaitsFor(s, t) ==
  /\ s # t
  /\ \/ phase[s] = "lock" /\ Wrote(t, target[s])
     \/ phase[s] = "check" /\ BusyConflict(s, t)

\* s lies on a cycle of the waits-for graph: D is the cycle, and next leads
\* once around it (no smaller nonempty part of D is closed under next).
Deadlocked(s) ==
  \E D \in {D \in SUBSET Session : s \in D} : \E next \in [D -> D] :
    /\ \A d \in D : WaitsFor(d, next[d])
    /\ \A P \in SUBSET D : P # {} /\ (\A d \in P : next[d] \in P) => P = D

-----------------------------------------------------------------------------
(* Statements *)

Init ==
  /\ table = [b \in Booking |-> NoRow]
  /\ phase = [s \in Session |-> "idle"]
  /\ target = [s \in Session |-> NoBooking]
  /\ writes = [s \in Session |-> NoWrites]

Begin(s) ==
  /\ phase[s] = "idle"
  /\ phase' = [phase EXCEPT ![s] = "open"]
  /\ UNCHANGED <<table, target, writes>>

\* The error path of every statement: the transaction's versions die at once.
Abort(s) ==
  /\ phase' = [phase EXCEPT ![s] = "failed"]
  /\ target' = [target EXCEPT ![s] = NoBooking]
  /\ writes' = [writes EXCEPT ![s] = NoWrites]
  /\ UNCHANGED table

\* A fault: the CHECK constraint is missing.
PlaceAnyRange(s, b, row) ==
  /\ phase' = [phase EXCEPT ![s] = "check"]
  /\ target' = [target EXCEPT ![s] = b]
  /\ writes' = [writes EXCEPT ![s][b] = row]
  /\ UNCHANGED table

\* Place a version of row b, to be checked against the exclusion constraint.
Place(s, b, row) ==
  /\ ValidDateRange(row)
  /\ phase' = [phase EXCEPT ![s] = "check"]
  /\ target' = [target EXCEPT ![s] = b]
  /\ writes' = [writes EXCEPT ![s][b] = row]
  /\ UNCHANGED table

\* Evaluate the CHECK constraint, then place the version.
Write(s, b, row) == Place(s, b, row) \/ (~ValidDateRange(row) /\ Abort(s))

NewRows ==
  {[asset |-> a, starts_on |-> stay[1], ends_on |-> stay[2], status |-> st] :
     a \in Asset, stay \in Stay, st \in Status}

\* INSERT under a fresh identifier.
Insert(s, b) ==
  /\ phase[s] = "open"
  /\ table[b] = NoRow
  /\ \A t \in Session : ~Wrote(t, b)
  /\ \E row \in NewRows : Write(s, b, row)

\* UPDATE of a row the session can see: wait for the row lock.
Update(s, b) ==
  /\ phase[s] = "open"
  /\ Current(s, b) # NoRow
  /\ phase' = [phase EXCEPT ![s] = "lock"]
  /\ target' = [target EXCEPT ![s] = b]
  /\ UNCHANGED <<table, writes>>

\* Versions an UPDATE of the status, of the dates or of the asset makes.
Updated(row) ==
  {[row EXCEPT !.status = st] : st \in Status}
    \cup {[row EXCEPT !.starts_on = stay[1], !.ends_on = stay[2]] : stay \in Stay}
    \cup {[row EXCEPT !.asset = a] : a \in Asset}

\* A fault: two transactions update one row at once.
LockWithoutWaiting(s) ==
  /\ phase[s] = "lock"
  /\ \E row \in Updated(Current(s, target[s])) : Write(s, target[s], row)

\* The row lock is granted: the SET clause applies to the latest version.
Lock(s) ==
  /\ phase[s] = "lock"
  /\ ~OthersWrote(s, target[s])
  /\ \E row \in Updated(Current(s, target[s])) : Write(s, target[s], row)

\* The exclusion check passes: the statement is complete.
CheckPass(s) ==
  /\ phase[s] = "check"
  /\ ~LiveConflict(s)
  /\ \A t \in Session \ {s} : ~BusyConflict(s, t)
  /\ phase' = [phase EXCEPT ![s] = "open"]
  /\ target' = [target EXCEPT ![s] = NoBooking]
  /\ UNCHANGED <<table, writes>>

CheckFail(s) == phase[s] = "check" /\ LiveConflict(s) /\ Abort(s)

Detect(s) == Deadlocked(s) /\ Abort(s)

\* Any other error of a statement, before, while or after it waits: a CHECK on
\* the money columns, a reference to no row, a cancelled statement.
StatementFails(s) == phase[s] \in {"open", "lock", "check"} /\ Abort(s)

-----------------------------------------------------------------------------
(* Transaction ends *)

End(s) ==
  /\ phase' = [phase EXCEPT ![s] = "idle"]
  /\ target' = [target EXCEPT ![s] = NoBooking]
  /\ writes' = [writes EXCEPT ![s] = NoWrites]

Commit(s) ==
  /\ phase[s] = "open"
  /\ table' = [b \in Booking |-> Current(s, b)]
  /\ End(s)

\* ROLLBACK, or the connection is lost: possible in every phase.
Rollback(s) ==
  /\ phase[s] # "idle"
  /\ End(s)
  /\ UNCHANGED table

\* The server restarts: recovery keeps what was committed, nothing else.
Crash ==
  /\ \E s \in Session : phase[s] # "idle"
  /\ phase' = [s \in Session |-> "idle"]
  /\ target' = [s \in Session |-> NoBooking]
  /\ writes' = [s \in Session |-> NoWrites]
  /\ UNCHANGED table

Next ==
  \/ \E s \in Session :
       \/ Begin(s)
       \/ \E b \in Booking : Insert(s, b) \/ Update(s, b)
       \/ Lock(s)
       \/ CheckPass(s)
       \/ CheckFail(s)
       \/ Detect(s)
       \/ StatementFails(s)
       \/ Commit(s)
       \/ Rollback(s)
  \/ Crash

Spec == Init /\ [][Next]_vars

-----------------------------------------------------------------------------
(* Fairness: the server runs what can run and its deadlock detector fires; *)
(* a client ends a transaction after finitely many statements.  Nothing    *)
(* makes a client give up while its statement waits, and nothing makes the *)
(* server crash.                                                           *)

ServerStep(s) == Lock(s) \/ CheckPass(s) \/ CheckFail(s) \/ Detect(s)

ClientEnds(s) ==
  /\ phase[s] \in {"open", "failed"}
  /\ Commit(s) \/ Rollback(s)

Fairness ==
  \A s \in Session : WF_vars(ServerStep(s)) /\ SF_vars(ClientEnds(s))

FairSpec == Spec /\ Fairness

-----------------------------------------------------------------------------
(* Properties *)

\* Of two committed bookings that reserve an asset, one ends on a day before
\* the other begins: the promise of ex_bookings_no_active_asset_overlap,
\* whatever the interleaving.
NoDoubleBooking ==
  \A b1, b2 \in Booking :
    /\ b1 # b2 /\ table[b1] # NoRow /\ table[b2] # NoRow
    /\ table[b1].asset = table[b2].asset
    /\ {table[b1].status, table[b2].status} \subseteq {"confirmed", "active"}
    => \/ table[b1].ends_on < table[b2].starts_on
       \/ table[b2].ends_on < table[b1].starts_on

\* A version that has passed its check.
Settled(s, b) == Wrote(s, b) /\ ~(phase[s] = "check" /\ target[s] = b)

\* No row has two uncommitted versions (the row lock).
OneWriterPerRow ==
  \A s, t \in Session : \A b \in Booking : Wrote(s, b) /\ Wrote(t, b) => s = t

\* A checked version agrees with every row of the table as its transaction
\* would leave it: committing needs no further check.
SettledFitsTable ==
  \A s \in Session : \A b1, b2 \in Booking :
    /\ b1 # b2
    /\ Settled(s, b1)
    /\ ~Wrote(s, b2)
    /\ table[b2] # NoRow
    => ~Excludes(writes[s][b1], table[b2])

\* Checked versions of one or of two transactions agree with each other, so
\* it does not matter which of them commits, nor in which order.
SettledFitSettled ==
  \A s, t \in Session : \A b1, b2 \in Booking :
    b1 # b2 /\ Settled(s, b1) /\ Settled(t, b2)
      => ~Excludes(writes[s][b1], writes[t][b2])

\* Once no new transaction arrives, every statement comes to an end: no
\* wake-up is lost and no deadlock lasts.  Without the premise it is false:
\* the detector may always choose the waiter's newest rival as its victim,
\* and each new rival makes the waiter wait again.
StatementsResolve ==
  <>[][\A s \in Session : ~Begin(s)]_vars =>
    \A s \in Session :
      phase[s] \in {"lock", "check"} ~> phase[s] \notin {"lock", "check"}

\* The reason NoDoubleBooking survives a COMMIT, which checks nothing: checked
\* versions fit the table as their transaction would leave it and fit every
\* other checked version, so transactions may commit in any order.
CommitNeedsNoCheck == OneWriterPerRow /\ SettledFitsTable /\ SettledFitSettled

\* The table implements the calendar of module Reservation.
Cell == Asset \X Day

Claim(row) ==
  IF row # NoRow /\ Reserves(row)
  THEN {cell \in Cell : cell[1] = row.asset /\ cell[2] \in StayDays(row)}
  ELSE {}

published == [b \in Booking |-> Claim(table[b])]
underChange == [s \in Session |-> {b \in Booking : Wrote(s, b)}]

Calendar == INSTANCE Reservation WITH claims <- published, held <- underChange

ImplementsReservation == Calendar!Spec

=============================================================================
