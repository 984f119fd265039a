# Vouch: a TLA+ model of the rental marketplace API

Vouch (`src/README.md`) is a rental marketplace: a FastAPI monolith over PostgreSQL, with
public read endpoints, seven tables whose constraints carry most of the business rules, and
the methods of `Payment` that decide about deposits and payouts. This directory holds its
specifications, the TLC configurations that check them, and the proofs TLAPS checks.
Paths below are relative to `src/`.

## 1. The system

### Components, their state and their operations

| Component | Source | State | Operations |
|---|---|---|---|
| Bookings table | `src/app/db/models/booking.py`, `migrations/versions/0001_initial_schema.py` | rows; open transactions and their uncommitted versions; row locks | INSERT, UPDATE under a CHECK and a GiST exclusion constraint; commit, rollback, crash |
| Public inventory search | `src/app/services/inventory.py`, `schemas/assets.py`, `schemas/pagination.py` | none of its own: a cursor travels with the client | one page of a search; one listing's detail |
| Listings, windows, vendors | `src/app/db/models/asset.py`, `user.py`, `mixins.py`, migration 0002 | rows | written by operators in SQL (`docs/ARCHITECTURE.md:30`) |
| HTTP application | `src/app/main.py`, `core/logging.py`, `api/`, `schemas/errors.py` | requests in flight; the lifespan | routing, validation, error mapping, startup, shutdown |
| Engine, pool, readiness | `src/app/db/session.py`, `db/health.py`, `core/config.py` | pooled connections, their count, waiters | checkout, pre-ping, connect, return, time-out, dispose |
| Handovers, deposits, payouts | `src/app/db/models/handover.py`, `payment.py` | rows; the copies that sessions hold | `is_payout_eligible`, `mark_payout_eligible`, `can_transition_to`; writes under CHECK and foreign-key constraints |
| Users, KYC, trust tiers | `src/app/db/models/user.py` | rows | none in code beyond the vendor join of the search |
| Settings | `src/app/core/config.py` | immutable after start | read once |
| Migrations | `migrations/` | the objects of the schema, the version row; open transactions of migrators and their locks | upgrade, downgrade between any two revisions |

Interactions: a request holds a pooled connection from its first statement to the end of
its session; search reads listings, vendors, windows and bookings in one SELECT; the booking half
of its date filter and the exclusion constraint of the table must mean the same days; a
payout depends on the booking's status and on its handover records; handover records refer
to the booking's parties by composite foreign keys; migrations make and remove the tables, under
listing rows that operators write.

### What is hard

- Concurrency: several sessions write bookings, with uncommitted versions visible to each
  other's checks, waits, deadlocks and crashes; requests interleave at every `await`; a
  session decides on rows it loaded earlier.
- Ordering: keyset pages over rows that change between pages, ties in `created_at`, rows that
  appear with an earlier `created_at` because `now()` is the start of the transaction.
- Failure: the database goes away with connections in the pool and statements running;
  exceptions that no handler takes.
- Time-outs and limits: a pool that is full, its queue and its time-out.
- Migrations: a command plans from a revision it read at its start, meets other commands at table
  locks, names and the version row, and may fail or die between any two statements; a downgrade
  and an upgrade later, rows must not come back published.

### What makes each component correct

- Bookings: no two reserving bookings of an asset share a day; a statement that waits is
  answered; what was checked stays valid until its commit.
- Search: a traversal delivers what was on offer throughout, nothing that never was, nothing
  twice; what a page shows is on offer at that moment; the traversal ends.
- Application and pool: no connection is leaked, no request hangs, an outage is over when it
  is over, answers have the contract's status.
- Migrations: the objects are those of the recorded revision, at every moment; every plan works; commands
  end; nothing is published without a review.
- Settlement: no payout unless the session that makes it saw a completed booking and a co-signed
  return; signers are parties; history is not lost; lifecycles go forward.

## 2. Modules

| Module | Role |
|---|---|
| `BookingSchema` | rows of `bookings`, the CHECK and the exclusion constraint as operators; shared by the next two |
| `Bookings` | the table under concurrent transactions |
| `Reservation` | abstract specification: a calendar of claimed asset-days that `Bookings` implements |
| `Inventory` | the search over a changing database; uses the constraint of `BookingSchema` for the bookings it reads |
| `Marketplace` | composition: the search of `Inventory` over the table the transactions of `Bookings` write |
| `Api` | requests, pool, database outages, lifespan |
| `Settlement` | handover records, deposits, payouts, and sessions with stale copies |
| `Schema` | the objects the models declare, and the statements of the migration scripts |
| `Migrations` | alembic commands that run these statements, concurrently |
| `SchemaRevision` | abstract specification: one revision, moved in single steps; `Migrations` implements it |
| `BookingsProofs`, `InventoryProofs`, `MarketplaceProofs`, `ApiProofs`, `SettlementProofs` | theorems about the module of that name |
| `ScriptProofs` | lemmas about the two scripts: what they make, drop and stamp, and in which order |
| `MigrationsProofs`, `AloneProofs` | theorems about `Migrations`: commands that overlap, and a command on its own |
| `MCBookings`, `MCInventory`, `MCMarketplace`, `MCApi`, `MCSettlement`, `MCMigrations` | values of the constants for TLC |

### Bookings

`table` is what is committed, `writes[s]` what transaction `s` has written, `phase[s]` and
`target[s]` where its statement is. `Insert` and `Update`/`Lock` are the statements;
`Place` puts the version where other checks can see it, and `CheckPass`, `CheckFail` and the
wait between them are the exclusion check, in the order PostgreSQL does it: place first,
check afterwards, fail on a live conflict, wait for a transaction whose outcome decides.
`Detect` is the deadlock detector, `Abort` the error path of all of them. The PostgreSQL parts are
external; the constraint, its partial predicate and its inclusive range are the
repository's. A booking is never deleted.

### Inventory

Database steps are operators' transactions at their commit; `FetchPage` is
`search_public_assets`, one SELECT over one snapshot and so one step. The keyset condition,
the `limit + 1` fetch, the clamp and the cursor are written as the code writes them. `OnOffer`
restates the contract of `schemas/assets.py` day by day, independently of the query, and the
history variables `steady` (on offer ever since the traversal began) and `ever` are kept in terms of
it. Sets stand for result lists: `Precedes` is the order, and `First` takes the least rows.
`created_at` may lie up to `TxnSpan` in the past on insertion.

### Marketplace

`Inventory` has one action, `WriteBookings`, that stands for all the booking transactions of the
world: it changes any bookings at once and leaves no conflict. `Marketplace` replaces it by module
`Bookings` itself, instantiated over the same table, so that a page reads what sessions have committed
while they hold versions, wait and fail. `ImplementsInventory` says that the replacement is a
refinement, so what is shown of `Inventory` holds of the whole. `ReferencesAsset` is the
foreign key, checked at the end of the statement. `RefusedOnlyIfHidden` is a property of the two
together: between transactions, too, the search and the constraint agree about what is taken.

### Api

A request is `received`, possibly `queued` for a connection, `connecting` (a new slot or
the pre-ping of a pooled connection), `querying`, `closing`, `answered`: the switches of
the event loop are between these. A connection is the epoch of the database it was opened in, so a
restart makes every older one dead. `Verdict` is the order of the validations (FastAPI's
422, the route's 400s, the parse of the cursor in the service), `Result` the answer of a query that
runs, and `OnSQLAlchemyError`/`OnOSError` what the two classes of database failure
become on each route. The pool is SQLAlchemy's, modelled from its use: `Acquire`, `Release`, `Wake` and
`Timeout` are external. `fate` is a history variable: whether a request met an outage or was
refused a connection.

### Settlement

No service calls the methods of `Payment` yet. A caller is therefore modelled by the one
way these methods can be used: a session loads a payment, a booking's status and handover
records, each at its own moment, applies methods to its copies, and commits the columns that
changed. It may go on after a commit, with copies that are as old as before: `session.py:34` sets
`expire_on_commit=False`. A refused commit ends it. Booking status and records are read only for payouts, for
`is_payout_eligible` refuses other types whatever was read. `WriteHandover` and `UpdateBooking` are SQL writes
under the constraints of the two tables, composite foreign keys included; they take a booking out of
`completed`, and a record back to draft, as freely as the columns allow. `sawCompleted` and `sawReturned` are
history variables: the open sessions during which their booking was completed, or its return was. They
forget a session when it ends, and nothing that was so before it began counts for it.
Assumption: a payment is created at the start of its lifecycle (a deposit held, a payout without a
status or pending). `payout_on_hold` is any value at any call, since nothing stores it.

### Schema and Migrations

`Schema` has the schema twice: `Metadata` translates the ORM models, `Upgrade0001` to
`Downgrade0002` the scripts, one record for each statement, in their order. Objects are what statements
can fail on or wait for: extensions, enum types, tables, named constraints, foreign keys,
indexes, and the columns that have an enum type or are added by a script. `Migrations` runs commands: `Start`
reads the revision (alembic reads it once), `Look` is a `checkfirst` or `IF NOT EXISTS`, `Execute` a
DDL statement, `WriteVersion` the stamp after each script, `Commit` the end of the single transaction `env.py`
opens around all scripts of a command. `Creatable` and `Droppable` are PostgreSQL's rules about names and
dependencies; `WaitsFor` has its table locks, the wait for a name another transaction creates or
drops, and the version row. `Fail`, `Detect` and `Die` roll back, which undoes DDL too. The scripts and
`env.py` are the repository's, alembic and PostgreSQL are external. Operators insert and
publish listings when no command locks the table; `activated` is a history variable.

## 3. Runs

| Run | Instance | Shows |
|---|---|---|
| `booking_conflicts` | 2 sessions, 2 bookings, 1 asset, 3 days, two stays that share a day and an inverted one, 3 statuses, fair | `TypeOK`, `NoDoubleBooking`, `CommitNeedsNoCheck`, `ImplementsReservation`, `StatementsResolve` |
| `paging_under_change` | 4 listings, ties and late rows, page sizes 1 to 3 under a maximum of 2, pausing | `TypeOK`, `NothingSkippedNorInvented`, `NoDuplicates`, `CursorSplits` |
| `listing_changes` | 2 listings, pages of 1, category, rate and date filters, a window and bookings that touch the dates asked or follow them, a vendor suspended and deleted, fair | `NothingSkippedNorInvented`, `DateFilterAgreesWithConstraint`, `DeliveredIsOnOffer`, `TraversalEnds` |
| `marketplace_sessions` | the search with and without dates over a table in which 2 sessions book, change and confirm 2 bookings | `ImplementsInventory`, `RefusedOnlyIfHidden`, `BookingsReferToAssets` |
| `connection_pool` | 3 requests on 4 ways through the code, pool of 1 with 1 overflow, one restart of the database, restarts of the process | `TypeOK`, `PoolAccounts`, `CalmRequestsSucceed` |
| `requests_end` | 3 requests, the same pool, fair event loop | `EveryRequestAnswered` |
| `settlement_sessions` | 2 bookings, 1 payment, 2 sessions, a booking that goes in and out of dispute and whose vendor changes, records signed by its vendor or by a former one, with evidence or without, and put back to draft | `TypeOK`, `SignedByItsParties`, `CompletedReturnsCount`, `PayoutFollowsReturn`, `MilestonesAreKept` |
| `concurrent_migrations` | 2 migrators, every pair of revisions, 1 listing, fair | `TypeOK`, `SchemaMatchesVersion`, `CommandsWorkAlone`, `NeverPublishedUnreviewed`, `CommandsEnd`, `ImplementsSchemaRevision` |
| `tampered_cursor` | 1 request | violation, finding 1 |
| `readiness_status` | 1 request | violation, finding 2 |
| `stale_lifecycle` | 2 sessions, 1 payment | violation, finding 3 |
| `migrated_schema` | 1 migrator | violation, finding 4 |

### Bounds, and why they are enough

- Bookings: a conflict is between two rows, and a wait or a cycle of the constraint's
  between two sessions; the two stays share their last and first day, where an exclusive bound would go wrong. The theorems lift the
  safety properties to every number of sessions, bookings and days. Only `StatementsResolve`
  rests on the bound; cycles of three sessions are in the definition of `Deadlocked` and not in
  the run.
- Inventory: four listings are two pages of two, or a tie that spans a page border with a row on each
  side. `MaxTime` bounds the clock and `TxnSpan` the age of an inserting transaction.
  `listing_changes` has listings that depart from the shown one in each column in turn, and pages of
  one so that its two listings make two pages. Its window and stays meet the dates asked on their first day
  or begin after them, in a reserving status and another; `DateFilterAgreesWithConstraint` is
  evaluated for every range of the four days, so that every relative position occurs.
- Marketplace: two sessions are the least that wait for each other and leave a conflict to be decided
  while a page is read; sessions and bookings are symmetric, and no run there has a liveness
  property. The clock stands still and windows are absent: both are the search's own matter and
  are in the other two runs. The theorems lift all three properties to every number of sessions.
- Migrations: all three revisions and all nine pairs of them; two migrators are the least that overlap, and every
  statement of the real scripts is in the run, no constant shortens them. One listing is enough
  because the rows do not interact. The theorems lift the safety properties and the refinement to every
  number of migrators and listings; only `CommandsEnd` rests on the bound.
- Api: three requests and a capacity of two is the least instance where one holds the pooled
  connection, one the overflow and one queues. `MaxEpoch` = 2 gives a restart with connections of the
  first server still pooled; the database may also never come back.
- Settlement: two sessions are the least that can overtake each other; two bookings let a
  session see records of the wrong one. One payment is enough because sessions interact on
  one row only. Bookings start `pending`, and `Progress` has them `completed` and `disputed` by turns; the
  policy treats every status but `completed` alike. The constraint `FewRecords` keeps what the policy and the
  properties tell apart: payments are of the first booking, the second is there for its return record, pickup records are
  not put back to draft. Sessions are symmetric.

Symmetry is used in runs that check invariants, action properties and refinement, whose
formulas treat the permuted values alike, never in liveness runs.
No run switches deadlock checking off: in every module some step stays possible.

### Fairness

- `Bookings!FairSpec`: weak fairness of the server's steps for each session (the server runs
  what can run and its detector fires after `deadlock_timeout`), strong fairness of the client's ending
  its transaction when its statement is answered (a client issues finitely many statements). No client
  gives up while it waits. `StatementsResolve` has the premise that new transactions stop: without it
  the detector may choose the same waiter's rival as victim for ever, and TLC shows it.
- `Migrations!FairSpec`: weak fairness of each command's own steps, the deadlock detector among them;
  nothing makes a process start or die. `CommandsEnd` has the premise that no new command starts, as above.
- `Inventory!FairSpec`: the client follows the cursor it was given. The set of listings is finite and
  no page delivers a listing twice, hence the end.
- `Api!FairSpec`: weak fairness of each request's own steps: the event loop runs every task that
  can go on, the wait for a connection is bounded (SQLAlchemy's default of 30 s; the engine sets
  no other), and a query returns or fails. A query that hangs without an error is not modelled, and the
  code sets no statement time-out against it.

## 4. Proofs

Every theorem is checked by `tlapm` to the last leaf, for all values of the constants that satisfy
the assumptions named in the modules (days, identifiers and times are integers; sentinels
are not values; the set of listings is finite; page sizes are positive; the states of a listing
include `draft` and `active`).

`BookingsProofs`: `TypeCorrect`, `DoubleBookingNeverHappens`, `CommitsNeedNoCheck`,
`TableImplementsCalendar`. `NoDoubleBooking` is not inductive: a COMMIT checks nothing, so
nothing in the table alone says that what it publishes fits. The inductive invariant is
`TableFits` with `CommitNeedsNoCheck`: one writer for each row; checked versions fit the table as their
transaction would leave it; checked versions fit each other across transactions.
`CheckPass` establishes it for one more version (a conflict would have been live or busy), `Commit`
moves it into the table, and an abort only removes versions. The refinement maps each row to the days it claims and each session to
the rows it has written; a COMMIT is `Publish`, a first write `Hold`, an
abort `Drop`, everything else a stutter.

`InventoryProofs`: `TypeCorrect`, `DateFilterIsTheConstraint`, `WalkIsComplete`,
`WalkRepeatsNothing`, `CursorAlwaysSplits`, `PagesAreOnOffer`. Lemmas show that the comparisons of the
service are exactly "some day is shared" (for bookings this is the constraint's comparison; blocked windows hide
more, and the constraint knows nothing of them), that `Matches` selects exactly `OnOffer`, that
`First` is closed downwards and either full or everything (with cardinalities of finite
sets), and that the encoded cursor cuts the order at the last item. The inductive invariant `PagingInv` adds to
the three properties that `steady` holds only what is on offer now and what has always
been: `CursorSplits` says that everything delivered lies at or before the cursor and everything owed
after it, which is why a page neither repeats nor skips, whatever is inserted in between.

`SettlementProofs`: `TypeCorrect`, `PayoutsAreEarned`, `PartiesSign`,
`PolicyAcceptsCompletedReturns`, `MilestonesStay`. A session decides on stale copies, so the invariant says
what a stale copy still proves: what it read as completed was completed while it was open, and if its copy
was settled by it since it loaded or last wrote the row, it saw booking and return completed (`ReadsFit`); what is so now, it sees (`Sees`); a loaded row still
exists with the same booking, and a new one is nobody else's (`RowFits`); a copy only moves away from the start
of its lifecycle (`MovedOn`). Together with what the table says of a completed record (`RecordsFit`) and the constraints
on stored rows this is inductive. `PayoutsAreEarned` is an action property: the commit that first stores a payout as
eligible or paid is one of a session whose own copy moved there (`CommitWrites`), and `ReadsFit` then gives both
histories. It bounds how old the reads may be and says no more: a dispute that opens after the session
has read the booking does not stop its commit, since the row has no version and the policy locks nothing.

`MarketplaceProofs`: `MarketImplementsInventory`, `ReferencesHold`, `RefusalsAgreeWithSearch`, and what the refinement
carries over, `MarketWalkIsComplete` and `MarketPagesAreOnOffer`. The invariant of `BookingsProofs` is
instantiated over the shared table: a catalogue step leaves the sessions alone, a session step is a step of
`Bookings`, so `NoDoubleBooking` holds before and after and every COMMIT is one `WriteBookings`. A version that is past
its check refers to an asset, and assets are never deleted but marked. A refused version conflicts with a live
row; if it is not the session's own it is committed, and then the booking half of the date filter
sees it, by `DateFilterIsTheConstraint`'s comparison of days.

`ApiProofs`: `PoolHolds`, `TypeCorrect`, `PoolNeverLeaks`, `CalmRequestsAreServed`. `PoolInv` ties the
phases to the connections (`HoldersHold`) and counts: what the pool calls open is what lies idle and what requests
hold (`Counted`, with the cardinality of a finite set that grows or shrinks by one). For `CalmRequestsSucceed`
`CalmInv` says that the database is up while a calm request is in flight, that its connection is of the
running epoch once its statement runs (the pre-ping saw to it), and that its status is the contract's from then on.

`ScriptProofs` holds what the proofs about `Migrations` need of the scripts. A script is a sequence of
some fifty statements put together from shorter ones, so the lemmas are about concatenation: if two lists of statements build
(`Builds`) or remove (`Removes`) their objects, with each look before the statement it guards and each
table before its parts, so does one after the other. The lemmas end in what the four scripts make, drop and
stamp, compared with what the models declare at each revision.

`MigrationsProofs`: `TypeCorrect`, `SchemaFollowsVersion`, `MigrationsImplementRevision`,
`NothingPublishedUnreviewed`. `SchemaMatchesVersion` says nothing of a transaction that is half way, so a COMMIT
could publish anything. The inductive invariant `IInv` says that
- the catalog is what the models declare at one revision, and the version table names it (`AtRevision`);
- a command going up has made what its plan has passed and removed nothing, one going down has made nothing and
  left nothing of what its plan has dropped, and either holds the tables it touched (`GoesUp`, `GoesDown`);
- once a command has written the version row, the committed version is the one it read (`Versions`);
- what it has done fits a catalog that others may have changed since it began (`Fits`);
- transactions write different names, lock different tables, and one of them writes the version
  row (`Apart`).

So a COMMIT of a command that has finished arrives at its target revision, and leaves the others' work in
place: they have written no row of the version, and hold no table it changed. The version table does not do this alone:
its primary key accepts a second row, and a second upgrade from base is stopped by the names it would
create, which `Fits` and `Apart` carry. The refinement maps the committed version to the revision of
`SchemaRevision` and `job` to itself; a COMMIT is one move from the revision the command read to its target,
a failure, a deadlock's victim or a death gives up, every statement in between is a stutter. `NothingPublishedUnreviewed` needs less: a command that commits changes no listing unless it
made or removed the column, and then nothing is active.

`AloneProofs`: `CommandsAloneWork`. Three facts about every plan, script by script and then for their concatenation: every
CREATE finds what its objects need, made earlier or declared at the revision it starts from, and makes nothing twice
(`Works`); every DROP finds its object, and nothing that stays needs it (`Clears`); no version is stamped
twice (`Once`). Different objects have different names (`KeyInjective`). The invariant `AInv` adds to `IInv` that a
command which has been alone since its start is still the only one, reads the version it started from, and sees the catalog its
position in the plan calls for (`OnTrack`), whatever commands before it left by failing or dying.

Only model-checked: the liveness properties `StatementsResolve`, `TraversalEnds`, `EveryRequestAnswered` and
`CommandsEnd`. Their proofs need ENABLED under fairness, which is out of the prover's reach. Every invariant, action
property and refinement that a passing run checks is a theorem.

## 5. Findings

1. `tampered_cursor`: `decode_cursor` accepts any JSON object with the two keys;
   `search_public_assets` then parses their values (`inventory.py:164-165`), and a `ValueError`
   there has no handler: 500, where `pagination.py:61-62` promises a stable 400.
2. `readiness_status`: `database_is_ready` (`health.py:16`) catches `SQLAlchemyError`; a
   refused connection is an `OSError` of asyncpg's, so with the database down the
   probe answers 500 where `docs/API_CONTRACT.md:12` says 503.
3. `stale_lifecycle`: `can_transition_to` and `mark_payout_eligible` decide on loaded copies, the rows
   have no version, and the constraints accept a deposit with both
   `deposit_released_at` and `deposit_claimed_at`: two sessions that follow the policy take a deposit
   from released to claimed, or a payout from paid back to eligible, where
   `docs/SCHEMA.md:229-230` and `tests/test_models_payment.py:52` say forward only. `MilestonesAreKept` shows what does
   hold: no milestone is lost.

4. `migrated_schema`: `docs/SCHEMA.md:184` and `handover.py:62-65` make `vendor_signer_id` a foreign key to
   `users.id`; 0001 creates the one for `renter_signer_id` (line 352) and not this one. The composite key to
   `bookings` implies it, so the data are safe and only a comparison of the two schemas shows it.
   `SchemaMatchesVersion` says that it is the only difference among the objects modelled.

Met while modelling and not stated as properties: an unknown `category` is an unhandled
500 (`docs/API_CONTRACT.md:42` names 400 and 422 for bad input); unhandled 500s and CORS
preflights have no `X-Request-ID` and no completion log (`docs/API_CONTRACT.md:25`,
`logging.py:40`); 422 and 503 bodies are not the error envelope that `errors.py:37` says is on all
non-2xx responses; a completed handover can be updated (`docs/ARCHITECTURE.md:96`
calls it immutable, `docs/SCHEMA.md:198` says the schema does not enforce it);
`docs/SCHEMA.md:198` also says the schema does not tie signers to the booking, which the composite
foreign keys do.

## 6. Not modelled, and why

- Provider transaction status of a payment: a column no code path reads or moves; the adapter and the webhooks
  that will move it are planned.
- KYC profiles, trust tiers and review provenance beyond their place in the schema: CHECK constraints on single
  rows and a constant mapping; no code path reads or moves them, so there are no steps to interleave.
- Migrations in offline mode, which print SQL and touch no database; plain columns, which come and go with
  their table; the values of enum types.
- Request IDs, log lines, response bodies, CORS, documentation routes; clients that disconnect. No other step
  reads this state.
- Booking transitions: no code moves a booking's status, and nothing in the repository promises an order of
  statuses; `Bookings` and `Settlement` let operators' writes set any of them.
- Blocked windows bind the search and not the table (`asset.py:186`): a hazard without a property, because nothing
  in the repository promises one.
- Amounts and the numeric columns: no property here depends on them.
- Settings: read once; pool size and overflow are constants of `Api`.
- Everything the documents plan and the code does not have.

## 7. Plan

The modules were written in the order bookings (the promise the marketplace rests on), search, application,
settlement, then the composition of bookings and search, and the migrations. What is left, in this order:

1. The availability theorem end to end: the date filter against the calendar of `Reservation`, through
   `Marketplace`.
2. The policy of settlement over bookings that real sessions confirm and complete.
3. Request IDs and the error envelope in `Api`, as the answer's second component.
