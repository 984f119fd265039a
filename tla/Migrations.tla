------------------------------ MODULE Migrations ------------------------------
(***************************************************************************)
(* Alembic runs of the two migration scripts against one database, while   *)
(* operators write listings.  A run reads the revision, executes the       *)
(* statements of its scripts and stamps the new revision, all in the one   *)
(* transaction that env.py begins.  PostgreSQL's DDL is transactional: a   *)
(* run that fails, is aborted or dies leaves nothing behind.  Runs meet at *)
(* table locks, at the names they create and remove, and at the row of     *)
(* alembic_version.                                                        *)
(*                                                                         *)
(* Revisions: 0 is base, 1 is 0001_initial_schema, 2 is                    *)
(* 0002_listing_publication_fields, the head.                              *)
(***************************************************************************)
EXTENDS Schema

CONSTANTS
  Migrator,       \* processes that run alembic commands
  Asset,          \* identifiers of assets
  ListingStatus,  \* the publication states operators write
  NoJob,          \* "runs no command"
  NoStamp         \* "has not written alembic_version"

Revision == 0 .. 2

ASSUME SentinelAssumption ==
  NoJob \notin Revision \X Revision /\ \A V \in SUBSET Revision : V # NoStamp
ASSUME ListingAssumption == {"draft", "active"} \subseteq ListingStatus

VARIABLES
  catalog,    \* the committed objects
  version,    \* the committed rows of alembic_version
  listing,    \* listing[a]: "absent", "unlisted" (no such column), or its status
  activated,  \* history: assets an operator has activated since the column exists
  job,        \* job[m]: <<the revision m has read, its target>>, or NoJob
  pc,         \* pc[m]: the position of m in its plan
  made,       \* made[m]: the objects the transaction of m has created
  gone,       \* gone[m]: the committed objects it has removed
  held,       \* held[m]: the tables it has locked
  stamped,    \* stamped[m]: the rows of alembic_version it would leave
  alone       \* history: m is the only migrator since it started

rows == <<listing, activated>>
transaction == <<made, gone, held, stamped>>
vars == <<catalog, version, listing, activated, job, pc, made, gone, held, stamped, alone>>

-----------------------------------------------------------------------------
(* The plan of a command *)

Stamp(i, j) == [op |-> "stamp", from |-> i, to |-> j]

\* The script from one revision to the next, or back, and its stamp.
Script(i, j) ==
  (CASE i = 0 /\ j = 1 -> Upgrade0001 [] i = 1 /\ j = 2 -> Upgrade0002
     [] i = 2 /\ j = 1 -> Downgrade0002 [] i = 1 /\ j = 0 -> Downgrade0001)
  \o <<Stamp(i, j)>>

VersionTable == Table("alembic_version")

\* From revision i to revision j, whichever command says so.  A run that reads
\* no revision makes sure that there is a version table.
Plan ==
  [i \in Revision |-> [j \in Revision |->
     (IF i = 0 THEN CreateMissing(VersionTable) ELSE <<>>)
     \o (CASE i = j -> <<>>
           [] i - j \in {1, -1} -> Script(i, j)
           [] OTHER -> Script(i, 1) \o Script(1, j))]]

Running(m) == job[m] # NoJob
PlanOf(m) == Plan[job[m][1]][job[m][2]]
Finished(m) == pc[m] > Len(PlanOf(m))
Statement(m) == PlanOf(m)[pc[m]]

-----------------------------------------------------------------------------
(* What a transaction sees *)

Key(o) == <<o.kind, o.table, o.name>>
Keys(S) == {Key(o) : o \in S}

View(m) == (catalog \ gone[m]) \cup made[m]

VersionSeen(m) == IF stamped[m] = NoStamp THEN version ELSE stamped[m]

\* DROP removes an object and the parts that go away with it: the parts of a
\* table; the constraints, keys and indexes that read a column.
Victims(key, S) ==
  {o \in S :
     \/ Key(o) = key
     \/ key[1] = "table" /\ o.table = key[3]
     \/ key[1] = "column" /\ o.table = key[2] /\ key[3] \in o.reads}

Names(S) == {o.name : o \in {x \in S : x.table = NoTable}}
Tables(S) == {o.name : o \in {x \in S : x.kind = "table"}}

\* CREATE: nothing of that name, and everything it needs is there.
Creatable(objects, S) ==
  /\ Keys(objects) \cap Keys(S) = {}
  /\ UNION {o.needs \cup ({o.table} \ {NoTable}) : o \in objects} \subseteq Names(S \cup objects)

\* DROP ... RESTRICT: it is there, and nothing that stays needs it.
Droppable(key, S) ==
  LET V == Victims(key, S)
  IN /\ key \in Keys(V)
     /\ (UNION {o.needs : o \in S \ V}) \cap Names(V) = {}

\* INSERT respects the primary key; UPDATE and DELETE must match one row.
Stampable(s, V) == IF s.from = 0 THEN s.to \notin V ELSE s.from \in V

\* The statement of m succeeds on what m sees.
Applicable(m) ==
  LET s == Statement(m)
  IN CASE s.op = "create" -> Creatable(s.objects, View(m))
       [] s.op = "drop" -> Droppable(s.object, View(m))
       [] s.op = "backfill" -> Table(s.table) \in View(m)
       [] s.op = "stamp" -> Stampable(s, VersionSeen(m))
       [] OTHER -> TRUE

-----------------------------------------------------------------------------
(* Locks *)

\* The objects a statement writes.
Written(m) ==
  LET s == Statement(m)
  IN CASE s.op = "create" -> s.objects
       [] s.op = "drop" -> Victims(s.object, View(m))
       [] OTHER -> {}

\* The existing tables it locks: the ones it changes and the ones the foreign
\* keys it makes or removes refer to.
Locks(m) ==
  LET s == Statement(m)
      touched == UNION {{o.table} \cup o.needs : o \in Written(m)}
      dropped == IF s.op = "drop" /\ s.object[1] = "table" THEN {s.object[3]} ELSE {}
      filled == IF s.op = "backfill" THEN {s.table} ELSE {}
      new == IF s.op = "create" THEN s.objects ELSE {}
  IN ((touched \cup dropped \cup filled) \cap Tables(View(m))) \ Tables(new)

\* A table lock is waited for before the statement looks at the catalog.  A
\* name in doubt, or the row of alembic_version, is waited for after.
WaitsFor(m, t) ==
  /\ m # t
  /\ Running(m) /\ ~Finished(m)
  /\ \/ Locks(m) \cap held[t] # {}
     \/ Applicable(m) /\ Keys(Written(m)) \cap Keys(made[t] \cup gone[t]) # {}
     \/ Statement(m).op = "stamp" /\ stamped[t] # NoStamp

Unblocked(m) == \A t \in Migrator : ~WaitsFor(m, t)

\* A fault: waits for tables are not looked at.
DeadlockedOnNames(m) ==
  \E t \in Migrator :
    /\ WaitsFor(m, t) /\ Locks(m) \cap held[t] = {}
    /\ WaitsFor(t, m) /\ Locks(t) \cap held[m] = {}

\* m lies on a cycle of the waits-for graph.
Deadlocked(m) ==
  \E D \in {D \in SUBSET Migrator : m \in D} : \E next \in [D -> D] :
    /\ \A d \in D : WaitsFor(d, next[d])
    /\ \A P \in SUBSET D : P # {} /\ (\A d \in P : next[d] \in P) => P = D

-----------------------------------------------------------------------------
(* The steps of a command *)

Init ==
  /\ catalog = {}
  /\ version = {}
  /\ listing = [a \in Asset |-> "absent"]
  /\ activated = {}
  /\ job = [m \in Migrator |-> NoJob]
  /\ pc = [m \in Migrator |-> 1]
  /\ made = [m \in Migrator |-> {}]
  /\ gone = [m \in Migrator |-> {}]
  /\ held = [m \in Migrator |-> {}]
  /\ stamped = [m \in Migrator |-> NoStamp]
  /\ alone = [m \in Migrator |-> FALSE]

\* upgrade or downgrade to a target: the revision is read once, at the start.
Start(m) ==
  /\ ~Running(m)
  /\ \E from \in (IF version = {} THEN {0} ELSE version), to \in Revision :
       job' = [job EXCEPT ![m] = <<from, to>>]
  /\ alone' = [t \in Migrator |-> t = m /\ \A x \in Migrator : ~Running(x)]
  /\ UNCHANGED <<catalog, version, rows, pc, transaction>>

Advance(m, n) ==
  /\ pc' = [pc EXCEPT ![m] = @ + n]
  /\ held' = [held EXCEPT ![m] = @ \cup Locks(m)]
  /\ UNCHANGED <<catalog, version, rows, job, alone>>

\* checkfirst and IF [NOT] EXISTS: a look that waits for nobody.
Look(m) ==
  /\ Running(m) /\ ~Finished(m)
  /\ LET s == Statement(m)
         there == s.object \in View(m)
     IN /\ s.op \in {"skip if present", "skip if absent"}
        /\ Advance(m, IF there <=> s.op = "skip if present" THEN 2 ELSE 1)
  /\ UNCHANGED <<made, gone, stamped>>

\* DDL.  The backfill sets to "draft" what is "draft": it takes its lock only.
Execute(m) ==
  /\ Running(m) /\ ~Finished(m)
  /\ Unblocked(m)
  /\ Applicable(m)
  /\ \/ /\ Statement(m).op = "create"
        /\ made' = [made EXCEPT ![m] = @ \cup Written(m)]
        /\ UNCHANGED gone
     \/ /\ Statement(m).op = "drop"
        /\ made' = [made EXCEPT ![m] = @ \ Written(m)]
        /\ gone' = [gone EXCEPT ![m] = @ \cup (Written(m) \cap catalog)]
     \/ /\ Statement(m).op = "backfill"
        /\ UNCHANGED <<made, gone>>
  /\ Advance(m, 1)
  /\ UNCHANGED stamped

\* A fault: the row is written whatever it was.
WriteVersionBlindly(m) ==
  /\ Running(m) /\ ~Finished(m)
  /\ Statement(m).op = "stamp"
  /\ Unblocked(m)
  /\ stamped' = [stamped EXCEPT ![m] = {Statement(m).to} \ {0}]
  /\ Advance(m, 1)
  /\ UNCHANGED <<made, gone>>

\* The version row follows each script.
WriteVersion(m) ==
  /\ Running(m) /\ ~Finished(m)
  /\ Statement(m).op = "stamp"
  /\ Unblocked(m)
  /\ Applicable(m)
  /\ LET s == Statement(m)
     IN stamped' = [stamped EXCEPT ![m] = (VersionSeen(m) \ {s.from}) \cup ({s.to} \ {0})]
  /\ Advance(m, 1)
  /\ UNCHANGED <<made, gone>>

-----------------------------------------------------------------------------
(* The ends of a command *)

Leave(m) ==
  /\ job' = [job EXCEPT ![m] = NoJob]
  /\ pc' = [pc EXCEPT ![m] = 1]
  /\ made' = [made EXCEPT ![m] = {}]
  /\ gone' = [gone EXCEPT ![m] = {}]
  /\ held' = [held EXCEPT ![m] = {}]
  /\ stamped' = [stamped EXCEPT ![m] = NoStamp]
  /\ alone' = [alone EXCEPT ![m] = FALSE]

\* A fault: DDL that takes effect at once.
RollBackRowsOnly(m) ==
  /\ Leave(m)
  /\ catalog' = View(m)
  /\ UNCHANGED <<version, rows>>

RollBack(m) == Leave(m) /\ UNCHANGED <<catalog, version, rows>>

\* The column goes and comes back with its table or by itself.
ListingColumn == Column("assets", "listing_status", {"listingstatus"})

\* Faults: the column comes with the state that publishes, or with the name of the
\* enum's member in place of its value.
ServerDefaultActive == "active"
ServerDefaultName == "DRAFT"

\* The value a new column gives to the rows that exist.
ServerDefault == "draft"

ListingAfter(m, a) ==
  CASE Table("assets") \in gone[m] -> "absent"
    [] Table("assets") \notin gone[m] /\ ListingColumn \in gone[m] ->
         IF listing[a] = "absent" THEN "absent" ELSE "unlisted"
    [] ListingColumn \in made[m] ->
         IF listing[a] = "absent" THEN "absent" ELSE ServerDefault
    [] OTHER -> listing[a]

\* The end of the one transaction around all scripts of the command.
Commit(m) ==
  /\ Running(m) /\ Finished(m)
  /\ catalog' = View(m)
  /\ version' = VersionSeen(m)
  /\ listing' = [a \in Asset |-> ListingAfter(m, a)]
  /\ activated' = IF ListingColumn \in gone[m] \cup made[m] THEN {} ELSE activated
  /\ Leave(m)

\* An error, or a row of alembic_version that did not match.
Fail(m) ==
  /\ Running(m) /\ ~Finished(m)
  /\ Unblocked(m)
  /\ ~Applicable(m)
  /\ RollBack(m)

Detect(m) == Deadlocked(m) /\ RollBack(m)

\* The process dies or the server restarts.
Die(m) == Running(m) /\ RollBack(m)

-----------------------------------------------------------------------------
(* The operators' writes, which need the table and no lock on it *)

Writable == Table("assets") \in catalog /\ \A m \in Migrator : "assets" \notin held[m]

InsertAsset(a) ==
  /\ Writable
  /\ listing[a] = "absent"
  /\ listing' = [listing EXCEPT ![a] =
                   IF ListingColumn \in catalog THEN ServerDefault ELSE "unlisted"]
  /\ UNCHANGED <<catalog, version, activated, job, pc, transaction, alone>>

Review(a) ==
  /\ Writable
  /\ ListingColumn \in catalog
  /\ listing[a] # "absent"
  /\ \E s \in ListingStatus :
       /\ listing' = [listing EXCEPT ![a] = s]
       /\ activated' = IF s = "active" THEN activated \cup {a} ELSE activated
  /\ UNCHANGED <<catalog, version, job, pc, transaction, alone>>

-----------------------------------------------------------------------------

Step(m) == Look(m) \/ Execute(m) \/ WriteVersion(m) \/ Commit(m) \/ Fail(m) \/ Detect(m)

Next ==
  \/ \E m \in Migrator : Start(m) \/ Step(m) \/ Die(m)
  \/ \E a \in Asset : InsertAsset(a) \/ Review(a)

Spec == Init /\ [][Next]_vars

\* Alembic issues the next statement when the last one returns, PostgreSQL runs
\* what it can run, and its deadlock detector fires.
FairSpec == Spec /\ \A m \in Migrator : WF_vars(Step(m))

-----------------------------------------------------------------------------
(* Properties *)

\* What is not the models': alembic's table, and the extensions that stay.
Outside == {VersionTable, Extension("pgcrypto"), Extension("btree_gist")}

\* Scripts make nothing that the models do not declare.
Object == Metadata \cup Outside

TypeOK ==
  /\ catalog \subseteq Object
  /\ version \subseteq Revision \ {0}
  /\ listing \in [Asset -> ListingStatus \cup {"absent", "unlisted"}]
  /\ activated \subseteq Asset
  /\ job \in [Migrator -> (Revision \X Revision) \cup {NoJob}]
  /\ pc \in [Migrator -> Nat \ {0}]
  /\ made \in [Migrator -> SUBSET Object]
  /\ gone \in [Migrator -> SUBSET Object]
  /\ held \in [Migrator -> SUBSET Tables(Object)]
  /\ stamped \in [Migrator -> (SUBSET (Revision \ {0})) \cup {NoStamp}]
  /\ alone \in [Migrator -> BOOLEAN]

\* What the models declare at a revision.
Declared(i) ==
  CASE i = 0 -> {}
    [] i = 1 -> Metadata \ (Publication \cup {Type("listingstatus")})
    [] i = 2 -> Metadata

\* The key the models declare on handover_records and 0001 does not make.
Unmigrated == {ForeignKey("handover_records", "vendor_signer_id", "users")}

\* migrations/env.py, one transaction around a command: whatever commands run at
\* the same time, fail or die half way, the database is at one revision and its
\* objects are the ones the models have at that revision, no more and no less
\* (the extensions and the version table stay, and one key is missing).
SchemaMatchesVersion ==
  \E i \in Revision :
    /\ version = {i} \ {0}
    /\ catalog \ Outside = Declared(i) \ Unmigrated

\* 0001 and 0002, the order of their statements: a command that runs with no other
\* has a plan that works, from every revision to every other, after any history
\* of commands that failed or died.
CommandsWorkAlone ==
  \A m \in Migrator : Running(m) /\ alone[m] /\ ~Finished(m) => Applicable(m)

\* 0002: "never accidentally published before a manual review": a listing is active
\* only if an operator activated it while this very column was there; a downgrade
\* and an upgrade later it needs a review again.
NeverPublishedUnreviewed ==
  \A a \in Asset : listing[a] = "active" => a \in activated

\* Once no new command starts, every command ends, however commands wait for each
\* other's tables, names and version row.
CommandsEnd ==
  <>[][\A m \in Migrator : ~Start(m)]_vars => \A m \in Migrator : Running(m) ~> ~Running(m)

\* Concurrent commands do what commands one after the other would do: each moves the
\* database from the revision it read, or not at all.
Revisions ==
  INSTANCE SchemaRevision
    WITH revision <- IF version = {} THEN 0 ELSE CHOOSE v \in version : TRUE, Base <- 0

ImplementsSchemaRevision == Revisions!Spec

\* docs/SCHEMA.md, table handover_records: vendor_signer_id is a foreign key to
\* users.id, as it is in the model, once the database is at the head.
HeadIsDeclared ==
  version = {2} => Metadata \subseteq catalog

===============================================================================
