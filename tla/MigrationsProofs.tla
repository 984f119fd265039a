--------------------------- MODULE MigrationsProofs ---------------------------
(***************************************************************************)
(* What holds of module Migrations for any number of migrators, assets and *)
(* publication states, whatever upgrades and downgrades run, fail, die or  *)
(* deadlock at the same time: no listing is published without a review,    *)
(* the schema is the one its version says, and commands move the database  *)
(* from revision to revision one at a time.                                *)
(***************************************************************************)
EXTENDS ScriptProofs

-----------------------------------------------------------------------------
(* The listings *)

ListingInv ==
  /\ listing \in [Asset -> ListingStatus \cup {"absent", "unlisted"}]
  /\ activated \subseteq Asset
  /\ NeverPublishedUnreviewed

LEMMA InitListing == Init => ListingInv
BY DEF Init, ListingInv, NeverPublishedUnreviewed

\* A command that leaves publishes nothing: a column it makes anew comes with the
\* server default, and one it removes takes every publication with it.
LEMMA CommitKeepsListing ==
  ASSUME ListingInv, NEW m \in Migrator, Commit(m)
  PROVE  ListingInv'
<1>1. \A a \in Asset : /\ ListingAfter(m, a) \in ListingStatus \cup {"absent", "unlisted"}
                       /\ ListingAfter(m, a) = "active" =>
                            /\ listing[a] = "active"
                            /\ ListingColumn \notin gone[m] \cup made[m]
  BY ListingAssumption DEF ListingInv, ListingAfter, ServerDefault
<1>2. listing' = [a \in Asset |-> ListingAfter(m, a)]
  BY DEF Commit
<1>3. activated' = IF ListingColumn \in gone[m] \cup made[m] THEN {} ELSE activated
  BY DEF Commit
<1>4. NeverPublishedUnreviewed'
  BY <1>1, <1>2, <1>3 DEF ListingInv, NeverPublishedUnreviewed
<1>5. QED
  BY <1>1, <1>2, <1>3, <1>4 DEF ListingInv

LEMMA InsertKeepsListing ==
  ASSUME ListingInv, NEW a \in Asset, InsertAsset(a)
  PROVE  ListingInv'
BY ListingAssumption DEF InsertAsset, ServerDefault, ListingInv, NeverPublishedUnreviewed

LEMMA ReviewKeepsListing ==
  ASSUME ListingInv, NEW a \in Asset, Review(a)
  PROVE  ListingInv'
<1>1. PICK s \in ListingStatus :
        /\ listing' = [listing EXCEPT ![a] = s]
        /\ activated' = IF s = "active" THEN activated \cup {a} ELSE activated
  BY DEF Review
<1>2. NeverPublishedUnreviewed'
  BY <1>1 DEF ListingInv, NeverPublishedUnreviewed
<1>3. QED
  BY <1>1, <1>2 DEF ListingInv

LEMMA NextListing == ListingInv /\ [Next]_vars => ListingInv'
<1> SUFFICES ASSUME ListingInv, [Next]_vars PROVE ListingInv'
  OBVIOUS
<1>1. CASE UNCHANGED rows
  BY <1>1 DEF rows, ListingInv, NeverPublishedUnreviewed
<1>2. ASSUME NEW m \in Migrator, Start(m) \/ Step(m) \/ Die(m)
      PROVE  ListingInv'
  <2>1. CASE Commit(m)
    BY <2>1, CommitKeepsListing
  <2>2. CASE Start(m) \/ Look(m) \/ Execute(m) \/ WriteVersion(m)
    BY <1>1, <2>2 DEF Start, Look, Execute, WriteVersion, Advance
  <2>3. CASE Fail(m) \/ Detect(m) \/ Die(m)
    BY <1>1, <2>3 DEF Fail, Detect, Die, RollBack
  <2>4. QED
    BY <1>2, <2>1, <2>2, <2>3 DEF Step
<1>3. ASSUME NEW a \in Asset, InsertAsset(a) \/ Review(a)
      PROVE  ListingInv'
  BY <1>3, InsertKeepsListing, ReviewKeepsListing
<1>4. CASE UNCHANGED vars
  BY <1>1, <1>4 DEF vars, rows
<1>5. QED
  BY <1>2, <1>3, <1>4 DEF Next

\* 0002: "never accidentally published before a manual review", for any number of
\* concurrent commands and operators and at any point of any upgrade or downgrade.
THEOREM NothingPublishedUnreviewed == Spec => []NeverPublishedUnreviewed
<1>1. ListingInv => NeverPublishedUnreviewed
  BY DEF ListingInv
<1>2. QED
  BY InitListing, NextListing, <1>1, PTL DEF Spec

-----------------------------------------------------------------------------
(* The schema and the version *)

AtRevision(C, V) ==
  \E i \in Revision : V = {i} \ {0} /\ C \ Outside = Declared(i) \ Unmigrated

Parts0001 == Tabled \cup EnumTypes

\* A database at one revision has the tables of its parts, all of the publication or none
\* of it, and the enums as soon as it is not empty.
LEMMA RevisionFacts ==
  ASSUME NEW C \in SUBSET Object, NEW V, AtRevision(C, V)
  PROVE  /\ \A o \in C : o.table # NoTable => Table(o.table) \in C
         /\ C \cap PublicationObjects # {} => V = {2} /\ PublicationObjects \subseteq C
         /\ Type("renterrole") \notin C => V = {}
<1>1. PICK i \in Revision : V = {i} \ {0} /\ C \ Outside = Declared(i) \ Unmigrated
  BY DEF AtRevision
<1>2. /\ Declared(0) = {}
      /\ Declared(1) = Parts0001
      /\ Declared(2) = Parts0001 \cup PublicationObjects
      /\ (Parts0001 \cup Outside) \cap PublicationObjects = {}
      /\ Unmigrated \subseteq Parts0001
      /\ Type("renterrole") \in Parts0001 \ Unmigrated
      /\ Type("renterrole") \notin PublicationObjects \cup Outside
  BY MetadataParts, PublicationThere DEF Parts0001
<1>3. \A t \in TableNames : Table(t) \in Parts0001 \ Unmigrated
  <2>1. \A t : Table(t) \notin Unmigrated
    BY TableFields, ForeignKeyFields DEF Unmigrated
  <2>2. QED
    BY <2>1, TablesThere DEF Parts0001
<1>4. \A o \in C : o.table # NoTable => Table(o.table) \in C
  <2> SUFFICES ASSUME NEW o \in C, o.table # NoTable PROVE Table(o.table) \in C
    OBVIOUS
  <2>1. o.table \in TableNames /\ o \notin Outside
    BY ObjectTable, OutsideFields
  <2>2. i # 0
    BY <1>1, <1>2, <2>1
  <2>3. Table(o.table) \in Declared(i) \ Unmigrated
    BY <1>2, <1>3, <2>1, <2>2 DEF Revision
  <2>4. QED
    BY <1>1, <2>3
<1>5. ASSUME NEW o \in C \cap PublicationObjects
      PROVE  V = {2} /\ PublicationObjects \subseteq C
  <2>1. o \in Declared(i)
    BY <1>1, <1>2
  <2>2. i = 2
    BY <1>2, <2>1 DEF Revision
  <2>3. QED
    BY <1>1, <1>2, <2>2
<1>6. ASSUME Type("renterrole") \notin C
      PROVE  V = {}
  <2>1. Type("renterrole") \notin Declared(i)
    BY <1>1, <1>2, <1>6
  <2>2. i = 0
    BY <1>2, <2>1 DEF Revision
  <2>3. QED
    BY <1>1, <2>2
<1>7. QED
  BY <1>4, <1>5, <1>6

-----------------------------------------------------------------------------
(* How far a command has come *)

\* The statements of the plan from i to j before position p.
Passed(i, j, p) == {Plan[i][j][k] : k \in 1 .. p - 1}

\* A plan is a list of statements of its direction.
LEMMA PlanListed ==
  ASSUME NEW i \in Revision, NEW j \in Revision
  PROVE  /\ Len(Plan[i][j]) \in Nat
         /\ Looks(Plan[i][j])
         /\ \A x \in Statements(Plan[i][j]) : IF i <= j THEN UpStatement(x) ELSE DownStatement(x)
         /\ Stamped(Statements(Plan[i][j])) = Stamps(i, j)
<1>1. CASE i <= j
  BY <1>1, PlanUp, ListsMember DEF Builds
<1>2. CASE ~(i <= j)
  <2>1. i > j
    BY <1>2 DEF Revision
  <2>2. QED
    BY <1>2, <2>1, PlanDown, ListsMember DEF Removes
<1>3. QED
  BY <1>1, <1>2

With(P, x) == P \cup {x}

\* One statement further.
LEMMA PassedMore ==
  ASSUME NEW i \in Revision, NEW j \in Revision, NEW p \in 1 .. Len(Plan[i][j])
  PROVE  /\ Passed(i, j, p + 1) = With(Passed(i, j, p), Plan[i][j][p])
         /\ Plan[i][j][p] \in Statements(Plan[i][j])
         /\ Passed(i, j, p) \subseteq Statements(Plan[i][j])
<1>1. Len(Plan[i][j]) \in Nat
  BY PlanListed
<1>2. 1 .. (p + 1) - 1 = (1 .. p - 1) \cup {p}
  BY <1>1
<1>3. Passed(i, j, p + 1) = With(Passed(i, j, p), Plan[i][j][p])
  BY <1>2 DEF Passed, With
<1>4. 1 .. p - 1 \subseteq 1 .. Len(Plan[i][j])
  BY <1>1
<1>5. QED
  BY <1>3, <1>4 DEF Passed, Statements

\* The first position and the last.
LEMMA PassedEnds ==
  ASSUME NEW i \in Revision, NEW j \in Revision
  PROVE  /\ Passed(i, j, 1) = {}
         /\ Passed(i, j, Len(Plan[i][j]) + 1) = Statements(Plan[i][j])
<1>1. Len(Plan[i][j]) \in Nat
  BY PlanListed
<1>2. 1 .. 1 - 1 = {} /\ (Len(Plan[i][j]) + 1) - 1 = Len(Plan[i][j])
  BY <1>1
<1>3. QED
  BY <1>2 DEF Passed, Statements

\* A statement creates what it creates.
LEMMA CreatedMore ==
  ASSUME NEW P, NEW x
  PROVE  /\ x.op = "create" => Created(With(P, x)) = Created(P) \cup x.objects
         /\ x.op # "create" => Created(With(P, x)) = Created(P)
BY DEF Created, With

\* A statement drops what it drops.
LEMMA DroppedMore ==
  ASSUME NEW P, NEW x
  PROVE  /\ x.op = "drop" => Dropped(With(P, x)) = With(Dropped(P), x.object)
         /\ x.op # "drop" => Dropped(With(P, x)) = Dropped(P)
BY DEF Dropped, With

\* A statement stamps what it stamps.
LEMMA StampedMore ==
  ASSUME NEW P, NEW x
  PROVE  /\ x.op = "stamp" => Stamped(With(P, x)) = With(Stamped(P), x)
         /\ x.op # "stamp" => Stamped(With(P, x)) = Stamped(P)
BY DEF Stamped, With
-----------------------------------------------------------------------------
(* The inductive invariant *)

\* A command that goes up, or stays, has removed nothing and made what its plan
\* creates, but for what was there before; the type of the publication state comes
\* with its column; and a part is made of a table that is locked or new.
GoesUp(i, j, p, M, G, H) ==
  /\ G = {}
  /\ M \subseteq Created(Passed(i, j, p))
  /\ Created(Passed(i, j, p)) \ Skippable \subseteq M
  /\ ListingColumn \in M => ListingType \in M
  /\ \A o \in M : o.table = NoTable \/ o.table \in H \/ Table(o.table) \in M

\* A command that goes down has made nothing; it holds the tables of what it has
\* removed, and nothing is left of what its plan drops.
GoesDown(i, j, p, M, G, H, C) ==
  /\ M = {}
  /\ j = 1 => G \subseteq PublicationObjects
  /\ \A o \in G : /\ o.table # NoTable => o.table \in H
                  /\ o.kind = "table" => o.name \in H
  /\ \A key \in Dropped(Passed(i, j, p)) :
       /\ Victims(key, C \ G) = {}
       /\ key[1] = "table" => Table(key[3]) \in G
       /\ key[1] = "type" => Type(key[3]) \in G
       /\ key[1] \in {"index", "constraint", "column"} => key[2] \in H
  /\ DropPublicLagos \in Passed(i, j, p) => PublicLagos \in G

\* Once a command has written the version row, the committed version is the one it
\* read, and the row says how far it is.
Versions(i, j, p, z, V) ==
  /\ z = NoStamp <=> Stamped(Passed(i, j, p)) = {}
  /\ z # NoStamp =>
       /\ V = {i} \ {0}
       /\ z = IF \E s \in Stamped(Passed(i, j, p)) : s.to = j THEN {j} \ {0} ELSE {1}

\* What a transaction has done fits the catalog that others may have changed.
Fits(M, G, H, C) ==
  /\ G \subseteq C
  /\ Keys(M) \cap Keys(C \ G) = {}
  /\ \A x \in H : Table(x) \in C \cup M

Idle(p, M, G, H, z) == p = 1 /\ M = {} /\ G = {} /\ H = {} /\ z = NoStamp

Underway(i, j, p, M, G, H, z, C, V) ==
  /\ p \in 1 .. Len(Plan[i][j]) + 1
  /\ i <= j => GoesUp(i, j, p, M, G, H)
  /\ i > j => GoesDown(i, j, p, M, G, H, C)
  /\ Versions(i, j, p, z, V)

\* Transactions write different names and lock different tables, and one of them
\* writes the version row.
Apart(M, G, H, z, N, F, I, y) ==
  /\ Keys(M \cup G) \cap Keys(N \cup F) = {}
  /\ H \cap I = {}
  /\ z = NoStamp \/ y = NoStamp

CommandInv(m) ==
  /\ Running(m) => Underway(job[m][1], job[m][2], pc[m], made[m], gone[m], held[m], stamped[m],
                            catalog, version)
  /\ ~Running(m) => Idle(pc[m], made[m], gone[m], held[m], stamped[m])
  /\ Fits(made[m], gone[m], held[m], catalog)

PairInv(m, t) ==
  Apart(made[m], gone[m], held[m], stamped[m], made[t], gone[t], held[t], stamped[t])

IInv ==
  /\ TypeOK
  /\ AtRevision(catalog, version)
  /\ \A m \in Migrator : CommandInv(m)
  /\ \A m, t \in Migrator : m # t => PairInv(m, t)

\* The empty database is at base and no command runs.
LEMMA InitIInv == Init => IInv
<1> SUFFICES ASSUME Init PROVE IInv
  OBVIOUS
<1>1. TypeOK
  BY DEF Init, TypeOK
<1>2. AtRevision(catalog, version)
  BY MetadataParts DEF Init, AtRevision, Revision
<1>3. ASSUME NEW m \in Migrator PROVE CommandInv(m)
  BY DEF Init, CommandInv, Running, Idle, Fits, Keys
<1>4. ASSUME NEW m \in Migrator, NEW t \in Migrator PROVE PairInv(m, t)
  BY DEF Init, PairInv, Apart, Keys
<1>5. QED
  BY <1>1, <1>2, <1>3, <1>4 DEF IInv

-----------------------------------------------------------------------------
(* Statements of a command that goes up *)

\* A statement that creates nothing leaves a command that goes up where it was.
LEMMA UpPasses ==
  ASSUME NEW i \in Revision, NEW j \in Revision, NEW p \in 1 .. Len(Plan[i][j]),
         NEW M, NEW G, NEW H, NEW L, GoesUp(i, j, p, M, G, H), Plan[i][j][p].op # "create"
  PROVE  GoesUp(i, j, p + 1, M, G, H \cup L)
<1>1. Created(Passed(i, j, p + 1)) = Created(Passed(i, j, p))
  BY PassedMore, CreatedMore
<1>2. QED
  BY <1>1 DEF GoesUp

\* A look that finds its object skips the statement after it.
LEMMA Skips ==
  ASSUME NEW i \in Revision, NEW j \in Revision, NEW p \in 1 .. Len(Plan[i][j]),
         Plan[i][j][p].op \in Skip
  PROVE  /\ p + 1 \in 1 .. Len(Plan[i][j])
         /\ Plan[i][j][p + 1] = Skipped(Plan[i][j][p])
         /\ Passed(i, j, p + 2) =
              With(With(Passed(i, j, p), Plan[i][j][p]), Skipped(Plan[i][j][p]))
         /\ i <= j => /\ Plan[i][j][p].op = "skip if present"
                      /\ Plan[i][j][p].object \in Skippable
         /\ i > j => /\ Plan[i][j][p].op = "skip if absent"
                     /\ Plan[i][j][p] = LookForListingType
                     /\ Plan[i][j][p].object = ListingType
<1> DEFINE look == Plan[i][j][p]
<1>0. look = Plan[i][j][p] /\ look.op \in Skip
  OBVIOUS
<1> HIDE DEF look
<1>1. Len(Plan[i][j]) \in Nat
  BY PlanListed
<1>2. p < Len(Plan[i][j]) /\ Plan[i][j][p + 1] = Skipped(look)
  BY <1>0, PlanListed DEF Looks
<1>3. p + 1 \in 1 .. Len(Plan[i][j]) /\ (p + 1) + 1 = p + 2
  BY <1>1, <1>2
<1>4. Passed(i, j, p + 2) = With(With(Passed(i, j, p), look), Skipped(look))
  <2>1. Passed(i, j, p + 1) = With(Passed(i, j, p), look)
    BY <1>0, PassedMore
  <2>2. Passed(i, j, (p + 1) + 1) = With(Passed(i, j, p + 1), Plan[i][j][p + 1])
    BY <1>3, PassedMore
  <2>3. QED
    BY <1>2, <1>3, <2>1, <2>2
<1>5. IF i <= j THEN UpStatement(look) ELSE DownStatement(look)
  BY <1>0, PassedMore, PlanListed
<1>6. ASSUME i > j
      PROVE  look.op = "skip if absent" /\ look = LookForListingType /\ look.object = ListingType
  <2>1. DownStatement(look)
    BY <1>5, <1>6 DEF Revision
  <2>2. look.op = "skip if absent" /\ look = LookForListingType
    BY <1>0, <2>1 DEF DownStatement, Skip
  <2>3. LookForListingType.object = ListingType
    BY DEF LookForListingType
  <2>4. QED
    BY <2>2, <2>3
<1>7. i <= j => look.op = "skip if present" /\ look.object \in Skippable
  BY <1>0, <1>5 DEF UpStatement, Skip
<1>8. QED
  BY <1>0, <1>2, <1>3, <1>4, <1>6, <1>7

\* The statement that a look may skip.
LEMMA SkippedFields ==
  \A x : /\ x.op = "skip if present" => /\ Skipped(x).op = "create"
                                        /\ Skipped(x).objects = {x.object}
         /\ x.op = "skip if absent" => /\ Skipped(x).op = "drop"
                                       /\ Skipped(x).object = Key(x.object)
BY CreateFields DEF Skipped

\* A command that goes up skips only what is there.
LEMMA UpSkips ==
  ASSUME NEW i \in Revision, NEW j \in Revision, NEW p \in 1 .. Len(Plan[i][j]), i <= j,
         NEW M, NEW G, NEW H, NEW L, GoesUp(i, j, p, M, G, H), Plan[i][j][p].op \in Skip
  PROVE  GoesUp(i, j, p + 2, M, G, H \cup L)
<1> DEFINE look == Plan[i][j][p]
           o == look.object
           P == Passed(i, j, p)
<1>1. /\ Passed(i, j, p + 2) = With(With(P, look), Skipped(look))
      /\ look.op = "skip if present" /\ o \in Skippable
  BY Skips
<1>2. Skipped(look).op = "create" /\ Skipped(look).objects = {o}
  BY <1>1, SkippedFields
<1> HIDE DEF look, o, P
<1>3. Created(With(P, look)) = Created(P)
  BY <1>1, CreatedMore
<1>4. Created(Passed(i, j, p + 2)) = Created(P) \cup {o}
  BY <1>1, <1>2, <1>3, CreatedMore
<1>5. QED
  BY <1>1, <1>4 DEF GoesUp, P

\* A CREATE succeeds, with locks on L.
MayCreate(S, M, G, L, C) ==
  /\ Creatable(S, (C \ G) \cup M)
  /\ \A o \in S : o.table \in Tables((C \ G) \cup M) => o.table \in L \cup Tables(S)

\* What a CREATE needs is there, under the name that only it can have.
LEMMA UpCreates ==
  ASSUME NEW i \in Revision, NEW j \in Revision, NEW p \in 1 .. Len(Plan[i][j]), i <= j,
         NEW M \in SUBSET Object, NEW G, NEW H, NEW L, NEW C \in SUBSET Object, NEW V,
         GoesUp(i, j, p, M, G, H), AtRevision(C, V),
         NEW S, S = Plan[i][j][p].objects, Plan[i][j][p].op = "create", MayCreate(S, M, G, L, C)
  PROVE  /\ S \subseteq Object
         /\ GoesUp(i, j, p + 1, M \cup S, G, H \cup L)
<1> /\ Creatable(S, (C \ G) \cup M)
    /\ \A o \in S : o.table \in Tables((C \ G) \cup M) => o.table \in L \cup Tables(S)
  BY DEF MayCreate
<1>1. Created(Passed(i, j, p + 1)) = Created(Passed(i, j, p)) \cup S
  BY PassedMore, CreatedMore
<1>2. S \subseteq Object
  <2>1. Plan[i][j][p] \in Statements(Plan[i][j])
    BY PassedMore
  <2>2. S \subseteq Created(Statements(Plan[i][j]))
    BY <2>1 DEF Created
  <2>3. Created(Statements(Plan[i][j])) \subseteq Object
    BY PlanUp, MakesDeclared DEF Builds
  <2>4. QED
    BY <2>2, <2>3
<1>3. G = {} /\ (C \ G) \cup M = C \cup M
  BY DEF GoesUp
<1>4. ASSUME NEW o \in S, NEW n \in o.needs \cup ({o.table} \ {NoTable})
      PROVE  \E x \in C \cup M \cup S : x.table = NoTable /\ x.name = n
  BY <1>3 DEF Creatable, Names
<1>5. ASSUME NEW o \in S, o.table # NoTable
      PROVE  o.table \in H \cup L \/ Table(o.table) \in M \cup S
  <2>1. o.table \in TableNames
    BY <1>2, <1>5, ObjectTable
  <2>2. PICK x \in C \cup M \cup S : x.table = NoTable /\ x.name = o.table
    BY <1>4, <1>5
  <2>3. x = Table(o.table)
    BY <1>2, <2>1, <2>2, ObjectTable
  <2>4. CASE x \in C
    <3>1. o.table \in Tables((C \ G) \cup M)
      BY <1>3, <2>3, <2>4, TableFields DEF Tables
    <3>2. CASE o.table \in Tables(S)
      <4>1. PICK y \in S : y.kind = "table" /\ y.name = o.table
        BY <3>2 DEF Tables
      <4>2. y = Table(o.table)
        BY <1>2, <4>1, ObjectTable
      <4>3. QED
        BY <4>1, <4>2
    <3>3. QED
      BY <3>1, <3>2
  <2>5. QED
    BY <2>2, <2>3, <2>4
<1>6. ASSUME ListingColumn \in S
      PROVE  ListingType \in M \cup S
  <2>1. PICK x \in C \cup M \cup S : x.table = NoTable /\ x.name = "listingstatus"
    BY <1>4, <1>6, PublicationThere
  <2>2. x = ListingType
    BY <1>2, <2>1, ObjectTable
  <2>3. ASSUME x \in C PROVE FALSE
    <3>1. ListingColumn \in C
      BY <2>2, <2>3, RevisionFacts, PublicationThere
    <3>2. Keys(S) \cap Keys(C \cup M) = {}
      BY <1>3 DEF Creatable
    <3>3. QED
      BY <1>6, <3>1, <3>2 DEF Keys
  <2>4. QED
    BY <2>1, <2>2, <2>3
<1>7. GoesUp(i, j, p + 1, M \cup S, G, H \cup L)
  BY <1>1, <1>5, <1>6 DEF GoesUp
<1>8. QED
  BY <1>2, <1>7

-----------------------------------------------------------------------------
(* Statements of a command that goes down *)

\* A statement that drops nothing leaves a command that goes down where it was.
LEMMA DownPasses ==
  ASSUME NEW i \in Revision, NEW j \in Revision, NEW p \in 1 .. Len(Plan[i][j]),
         NEW M, NEW G, NEW H, NEW L, NEW C, GoesDown(i, j, p, M, G, H, C),
         Plan[i][j][p].op # "drop"
  PROVE  GoesDown(i, j, p + 1, M, G, H \cup L, C)
<1>1. Dropped(Passed(i, j, p + 1)) = Dropped(Passed(i, j, p))
  BY PassedMore, DroppedMore
<1>2. DropPublicLagos.op = "drop"
  BY DropFields DEF DropPublicLagos, DropIndex
<1>3. DropPublicLagos \in Passed(i, j, p + 1) => DropPublicLagos \in Passed(i, j, p)
  BY <1>2, PassedMore DEF With
<1>4. QED
  BY <1>1, <1>3 DEF GoesDown

\* A command that does not see the type of the publication state has removed it: it
\* has removed an index that is there only where the type is.
LEMMA DownSkips ==
  ASSUME NEW i \in Revision, NEW j \in Revision, NEW p \in 1 .. Len(Plan[i][j]), i > j,
         NEW M, NEW G, NEW H, NEW L, NEW C \in SUBSET Object, NEW V,
         GoesDown(i, j, p, M, G, H, C), AtRevision(C, V), G \subseteq C,
         Plan[i][j][p].op \in Skip, Plan[i][j][p].object \notin C \ G
  PROVE  GoesDown(i, j, p + 2, M, G, H \cup L, C)
<1> DEFINE look == Plan[i][j][p]
           P == Passed(i, j, p)
           key == <<"type", NoTable, "listingstatus">>
<1>1. /\ Passed(i, j, p + 2) = With(With(P, look), Skipped(look))
      /\ look.op = "skip if absent" /\ look = LookForListingType /\ look.object = ListingType
  BY Skips
<1>2. Key(ListingType) = key
  BY TypeFields DEF Key, ListingType
<1>3. Skipped(look).op = "drop" /\ Skipped(look).object = key
  BY <1>1, <1>2, SkippedFields
<1>4. key[1] = "type" /\ key[3] = "listingstatus"
  OBVIOUS
<1>5. DropPublicLagos \in P
  <2>1. \E l \in 1 .. p - 1 : Plan[i][j][l] = DropPublicLagos
    BY <1>1, PlanDown DEF First
  <2>2. QED
    BY <2>1 DEF Passed
<1>6. DropPublicLagos # look /\ DropPublicLagos.object # key
  <2>1. DropPublicLagos.op = "drop"
        /\ DropPublicLagos.object = <<"index", "assets", "ix_assets_public_lagos">>
    BY DropFields DEF DropPublicLagos, DropIndex
  <2>2. DropPublicLagos.object[1] = "index"
    BY <2>1
  <2>3. QED
    BY <1>1, <1>4, <2>1, <2>2
<1> HIDE DEF look, P, key
<1>7. ListingType \in G
  <2>1. PublicLagos \in G
    BY <1>5 DEF GoesDown, P
  <2>2. ListingType \in C
    BY <2>1, RevisionFacts, PublicationThere
  <2>3. ListingType \notin C \ G
    BY <1>1 DEF look
  <2>4. QED
    BY <2>2, <2>3
<1>8. Victims(key, C \ G) = {}
  <2> SUFFICES ASSUME NEW o \in Victims(key, C \ G) PROVE FALSE
    OBVIOUS
  <2>1. o \in C \ G /\ Key(o) = key
    BY <1>4 DEF Victims
  <2>2. o.kind = "type" /\ o.name = "listingstatus"
    BY <2>1 DEF Key, key
  <2>3. o = ListingType
    BY <2>1, <2>2, ObjectTable DEF ListingType
  <2>4. QED
    BY <1>7, <2>1, <2>3
<1>9. Dropped(Passed(i, j, p + 2)) = With(Dropped(P), key)
  <2>1. Dropped(With(P, look)) = Dropped(P)
    BY <1>1, DroppedMore
  <2>2. Dropped(With(With(P, look), Skipped(look))) = With(Dropped(With(P, look)), key)
    BY <1>3, DroppedMore
  <2>3. QED
    BY <1>1, <2>1, <2>2
<1>10. Type(key[3]) \in G
  BY <1>4, <1>7 DEF ListingType
<1>11. PublicLagos \in G
  BY <1>5 DEF GoesDown, P
<1>12. QED
  BY <1>4, <1>8, <1>9, <1>10, <1>11 DEF GoesDown, With, P

\* A DROP removes what it names, and what it removes belongs to tables that are locked
\* or gone.
LEMMA DownDrops ==
  ASSUME NEW i \in Revision, NEW j \in Revision, NEW p \in 1 .. Len(Plan[i][j]), i > j,
         NEW M, NEW G, NEW H, NEW L, NEW C \in SUBSET Object, NEW V,
         GoesDown(i, j, p, M, G, H, C), AtRevision(C, V), G \subseteq C,
         NEW key, key = Plan[i][j][p].object, Plan[i][j][p].op = "drop",
         Droppable(key, C \ G),
         NEW W, W = Victims(key, C \ G),
         \A o \in W : o.table \in Tables(C \ G) => o.table \in L,
         key[1] = "table" /\ key[3] \in Tables(C \ G) => key[3] \in L
  PROVE  GoesDown(i, j, p + 1, M, G \cup W, H \cup L, C)
<1>1. Dropped(Passed(i, j, p + 1)) = With(Dropped(Passed(i, j, p)), key)
  BY PassedMore, DroppedMore
<1>2. W \subseteq C \ G /\ W \subseteq Object
  BY DEF Victims
<1>3. PICK x \in W : Key(x) = key
  BY DEF Droppable, Keys
<1>4. x.kind = key[1] /\ x.table = key[2] /\ x.name = key[3]
  BY <1>3 DEF Key
<1>5. key \in Drops(i, j)
  <2>1. Plan[i][j][p] \in Statements(Plan[i][j])
    BY PassedMore
  <2>2. key \in Dropped(Statements(Plan[i][j]))
    BY <2>1 DEF Dropped
  <2>3. QED
    BY <2>2, PlanDown DEF Removes
<1>6. key[1] \in KeyKinds
  BY <1>5, Downgrade0001Removes, Keys0002Hit DEF Drops
<1>7. ASSUME j = 1
      PROVE  W \subseteq PublicationObjects
  <2>1. key \in Keys0002
    BY <1>5, <1>7 DEF Drops
  <2>2. \A o \in W : Hit(key, o)
    BY VictimsHit
  <2>3. QED
    BY <1>2, <2>1, <2>2, Keys0002Hit
<1>8. ASSUME NEW o \in W, o.table # NoTable
      PROVE  o.table \in H \cup L
  <2>1. Table(o.table) \in C
    BY <1>2, <1>8, RevisionFacts
  <2>2. CASE Table(o.table) \in G
    BY <2>2, TableFields DEF GoesDown
  <2>3. CASE Table(o.table) \in C \ G
    <3>1. o.table \in Tables(C \ G)
      BY <2>3, TableFields DEF Tables
    <3>2. QED
      BY <3>1
  <2>4. QED
    BY <2>1, <2>2, <2>3
<1>9. ASSUME NEW o \in W, o.kind = "table"
      PROVE  o.name \in H \cup L
  <2>1. o = Table(o.name) /\ o.table = NoTable /\ o.name # NoTable
    BY <1>2, <1>9, ObjectTable
  <2>2. key[1] = "column" => key[2] # NoTable
    <3>1. "column" \in PartKinds
      BY DEF PartKinds
    <3>2. x.kind = "column" => x.table \in TableNames
      BY <1>2, <3>1, ObjectTable
    <3>3. QED
      BY <1>4, <3>2 DEF TableNames, NoTable
  <2>3. key[1] = "table" => key[3] # NoTable
    BY <1>2, <1>4, ObjectTable
  <2>4. key[1] = "table" /\ o.name = key[3]
    <3>1. \/ Key(o) = key
          \/ key[1] = "table" /\ o.table = key[3]
          \/ key[1] = "column" /\ o.table = key[2]
      BY DEF Victims
    <3>2. Key(o) = key
      BY <2>1, <2>2, <2>3, <3>1
    <3>3. QED
      BY <1>9, <3>2 DEF Key
  <2>5. o.name \in Tables(C \ G)
    BY <1>2, <1>9 DEF Tables
  <2>6. QED
    BY <2>4, <2>5
<1>10. /\ Victims(key, C \ (G \cup W)) = {}
       /\ \A k : Victims(k, C \ G) = {} => Victims(k, C \ (G \cup W)) = {}
  BY VictimsHit
<1>11. key[1] = "table" => Table(key[3]) \in G \cup W
  BY <1>2, <1>4, ObjectTable
<1>12. key[1] = "type" => Type(key[3]) \in G \cup W
  BY <1>2, <1>4, ObjectTable
<1>13. key[1] \in {"index", "constraint", "column"} => key[2] \in H \cup L
  <2>1. key[1] \in {"index", "constraint", "column"} => x.kind \in PartKinds
    BY <1>4 DEF PartKinds
  <2>2. x.kind \in PartKinds => x.table # NoTable
    BY <1>2, ObjectTable DEF TableNames, NoTable
  <2>3. QED
    BY <1>4, <1>8, <2>1, <2>2
<1>14. ASSUME DropPublicLagos \in Passed(i, j, p + 1)
       PROVE  PublicLagos \in G \cup W
  <2>1. CASE DropPublicLagos \in Passed(i, j, p)
    BY <2>1 DEF GoesDown
  <2>2. CASE DropPublicLagos = Plan[i][j][p]
    <3>1. key = <<"index", "assets", "ix_assets_public_lagos">>
      BY <2>2, DropFields DEF DropPublicLagos, DropIndex
    <3>2. key[1] = "index" /\ key[2] = "assets" /\ key[3] = "ix_assets_public_lagos"
      BY <3>1
    <3>3. x = PublicLagos
      BY <1>2, <1>4, <3>2, PublicLagosByName
    <3>4. QED
      BY <3>3
  <2>3. QED
    BY <1>14, <2>1, <2>2, PassedMore DEF With
<1>15. M = {} /\ (j = 1 => G \cup W \subseteq PublicationObjects)
  BY <1>7 DEF GoesDown
<1>16. \A o \in G \cup W : /\ o.table # NoTable => o.table \in H \cup L
                           /\ o.kind = "table" => o.name \in H \cup L
  BY <1>8, <1>9 DEF GoesDown
<1>17. \A k \in Dropped(Passed(i, j, p + 1)) :
         /\ Victims(k, C \ (G \cup W)) = {}
         /\ k[1] = "table" => Table(k[3]) \in G \cup W
         /\ k[1] = "type" => Type(k[3]) \in G \cup W
         /\ k[1] \in {"index", "constraint", "column"} => k[2] \in H \cup L
  <2> TAKE k \in Dropped(Passed(i, j, p + 1))
  <2>1. CASE k \in Dropped(Passed(i, j, p))
    <3>1. /\ Victims(k, C \ G) = {}
          /\ k[1] = "table" => Table(k[3]) \in G
          /\ k[1] = "type" => Type(k[3]) \in G
          /\ k[1] \in {"index", "constraint", "column"} => k[2] \in H
      BY <2>1 DEF GoesDown
    <3>2. QED
      BY <1>10, <3>1
  <2>2. CASE k = key
    BY <1>10, <1>11, <1>12, <1>13, <2>2
  <2>3. QED
    BY <1>1, <2>1, <2>2 DEF With
<1>18. QED
  BY <1>14, <1>15, <1>16, <1>17 DEF GoesDown

-----------------------------------------------------------------------------
(* The version row *)

\* Only a stamp touches the version row.
LEMMA VersionsPass ==
  ASSUME NEW i \in Revision, NEW j \in Revision, NEW p \in 1 .. Len(Plan[i][j]),
         NEW z, NEW V, Versions(i, j, p, z, V), Plan[i][j][p].op # "stamp"
  PROVE  /\ Versions(i, j, p + 1, z, V)
         /\ Plan[i][j][p].op \in Skip => Versions(i, j, p + 2, z, V)
<1>1. Stamped(Passed(i, j, p + 1)) = Stamped(Passed(i, j, p))
  BY PassedMore, StampedMore
<1>2. Versions(i, j, p + 1, z, V)
  BY <1>1 DEF Versions
<1>3. ASSUME Plan[i][j][p].op \in Skip
      PROVE  Versions(i, j, p + 2, z, V)
  <2>1. Skipped(Plan[i][j][p]).op # "stamp"
    BY <1>3, SkippedFields DEF Skip
  <2>2. Passed(i, j, p + 2) = With(Passed(i, j, p + 1), Skipped(Plan[i][j][p]))
    <3>1. Passed(i, j, p + 2) = With(With(Passed(i, j, p), Plan[i][j][p]), Skipped(Plan[i][j][p]))
      BY <1>3, Skips
    <3>2. QED
      BY <3>1, PassedMore
  <2>3. Stamped(Passed(i, j, p + 2)) = Stamped(Passed(i, j, p))
    BY <1>1, <2>1, <2>2, StampedMore
  <2>4. QED
    BY <2>3 DEF Versions
<1>4. QED
  BY <1>2, <1>3

\* A plan of one step has one stamp, a plan of two steps has two, in order.
LEMMA StampsFacts ==
  ASSUME NEW i \in Revision, NEW j \in Revision, i # j
  PROVE  /\ OneStep(i, j) => Stamps(i, j) = {Stamp(i, j)}
         /\ ~OneStep(i, j) => /\ Stamps(i, j) = {Stamp(i, 1), Stamp(1, j)}
                              /\ i # 1 /\ j # 1
                              /\ First(Plan[i][j], Stamp(i, 1), Stamp(1, j))
         /\ i = 0 => j \in {1, 2}
<1>1. OneStep(i, j) => Stamps(i, j) = {Stamp(i, j)}
  BY DEF Stamps
<1>2. ~OneStep(i, j) => \/ i = 0 /\ j = 2
                        \/ i = 2 /\ j = 0
  <2>1. i = 0 \/ i = 1 \/ i = 2
    BY DEF Revision
  <2>2. j = 0 \/ j = 1 \/ j = 2
    BY DEF Revision
  <2>3. OneStep(0, 1) /\ OneStep(1, 0) /\ OneStep(1, 2) /\ OneStep(2, 1)
    BY DEF OneStep
  <2>4. QED
    BY <2>1, <2>2, <2>3
<1>3. ~OneStep(i, j) => Stamps(i, j) = {Stamp(i, 1), Stamp(1, j)}
  BY DEF Stamps
<1>4. ~OneStep(i, j) => First(Plan[i][j], Stamp(i, 1), Stamp(1, j))
  BY <1>2, StampOrder
<1>5. QED
  BY <1>1, <1>2, <1>3, <1>4 DEF Revision

\* A command that has read no revision has made a type, by its first stamp, that is
\* there at every other revision.
LEMMA EnumMade ==
  ASSUME NEW j \in {1, 2}, NEW p \in 1 .. Len(Plan[0][j]), Plan[0][j][p] = Stamp(0, 1),
         NEW M, NEW G, NEW H, GoesUp(0, j, p, M, G, H)
  PROVE  Type("renterrole") \in M /\ G = {}
<1>1. PICK x : /\ x.op = "create" /\ Type("renterrole") \in x.objects
               /\ First(Plan[0][j], x, Stamp(0, 1))
  BY EnumFirst
<1>2. x \in Passed(0, j, p)
  <2>1. \E l \in 1 .. p - 1 : Plan[0][j][l] = x
    BY <1>1 DEF First
  <2>2. QED
    BY <2>1 DEF Passed
<1>3. Type("renterrole") \in Created(Passed(0, j, p))
  BY <1>1, <1>2 DEF Created
<1>4. Type("renterrole") \notin Skippable
  BY PublicationThere DEF Skippable
<1>5. QED
  BY <1>3, <1>4 DEF GoesUp

\* The rows a transaction sees, and the ones a stamp leaves.
Seen(z, V) == IF z = NoStamp THEN V ELSE z
Leaves(s, z, V) == (Seen(z, V) \ {s.from}) \cup ({s.to} \ {0})

\* A stamp that finds its row brings the version one step further.
LEMMA VersionsStamp ==
  ASSUME NEW i \in Revision, NEW j \in Revision, NEW p \in 1 .. Len(Plan[i][j]),
         NEW s, s = Plan[i][j][p], s.op = "stamp",
         NEW C \in SUBSET Object, NEW V \in SUBSET (Revision \ {0}), AtRevision(C, V),
         NEW z, Stampable(s, Seen(z, V)),
         NEW M, NEW G, NEW H, Underway(i, j, p, M, G, H, z, C, V), Fits(M, G, H, C)
  PROVE  /\ Leaves(s, z, V) \in SUBSET (Revision \ {0})
         /\ Versions(i, j, p + 1, Leaves(s, z, V), V)
<1> DEFINE W == Seen(z, V)
           y == Leaves(s, z, V)
<1> /\ y = Leaves(s, z, V) /\ Stampable(s, W)
    /\ W = IF z = NoStamp THEN V ELSE z
    /\ y = (W \ {s.from}) \cup ({s.to} \ {0})
  BY DEF Seen, Leaves
<1> /\ Versions(i, j, p, z, V)
    /\ i <= j => GoesUp(i, j, p, M, G, H)
    /\ Keys(M) \cap Keys(C \ G) = {}
  BY DEF Underway, Fits
<1> HIDE DEF W, y
<1> DEFINE P == Passed(i, j, p)
           Z == Stamped(P)
<1>1. s \in Stamps(i, j) /\ Z \subseteq Stamps(i, j)
  <2>1. s \in Statements(Plan[i][j]) /\ P \subseteq Statements(Plan[i][j])
    BY PassedMore
  <2>2. s \in Stamped(Statements(Plan[i][j])) /\ Z \subseteq Stamped(Statements(Plan[i][j]))
    BY <2>1 DEF Stamped
  <2>3. QED
    BY <2>2, PlanListed
<1>2. i # j
  BY <1>1 DEF Stamps
<1>3. Stamped(Passed(i, j, p + 1)) = With(Z, s)
  BY PassedMore, StampedMore
<1>4. /\ z = NoStamp <=> Z = {}
      /\ z # NoStamp => /\ V = {i} \ {0}
                        /\ z = IF \E x \in Z : x.to = j THEN {j} \ {0} ELSE {1}
  BY DEF Versions
<1>5. \A k : First(Plan[i][j], Stamp(i, 1), s) => Stamp(i, 1) \in P
  BY DEF First, Passed
<1>6. \A x : First(Plan[i][j], s, x) => x \notin P
  BY DEF First, Passed
<1> HIDE DEF P, Z
<1>7. i = 0 => i <= j
  BY DEF Revision
<1>8. ASSUME V = {i} \ {0}, y = IF \E x \in With(Z, s) : x.to = j THEN {j} \ {0} ELSE {1}
      PROVE  y \in SUBSET (Revision \ {0}) /\ Versions(i, j, p + 1, y, V)
  <2>1. y \in SUBSET (Revision \ {0}) /\ y \in SUBSET Revision
    <3>1. {j} \ {0} \subseteq Revision \ {0} /\ {1} \subseteq Revision \ {0}
      BY DEF Revision
    <3>2. y = {j} \ {0} \/ y = {1}
      BY <1>8
    <3>3. QED
      BY <3>1, <3>2
  <2>2. y # NoStamp
    BY <2>1, SentinelAssumption
  <2>3. With(Z, s) # {}
    BY DEF With
  <2>4. QED
    BY <1>3, <1>8, <2>1, <2>2, <2>3 DEF Versions
\* The first stamp succeeds only at the revision the command has read: an UPDATE or
\* DELETE must find that row, and an INSERT comes after the making of a type.
<1>9. ASSUME NEW k, s = Stamp(i, k), i = 0 => k = 1, z = NoStamp
      PROVE  V = {i} \ {0}
  <2>1. CASE i # 0
    <3>1. i \in V
      BY <1>9, <2>1, StampFields DEF Stampable
    <3>2. QED
      BY <3>1 DEF AtRevision
  <2>2. CASE i = 0
    <3>1. j \in {1, 2} /\ GoesUp(0, j, p, M, G, H)
      BY <1>2, <1>7, <2>2, StampsFacts
    <3>2. Type("renterrole") \in M /\ G = {}
      BY <1>9, <2>2, <3>1, EnumMade
    <3>3. Type("renterrole") \notin C
      BY <3>2 DEF Keys
    <3>4. QED
      BY <2>2, <3>3, RevisionFacts
  <2>3. QED
    BY <2>1, <2>2
<1>10. CASE OneStep(i, j)
  <2>1. s = Stamp(i, j) /\ s.from = i /\ s.to = j
    BY <1>1, <1>2, <1>10, StampsFacts, StampFields
  <2>2. i = 0 => j = 1
    BY <1>10 DEF OneStep, Revision
  <2>3. CASE z = NoStamp
    <3>1. V = {i} \ {0}
      BY <1>9, <2>1, <2>2, <2>3
    <3>2. y = {j} \ {0}
      BY <2>1, <2>3, <3>1
    <3>3. \E x \in With(Z, s) : x.to = j
      BY <2>1 DEF With
    <3>4. QED
      BY <1>8, <3>1, <3>2, <3>3
  <2>4. CASE z # NoStamp
    <3>1. Z # {}
      BY <1>4, <2>4
    <3>2. \E x \in Z : x.to = j
      BY <1>1, <1>2, <1>10, <2>1, <3>1, StampsFacts
    <3>3. W = {j} \ {0}
      BY <1>4, <2>4, <3>2
    <3>4. ~Stampable(s, W)
      BY <1>2, <2>1, <2>2, <3>3 DEF Stampable
    <3>5. QED
      BY <3>4
  <2>5. QED
    BY <2>3, <2>4
<1>11. CASE ~OneStep(i, j)
  <2>1. /\ Stamps(i, j) = {Stamp(i, 1), Stamp(1, j)} /\ i # 1 /\ j # 1
        /\ First(Plan[i][j], Stamp(i, 1), Stamp(1, j))
    BY <1>2, <1>11, StampsFacts
  <2>2. /\ Stamp(i, 1).from = i /\ Stamp(i, 1).to = 1
        /\ Stamp(1, j).from = 1 /\ Stamp(1, j).to = j
    BY StampFields
  <2>3. \A x \in Z : x \in P
    BY DEF Z, Stamped
  <2>4. CASE z = NoStamp
    <3>1. s # Stamp(1, j)
      <4>1. ASSUME Stamp(i, 1) \in P PROVE Stamp(i, 1) \in Z
        BY <4>1, StampFields DEF Z, Stamped
      <4>2. QED
        BY <1>4, <1>5, <2>1, <2>4, <4>1
    <3>2. s = Stamp(i, 1)
      BY <1>1, <2>1, <3>1
    <3>3. V = {i} \ {0}
      BY <1>9, <2>4, <3>2
    <3>4. Z = {}
      BY <1>4, <2>4
    <3>5. ~\E x \in With(Z, s) : x.to = j
      BY <2>1, <2>2, <3>2, <3>4 DEF With
    <3>6. y = {1}
      BY <2>2, <2>4, <3>2, <3>3
    <3>7. QED
      BY <1>8, <3>3, <3>5, <3>6
  <2>5. CASE z # NoStamp
    <3>1. V = {i} \ {0} /\ Z # {}
      BY <1>4, <2>5
    <3>2. CASE s = Stamp(i, 1)
      <4>1. Stamp(1, j) \notin Z
        BY <1>6, <2>1, <2>3, <3>2
      <4>2. ~\E x \in Z : x.to = j
        BY <1>1, <2>1, <2>2, <4>1
      <4>3. W = {1}
        BY <1>4, <2>5, <4>2
      <4>4. ~Stampable(s, W)
        BY <2>1, <2>2, <3>2, <4>3 DEF Stampable
      <4>5. QED
        BY <4>4
    <3>3. CASE s = Stamp(1, j)
      <4>1. CASE \E x \in Z : x.to = j
        <5>1. W = {j} \ {0}
          BY <1>4, <2>5, <4>1
        <5>2. ~Stampable(s, W)
          BY <2>1, <2>2, <3>3, <5>1 DEF Stampable
        <5>3. QED
          BY <5>2
      <4>2. CASE ~\E x \in Z : x.to = j
        <5>1. W = {1}
          BY <1>4, <2>5, <4>2
        <5>2. y = {j} \ {0}
          BY <2>2, <3>3, <5>1
        <5>3. \E x \in With(Z, s) : x.to = j
          BY <2>2, <3>3 DEF With
        <5>4. QED
          BY <1>8, <3>1, <5>2, <5>3
      <4>3. QED
        BY <4>1, <4>2
    <3>4. QED
      BY <1>1, <2>1, <3>2, <3>3
  <2>6. QED
    BY <2>4, <2>5
<1>12. QED
  BY <1>10, <1>11

-----------------------------------------------------------------------------
(* The steps of a command, and what they leave to the others *)

\* Apart is symmetric.
LEMMA ApartTurned ==
  \A M, G, H, z, N, F, I, y : Apart(M, G, H, z, N, F, I, y) => Apart(N, F, I, y, M, G, H, z)
BY DEF Apart

\* A step of m that leaves the catalog, the version and the others alone.
LEMMA OthersStay ==
  ASSUME IInv, NEW m \in Migrator, UNCHANGED <<catalog, version>>,
         \A t \in Migrator \ {m} :
           /\ job'[t] = job[t] /\ pc'[t] = pc[t] /\ made'[t] = made[t] /\ gone'[t] = gone[t]
           /\ held'[t] = held[t] /\ stamped'[t] = stamped[t],
         TypeOK', CommandInv(m)', \A t \in Migrator \ {m} : PairInv(m, t)'
  PROVE  IInv'
<1>1. AtRevision(catalog, version)'
  BY DEF IInv
<1>2. \A t \in Migrator : CommandInv(t)'
  BY DEF IInv, CommandInv, Running
<1>3. ASSUME NEW t \in Migrator, NEW u \in Migrator, t # u
      PROVE  PairInv(t, u)'
  <2>1. CASE t = m
    BY <1>3, <2>1
  <2>2. CASE u = m
    <3>1. PairInv(u, t)'
      BY <1>3, <2>2
    <3>2. QED
      BY <3>1, ApartTurned DEF PairInv
  <2>3. CASE t # m /\ u # m
    BY <1>3, <2>3 DEF IInv, PairInv
  <2>4. QED
    BY <2>1, <2>2, <2>3
<1>4. QED
  BY <1>1, <1>2, <1>3 DEF IInv

\* The same for a step that advances m to a transaction that has made A and removed B
\* and would leave z.
LEMMA AdvanceKeeps ==
  ASSUME IInv, NEW m \in Migrator, Running(m), NEW n \in {1, 2}, Advance(m, n),
         NEW A \in SUBSET Object, made' = [made EXCEPT ![m] = A],
         NEW B \in SUBSET Object, gone' = [gone EXCEPT ![m] = B],
         NEW z \in (SUBSET (Revision \ {0})) \cup {NoStamp}, stamped' = [stamped EXCEPT ![m] = z],
         NEW H, H = held[m] \cup Locks(m), H \subseteq Tables(Object),
         Underway(job[m][1], job[m][2], pc[m] + n, A, B, H, z, catalog, version),
         Fits(A, B, H, catalog),
         \A t \in Migrator \ {m} :
           Apart(A, B, H, z, made[t], gone[t], held[t], stamped[t])
  PROVE  IInv'
<1>1. /\ catalog \subseteq Object
      /\ version \subseteq Revision \ {0}
      /\ listing \in [Asset -> ListingStatus \cup {"absent", "unlisted"}]
      /\ activated \subseteq Asset
      /\ job \in [Migrator -> (Revision \X Revision) \cup {NoJob}]
      /\ pc \in [Migrator -> Nat \ {0}]
      /\ made \in [Migrator -> SUBSET Object]
      /\ gone \in [Migrator -> SUBSET Object]
      /\ held \in [Migrator -> SUBSET Tables(Object)]
      /\ stamped \in [Migrator -> (SUBSET (Revision \ {0})) \cup {NoStamp}]
      /\ alone \in [Migrator -> BOOLEAN]
  BY DEF IInv, TypeOK
<1>2. /\ UNCHANGED <<catalog, version, listing, activated, job, alone>>
      /\ pc' = [pc EXCEPT ![m] = pc[m] + n]
      /\ held' = [held EXCEPT ![m] = H]
  BY DEF Advance, rows
<1>3. /\ pc'[m] = pc[m] + n /\ made'[m] = A /\ gone'[m] = B /\ held'[m] = H /\ stamped'[m] = z
      /\ \A t \in Migrator \ {m} :
           /\ job'[t] = job[t] /\ pc'[t] = pc[t] /\ made'[t] = made[t] /\ gone'[t] = gone[t]
           /\ held'[t] = held[t] /\ stamped'[t] = stamped[t]
  BY <1>1, <1>2
<1>4. TypeOK'
  <2>1. pc' \in [Migrator -> Nat \ {0}]
    BY <1>1, <1>2
  <2>2. made' \in [Migrator -> SUBSET Object] /\ gone' \in [Migrator -> SUBSET Object]
    BY <1>1
  <2>3. held' \in [Migrator -> SUBSET Tables(Object)]
    BY <1>1, <1>2
  <2>4. stamped' \in [Migrator -> (SUBSET (Revision \ {0})) \cup {NoStamp}]
    BY <1>1
  <2>5. QED
    BY <1>1, <1>2, <2>1, <2>2, <2>3, <2>4 DEF TypeOK
<1>5. CommandInv(m)'
  BY <1>2, <1>3 DEF CommandInv, Running
<1>6. \A t \in Migrator \ {m} : PairInv(m, t)'
  BY <1>3 DEF PairInv
<1>7. QED
  BY <1>2, <1>3, <1>4, <1>5, <1>6, OthersStay

\* Where a command is.
LEMMA Position ==
  ASSUME IInv, NEW m \in Migrator, Running(m)
  PROVE  /\ job[m] = <<job[m][1], job[m][2]>>
         /\ job[m][1] \in Revision /\ job[m][2] \in Revision
         /\ Underway(job[m][1], job[m][2], pc[m], made[m], gone[m], held[m], stamped[m],
                     catalog, version)
         /\ Fits(made[m], gone[m], held[m], catalog)
         /\ made[m] \in SUBSET Object /\ gone[m] \in SUBSET Object
         /\ held[m] \subseteq Tables(Object)
         /\ stamped[m] \in (SUBSET (Revision \ {0})) \cup {NoStamp}
         /\ catalog \in SUBSET Object /\ version \in SUBSET (Revision \ {0})
         /\ AtRevision(catalog, version)
         /\ Len(PlanOf(m)) \in Nat
         /\ PlanOf(m) = Plan[job[m][1]][job[m][2]]
         /\ ~Finished(m) => /\ pc[m] \in 1 .. Len(Plan[job[m][1]][job[m][2]])
                            /\ Statement(m) = Plan[job[m][1]][job[m][2]][pc[m]]
         /\ Finished(m) => pc[m] = Len(Plan[job[m][1]][job[m][2]]) + 1
<1>1. CommandInv(m) /\ TypeOK
  BY DEF IInv
<1>2. job[m] \in Revision \X Revision
  BY <1>1 DEF TypeOK, Running
<1>3. /\ job[m] = <<job[m][1], job[m][2]>>
      /\ job[m][1] \in Revision /\ job[m][2] \in Revision
  BY <1>2
<1>4. /\ Underway(job[m][1], job[m][2], pc[m], made[m], gone[m], held[m], stamped[m],
                  catalog, version)
      /\ Fits(made[m], gone[m], held[m], catalog)
  BY <1>1 DEF CommandInv
<1>5. /\ made[m] \in SUBSET Object /\ gone[m] \in SUBSET Object
      /\ held[m] \subseteq Tables(Object)
      /\ stamped[m] \in (SUBSET (Revision \ {0})) \cup {NoStamp}
      /\ catalog \in SUBSET Object /\ version \in SUBSET (Revision \ {0})
      /\ pc[m] \in Nat
  BY <1>1 DEF TypeOK
<1>6. AtRevision(catalog, version)
  BY DEF IInv
<1>7. PlanOf(m) = Plan[job[m][1]][job[m][2]] /\ Len(PlanOf(m)) \in Nat
  BY <1>3, PlanListed DEF PlanOf
<1>8. pc[m] \in 1 .. Len(Plan[job[m][1]][job[m][2]]) + 1
  BY <1>4 DEF Underway
<1>9. ~Finished(m) => /\ pc[m] \in 1 .. Len(Plan[job[m][1]][job[m][2]])
                      /\ Statement(m) = Plan[job[m][1]][job[m][2]][pc[m]]
  BY <1>7, <1>8 DEF Finished, Statement
<1>10. Finished(m) => pc[m] = Len(Plan[job[m][1]][job[m][2]]) + 1
  BY <1>7, <1>8 DEF Finished
<1>11. QED
  BY <1>3, <1>4, <1>5, <1>6, <1>7, <1>9, <1>10

\* What a statement locks.
LEMMA LocksFacts ==
  ASSUME NEW m
  PROVE  /\ Locks(m) \subseteq Tables(View(m))
         /\ Statement(m).op \notin {"create", "drop", "backfill"} => Locks(m) = {}
         /\ Statement(m).op = "create" =>
              \A o \in Statement(m).objects :
                o.table \in Tables(View(m)) =>
                  o.table \in Locks(m) \cup Tables(Statement(m).objects)
         /\ Statement(m).op = "drop" =>
              /\ \A o \in Victims(Statement(m).object, View(m)) :
                   o.table \in Tables(View(m)) => o.table \in Locks(m)
              /\ Statement(m).object[1] = "table" /\ Statement(m).object[3] \in Tables(View(m))
                   => Statement(m).object[3] \in Locks(m)
<1> DEFINE s == Statement(m)
           touched == UNION {{o.table} \cup o.needs : o \in Written(m)}
           dropped == IF s.op = "drop" /\ s.object[1] = "table" THEN {s.object[3]} ELSE {}
           filled == IF s.op = "backfill" THEN {s.table} ELSE {}
           new == IF s.op = "create" THEN s.objects ELSE {}
<1>1. Locks(m) = ((touched \cup dropped \cup filled) \cap Tables(View(m))) \ Tables(new)
  BY DEF Locks
<1>2. \A o \in Written(m) : o.table \in touched
  OBVIOUS
<1>3. s.op \notin {"create", "drop"} => touched = {}
  BY DEF Written
<1>4. s.op = "create" => Written(m) = s.objects /\ new = s.objects
  BY DEF Written
<1>5. s.op = "drop" => Written(m) = Victims(s.object, View(m))
  BY DEF Written
<1>6. Tables({}) = {}
  BY DEF Tables
<1>7. s.op = "drop" /\ s.object[1] = "table" => dropped = {s.object[3]}
  OBVIOUS
<1>8. /\ s.op # "drop" => dropped = {}
      /\ s.op # "backfill" => filled = {}
      /\ s.op = "drop" => new = {}
  OBVIOUS
<1>9. s = Statement(m)
  OBVIOUS
<1> HIDE DEF touched, dropped, filled, new, s
<1>10. Locks(m) \subseteq Tables(View(m))
  BY <1>1
<1>11. s.op \notin {"create", "drop", "backfill"} => Locks(m) = {}
  BY <1>1, <1>3, <1>8
<1>12. s.op = "create" =>
         \A o \in s.objects :
           o.table \in Tables(View(m)) => o.table \in Locks(m) \cup Tables(s.objects)
  BY <1>1, <1>2, <1>4
<1>13. s.op = "drop" =>
         /\ \A o \in Victims(s.object, View(m)) :
              o.table \in Tables(View(m)) => o.table \in Locks(m)
         /\ s.object[1] = "table" /\ s.object[3] \in Tables(View(m)) => s.object[3] \in Locks(m)
  BY <1>1, <1>2, <1>5, <1>6, <1>7, <1>8
<1>14. QED
  BY <1>9, <1>10, <1>11, <1>12, <1>13

\* The tables a transaction locks are there, or it has made them.
LEMMA LocksThere ==
  ASSUME IInv, NEW m \in Migrator, Running(m)
  PROVE  /\ \A x \in held[m] \cup Locks(m) : Table(x) \in catalog \cup made[m]
         /\ held[m] \cup Locks(m) \subseteq Tables(Object)
<1>1. View(m) \subseteq Object /\ View(m) \subseteq catalog \cup made[m]
  BY Position DEF View
<1>2. \A x \in Tables(View(m)) : Table(x) \in View(m)
  BY <1>1, ObjectTable DEF Tables
<1>3. Tables(View(m)) \subseteq Tables(Object)
  BY <1>1 DEF Tables
<1>4. Locks(m) \subseteq Tables(View(m))
  BY LocksFacts
<1>5. QED
  BY <1>1, <1>2, <1>3, <1>4, Position DEF Fits

\* What m writes and locks is nobody else's.
LEMMA NotWaiting ==
  ASSUME IInv, NEW m \in Migrator, Running(m), ~Finished(m), Unblocked(m), Applicable(m),
         NEW t \in Migrator \ {m}
  PROVE  /\ (held[m] \cup Locks(m)) \cap held[t] = {}
         /\ Keys(made[m] \cup gone[m] \cup Written(m)) \cap Keys(made[t] \cup gone[t]) = {}
         /\ Statement(m).op = "stamp" => stamped[t] = NoStamp
         /\ stamped[m] = NoStamp \/ stamped[t] = NoStamp
<1>1. /\ Locks(m) \cap held[t] = {}
      /\ Keys(Written(m)) \cap Keys(made[t] \cup gone[t]) = {}
      /\ Statement(m).op = "stamp" => stamped[t] = NoStamp
  BY DEF Unblocked, WaitsFor
<1>2. Apart(made[m], gone[m], held[m], stamped[m], made[t], gone[t], held[t], stamped[t])
  BY DEF IInv, PairInv
<1>3. Keys(made[m] \cup gone[m] \cup Written(m)) = Keys(made[m] \cup gone[m]) \cup Keys(Written(m))
  BY DEF Keys
<1>4. QED
  BY <1>1, <1>2, <1>3 DEF Apart

\* checkfirst and IF [NOT] EXISTS keep the invariant.
LEMMA LookKeeps ==
  ASSUME IInv, NEW m \in Migrator, Look(m)
  PROVE  IInv'
<1> DEFINE i == job[m][1]
           j == job[m][2]
           p == pc[m]
           s == Statement(m)
<1>1. Running(m) /\ ~Finished(m) /\ s.op \in Skip
  BY DEF Look, Skip
<1>2. /\ i \in Revision /\ j \in Revision /\ p \in 1 .. Len(Plan[i][j]) /\ s = Plan[i][j][p]
      /\ Underway(i, j, p, made[m], gone[m], held[m], stamped[m], catalog, version)
      /\ Fits(made[m], gone[m], held[m], catalog)
      /\ made[m] \in SUBSET Object /\ gone[m] \in SUBSET Object
      /\ stamped[m] \in (SUBSET (Revision \ {0})) \cup {NoStamp}
      /\ catalog \in SUBSET Object /\ AtRevision(catalog, version) /\ Len(Plan[i][j]) \in Nat
  BY <1>1, Position
<1>3. PICK n \in {1, 2} :
        Advance(m, n) /\ (n = 2 => (s.object \in View(m) <=> s.op = "skip if present"))
  <2>1. Advance(m, IF s.object \in View(m) <=> s.op = "skip if present" THEN 2 ELSE 1)
    BY DEF Look
  <2>2. CASE s.object \in View(m) <=> s.op = "skip if present"
    BY <2>1, <2>2
  <2>3. CASE ~(s.object \in View(m) <=> s.op = "skip if present")
    <3>1. Advance(m, 1)
      BY <2>1, <2>3
    <3>2. 1 # 2 /\ 1 \in {1, 2}
      OBVIOUS
    <3>3. QED
      BY <3>1, <3>2
  <2>4. QED
    BY <2>2, <2>3
<1>4. /\ made' = [made EXCEPT ![m] = made[m]] /\ gone' = [gone EXCEPT ![m] = gone[m]]
      /\ stamped' = [stamped EXCEPT ![m] = stamped[m]]
  BY DEF Look, IInv, TypeOK
<1>5. held[m] \cup Locks(m) \subseteq Tables(Object) /\ Locks(m) = {}
  BY <1>1, LocksFacts, LocksThere DEF Skip
<1> DEFINE H == held[m] \cup Locks(m)
<1>0. H = held[m] \cup Locks(m) /\ i = job[m][1] /\ j = job[m][2] /\ p = pc[m] /\ s = Statement(m)
  OBVIOUS
<1> HIDE DEF H, i, j, p, s
<1>6. /\ p + 1 \in 1 .. Len(Plan[i][j])
      /\ i <= j => s.op = "skip if present"
      /\ i > j => s.op = "skip if absent"
  BY <1>1, <1>2, Skips
<1>7. s.op # "create" /\ s.op # "drop" /\ s.op # "stamp"
  BY <1>1 DEF Skip
<1>8. p + n \in 1 .. Len(Plan[i][j]) + 1
  <2>0. Len(Plan[i][j]) \in Nat /\ p \in 1 .. Len(Plan[i][j]) /\ p + 1 \in 1 .. Len(Plan[i][j])
    BY <1>2, <1>6
  <2>1. p \in Nat /\ p + 1 <= Len(Plan[i][j])
    BY <2>0
  <2>2. CASE n = 1
    BY <2>0, <2>2
  <2>3. CASE n = 2
    BY <2>0, <2>1, <2>3
  <2>4. QED
    BY <2>2, <2>3
<1>9. ASSUME i <= j
      PROVE  GoesUp(i, j, p + n, made[m], gone[m], H)
  <2>1. GoesUp(i, j, p, made[m], gone[m], held[m])
    BY <1>2, <1>9 DEF Underway
  <2>2. GoesUp(i, j, p + 1, made[m], gone[m], H)
    BY <1>2, <1>7, <2>1, <1>0, UpPasses
  <2>3. GoesUp(i, j, p + 2, made[m], gone[m], H)
    BY <1>1, <1>2, <1>9, <2>1, <1>0, UpSkips
  <2>4. QED
    BY <2>2, <2>3
<1>10. ASSUME i > j
       PROVE  GoesDown(i, j, p + n, made[m], gone[m], H, catalog)
  <2>1. GoesDown(i, j, p, made[m], gone[m], held[m], catalog)
    BY <1>2, <1>10 DEF Underway
  <2>2. GoesDown(i, j, p + 1, made[m], gone[m], H, catalog)
    BY <1>2, <1>7, <2>1, <1>0, DownPasses
  <2>3. ASSUME n = 2
        PROVE  GoesDown(i, j, p + 2, made[m], gone[m], H, catalog)
    <3>1. Plan[i][j][p].object \notin catalog \ gone[m]
      BY <1>2, <1>3, <1>6, <1>10, <2>3 DEF View
    <3>2. gone[m] \subseteq catalog
      BY <1>2 DEF Fits
    <3>3. QED
      BY <1>1, <1>2, <1>10, <2>1, <3>1, <3>2, <1>0, DownSkips
  <2>4. QED
    BY <2>2, <2>3
<1>11. Versions(i, j, p + n, stamped[m], version)
  <2>1. Versions(i, j, p, stamped[m], version)
    BY <1>2 DEF Underway
  <2>2. /\ Versions(i, j, p + 1, stamped[m], version)
        /\ Versions(i, j, p + 2, stamped[m], version)
    BY <1>1, <1>2, <1>7, <2>1, VersionsPass
  <2>3. QED
    BY <2>2
<1>12. Underway(i, j, p + n, made[m], gone[m], H, stamped[m], catalog, version)
  BY <1>8, <1>9, <1>10, <1>11 DEF Underway
<1>13. Fits(made[m], gone[m], H, catalog)
  BY <1>0, <1>2, <1>5 DEF Fits
<1>14. \A t \in Migrator \ {m} :
         Apart(made[m], gone[m], H, stamped[m], made[t], gone[t], held[t], stamped[t])
  BY <1>0, <1>5 DEF IInv, PairInv
<1>15. QED
  BY <1>0, <1>1, <1>2, <1>3, <1>4, <1>5, <1>12, <1>13, <1>14, AdvanceKeeps

\* Commands that go up create and fill, commands that go down drop.
LEMMA Direction ==
  ASSUME IInv, NEW m \in Migrator, Running(m), ~Finished(m)
  PROVE  /\ Statement(m).op \in {"create", "backfill"} => job[m][1] <= job[m][2]
         /\ Statement(m).op = "drop" => job[m][1] > job[m][2]
<1> DEFINE i == job[m][1]
           j == job[m][2]
           s == Statement(m)
<1>1. i \in Revision /\ j \in Revision /\ pc[m] \in 1 .. Len(Plan[i][j]) /\ s = Plan[i][j][pc[m]]
  BY Position
<1> HIDE DEF s
<1>2. IF i <= j THEN UpStatement(s) ELSE DownStatement(s)
  BY <1>1, PassedMore, PlanListed
<1>3. (i <= j \/ i > j) /\ ~(i <= j /\ i > j)
  BY <1>1 DEF Revision
<1>4. UpStatement(s) => s.op # "drop"
  BY DEF UpStatement
<1>5. DownStatement(s) => s.op \notin {"create", "backfill"}
  BY DEF DownStatement
<1>6. QED
  BY <1>2, <1>3, <1>4, <1>5 DEF s

\* A CREATE or ADD keeps the invariant.
LEMMA CreateKeeps ==
  ASSUME IInv, NEW m \in Migrator, Execute(m), Statement(m).op = "create"
  PROVE  IInv'
<1> DEFINE i == job[m][1]
           j == job[m][2]
           p == pc[m]
           s == Statement(m)
           H == held[m] \cup Locks(m)
<1>0. H = held[m] \cup Locks(m) /\ i = job[m][1] /\ j = job[m][2] /\ p = pc[m] /\ s = Statement(m)
  OBVIOUS
<1>1. Running(m) /\ ~Finished(m) /\ Unblocked(m) /\ Applicable(m) /\ Advance(m, 1)
  BY DEF Execute
<1>2. /\ i \in Revision /\ j \in Revision /\ p \in 1 .. Len(Plan[i][j]) /\ s = Plan[i][j][p]
      /\ Underway(i, j, p, made[m], gone[m], held[m], stamped[m], catalog, version)
      /\ Fits(made[m], gone[m], held[m], catalog)
      /\ made[m] \in SUBSET Object /\ gone[m] \in SUBSET Object
      /\ stamped[m] \in (SUBSET (Revision \ {0})) \cup {NoStamp}
      /\ catalog \in SUBSET Object /\ AtRevision(catalog, version) /\ Len(Plan[i][j]) \in Nat
  BY <1>1, Position
<1>3. H \subseteq Tables(Object) /\ \A x \in H : Table(x) \in catalog \cup made[m]
  BY <1>1, LocksThere
<1>4. i <= j
  BY <1>1, Direction
<1> DEFINE S == s.objects
           A == made[m] \cup S
<1>5. Written(m) = S
  BY DEF Written
<1>6. made' = [made EXCEPT ![m] = A] /\ gone' = [gone EXCEPT ![m] = gone[m]]
      /\ stamped' = [stamped EXCEPT ![m] = stamped[m]]
  <2>1. made' = [made EXCEPT ![m] = made[m] \cup Written(m)] /\ UNCHANGED <<gone, stamped>>
    BY DEF Execute
  <2>2. QED
    BY <1>5, <2>1 DEF IInv, TypeOK
<1>7. Creatable(S, (catalog \ gone[m]) \cup made[m])
  BY <1>1 DEF Applicable, View
<1>8. \A o \in S : o.table \in Tables((catalog \ gone[m]) \cup made[m])
                     => o.table \in Locks(m) \cup Tables(S)
  BY LocksFacts DEF View
<1>10. GoesUp(i, j, p, made[m], gone[m], held[m]) /\ Versions(i, j, p, stamped[m], version)
  BY <1>2, <1>4 DEF Underway
<1>11. s.op = "create" /\ s.op # "stamp"
  OBVIOUS
<1>12. S = s.objects /\ A = made[m] \cup S
  OBVIOUS
<1>13. \A t \in Migrator \ {m} :
         Apart(A, gone[m], H, stamped[m], made[t], gone[t], held[t], stamped[t])
  <2> TAKE t \in Migrator \ {m}
  <2>1. /\ H \cap held[t] = {}
        /\ Keys(made[m] \cup gone[m] \cup Written(m)) \cap Keys(made[t] \cup gone[t]) = {}
        /\ stamped[m] = NoStamp \/ stamped[t] = NoStamp
    BY <1>1, NotWaiting
  <2>2. A \cup gone[m] = made[m] \cup gone[m] \cup Written(m)
    BY <1>5
  <2>3. QED
    BY <2>1, <2>2 DEF Apart
<1> HIDE DEF i, j, p, s, H, S, A
<1>14. S \subseteq Object /\ GoesUp(i, j, p + 1, A, gone[m], H)
  <2>1. S = Plan[i][j][p].objects /\ Plan[i][j][p].op = "create"
    BY <1>2, <1>11, <1>12
  <2>2. GoesUp(i, j, p, made[m], gone[m], held[m])
    BY <1>10
  <2>3. /\ i \in Revision /\ j \in Revision /\ p \in 1 .. Len(Plan[i][j])
        /\ made[m] \in SUBSET Object /\ catalog \in SUBSET Object /\ AtRevision(catalog, version)
    BY <1>2
  <2>4. S \subseteq Object /\ GoesUp(i, j, p + 1, made[m] \cup S, gone[m], held[m] \cup Locks(m))
    <3>1. MayCreate(S, made[m], gone[m], Locks(m), catalog)
      BY <1>7, <1>8 DEF MayCreate
    <3>2. QED
      BY <1>4, <2>1, <2>2, <2>3, <3>1, UpCreates
  <2>5. QED
    BY <1>0, <1>12, <2>4
<1>15. Versions(i, j, p + 1, stamped[m], version)
  BY <1>2, <1>10, <1>11, VersionsPass
<1>16. p + 1 \in 1 .. Len(Plan[i][j]) + 1
  <2>1. p \in 1 .. Len(Plan[i][j]) /\ Len(Plan[i][j]) \in Nat
    BY <1>2
  <2>2. QED
    BY <2>1
<1>17. Underway(i, j, p + 1, A, gone[m], H, stamped[m], catalog, version)
  <2>1. ~(i > j)
    BY <1>2, <1>4 DEF Revision
  <2>2. QED
    BY <1>4, <1>14, <1>15, <1>16, <2>1 DEF Underway
<1>18. Fits(A, gone[m], H, catalog)
  <2>1. Keys(S) \cap Keys((catalog \ gone[m]) \cup made[m]) = {}
    BY <1>7 DEF Creatable
  <2>2. Keys(A) \cap Keys(catalog \ gone[m]) = {}
    BY <1>2, <1>12, <2>1 DEF Fits, Keys
  <2>3. QED
    BY <1>2, <1>3, <1>12, <2>2 DEF Fits
<1>19. A \in SUBSET Object
  BY <1>2, <1>12, <1>14
<1>20. QED
  BY <1>0, <1>1, <1>2, <1>3, <1>6, <1>13, <1>17, <1>18, <1>19, AdvanceKeeps

\* A DROP keeps the invariant.
LEMMA DropKeeps ==
  ASSUME IInv, NEW m \in Migrator, Execute(m), Statement(m).op = "drop"
  PROVE  IInv'
<1> DEFINE i == job[m][1]
           j == job[m][2]
           p == pc[m]
           s == Statement(m)
           H == held[m] \cup Locks(m)
<1>0. H = held[m] \cup Locks(m) /\ i = job[m][1] /\ j = job[m][2] /\ p = pc[m] /\ s = Statement(m)
  OBVIOUS
<1>1. Running(m) /\ ~Finished(m) /\ Unblocked(m) /\ Applicable(m) /\ Advance(m, 1)
  BY DEF Execute
<1>2. /\ i \in Revision /\ j \in Revision /\ p \in 1 .. Len(Plan[i][j]) /\ s = Plan[i][j][p]
      /\ Underway(i, j, p, made[m], gone[m], held[m], stamped[m], catalog, version)
      /\ Fits(made[m], gone[m], held[m], catalog)
      /\ made[m] \in SUBSET Object /\ gone[m] \in SUBSET Object
      /\ stamped[m] \in (SUBSET (Revision \ {0})) \cup {NoStamp}
      /\ catalog \in SUBSET Object /\ AtRevision(catalog, version) /\ Len(Plan[i][j]) \in Nat
  BY <1>1, Position
<1>3. H \subseteq Tables(Object) /\ \A x \in H : Table(x) \in catalog \cup made[m]
  BY <1>1, LocksThere
<1>4. i > j /\ ~(i <= j)
  BY <1>1, <1>2, Direction DEF Revision
<1> DEFINE key == s.object
           W == Written(m)
           A == made[m]
           B == gone[m] \cup W
<1>5. GoesDown(i, j, p, made[m], gone[m], held[m], catalog)
      /\ Versions(i, j, p, stamped[m], version)
  BY <1>2, <1>4 DEF Underway
<1>6. View(m) = catalog \ gone[m] /\ made[m] = {}
  BY <1>5 DEF GoesDown, View
<1>7. W = Victims(key, catalog \ gone[m])
  BY <1>6 DEF Written
<1>8. W \subseteq catalog
  BY <1>7 DEF Victims
<1>9. made' = [made EXCEPT ![m] = A] /\ gone' = [gone EXCEPT ![m] = B]
      /\ stamped' = [stamped EXCEPT ![m] = stamped[m]]
  <2>1. /\ made' = [made EXCEPT ![m] = made[m] \ W]
        /\ gone' = [gone EXCEPT ![m] = gone[m] \cup (W \cap catalog)]
        /\ UNCHANGED stamped
    BY DEF Execute
  <2>2. made[m] \ W = A /\ gone[m] \cup (W \cap catalog) = B
    BY <1>6, <1>8
  <2>3. QED
    BY <2>1, <2>2 DEF IInv, TypeOK
<1>10. Droppable(key, catalog \ gone[m])
  BY <1>1, <1>6 DEF Applicable
<1>11. /\ \A o \in W : o.table \in Tables(catalog \ gone[m]) => o.table \in Locks(m)
       /\ key[1] = "table" /\ key[3] \in Tables(catalog \ gone[m]) => key[3] \in Locks(m)
  BY <1>6, <1>7, LocksFacts
<1>12. s.op = "drop" /\ s.op # "stamp"
  OBVIOUS
<1>13. A = made[m] /\ key = s.object /\ B = gone[m] \cup W
  OBVIOUS
<1>14. \A t \in Migrator \ {m} :
         Apart(A, B, H, stamped[m], made[t], gone[t], held[t], stamped[t])
  <2> TAKE t \in Migrator \ {m}
  <2>1. /\ H \cap held[t] = {}
        /\ Keys(made[m] \cup gone[m] \cup Written(m)) \cap Keys(made[t] \cup gone[t]) = {}
        /\ stamped[m] = NoStamp \/ stamped[t] = NoStamp
    BY <1>1, NotWaiting
  <2>2. A \cup B = made[m] \cup gone[m] \cup Written(m)
    OBVIOUS
  <2>3. QED
    BY <2>1, <2>2 DEF Apart
<1> HIDE DEF i, j, p, s, H, key, W, A, B
<1>15. gone[m] \subseteq catalog
  BY <1>2 DEF Fits
<1>16. GoesDown(i, j, p + 1, A, B, H, catalog)
  BY <1>0, <1>2, <1>4, <1>5, <1>7, <1>10, <1>11, <1>12, <1>13, <1>15, DownDrops
<1>17. Versions(i, j, p + 1, stamped[m], version)
  BY <1>2, <1>5, <1>12, VersionsPass
<1>18. p + 1 \in 1 .. Len(Plan[i][j]) + 1
  <2>1. p \in 1 .. Len(Plan[i][j]) /\ Len(Plan[i][j]) \in Nat
    BY <1>2
  <2>2. QED
    BY <2>1
<1>19. Underway(i, j, p + 1, A, B, H, stamped[m], catalog, version)
  BY <1>4, <1>16, <1>17, <1>18 DEF Underway
<1>20. Fits(A, B, H, catalog)
  <2>1. Keys(A) = {}
    BY <1>6, <1>13 DEF Keys
  <2>2. QED
    BY <1>3, <1>8, <1>13, <1>15, <2>1 DEF Fits
<1>21. A \in SUBSET Object /\ B \in SUBSET Object
  BY <1>2, <1>8, <1>13
<1>22. QED
  BY <1>0, <1>1, <1>2, <1>3, <1>9, <1>14, <1>19, <1>20, <1>21, AdvanceKeeps

\* The backfill keeps the invariant.
LEMMA BackfillKeeps ==
  ASSUME IInv, NEW m \in Migrator, Execute(m), Statement(m).op = "backfill"
  PROVE  IInv'
<1> DEFINE i == job[m][1]
           j == job[m][2]
           p == pc[m]
           s == Statement(m)
           H == held[m] \cup Locks(m)
<1>0. H = held[m] \cup Locks(m) /\ i = job[m][1] /\ j = job[m][2] /\ p = pc[m] /\ s = Statement(m)
  OBVIOUS
<1>1. Running(m) /\ ~Finished(m) /\ Unblocked(m) /\ Applicable(m) /\ Advance(m, 1)
  BY DEF Execute
<1>2. /\ i \in Revision /\ j \in Revision /\ p \in 1 .. Len(Plan[i][j]) /\ s = Plan[i][j][p]
      /\ Underway(i, j, p, made[m], gone[m], held[m], stamped[m], catalog, version)
      /\ Fits(made[m], gone[m], held[m], catalog)
      /\ made[m] \in SUBSET Object /\ gone[m] \in SUBSET Object
      /\ stamped[m] \in (SUBSET (Revision \ {0})) \cup {NoStamp}
      /\ catalog \in SUBSET Object /\ AtRevision(catalog, version) /\ Len(Plan[i][j]) \in Nat
  BY <1>1, Position
<1>3. H \subseteq Tables(Object) /\ \A x \in H : Table(x) \in catalog \cup made[m]
  BY <1>1, LocksThere
<1>4. i <= j /\ ~(i > j)
  BY <1>1, <1>2, Direction DEF Revision
<1>5. made' = [made EXCEPT ![m] = made[m]] /\ gone' = [gone EXCEPT ![m] = gone[m]]
      /\ stamped' = [stamped EXCEPT ![m] = stamped[m]]
  <2>1. UNCHANGED <<made, gone, stamped>>
    BY DEF Execute
  <2>2. QED
    BY <2>1 DEF IInv, TypeOK
<1>6. GoesUp(i, j, p, made[m], gone[m], held[m]) /\ Versions(i, j, p, stamped[m], version)
  BY <1>2, <1>4 DEF Underway
<1>7. s.op # "create" /\ s.op # "stamp"
  OBVIOUS
<1>8. \A t \in Migrator \ {m} :
        Apart(made[m], gone[m], H, stamped[m], made[t], gone[t], held[t], stamped[t])
  <2> TAKE t \in Migrator \ {m}
  <2>1. H \cap held[t] = {}
    BY <1>1, NotWaiting
  <2>2. QED
    BY <2>1 DEF IInv, PairInv, Apart
<1> HIDE DEF i, j, p, s, H
<1>9. GoesUp(i, j, p + 1, made[m], gone[m], H)
  BY <1>0, <1>2, <1>6, <1>7, UpPasses
<1>10. Versions(i, j, p + 1, stamped[m], version)
  BY <1>2, <1>6, <1>7, VersionsPass
<1>11. p + 1 \in 1 .. Len(Plan[i][j]) + 1
  <2>1. p \in 1 .. Len(Plan[i][j]) /\ Len(Plan[i][j]) \in Nat
    BY <1>2
  <2>2. QED
    BY <2>1
<1>12. Underway(i, j, p + 1, made[m], gone[m], H, stamped[m], catalog, version)
  BY <1>4, <1>9, <1>10, <1>11 DEF Underway
<1>13. Fits(made[m], gone[m], H, catalog)
  BY <1>2, <1>3 DEF Fits
<1>14. QED
  BY <1>0, <1>1, <1>2, <1>3, <1>5, <1>8, <1>12, <1>13, AdvanceKeeps

\* The write of the version row keeps the invariant.
LEMMA WriteVersionKeeps ==
  ASSUME IInv, NEW m \in Migrator, WriteVersion(m)
  PROVE  IInv'
<1> DEFINE i == job[m][1]
           j == job[m][2]
           p == pc[m]
           s == Statement(m)
           H == held[m] \cup Locks(m)
<1>0. H = held[m] \cup Locks(m) /\ i = job[m][1] /\ j = job[m][2] /\ p = pc[m] /\ s = Statement(m)
  OBVIOUS
<1>1. Running(m) /\ ~Finished(m) /\ Unblocked(m) /\ Applicable(m) /\ Advance(m, 1)
      /\ s.op = "stamp"
  BY DEF WriteVersion
<1>2. /\ i \in Revision /\ j \in Revision /\ p \in 1 .. Len(Plan[i][j]) /\ s = Plan[i][j][p]
      /\ Underway(i, j, p, made[m], gone[m], held[m], stamped[m], catalog, version)
      /\ Fits(made[m], gone[m], held[m], catalog)
      /\ made[m] \in SUBSET Object /\ gone[m] \in SUBSET Object
      /\ stamped[m] \in (SUBSET (Revision \ {0})) \cup {NoStamp}
      /\ catalog \in SUBSET Object /\ AtRevision(catalog, version) /\ Len(Plan[i][j]) \in Nat
  BY <1>1, Position
<1>3. H \subseteq Tables(Object) /\ \A x \in H : Table(x) \in catalog \cup made[m]
  BY <1>1, LocksThere
<1> DEFINE W == VersionSeen(m)
           y == (W \ {s.from}) \cup ({s.to} \ {0})
<1>4. made' = [made EXCEPT ![m] = made[m]] /\ gone' = [gone EXCEPT ![m] = gone[m]]
      /\ stamped' = [stamped EXCEPT ![m] = y]
  <2>1. UNCHANGED <<made, gone>> /\ stamped' = [stamped EXCEPT ![m] = y]
    BY DEF WriteVersion
  <2>2. QED
    BY <2>1 DEF IInv, TypeOK
<1>5. Stampable(s, W)
  BY <1>1 DEF Applicable
<1>6. W = IF stamped[m] = NoStamp THEN version ELSE stamped[m]
  BY DEF VersionSeen
<1>7. version \in SUBSET (Revision \ {0}) /\ y = (W \ {s.from}) \cup ({s.to} \ {0})
  BY <1>1, Position
<1>8. \A t \in Migrator \ {m} :
        Apart(made[m], gone[m], H, y, made[t], gone[t], held[t], stamped[t])
  <2> TAKE t \in Migrator \ {m}
  <2>1. H \cap held[t] = {} /\ stamped[t] = NoStamp
    BY <1>1, NotWaiting
  <2>2. QED
    BY <2>1 DEF IInv, PairInv, Apart
<1> HIDE DEF i, j, p, s, H, W, y
<1>9. s.op # "create" /\ s.op # "drop" /\ (i <= j \/ i > j)
  BY <1>1, <1>2 DEF Revision
<1>10. i <= j => GoesUp(i, j, p + 1, made[m], gone[m], H)
  <2>1. i <= j => GoesUp(i, j, p, made[m], gone[m], held[m])
    BY <1>2 DEF Underway
  <2>2. QED
    BY <1>0, <1>2, <1>9, <2>1, UpPasses
<1>11. i > j => GoesDown(i, j, p + 1, made[m], gone[m], H, catalog)
  <2>1. i > j => GoesDown(i, j, p, made[m], gone[m], held[m], catalog)
    BY <1>2 DEF Underway
  <2>2. QED
    BY <1>0, <1>2, <1>9, <2>1, DownPasses
<1>12. y \in SUBSET (Revision \ {0}) /\ Versions(i, j, p + 1, y, version)
  <2>1. s = Plan[i][j][p] /\ s.op = "stamp"
    BY <1>1, <1>2
  <2>2. Stampable(s, Seen(stamped[m], version)) /\ y = Leaves(s, stamped[m], version)
    BY <1>5, <1>6, <1>7 DEF Seen, Leaves
  <2>3. /\ i \in Revision /\ j \in Revision /\ p \in 1 .. Len(Plan[i][j])
        /\ catalog \in SUBSET Object /\ version \in SUBSET (Revision \ {0})
    BY <1>2, <1>7
  <2>4. /\ Underway(i, j, p, made[m], gone[m], held[m], stamped[m], catalog, version)
        /\ Fits(made[m], gone[m], held[m], catalog) /\ AtRevision(catalog, version)
    BY <1>2
  <2>5. /\ Leaves(s, stamped[m], version) \in SUBSET (Revision \ {0})
        /\ Versions(i, j, p + 1, Leaves(s, stamped[m], version), version)
    BY <2>1, <2>2, <2>3, <2>4, VersionsStamp
  <2>6. QED
    BY <2>2, <2>5
<1>13. p + 1 \in 1 .. Len(Plan[i][j]) + 1
  <2>1. p \in 1 .. Len(Plan[i][j]) /\ Len(Plan[i][j]) \in Nat
    BY <1>2
  <2>2. QED
    BY <2>1
<1>14. Underway(i, j, p + 1, made[m], gone[m], H, y, catalog, version)
  BY <1>10, <1>11, <1>12, <1>13 DEF Underway
<1>15. Fits(made[m], gone[m], H, catalog)
  BY <1>2, <1>3 DEF Fits
<1>16. QED
  BY <1>0, <1>1, <1>2, <1>3, <1>4, <1>8, <1>12, <1>14, <1>15, AdvanceKeeps

-----------------------------------------------------------------------------
(* The start of a command, and the ends that leave nothing behind *)

\* No statement has passed.
LEMMA Empty ==
  /\ Created({}) = {} /\ Dropped({}) = {} /\ Stamped({}) = {}
  /\ Keys({}) = {}
BY DEF Created, Dropped, Stamped, Keys

\* A command that starts has done nothing.
LEMMA StartUnderway ==
  ASSUME NEW i \in Revision, NEW j \in Revision, NEW C, NEW V
  PROVE  Underway(i, j, 1, {}, {}, {}, NoStamp, C, V)
<1>1. Passed(i, j, 1) = {} /\ Len(Plan[i][j]) \in Nat
  BY PassedEnds, PlanListed
<1>2. GoesUp(i, j, 1, {}, {}, {})
  BY <1>1, Empty DEF GoesUp
<1>3. GoesDown(i, j, 1, {}, {}, {}, C)
  BY <1>1, Empty DEF GoesDown
<1>4. Versions(i, j, 1, NoStamp, V)
  BY <1>1, Empty DEF Versions
<1>5. 1 \in 1 .. Len(Plan[i][j]) + 1
  BY <1>1
<1>6. QED
  BY <1>2, <1>3, <1>4, <1>5 DEF Underway

\* The revision a command reads is the one the database is at.
LEMMA StartReads ==
  ASSUME IInv, NEW m \in Migrator, Start(m)
  PROVE  \E i \in Revision, j \in Revision :
           version = {i} \ {0} /\ job' = [job EXCEPT ![m] = <<i, j>>]
<1>1. PICK from \in (IF version = {} THEN {0} ELSE version), j \in Revision :
        job' = [job EXCEPT ![m] = <<from, j>>]
  BY DEF Start
<1>2. PICK i \in Revision : version = {i} \ {0}
  BY DEF IInv, AtRevision
<1>3. from = i
  BY <1>1, <1>2 DEF Revision
<1>4. QED
  BY <1>1, <1>2, <1>3

\* The start of a command keeps the invariant.
LEMMA StartKeeps ==
  ASSUME IInv, NEW m \in Migrator, Start(m)
  PROVE  IInv'
<1>1. PICK i \in Revision, j \in Revision : job' = [job EXCEPT ![m] = <<i, j>>]
  BY StartReads
<1>2. TypeOK /\ CommandInv(m) /\ \A t \in Migrator \ {m} : PairInv(m, t)
  BY DEF IInv
<1>3. /\ UNCHANGED <<catalog, version, listing, activated, pc, made, gone, held, stamped>>
      /\ alone' = [t \in Migrator |-> t = m /\ \A x \in Migrator : ~Running(x)]
      /\ ~Running(m)
  BY DEF Start, rows, transaction
<1>4. <<i, j>> \in Revision \X Revision /\ <<i, j>> # NoJob
  BY <1>1, SentinelAssumption
<1>5. TypeOK'
  <2>1. job' \in [Migrator -> (Revision \X Revision) \cup {NoJob}]
    BY <1>1, <1>2, <1>4 DEF TypeOK
  <2>2. alone' \in [Migrator -> BOOLEAN]
    BY <1>3
  <2>3. QED
    BY <1>2, <1>3, <2>1, <2>2 DEF TypeOK
<1>6. job'[m] = <<i, j>> /\ \A t \in Migrator \ {m} : job'[t] = job[t]
  BY <1>1, <1>2 DEF TypeOK
<1>7. CommandInv(m)'
  <2>1. /\ pc[m] = 1 /\ made[m] = {} /\ gone[m] = {} /\ held[m] = {} /\ stamped[m] = NoStamp
        /\ Fits(made[m], gone[m], held[m], catalog)
    BY <1>2, <1>3 DEF CommandInv, Idle
  <2>2. Underway(i, j, 1, {}, {}, {}, NoStamp, catalog, version)
    BY StartUnderway
  <2>3. job'[m][1] = i /\ job'[m][2] = j /\ job'[m] # NoJob
    BY <1>4, <1>6
  <2>4. QED
    BY <1>3, <2>1, <2>2, <2>3 DEF CommandInv, Running
<1>8. \A t \in Migrator \ {m} : PairInv(m, t)'
  BY <1>2, <1>3 DEF PairInv
<1>9. QED
  BY <1>3, <1>5, <1>6, <1>7, <1>8, OthersStay

\* What leaving does.
LEMMA LeaveFacts ==
  ASSUME TypeOK, NEW m \in Migrator, Leave(m)
  PROVE  /\ job'[m] = NoJob /\ pc'[m] = 1 /\ made'[m] = {} /\ gone'[m] = {} /\ held'[m] = {}
         /\ stamped'[m] = NoStamp
         /\ \A t \in Migrator \ {m} :
              /\ job'[t] = job[t] /\ pc'[t] = pc[t] /\ made'[t] = made[t] /\ gone'[t] = gone[t]
              /\ held'[t] = held[t] /\ stamped'[t] = stamped[t]
         /\ job' \in [Migrator -> (Revision \X Revision) \cup {NoJob}]
         /\ pc' \in [Migrator -> Nat \ {0}]
         /\ made' \in [Migrator -> SUBSET Object] /\ gone' \in [Migrator -> SUBSET Object]
         /\ held' \in [Migrator -> SUBSET Tables(Object)]
         /\ stamped' \in [Migrator -> (SUBSET (Revision \ {0})) \cup {NoStamp}]
         /\ alone' \in [Migrator -> BOOLEAN]
<1>1. /\ job \in [Migrator -> (Revision \X Revision) \cup {NoJob}]
      /\ pc \in [Migrator -> Nat \ {0}]
      /\ made \in [Migrator -> SUBSET Object] /\ gone \in [Migrator -> SUBSET Object]
      /\ held \in [Migrator -> SUBSET Tables(Object)]
      /\ stamped \in [Migrator -> (SUBSET (Revision \ {0})) \cup {NoStamp}]
      /\ alone \in [Migrator -> BOOLEAN]
  BY DEF TypeOK
<1>2. /\ job' = [job EXCEPT ![m] = NoJob] /\ pc' = [pc EXCEPT ![m] = 1]
      /\ made' = [made EXCEPT ![m] = {}] /\ gone' = [gone EXCEPT ![m] = {}]
      /\ held' = [held EXCEPT ![m] = {}] /\ stamped' = [stamped EXCEPT ![m] = NoStamp]
      /\ alone' = [alone EXCEPT ![m] = FALSE]
  BY DEF Leave
<1>3. {} \in SUBSET Object /\ {} \in SUBSET Tables(Object) /\ 1 \in Nat \ {0}
  OBVIOUS
<1>4. job' \in [Migrator -> (Revision \X Revision) \cup {NoJob}] /\ pc' \in [Migrator -> Nat \ {0}]
  BY <1>1, <1>2
<1>5. made' \in [Migrator -> SUBSET Object] /\ gone' \in [Migrator -> SUBSET Object]
  BY <1>1, <1>2
<1>6. held' \in [Migrator -> SUBSET Tables(Object)]
  BY <1>1, <1>2
<1>7. /\ stamped' \in [Migrator -> (SUBSET (Revision \ {0})) \cup {NoStamp}]
      /\ alone' \in [Migrator -> BOOLEAN]
  BY <1>1, <1>2
<1>8. QED
  BY <1>1, <1>2, <1>4, <1>5, <1>6, <1>7

\* Nothing is apart from everything.
LEMMA ApartFromNothing ==
  \A N, F, I, y : Apart({}, {}, {}, NoStamp, N, F, I, y)
<1>1. {} \cup {} = {}
  OBVIOUS
<1>2. QED
  BY <1>1, Empty DEF Apart

\* After leaving, a command is idle and apart from the others.
LEMMA LeaveIdle ==
  ASSUME IInv, NEW m \in Migrator, Leave(m)
  PROVE  /\ CommandInv(m)'
         /\ \A t \in Migrator \ {m} : PairInv(m, t)'
<1>1. /\ job'[m] = NoJob /\ pc'[m] = 1 /\ made'[m] = {} /\ gone'[m] = {} /\ held'[m] = {}
      /\ stamped'[m] = NoStamp
  BY LeaveFacts DEF IInv
<1>2. Fits({}, {}, {}, catalog')
  BY Empty DEF Fits
<1>3. CommandInv(m)'
  BY <1>1, <1>2 DEF CommandInv, Running, Idle
<1>4. \A t \in Migrator \ {m} : PairInv(m, t)'
  BY <1>1, ApartFromNothing DEF PairInv
<1>5. QED
  BY <1>3, <1>4

\* An error, a deadlock and a crash keep the invariant.
LEMMA RollBackKeeps ==
  ASSUME IInv, NEW m \in Migrator, RollBack(m)
  PROVE  IInv'
<1>1. Leave(m) /\ UNCHANGED <<catalog, version, listing, activated>>
  BY DEF RollBack, rows
<1>2. TypeOK
  BY DEF IInv
<1>3. TypeOK'
  BY <1>1, <1>2, LeaveFacts DEF TypeOK
<1>4. \A t \in Migrator \ {m} :
        /\ job'[t] = job[t] /\ pc'[t] = pc[t] /\ made'[t] = made[t] /\ gone'[t] = gone[t]
        /\ held'[t] = held[t] /\ stamped'[t] = stamped[t]
  BY <1>1, <1>2, LeaveFacts
<1>5. QED
  BY <1>1, <1>3, <1>4, LeaveIdle, OthersStay

\* What leaves the commands alone.
LEMMA NoCommandKeeps ==
  ASSUME IInv, UNCHANGED <<catalog, version, job, pc, transaction>>, TypeOK'
  PROVE  IInv'
<1>1. UNCHANGED <<catalog, version, job, pc, made, gone, held, stamped>>
  BY DEF transaction
<1>2. QED
  BY <1>1 DEF IInv, CommandInv, PairInv, Running

\* The operators' writes keep the invariant.
LEMMA OperatorKeeps ==
  ASSUME IInv, NEW a \in Asset, InsertAsset(a) \/ Review(a)
  PROVE  IInv'
<1>1. TypeOK
  BY DEF IInv
<1>2. UNCHANGED <<catalog, version, job, pc, transaction, alone>>
  BY DEF InsertAsset, Review
<1>3. /\ listing' \in [Asset -> ListingStatus \cup {"absent", "unlisted"}]
      /\ activated' \subseteq Asset
  <2>1. CASE InsertAsset(a)
    BY <1>1, <2>1, ListingAssumption DEF InsertAsset, ServerDefault, TypeOK
  <2>2. CASE Review(a)
    <3>1. PICK s \in ListingStatus :
            /\ listing' = [listing EXCEPT ![a] = s]
            /\ activated' = IF s = "active" THEN activated \cup {a} ELSE activated
      BY <2>2 DEF Review
    <3>2. QED
      BY <1>1, <3>1 DEF TypeOK
  <2>3. QED
    BY <2>1, <2>2
<1>4. TypeOK'
  BY <1>1, <1>2, <1>3 DEF TypeOK, transaction
<1>5. QED
  BY <1>2, <1>4, NoCommandKeeps

-----------------------------------------------------------------------------
(* The commit of a command *)

\* A command that commits takes the database from the revision it has read to its
\* target, and one that stays where it is leaves it where it was.
LEMMA Arrives ==
  ASSUME IInv, NEW m \in Migrator, Running(m), Finished(m)
  PROVE  /\ AtRevision(View(m), VersionSeen(m))
         /\ job[m][1] # job[m][2] => /\ version = {job[m][1]} \ {0}
                                     /\ VersionSeen(m) = {job[m][2]} \ {0}
         /\ job[m][1] = job[m][2] => VersionSeen(m) = version
<1> DEFINE i == job[m][1]
           j == job[m][2]
           M == made[m]
           G == gone[m]
           P == Statements(Plan[i][j])
<1>1. /\ i \in Revision /\ j \in Revision
      /\ Underway(i, j, pc[m], M, G, held[m], stamped[m], catalog, version)
      /\ pc[m] = Len(Plan[i][j]) + 1
      /\ M \in SUBSET Object /\ AtRevision(catalog, version)
  BY Position
<1>2. Passed(i, j, pc[m]) = P
  BY <1>1, PassedEnds
<1>3. i <= j => /\ G = {}
                /\ M \subseteq Created(P) /\ Created(P) \ Skippable \subseteq M
                /\ ListingColumn \in M => ListingType \in M
  BY <1>1, <1>2 DEF Underway, GoesUp
<1>4. i > j => /\ M = {} /\ (j = 1 => G \subseteq PublicationObjects)
               /\ \A key \in Dropped(P) : Victims(key, catalog \ G) = {}
  BY <1>1, <1>2 DEF Underway, GoesDown
<1>5. /\ stamped[m] = NoStamp <=> Stamped(P) = {}
      /\ stamped[m] # NoStamp =>
           /\ version = {i} \ {0}
           /\ stamped[m] = IF \E s \in Stamped(P) : s.to = j THEN {j} \ {0} ELSE {1}
  BY <1>1, <1>2 DEF Underway, Versions
<1>6. Stamped(P) = Stamps(i, j)
  BY <1>1, PlanListed
<1>7. i <= j => Created(P) = Makes(i, j)
  BY <1>1, PlanUp DEF Builds
<1>8. i > j => Dropped(P) = Drops(i, j)
  BY <1>1, PlanDown DEF Removes
<1>9. View(m) = (catalog \ G) \cup M
  BY DEF View
<1>10. VersionSeen(m) = IF stamped[m] = NoStamp THEN version ELSE stamped[m]
  BY DEF VersionSeen
<1>11. /\ Declared(0) = {} /\ Declared(1) = Parts0001
       /\ Declared(2) = Parts0001 \cup PublicationObjects
       /\ (Parts0001 \cup Outside) \cap PublicationObjects = {}
  BY MetadataParts DEF Parts0001
<1>12. i = 0 \/ i = 1 \/ i = 2
  BY <1>1 DEF Revision
<1>13. j = 0 \/ j = 1 \/ j = 2
  BY <1>1 DEF Revision
<1>0. i = job[m][1] /\ j = job[m][2]
  OBVIOUS
<1> HIDE DEF i, j, M, G, P
<1>14. ASSUME i = j
       PROVE  AtRevision(View(m), VersionSeen(m)) /\ VersionSeen(m) = version
  <2>1. Stamps(i, j) = {}
    BY <1>14 DEF Stamps
  <2>2. VersionSeen(m) = version
    BY <1>5, <1>6, <1>10, <2>1
  <2>3. i <= j
    BY <1>1, <1>14 DEF Revision
  <2>4. G = {} /\ M \subseteq Outside
    BY <1>1, <1>3, <1>7, <1>14, <2>3, MakesDeclared
  <2>5. View(m) \ Outside = catalog \ Outside
    BY <1>9, <2>4
  <2>6. QED
    BY <1>1, <2>2, <2>5 DEF AtRevision
<1>15. ASSUME i # j
       PROVE  version = {i} \ {0} /\ VersionSeen(m) = {j} \ {0}
  <2>1. \E s \in Stamps(i, j) : s.to = j
    BY <1>1, <1>15, StampsFacts, StampFields
  <2>2. QED
    BY <1>5, <1>6, <1>10, <2>1
<1>16. ASSUME i # j
       PROVE  catalog \ Outside = Declared(i) \ Unmigrated
  <2>1. PICK k \in Revision : version = {k} \ {0} /\ catalog \ Outside = Declared(k) \ Unmigrated
    BY <1>1 DEF AtRevision
  <2>2. k = i
    <3>1. {k} \ {0} = {i} \ {0}
      BY <1>15, <1>16, <2>1
    <3>2. QED
      BY <1>12, <2>1, <3>1
  <2>3. QED
    BY <2>1, <2>2
<1>17. ASSUME i # j, i <= j
       PROVE  View(m) \ Outside = Declared(j) \ Unmigrated
  <2>1. M \subseteq Makes(i, j) /\ Makes(i, j) \ Skippable \subseteq M /\ G = {}
    BY <1>3, <1>7, <1>17
  <2>2. /\ (Declared(i) \ Unmigrated) \cup (Makes(i, j) \ Outside) = Declared(j) \ Unmigrated
        /\ i # 2 /\ j = 2 => PublicationObjects \subseteq Makes(i, j)
        /\ Makes(i, j) \cap PublicationObjects # {} => i # 2 /\ j = 2
    BY <1>1, <1>17, MakesDeclared
  <2>3. ListingType \in Makes(i, j) => ListingType \in M
    <3>1. ListingColumn \notin Skippable
      <4>1. ListingColumn \notin Outside
        BY <1>11, PublicationThere
      <4>2. ListingColumn # ListingType
        BY PublicationThere, TypeFields DEF ListingType
      <4>3. QED
        BY <4>1, <4>2 DEF Skippable
    <3>2. ListingType \in Makes(i, j) => ListingColumn \in Makes(i, j)
      BY <2>2, PublicationThere
    <3>3. QED
      BY <1>3, <1>17, <2>1, <3>1, <3>2
  <2>4. M \ Outside = Makes(i, j) \ Outside
    BY <2>1, <2>3 DEF Skippable
  <2>5. View(m) \ Outside = (catalog \ Outside) \cup (M \ Outside)
    BY <1>9, <2>1
  <2>6. QED
    BY <1>16, <1>17, <2>2, <2>4, <2>5
<1>18. ASSUME i > j
       PROVE  View(m) \ Outside = Declared(j) \ Unmigrated
  <2>1. i # j /\ (i = 2 \/ (i = 1 /\ j = 0))
    BY <1>12, <1>13, <1>18
  <2>2. View(m) = catalog \ G
    BY <1>4, <1>9, <1>18
  <2>3. \A key \in Drops(i, j), o \in catalog \ G : ~Hit(key, o)
    BY <1>4, <1>8, <1>18, VictimsHit
  <2>4. i = 2 => (catalog \ G) \cap PublicationObjects = {}
    <3>1. i = 2 => Keys0002 \subseteq Drops(i, j)
      BY DEF Drops
    <3>2. QED
      BY <2>3, <3>1, Keys0002Hit
  <2>5. j = 0 => (catalog \ G) \cap Parts0001 = {}
    <3>1. j = 0 => Keys0001 \subseteq Drops(i, j)
      BY DEF Drops
    <3>2. QED
      BY <2>3, <3>1, Keys0001Hit DEF Parts0001
  <2>6. catalog \ Outside = Declared(i) \ Unmigrated
    BY <1>16, <2>1
  <2>7. CASE j = 0
    BY <1>11, <2>1, <2>2, <2>4, <2>5, <2>6, <2>7
  <2>8. CASE j = 1
    <3>1. i = 2 /\ G \subseteq PublicationObjects
      BY <1>4, <1>18, <2>1, <2>8
    <3>2. catalog \ Outside = (Parts0001 \cup PublicationObjects) \ Unmigrated
      BY <1>11, <2>6, <3>1
    <3>3. QED
      BY <1>11, <2>2, <2>4, <2>8, <3>1, <3>2
  <2>9. QED
    BY <1>12, <1>13, <1>18, <2>7, <2>8
<1>19. ASSUME i # j
       PROVE  AtRevision(View(m), VersionSeen(m))
  <2>1. i <= j \/ i > j
    BY <1>12, <1>13
  <2>2. View(m) \ Outside = Declared(j) \ Unmigrated
    BY <1>17, <1>18, <1>19, <2>1
  <2>3. QED
    BY <1>1, <1>15, <1>19, <2>2 DEF AtRevision
<1>20. QED
  BY <1>0, <1>14, <1>15, <1>19

\* A transaction has locked the tables of what it makes and removes, or made them.
LEMMA Owned ==
  ASSUME IInv, NEW m \in Migrator
  PROVE  /\ \A o \in made[m] :
              o.table # NoTable => o.table \in held[m] \/ Table(o.table) \in made[m]
         /\ \A o \in gone[m] : /\ o.table # NoTable => o.table \in held[m]
                               /\ o.kind = "table" => o.name \in held[m]
<1>1. CommandInv(m)
  BY DEF IInv
<1>2. CASE ~Running(m)
  BY <1>1, <1>2 DEF CommandInv, Idle
<1>3. CASE Running(m)
  <2> DEFINE i == job[m][1]
             j == job[m][2]
  <2>1. /\ i \in Revision /\ j \in Revision
        /\ Underway(i, j, pc[m], made[m], gone[m], held[m], stamped[m], catalog, version)
    BY <1>3, Position
  <2>2. CASE i <= j
    BY <2>1, <2>2 DEF Underway, GoesUp
  <2>3. CASE i > j
    BY <2>1, <2>3 DEF Underway, GoesDown
  <2>4. QED
    BY <2>1, <2>2, <2>3 DEF Revision
<1>4. QED
  BY <1>2, <1>3

\* Two transactions have nothing in common, and m's objects are new.
LEMMA Disjoint ==
  ASSUME IInv, NEW m \in Migrator, NEW t \in Migrator \ {m}
  PROVE  /\ (made[m] \cup gone[m]) \cap (made[t] \cup gone[t]) = {}
         /\ held[m] \cap held[t] = {}
         /\ Keys(made[m]) \cap Keys(made[t]) = {}
         /\ stamped[m] = NoStamp \/ stamped[t] = NoStamp
<1>1. Apart(made[m], gone[m], held[m], stamped[m], made[t], gone[t], held[t], stamped[t])
  BY DEF IInv, PairInv
<1>2. \A S, T : Keys(S) \cap Keys(T) = {} => S \cap T = {}
  BY DEF Keys
<1>3. \A S, T : Keys(S) \subseteq Keys(S \cup T)
  BY DEF Keys
<1>4. QED
  BY <1>1, <1>2, <1>3 DEF Apart

\* What another command finds after m's commit: its own changes still fit.
LEMMA CommitFits ==
  ASSUME IInv, NEW m \in Migrator, NEW t \in Migrator \ {m}
  PROVE  Fits(made[t], gone[t], held[t], View(m))
<1> DEFINE M == made[m]
           G == gone[m]
           N == made[t]
           F == gone[t]
<1>1. Fits(N, F, held[t], catalog) /\ Fits(M, G, held[m], catalog)
  BY DEF IInv, CommandInv
<1>2. (M \cup G) \cap (N \cup F) = {} /\ held[m] \cap held[t] = {} /\ Keys(M) \cap Keys(N) = {}
  BY Disjoint
<1>3. View(m) = (catalog \ G) \cup M
  BY DEF View
<1>4. \A o \in G : o.kind = "table" => o.name \in held[m]
  BY Owned
<1> HIDE DEF M, G, N, F
<1>5. F \subseteq View(m)
  BY <1>1, <1>2, <1>3 DEF Fits
<1>6. Keys(N) \cap Keys(View(m) \ F) = {}
  BY <1>1, <1>2, <1>3 DEF Fits, Keys
<1>7. ASSUME NEW x \in held[t]
      PROVE  Table(x) \in View(m) \cup N
  <2>1. Table(x) \in catalog \cup N
    BY <1>1 DEF Fits
  <2>2. Table(x) \notin G
    BY <1>2, <1>4, TableFields
  <2>3. QED
    BY <1>3, <2>1, <2>2
<1>8. Fits(N, F, held[t], View(m))
  BY <1>5, <1>6, <1>7 DEF Fits
<1>9. QED
  BY <1>8 DEF N, F

\* Nothing that m makes is what another command has dropped: it would have had to
\* take the same name, or a table that the other holds or has removed.
LEMMA NothingToDrop ==
  ASSUME IInv, NEW m \in Migrator, NEW t \in Migrator \ {m}, Running(t),
         job[t][1] > job[t][2], NEW key \in Dropped(Passed(job[t][1], job[t][2], pc[t]))
  PROVE  Victims(key, View(m) \ gone[t]) = {}
<1> DEFINE i == job[t][1]
           j == job[t][2]
<1>1. /\ i \in Revision /\ j \in Revision
      /\ GoesDown(i, j, pc[t], made[t], gone[t], held[t], catalog)
      /\ pc[t] \in 1 .. Len(Plan[i][j]) + 1 /\ Len(Plan[i][j]) \in Nat
      /\ held[t] \subseteq Tables(Object) /\ gone[t] \in SUBSET Object
  <2>1. /\ i \in Revision /\ j \in Revision
        /\ Underway(i, j, pc[t], made[t], gone[t], held[t], stamped[t], catalog, version)
        /\ held[t] \subseteq Tables(Object) /\ gone[t] \in SUBSET Object
    BY Position
  <2>2. Len(Plan[i][j]) \in Nat
    BY <2>1, PlanListed
  <2>3. QED
    BY <2>1, <2>2 DEF Underway
<1>2. /\ Victims(key, catalog \ gone[t]) = {}
      /\ key[1] = "table" => Table(key[3]) \in gone[t]
      /\ key[1] = "type" => Type(key[3]) \in gone[t]
      /\ key[1] \in {"index", "constraint", "column"} => key[2] \in held[t]
      /\ made[t] = {}
      /\ \A o \in gone[t] : o.kind = "table" => o.name \in held[t]
  BY <1>1 DEF GoesDown
<1>3. key[1] \in KeyKinds
  <2>1. Passed(i, j, pc[t]) \subseteq Statements(Plan[i][j])
    <3>1. 1 .. pc[t] - 1 \subseteq 1 .. Len(Plan[i][j])
      BY <1>1
    <3>2. QED
      BY <3>1 DEF Passed, Statements
  <2>2. key \in Drops(i, j)
    <3>1. key \in Dropped(Statements(Plan[i][j]))
      BY <2>1 DEF Dropped
    <3>2. QED
      BY <1>1, <3>1, PlanDown DEF Removes
  <2>3. QED
    BY <2>2, Downgrade0001Removes, Keys0002Hit DEF Drops
<1>4. /\ (made[m] \cup gone[m]) \cap (made[t] \cup gone[t]) = {}
      /\ held[m] \cap held[t] = {}
  BY Disjoint
<1>5. /\ \A o \in made[m] : o.table # NoTable => o.table \in held[m] \/ Table(o.table) \in made[m]
      /\ \A o \in gone[m] : o.kind = "table" => o.name \in held[m]
  BY Owned
<1>6. made[m] \subseteq Object
  BY DEF IInv, TypeOK
<1>7. Keys(made[m]) \cap Keys(catalog \ gone[m]) = {}
  BY DEF IInv, CommandInv, Fits
<1>8. \A x \in held[t] : Table(x) \in catalog /\ x # NoTable
  <2>1. \A x \in held[t] : Table(x) \in catalog \cup made[t]
    BY DEF IInv, CommandInv, Fits
  <2>2. \A x \in Tables(Object) : x # NoTable
    BY ObjectTable DEF Tables
  <2>3. QED
    BY <1>1, <1>2, <2>1, <2>2
<1>9. View(m) \ gone[t] \subseteq (catalog \ gone[t]) \cup made[m]
  BY DEF View
<1> HIDE DEF i, j
<1>10. ASSUME NEW o \in made[m], Hit(key, o)
       PROVE  FALSE
  <2>1. \/ Key(o) = key
        \/ key[1] = "table" /\ o.table = key[3]
        \/ key[1] = "column" /\ o.table = key[2]
    BY <1>10 DEF Hit, Victims
  <2>2. Key(o) = key => o.kind = key[1] /\ o.table = key[2] /\ o.name = key[3]
    BY DEF Key
  <2>3. o \in Object
    BY <1>6
  <2>4. CASE key[1] = "table"
    <3>1. Table(key[3]) \in gone[t] /\ Table(key[3]) \notin made[m] /\ key[3] \in held[t]
      BY <1>2, <1>4, <2>4, TableFields
    <3>2. key[3] # NoTable /\ key[3] \notin held[m]
      BY <1>4, <1>8, <3>1
    <3>3. CASE Key(o) = key
      <4>1. o = Table(key[3])
        BY <2>2, <2>3, <2>4, <3>3, ObjectTable
      <4>2. QED
        BY <3>1, <4>1
    <3>4. CASE o.table = key[3]
      BY <1>5, <3>1, <3>2, <3>4
    <3>5. QED
      BY <2>1, <2>4, <3>3, <3>4
  <2>5. CASE key[1] = "type"
    <3>1. Key(o) = key
      BY <2>1, <2>5
    <3>2. o = Type(key[3])
      BY <2>2, <2>3, <2>5, <3>1, ObjectTable
    <3>3. QED
      BY <1>2, <1>4, <2>5, <3>2
  <2>6. CASE key[1] \in {"index", "constraint", "column"}
    <3>1. key[2] \in held[t] /\ key[2] # NoTable /\ Table(key[2]) \in catalog
      BY <1>2, <1>8, <2>6
    <3>2. o.table = key[2]
      BY <2>1, <2>2, <2>6
    <3>3. Table(key[2]) \in made[m]
      BY <1>4, <1>5, <3>1, <3>2
    <3>4. Table(key[2]) \in gone[m]
      BY <1>7, <3>1, <3>3 DEF Keys
    <3>5. key[2] \in held[m]
      BY <1>5, <3>4, TableFields
    <3>6. QED
      BY <1>4, <3>1, <3>5
  <2>7. QED
    BY <1>3, <2>4, <2>5, <2>6 DEF KeyKinds
<1>11. QED
  BY <1>2, <1>9, <1>10, VictimsHit

\* m's commit leaves every other command where it was.
LEMMA CommitOthers ==
  ASSUME IInv, NEW m \in Migrator, Commit(m), NEW t \in Migrator \ {m}
  PROVE  CommandInv(t)'
<1>1. Leave(m) /\ catalog' = View(m) /\ version' = VersionSeen(m)
  BY DEF Commit
<1>2. /\ job'[t] = job[t] /\ pc'[t] = pc[t] /\ made'[t] = made[t] /\ gone'[t] = gone[t]
      /\ held'[t] = held[t] /\ stamped'[t] = stamped[t]
  BY <1>1, LeaveFacts DEF IInv
<1>3. Fits(made[t], gone[t], held[t], catalog')
  BY <1>1, CommitFits
<1>4. CommandInv(t)
  BY DEF IInv
<1>5. CASE ~Running(t)
  BY <1>2, <1>3, <1>4, <1>5 DEF CommandInv, Running
<1>6. CASE Running(t)
  <2> DEFINE i == job[t][1]
             j == job[t][2]
             p == pc[t]
  <2>1. Underway(i, j, p, made[t], gone[t], held[t], stamped[t], catalog, version)
    BY <1>4, <1>6 DEF CommandInv
  <2>2. i > j => GoesDown(i, j, p, made[t], gone[t], held[t], catalog')
    <3>1. ASSUME i > j
          PROVE  \A key \in Dropped(Passed(i, j, p)) : Victims(key, catalog' \ gone[t]) = {}
      BY <1>1, <1>6, <3>1, NothingToDrop
    <3>2. QED
      BY <2>1, <3>1 DEF Underway, GoesDown
  <2>3. Versions(i, j, p, stamped[t], version')
    <3>1. stamped[t] # NoStamp => version' = version
      BY <1>1, Disjoint DEF VersionSeen
    <3>2. QED
      BY <2>1, <3>1 DEF Underway, Versions
  <2>4. Underway(i, j, p, made[t], gone[t], held[t], stamped[t], catalog', version')
    BY <2>1, <2>2, <2>3 DEF Underway
  <2>5. QED
    BY <1>2, <1>3, <1>6, <2>4 DEF CommandInv, Running
<1>7. QED
  BY <1>5, <1>6

\* A commit keeps the invariant.
LEMMA CommitKeeps ==
  ASSUME IInv, NEW m \in Migrator, Commit(m)
  PROVE  IInv'
<1>1. /\ Running(m) /\ Finished(m) /\ Leave(m)
      /\ catalog' = View(m) /\ version' = VersionSeen(m)
      /\ listing' = [a \in Asset |-> ListingAfter(m, a)]
      /\ activated' = IF ListingColumn \in gone[m] \cup made[m] THEN {} ELSE activated
  BY DEF Commit
<1>2. TypeOK
  BY DEF IInv
<1>3. AtRevision(catalog, version)'
  BY <1>1, Arrives
<1>4. TypeOK'
  <2>1. catalog' \subseteq Object /\ version' \subseteq Revision \ {0}
    BY <1>1, Position DEF View, VersionSeen
  <2>2. listing' \in [Asset -> ListingStatus \cup {"absent", "unlisted"}]
    BY <1>1, <1>2, ListingAssumption DEF TypeOK, ListingAfter, ServerDefault
  <2>3. activated' \subseteq Asset
    BY <1>1, <1>2 DEF TypeOK
  <2>4. QED
    BY <1>1, <1>2, <2>1, <2>2, <2>3, LeaveFacts DEF TypeOK
<1>5. \A t \in Migrator : CommandInv(t)'
  BY <1>1, CommitOthers, LeaveIdle
<1>6. ASSUME NEW t \in Migrator, NEW u \in Migrator, t # u
      PROVE  PairInv(t, u)'
  <2>1. CASE t = m
    BY <1>1, <1>6, <2>1, LeaveIdle
  <2>2. CASE u = m
    <3>1. PairInv(u, t)'
      BY <1>1, <1>6, <2>2, LeaveIdle
    <3>2. QED
      BY <3>1, ApartTurned DEF PairInv
  <2>3. CASE t # m /\ u # m
    <3>1. PairInv(t, u)
      BY <1>6 DEF IInv
    <3>2. /\ made'[t] = made[t] /\ gone'[t] = gone[t] /\ held'[t] = held[t]
          /\ stamped'[t] = stamped[t]
          /\ made'[u] = made[u] /\ gone'[u] = gone[u] /\ held'[u] = held[u]
          /\ stamped'[u] = stamped[u]
      BY <1>1, <1>2, <2>3, LeaveFacts
    <3>3. QED
      BY <3>1, <3>2 DEF PairInv
  <2>4. QED
    BY <2>1, <2>2, <2>3
<1>7. QED
  BY <1>3, <1>4, <1>5, <1>6 DEF IInv

-----------------------------------------------------------------------------
(* The theorems *)

\* Every step keeps the invariant.
LEMMA NextIInv == IInv /\ [Next]_vars => IInv'
<1> SUFFICES ASSUME IInv, [Next]_vars PROVE IInv'
  OBVIOUS
<1>1. ASSUME NEW m \in Migrator, Start(m)
      PROVE  IInv'
  BY <1>1, StartKeeps
<1>2. ASSUME NEW m \in Migrator, Step(m)
      PROVE  IInv'
  <2>1. CASE Look(m)
    BY <2>1, LookKeeps
  <2>2. CASE Execute(m)
    <3>1. Statement(m).op \in {"create", "drop", "backfill"}
      BY <2>2 DEF Execute
    <3>2. QED
      BY <2>2, <3>1, CreateKeeps, DropKeeps, BackfillKeeps
  <2>3. CASE WriteVersion(m)
    BY <2>3, WriteVersionKeeps
  <2>4. CASE Commit(m)
    BY <2>4, CommitKeeps
  <2>5. CASE Fail(m)
    BY <2>5, RollBackKeeps DEF Fail
  <2>6. CASE Detect(m)
    BY <2>6, RollBackKeeps DEF Detect
  <2>7. QED
    BY <1>2, <2>1, <2>2, <2>3, <2>4, <2>5, <2>6 DEF Step
<1>3. ASSUME NEW m \in Migrator, Die(m)
      PROVE  IInv'
  BY <1>3, RollBackKeeps DEF Die
<1>4. ASSUME NEW a \in Asset, InsertAsset(a) \/ Review(a)
      PROVE  IInv'
  BY <1>4, OperatorKeeps
<1>5. CASE UNCHANGED vars
  <2>1. UNCHANGED <<catalog, version, listing, activated, job, pc, transaction, alone>>
    BY <1>5 DEF vars, rows, transaction
  <2>2. TypeOK'
    BY <2>1 DEF IInv, TypeOK, transaction
  <2>3. QED
    BY <2>1, <2>2, NoCommandKeeps
<1>6. QED
  BY <1>1, <1>2, <1>3, <1>4, <1>5 DEF Next

\* At every step of every run of the commands, what each transaction has done fits
\* the catalog and the others.
THEOREM Invariance == Spec => []IInv
BY InitIInv, NextIInv, PTL DEF Spec

\* The catalog holds objects of the models and of alembic and nothing else, and each
\* transaction makes, removes and locks such objects only.
THEOREM TypeCorrect == Spec => []TypeOK
<1>1. IInv => TypeOK
  BY DEF IInv
<1>2. QED
  BY Invariance, <1>1, PTL

\* migrations/env.py, one transaction around a command: whatever commands run at the
\* same time, fail, deadlock or die, the committed catalog is what the models declare
\* at the revision that alembic_version names.
THEOREM SchemaFollowsVersion == Spec => []SchemaMatchesVersion
<1>1. IInv => SchemaMatchesVersion
  BY DEF IInv, AtRevision, SchemaMatchesVersion
<1>2. QED
  BY Invariance, <1>1, PTL

-----------------------------------------------------------------------------
(* The refinement of SchemaRevision *)

\* The revision the committed version row names.
AtPresent == IF version = {} THEN 0 ELSE CHOOSE v \in version : TRUE

\* The version row names one revision.
LEMMA RevisionNamed ==
  ASSUME NEW V, NEW i \in Revision, V = {i} \ {0}
  PROVE  (IF V = {} THEN 0 ELSE CHOOSE v \in V : TRUE) = i
<1>1. CASE i = 0
  <2>1. V = {}
    BY <1>1
  <2>2. QED
    BY <1>1, <2>1
<1>2. CASE i # 0
  <2>1. V # {} /\ \A v \in V : v = i
    BY <1>2
  <2>2. (CHOOSE v \in V : TRUE) \in V
    BY <2>1
  <2>3. QED
    BY <2>1, <2>2
<1>3. QED
  BY <1>1, <1>2

\* The empty database is at base.
LEMMA RevisionsInit == Init => Revisions!Init
BY DEF Init, Revisions!Init

\* A command starts by reading the revision.
LEMMA StartReadsRevision ==
  ASSUME IInv, NEW m \in Migrator, Start(m)
  PROVE  Revisions!Read(m)
<1>1. PICK i \in Revision, j \in Revision :
        version = {i} \ {0} /\ job' = [job EXCEPT ![m] = <<i, j>>]
  BY StartReads
<1>2. AtPresent = i
  BY <1>1, RevisionNamed DEF AtPresent
<1>3. job[m] = NoJob /\ version' = version
  BY DEF Start, Running
<1>4. job' = [job EXCEPT ![m] = <<AtPresent, j>>] /\ AtPresent' = AtPresent
  BY <1>1, <1>2, <1>3 DEF AtPresent
<1>5. QED
  BY <1>3, <1>4 DEF Revisions!Read, AtPresent

\* A command that leaves the version alone has given up.
LEMMA LeavingGivesUp ==
  ASSUME NEW m \in Migrator, Running(m), Leave(m), version' = version
  PROVE  Revisions!GiveUp(m)
BY DEF Running, Leave, Revisions!GiveUp

\* A commit applies the command at the revision it read, or changes no revision.
LEMMA CommitApplies ==
  ASSUME IInv, NEW m \in Migrator, Commit(m)
  PROVE  Revisions!Apply(m) \/ Revisions!GiveUp(m)
<1> DEFINE i == job[m][1]
           j == job[m][2]
<1>1. /\ Running(m) /\ Finished(m) /\ Leave(m) /\ version' = VersionSeen(m)
  BY DEF Commit
<1>2. i \in Revision /\ j \in Revision
  BY <1>1, Position
<1>3. CASE i = j
  <2>1. version' = version
    BY <1>1, <1>3, Arrives
  <2>2. QED
    BY <1>1, <2>1, LeavingGivesUp
<1>4. CASE i # j
  <2>1. version = {i} \ {0} /\ version' = {j} \ {0}
    BY <1>1, <1>4, Arrives
  <2>2. AtPresent = i /\ AtPresent' = j
    BY <1>2, <2>1, RevisionNamed DEF AtPresent
  <2>3. job[m] # NoJob /\ job' = [job EXCEPT ![m] = NoJob]
    BY <1>1 DEF Running, Leave
  <2>4. QED
    BY <2>2, <2>3 DEF Revisions!Apply, AtPresent
<1>5. QED
  BY <1>3, <1>4

\* Every step reads, applies, gives up, or is not seen.
LEMMA RevisionsNext == IInv /\ [Next]_vars => [Revisions!Next]_(Revisions!vars)
<1> SUFFICES ASSUME IInv, [Next]_vars
             PROVE  Revisions!Next \/ UNCHANGED Revisions!vars
  OBVIOUS
<1>0. job' = job /\ version' = version => UNCHANGED Revisions!vars
  BY DEF Revisions!vars
<1>1. ASSUME NEW m \in Migrator, Start(m)
      PROVE  Revisions!Next
  BY <1>1, StartReadsRevision DEF Revisions!Next
<1>2. ASSUME NEW m \in Migrator, Running(m), RollBack(m)
      PROVE  Revisions!Next
  BY <1>2, LeavingGivesUp DEF RollBack, Revisions!Next
<1>3. ASSUME NEW m \in Migrator, Step(m)
      PROVE  Revisions!Next \/ UNCHANGED Revisions!vars
  <2>1. CASE Look(m) \/ Execute(m) \/ WriteVersion(m)
    BY <1>0, <2>1 DEF Look, Execute, WriteVersion, Advance
  <2>2. CASE Commit(m)
    BY <2>2, CommitApplies DEF Revisions!Next
  <2>3. CASE Fail(m)
    BY <1>2, <2>3 DEF Fail
  <2>4. CASE Detect(m)
    <3>1. Running(m)
      BY <2>4 DEF Detect, Deadlocked, WaitsFor
    <3>2. QED
      BY <1>2, <2>4, <3>1 DEF Detect
  <2>5. QED
    BY <1>3, <2>1, <2>2, <2>3, <2>4 DEF Step
<1>4. ASSUME NEW m \in Migrator, Die(m)
      PROVE  Revisions!Next
  BY <1>2, <1>4 DEF Die
<1>5. ASSUME NEW a \in Asset, InsertAsset(a) \/ Review(a)
      PROVE  UNCHANGED Revisions!vars
  BY <1>0, <1>5 DEF InsertAsset, Review
<1>6. CASE UNCHANGED vars
  BY <1>0, <1>6 DEF vars
<1>7. QED
  BY <1>1, <1>3, <1>4, <1>5, <1>6 DEF Next

\* Each command moves the database from the revision it has read to its target, in
\* one step and only if the database is still there, or does nothing.
THEOREM MigrationsImplementRevision == Spec => ImplementsSchemaRevision
BY Invariance, RevisionsInit, RevisionsNext, PTL DEF Spec, ImplementsSchemaRevision, Revisions!Spec

===============================================================================
