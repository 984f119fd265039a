----------------------------- MODULE ScriptProofs -----------------------------
(***************************************************************************)
(* What the migration scripts say, as facts for MigrationsProofs: which    *)
(* objects each script makes or removes, compared with what the models     *)
(* declare, and in which order the statements come that the safety of      *)
(* concurrent commands rests on.                                           *)
(***************************************************************************)
EXTENDS Migrations, SequenceTheorems, TLAPS

(***************************************************************************)
(* Sequences of statements                                                 *)
(***************************************************************************)

\* s lists the members of S.
Lists(s, S) == s \in Seq(S) /\ S = {s[k] : k \in 1 .. Len(s)}

\* Every y comes after an x, and no x after a y.
First(s, x, y) ==
  \A k \in 1 .. Len(s) :
    /\ s[k] = y => \E l \in 1 .. k - 1 : s[l] = x
    /\ s[k] = x => \A l \in 1 .. k - 1 : s[l] # y

Skip == {"skip if present", "skip if absent"}

\* A look at an object comes before the statement that makes or removes it.
Skipped(s) ==
  IF s.op = "skip if present"
  THEN Create({s.object})
  ELSE [op |-> "drop", object |-> Key(s.object)]

Looks(s) ==
  \A k \in 1 .. Len(s) : s[k].op \in Skip => k < Len(s) /\ s[k + 1] = Skipped(s[k])

\* Two lists one after the other list the union, and keep their places.
LEMMA ListsConcat ==
  ASSUME NEW s, NEW S, NEW t, NEW T, Lists(s, S), Lists(t, T)
  PROVE  /\ Lists(s \o t, S \cup T)
         /\ Len(s) \in Nat /\ Len(t) \in Nat /\ Len(s \o t) = Len(s) + Len(t)
         /\ \A k \in 1 .. Len(s) : (s \o t)[k] = s[k]
         /\ \A k \in 1 .. Len(t) : (s \o t)[Len(s) + k] = t[k]
         /\ \A k \in 1 .. Len(s) + Len(t) :
              k \in 1 .. Len(s) \/ \E l \in 1 .. Len(t) : k = Len(s) + l
<1>1. s \in Seq(S \cup T) /\ t \in Seq(S \cup T)
  BY SeqMonotonic DEF Lists
<1>2. Len(s) \in Nat /\ Len(t) \in Nat
  BY LenProperties DEF Lists
<1>3. /\ s \o t \in Seq(S \cup T)
      /\ Len(s \o t) = Len(s) + Len(t)
      /\ \A k \in 1 .. Len(s) + Len(t) :
           (s \o t)[k] = IF k <= Len(s) THEN s[k] ELSE t[k - Len(s)]
  BY <1>1, ConcatProperties
<1>4. \A k \in 1 .. Len(s) : (s \o t)[k] = s[k]
  BY <1>2, <1>3
<1>5. \A k \in 1 .. Len(t) : (s \o t)[Len(s) + k] = t[k]
  BY <1>2, <1>3
<1>6. \A k \in 1 .. Len(s) + Len(t) :
        k \in 1 .. Len(s) \/ \E l \in 1 .. Len(t) : k = Len(s) + l
  <2> TAKE k \in 1 .. Len(s) + Len(t)
  <2>1. CASE k > Len(s)
    <3>1. k - Len(s) \in 1 .. Len(t) /\ k = Len(s) + (k - Len(s))
      BY <1>2, <2>1
    <3>2. QED
      BY <3>1
  <2>2. QED
    BY <1>2, <2>1
<1>7. S \cup T = {(s \o t)[k] : k \in 1 .. Len(s \o t)}
  <2>1. \A k \in 1 .. Len(s \o t) : (s \o t)[k] \in S \cup T
    BY <1>3, ElementOfSeq
  <2>2. \A x \in S : \E k \in 1 .. Len(s \o t) : x = (s \o t)[k]
    <3> TAKE x \in S
    <3>1. PICK k \in 1 .. Len(s) : x = s[k]
      BY DEF Lists
    <3>2. k \in 1 .. Len(s \o t)
      BY <1>2, <1>3
    <3>3. QED
      BY <1>4, <3>1, <3>2
  <2>3. \A x \in T : \E k \in 1 .. Len(s \o t) : x = (s \o t)[k]
    <3> TAKE x \in T
    <3>1. PICK k \in 1 .. Len(t) : x = t[k]
      BY DEF Lists
    <3>2. Len(s) + k \in 1 .. Len(s \o t)
      BY <1>2, <1>3
    <3>3. QED
      BY <1>5, <3>1, <3>2
  <2>4. QED
    BY <2>1, <2>2, <2>3
<1>8. QED
  BY <1>2, <1>3, <1>4, <1>5, <1>6, <1>7 DEF Lists

\* The places of a list, and what is on them.
LEMMA ListsMember ==
  ASSUME NEW s, NEW S, Lists(s, S)
  PROVE  Len(s) \in Nat /\ \A k \in 1 .. Len(s) : s[k] \in S
BY LenProperties, ElementOfSeq DEF Lists

\* What comes first in a sequence, in two that follow each other.
LEMMA FirstAcross ==
  ASSUME NEW s, NEW S, NEW t, NEW T, Lists(s, S), Lists(t, T), NEW x \in S, NEW y \in T,
         x \notin T, y \notin S
  PROVE  First(s \o t, x, y)
<1> SUFFICES ASSUME NEW k \in 1 .. Len(s \o t)
             PROVE  /\ (s \o t)[k] = y => \E l \in 1 .. k - 1 : (s \o t)[l] = x
                    /\ (s \o t)[k] = x => \A l \in 1 .. k - 1 : (s \o t)[l] # y
  BY DEF First
<1>1. PICK n \in 1 .. Len(s) : s[n] = x
  BY DEF Lists
<1>2. CASE k \in 1 .. Len(s)
  <2>1. (s \o t)[k] # y
    BY <1>2, ListsConcat, ListsMember
  <2>2. \A l \in 1 .. k - 1 : l \in 1 .. Len(s)
    BY <1>2, ListsMember
  <2>3. \A l \in 1 .. k - 1 : (s \o t)[l] # y
    BY <2>2, ListsConcat, ListsMember
  <2>4. QED
    BY <2>1, <2>3
<1>3. CASE \E l \in 1 .. Len(t) : k = Len(s) + l
  <2>1. (s \o t)[k] # x
    BY <1>3, ListsConcat, ListsMember
  <2>2. n \in 1 .. k - 1
    BY <1>3, ListsMember
  <2>3. (s \o t)[n] = x
    BY <1>1, ListsConcat
  <2>4. QED
    BY <2>1, <2>2, <2>3
<1>4. QED
  BY <1>2, <1>3, ListsConcat

\* An order inside the left one of two sequences stays, if the right one has neither.
LEMMA FirstOnTheLeft ==
  ASSUME NEW s, NEW S, NEW t, NEW T, Lists(s, S), Lists(t, T), NEW x, NEW y,
         x \notin T, y \notin T, First(s, x, y)
  PROVE  First(s \o t, x, y)
<1> SUFFICES ASSUME NEW k \in 1 .. Len(s \o t)
             PROVE  /\ (s \o t)[k] = y => \E l \in 1 .. k - 1 : (s \o t)[l] = x
                    /\ (s \o t)[k] = x => \A l \in 1 .. k - 1 : (s \o t)[l] # y
  BY DEF First
<1>1. CASE k \in 1 .. Len(s)
  <2>1. \A l \in 1 .. k - 1 : l \in 1 .. Len(s)
    BY <1>1, ListsMember
  <2>2. (s \o t)[k] = s[k] /\ \A l \in 1 .. k - 1 : (s \o t)[l] = s[l]
    BY <1>1, <2>1, ListsConcat
  <2>3. QED
    BY <1>1, <2>2 DEF First
<1>2. CASE \E l \in 1 .. Len(t) : k = Len(s) + l
  BY <1>2, ListsConcat, ListsMember
<1>3. QED
  BY <1>1, <1>2, ListsConcat

\* An order inside the right one of two sequences stays, if the left one has neither.
LEMMA FirstOnTheRight ==
  ASSUME NEW s, NEW S, NEW t, NEW T, Lists(s, S), Lists(t, T), NEW x, NEW y,
         x \notin S, y \notin S, First(t, x, y)
  PROVE  First(s \o t, x, y)
<1> SUFFICES ASSUME NEW k \in 1 .. Len(s \o t)
             PROVE  /\ (s \o t)[k] = y => \E l \in 1 .. k - 1 : (s \o t)[l] = x
                    /\ (s \o t)[k] = x => \A l \in 1 .. k - 1 : (s \o t)[l] # y
  BY DEF First
<1>1. CASE k \in 1 .. Len(s)
  BY <1>1, ListsConcat, ListsMember
<1>2. ASSUME NEW n \in 1 .. Len(t), k = Len(s) + n
      PROVE  /\ (s \o t)[k] = y => \E l \in 1 .. k - 1 : (s \o t)[l] = x
             /\ (s \o t)[k] = x => \A l \in 1 .. k - 1 : (s \o t)[l] # y
  <2>1. (s \o t)[k] = t[n]
    BY <1>2, ListsConcat
  <2>2. ASSUME t[n] = y PROVE \E l \in 1 .. k - 1 : (s \o t)[l] = x
    <3>1. PICK l \in 1 .. n - 1 : t[l] = x
      BY <2>2 DEF First
    <3>2. Len(s) + l \in 1 .. k - 1 /\ l \in 1 .. Len(t)
      BY <1>2, ListsMember
    <3>3. QED
      BY <3>1, <3>2, ListsConcat
  <2>3. ASSUME t[n] = x, NEW l \in 1 .. k - 1 PROVE (s \o t)[l] # y
    <3>1. CASE l \in 1 .. Len(s)
      BY <3>1, ListsConcat, ListsMember
    <3>2. CASE l \notin 1 .. Len(s)
      <4>1. l - Len(s) \in 1 .. n - 1 /\ l - Len(s) \in 1 .. Len(t) /\ l = Len(s) + (l - Len(s))
        BY <1>2, <3>2, ListsMember
      <4>2. t[l - Len(s)] # y
        BY <2>3, <4>1 DEF First
      <4>3. QED
        BY <4>1, <4>2, ListsConcat
    <3>3. QED
      BY <3>1, <3>2
  <2>4. QED
    BY <2>1, <2>2, <2>3
<1>3. QED
  BY <1>1, <1>2, ListsConcat

\* A look stays with its statement when sequences are put together.
LEMMA LooksConcat ==
  ASSUME NEW s, NEW S, NEW t, NEW T, Lists(s, S), Lists(t, T), Looks(s), Looks(t)
  PROVE  Looks(s \o t)
<1> SUFFICES ASSUME NEW k \in 1 .. Len(s \o t), (s \o t)[k].op \in Skip
             PROVE  k < Len(s \o t) /\ (s \o t)[k + 1] = Skipped((s \o t)[k])
  BY DEF Looks
<1>1. CASE k \in 1 .. Len(s)
  <2>1. (s \o t)[k] = s[k]
    BY <1>1, ListsConcat
  <2>2. s[k].op \in Skip
    BY <2>1
  <2>3. k < Len(s) /\ s[k + 1] = Skipped(s[k])
    BY <1>1, <2>2 DEF Looks
  <2>4. k + 1 \in 1 .. Len(s)
    BY <1>1, <2>3, ListsMember
  <2>5. (s \o t)[k + 1] = s[k + 1]
    BY <2>4, ListsConcat
  <2>6. k < Len(s \o t)
    BY <2>4, ListsConcat, ListsMember
  <2>7. QED
    BY <2>1, <2>3, <2>5, <2>6
<1>2. ASSUME NEW n \in 1 .. Len(t), k = Len(s) + n
      PROVE  k < Len(s \o t) /\ (s \o t)[k + 1] = Skipped((s \o t)[k])
  <2>1. (s \o t)[k] = t[n]
    BY <1>2, ListsConcat
  <2>2. t[n].op \in Skip
    BY <2>1
  <2>3. n < Len(t) /\ t[n + 1] = Skipped(t[n])
    BY <2>2 DEF Looks
  <2>4. n + 1 \in 1 .. Len(t)
    BY <2>3, ListsMember
  <2>5. (s \o t)[Len(s) + (n + 1)] = t[n + 1]
    BY <2>4, ListsConcat
  <2>6. k + 1 = Len(s) + (n + 1) /\ k < Len(s \o t)
    BY <1>2, <2>4, ListsConcat, ListsMember
  <2>7. QED
    BY <2>1, <2>3, <2>5, <2>6
<1>3. QED
  BY <1>1, <1>2, ListsConcat

\* A sequence without looks.
LEMMA NoLooks ==
  ASSUME NEW s, NEW S, Lists(s, S), \A x \in S : x.op \notin Skip
  PROVE  Looks(s)
<1>1. \A k \in 1 .. Len(s) : s[k].op \notin Skip
  BY ListsMember
<1>2. QED
  BY <1>1 DEF Looks

\* The empty list.
LEMMA ListsEmpty == Lists(<<>>, {})
BY EmptySeq DEF Lists

\* The lists that are written out, up to the longest one in the scripts.
LEMMA ListsTuple ==
  /\ \A a1 : Lists(<<a1>>, {a1})
  /\ \A a1, a2 : Lists(<<a1, a2>>, {a1, a2})
  /\ \A a1, a2, a3, a4 : Lists(<<a1, a2, a3, a4>>, {a1, a2, a3, a4})
  /\ \A a1, a2, a3, a4, a5, a6, a7 :
       Lists(<<a1, a2, a3, a4, a5, a6, a7>>, {a1, a2, a3, a4, a5, a6, a7})
  /\ \A a1, a2, a3, a4, a5, a6, a7, a8 :
       Lists(<<a1, a2, a3, a4, a5, a6, a7, a8>>, {a1, a2, a3, a4, a5, a6, a7, a8})
  /\ \A a1, a2, a3, a4, a5, a6, a7, a8, a9, a10, a11 :
       Lists(<<a1, a2, a3, a4, a5, a6, a7, a8, a9, a10, a11>>,
             {a1, a2, a3, a4, a5, a6, a7, a8, a9, a10, a11})
  /\ \A a1, a2, a3, a4, a5, a6, a7, a8, a9, a10, a11, a12, a13, a14, a15 :
       Lists(<<a1, a2, a3, a4, a5, a6, a7, a8, a9, a10, a11, a12, a13, a14, a15>>,
             {a1, a2, a3, a4, a5, a6, a7, a8, a9, a10, a11, a12, a13, a14, a15})
BY DEF Lists

(***************************************************************************)
(* What the models declare                                                 *)
(***************************************************************************)

ListingType == Type("listingstatus")

\* What 0002 adds.
PublicationObjects == Publication \cup {ListingType}

EnumNames ==
  {"renterrole", "kycstatus", "assetcategory", "city", "bookingstatus", "handoverdirection",
   "handoverstatus", "paymenttype", "paymentstatus", "depositstatus", "payoutstatus"}

TableNames ==
  {"users", "kyc_profiles", "assets", "availability_windows", "bookings", "handover_records",
   "payments"}

\* The tables of 0001 and their parts.
Tabled ==
  User \cup KYCProfile \cup Asset0001 \cup AvailabilityWindow \cup Booking
    \cup HandoverRecord \cup Payment

Uses(S) == UNION {o.needs : o \in {x \in S : x.kind = "column"}}

\* What is read off the objects the two modules name.
LEMMA TableFields ==
  \A n : Table(n).kind = "table" /\ Table(n).name = n /\ Table(n).table = NoTable
BY DEF Table, FreeStanding

\* A type stands by itself.
LEMMA TypeFields ==
  \A n : Type(n).kind = "type" /\ Type(n).name = n /\ Type(n).table = NoTable
BY DEF Type, FreeStanding

\* An extension stands by itself.
LEMMA ExtensionFields ==
  \A n : Extension(n).kind = "extension" /\ Extension(n).name = n /\ Extension(n).table = NoTable
BY DEF Extension, FreeStanding

PartKinds == {"column", "foreign key", "constraint", "index"}

\* A part of table t, of this name, that goes away with the columns it reads.
PartOf(t, o, n, reads) ==
  o.kind \in PartKinds /\ o.table = t /\ o.name = n /\ o.reads = reads

\* A part has the fields it is given.
LEMMA PartFields ==
  \A kind \in PartKinds : \A t, n, needs, reads :
    PartOf(t, Part(kind, t, n, needs, reads), n, reads)
BY DEF Part, PartOf

\* A column reads no other column.
LEMMA ColumnFields ==
  \A t, c, types : /\ PartOf(t, Column(t, c, types), c, {})
                   /\ Column(t, c, types).kind = "column"
                   /\ Column(t, c, types).needs = types
<1> TAKE t, c, types
<1>1. PartOf(t, Column(t, c, types), c, {})
  BY PartFields DEF Column, PartKinds
<1>2. Column(t, c, types).kind = "column" /\ Column(t, c, types).needs = types
  BY DEF Column, Part
<1>3. QED
  BY <1>1, <1>2

\* A foreign key needs the table it refers to, and reads its column.
LEMMA ForeignKeyFields ==
  \A t, c, u : PartOf(t, ForeignKey(t, c, u), c, {c}) /\ ForeignKey(t, c, u).kind = "foreign key"
<1> TAKE t, c, u
<1>1. PartOf(t, ForeignKey(t, c, u), c, {c})
  BY PartFields DEF ForeignKey, PartKinds
<1>2. ForeignKey(t, c, u).kind = "foreign key"
  BY DEF ForeignKey, Part
<1>3. QED
  BY <1>1, <1>2

\* A constraint reads the columns it is about.
LEMMA ConstraintFields ==
  \A t, n, columns : /\ PartOf(t, Constraint(t, n, columns), n, columns)
                     /\ Constraint(t, n, columns).kind = "constraint"
<1> TAKE t, n, columns
<1>1. PartOf(t, Constraint(t, n, columns), n, columns)
  BY PartFields DEF Constraint, PartKinds
<1>2. Constraint(t, n, columns).kind = "constraint"
  BY DEF Constraint, Part
<1>3. QED
  BY <1>1, <1>2

\* An index reads the columns it is on.
LEMMA IndexFields ==
  \A t, n, columns : /\ PartOf(t, Index(t, n, columns), n, columns)
                     /\ Index(t, n, columns).kind = "index"
<1> TAKE t, n, columns
<1>1. PartOf(t, Index(t, n, columns), n, columns)
  BY PartFields DEF Index, PartKinds
<1>2. Index(t, n, columns).kind = "index"
  BY DEF Index, Part
<1>3. QED
  BY <1>1, <1>2

\* What a CREATE TABLE makes: the table, columns, foreign keys, constraints.
LEMMA InTableWith ==
  ASSUME NEW t, NEW typed, NEW references, NEW constraints,
         NEW o \in TableWith(t, typed, references, constraints)
  PROVE  \/ o = Table(t)
         \/ \E p \in typed : PartOf(t, o, p[1], {}) /\ o.kind = "column" /\ o.needs = {p[2]}
         \/ \E p \in references : PartOf(t, o, p[1], {p[1]}) /\ o.kind = "foreign key"
         \/ \E n \in constraints : PartOf(t, o, n, {}) /\ o.kind = "constraint"
<1>1. CASE o = Table(t)
  BY <1>1
<1>2. ASSUME NEW p \in typed, o = Column(t, p[1], {p[2]})
      PROVE  PartOf(t, o, p[1], {}) /\ o.kind = "column" /\ o.needs = {p[2]}
  BY <1>2, ColumnFields
<1>3. ASSUME NEW p \in references, o = ForeignKey(t, p[1], p[2])
      PROVE  PartOf(t, o, p[1], {p[1]}) /\ o.kind = "foreign key"
  BY <1>3, ForeignKeyFields
<1>4. ASSUME NEW n \in constraints, o = Constraint(t, n, {})
      PROVE  PartOf(t, o, n, {}) /\ o.kind = "constraint"
  BY <1>4, ConstraintFields
<1>5. \/ o = Table(t)
      \/ \E p \in typed : o = Column(t, p[1], {p[2]})
      \/ \E p \in references : o = ForeignKey(t, p[1], p[2])
      \/ \E n \in constraints : o = Constraint(t, n, {})
  BY DEF TableWith
<1>6. CASE \E p \in typed : o = Column(t, p[1], {p[2]})
  BY <1>2, <1>6
<1>7. CASE \E p \in references : o = ForeignKey(t, p[1], p[2])
  BY <1>3, <1>7
<1>8. CASE \E n \in constraints : o = Constraint(t, n, {})
  BY <1>4, <1>8
<1>9. QED
  BY <1>1, <1>5, <1>6, <1>7, <1>8

Belongs(t, o) == o = Table(t) \/ (o.kind \in PartKinds /\ o.table = t)

\* What a CREATE TABLE makes belongs to that table.
LEMMA TableWithBelongs ==
  ASSUME NEW t, NEW typed, NEW references, NEW constraints,
         NEW o \in TableWith(t, typed, references, constraints)
  PROVE  Belongs(t, o)
<1>1. \A n, reads : PartOf(t, o, n, reads) => Belongs(t, o)
  BY DEF PartOf, Belongs
<1>2. o = Table(t) => Belongs(t, o)
  BY DEF Belongs
<1>3. QED
  BY <1>1, <1>2, InTableWith

\* An index belongs to its table.
LEMMA IndexBelongs == \A t, n, columns : Belongs(t, Index(t, n, columns))
BY IndexFields DEF PartOf, Belongs

\* Everything in a model of a table belongs to that table.
LEMMA TablesBelong ==
  /\ \A o \in User : Belongs("users", o)
  /\ \A o \in KYCProfile : Belongs("kyc_profiles", o)
  /\ \A o \in Asset0001 : Belongs("assets", o)
  /\ \A o \in AvailabilityWindow : Belongs("availability_windows", o)
  /\ \A o \in Booking : Belongs("bookings", o)
  /\ \A o \in HandoverRecord : Belongs("handover_records", o)
  /\ \A o \in Payment : Belongs("payments", o)
<1>1. \A o \in User : Belongs("users", o)
  BY TableWithBelongs, IndexBelongs DEF User
<1>2. \A o \in KYCProfile : Belongs("kyc_profiles", o)
  BY TableWithBelongs DEF KYCProfile
<1>3. \A o \in Asset0001 : Belongs("assets", o)
  BY TableWithBelongs, IndexBelongs DEF Asset0001
<1>4. \A o \in AvailabilityWindow : Belongs("availability_windows", o)
  BY TableWithBelongs, IndexBelongs DEF AvailabilityWindow
<1>5. \A o \in Booking : Belongs("bookings", o)
  <2>1. Belongs("bookings", NoActiveAssetOverlap)
    BY DEF NoActiveAssetOverlap, Part, PartKinds, Belongs
  <2>2. \A o \in Booking :
          \/ o \in TableWith("bookings", {<<"status", "bookingstatus">>},
                   {<<"asset_id", "assets">>, <<"renter_id", "users">>, <<"vendor_id", "users">>},
                   {"ck_bookings_total_rental_fee_positive",
                    "ck_bookings_deposit_amount_nonnegative", "ck_bookings_valid_date_range",
                    "uq_bookings_id_renter", "uq_bookings_id_vendor"})
          \/ o = NoActiveAssetOverlap
          \/ \E n : o = Index("bookings", n, {})
    BY DEF Booking
  <2>3. QED
    BY <2>1, <2>2, TableWithBelongs, IndexBelongs
<1>6. \A o \in HandoverRecord : Belongs("handover_records", o)
  BY TableWithBelongs, IndexBelongs DEF HandoverRecord
<1>7. \A o \in Payment : Belongs("payments", o)
  BY TableWithBelongs, IndexBelongs DEF Payment
<1>8. QED
  BY <1>1, <1>2, <1>3, <1>4, <1>5, <1>6, <1>7

PublicationNames ==
  {"listing_status", "minimum_trust_tier", "review_actor_id", "reviewed_at", "review_reason",
   "ix_assets_public_lagos", "ck_assets_minimum_trust_tier_valid"}

\* The publication objects one by one.
LEMMA InPublication ==
  \A o \in Publication :
    \/ o = ListingColumn
    \/ o = PublicLagos
    \/ o = TrustTierValid
    \/ o = ForeignKey("assets", "review_actor_id", "users")
    \/ \E c \in {"minimum_trust_tier", "review_actor_id", "reviewed_at", "review_reason"} :
         o = Column("assets", c, {})
BY DEF Publication, ListingColumn

\* The publication objects are parts of assets, under names of their own.
LEMMA PublicationBelongs ==
  \A o \in Publication :
    /\ o.kind \in PartKinds /\ o.table = "assets" /\ o.name \in PublicationNames
    /\ o.kind = "column" => o = ListingColumn \/ o.needs = {}
    /\ o.kind = "index" => o = PublicLagos
<1> TAKE o \in Publication
<1>1. CASE o = ListingColumn
  BY <1>1, ColumnFields DEF ListingColumn, PartOf, PublicationNames
<1>2. CASE o = PublicLagos
  BY <1>2, IndexFields DEF PublicLagos, PartOf, PublicationNames
<1>3. CASE o = TrustTierValid
  BY <1>3, ConstraintFields DEF TrustTierValid, PartOf, PublicationNames
<1>4. CASE o = ForeignKey("assets", "review_actor_id", "users")
  <2>1. PartOf("assets", o, "review_actor_id", {"review_actor_id"}) /\ o.kind = "foreign key"
    BY <1>4, ForeignKeyFields
  <2>2. QED
    BY <2>1 DEF PartOf, PublicationNames
<1>5. ASSUME NEW c \in {"minimum_trust_tier", "review_actor_id", "reviewed_at", "review_reason"},
             o = Column("assets", c, {})
      PROVE  /\ o.kind \in PartKinds /\ o.table = "assets" /\ o.name \in PublicationNames
             /\ o.kind = "column" /\ o.needs = {}
  BY <1>5, ColumnFields DEF PartOf, PublicationNames
<1>6. CASE o.kind = "column" /\ o.needs = {} /\
            \E c \in {"minimum_trust_tier", "review_actor_id", "reviewed_at", "review_reason"} :
         o = Column("assets", c, {})
  BY <1>5, <1>6
<1>7. QED
  BY <1>1, <1>2, <1>3, <1>4, <1>5, <1>6, InPublication

\* No part of assets that 0001 makes has the name of a publication object or reads one.
LEMMA AssetNames ==
  \A o \in Asset0001 :
    /\ o.name \notin PublicationNames
    /\ o # Table("assets") => o.reads \cap PublicationNames = {}
<1>1. \A o \in Asset0001 :
        \/ o \in TableWith("assets", {<<"category", "assetcategory">>, <<"city", "city">>},
                   {<<"vendor_id", "users">>},
                   {"ck_assets_daily_rate_positive", "ck_assets_deposit_amount_nonnegative"})
        \/ o = Index("assets", "ix_assets_vendor_id", {})
  BY DEF Asset0001
<1>2. ASSUME NEW o \in TableWith("assets", {<<"category", "assetcategory">>, <<"city", "city">>},
                   {<<"vendor_id", "users">>},
                   {"ck_assets_daily_rate_positive", "ck_assets_deposit_amount_nonnegative"})
      PROVE  \/ o = Table("assets")
             \/ \E n \in {"category", "city"} : PartOf("assets", o, n, {})
             \/ PartOf("assets", o, "vendor_id", {"vendor_id"})
             \/ \E n \in {"ck_assets_daily_rate_positive", "ck_assets_deposit_amount_nonnegative"} :
                  PartOf("assets", o, n, {})
  <2> DEFINE typed == {<<"category", "assetcategory">>, <<"city", "city">>}
             references == {<<"vendor_id", "users">>}
             constraints ==
               {"ck_assets_daily_rate_positive", "ck_assets_deposit_amount_nonnegative"}
  <2>1. /\ \A p \in typed : p[1] \in {"category", "city"}
        /\ \A p \in references : p[1] = "vendor_id"
    OBVIOUS
  <2>2. o \in TableWith("assets", typed, references, constraints)
    OBVIOUS
  <2> HIDE DEF typed, references, constraints
  <2>3. \/ o = Table("assets")
        \/ \E p \in typed : PartOf("assets", o, p[1], {})
        \/ \E p \in references : PartOf("assets", o, p[1], {p[1]})
        \/ \E n \in constraints : PartOf("assets", o, n, {})
    BY <2>2, InTableWith
  <2>4. CASE \E p \in typed : PartOf("assets", o, p[1], {})
    BY <2>1, <2>4
  <2>5. ASSUME NEW p \in references, PartOf("assets", o, p[1], {p[1]})
        PROVE  PartOf("assets", o, "vendor_id", {"vendor_id"})
    BY <2>1, <2>5
  <2>6. CASE \E n \in constraints : PartOf("assets", o, n, {})
    BY <2>6 DEF constraints
  <2>7. QED
    BY <2>3, <2>4, <2>5, <2>6
<1>3. ASSUME NEW o, NEW n, NEW reads, PartOf("assets", o, n, reads), n \notin PublicationNames,
             reads \cap PublicationNames = {}
      PROVE  o.name \notin PublicationNames /\ o.reads \cap PublicationNames = {}
  BY <1>3 DEF PartOf
<1>4. {"vendor_id"} \cap PublicationNames = {} /\ "vendor_id" \notin PublicationNames
      /\ "category" \notin PublicationNames /\ "city" \notin PublicationNames
      /\ "ck_assets_daily_rate_positive" \notin PublicationNames
      /\ "ck_assets_deposit_amount_nonnegative" \notin PublicationNames
      /\ "ix_assets_vendor_id" \notin PublicationNames
      /\ {} \cap PublicationNames = {} /\ "assets" \notin PublicationNames
  BY DEF PublicationNames
<1>5. Table("assets").name \notin PublicationNames
  BY <1>4, TableFields
<1>6. PartOf("assets", Index("assets", "ix_assets_vendor_id", {}), "ix_assets_vendor_id", {})
  BY IndexFields
<1>7. QED
  BY <1>1, <1>2, <1>3, <1>4, <1>5, <1>6

\* The types that two sets of columns use.
LEMMA UsesUnion == \A S, T, n : n \in Uses(S \cup T) <=> n \in Uses(S) \/ n \in Uses(T)
BY DEF Uses

\* Only columns use types.
LEMMA UsesNothing == \A S : (\A o \in S : o.kind # "column") => \A n : n \notin Uses(S)
BY DEF Uses

\* A table uses the types of its typed columns.
LEMMA UsesTableWith ==
  ASSUME NEW t, NEW typed, NEW references, NEW constraints, NEW n
  PROVE  n \in Uses(TableWith(t, typed, references, constraints)) <=> \E p \in typed : n = p[2]
<1> DEFINE T == TableWith(t, typed, references, constraints)
<1>1. ASSUME NEW o \in T, o.kind = "column"
      PROVE  \E p \in typed : o.needs = {p[2]}
  <2>1. o # Table(t)
    BY <1>1, TableFields
  <2>2. QED
    BY <1>1, <2>1, InTableWith
<1>2. ASSUME NEW p \in typed
      PROVE  \E o \in T : o.kind = "column" /\ o.needs = {p[2]}
  <2>1. Column(t, p[1], {p[2]}) \in T
    BY DEF TableWith
  <2>2. QED
    BY <2>1, ColumnFields
<1> HIDE DEF T
<1>3. ASSUME n \in Uses(T)
      PROVE  \E p \in typed : n = p[2]
  <2>1. PICK o \in T : o.kind = "column" /\ n \in o.needs
    BY <1>3 DEF Uses
  <2>2. PICK p \in typed : o.needs = {p[2]}
    BY <1>1, <2>1
  <2>3. QED
    BY <2>1, <2>2
<1>4. ASSUME NEW p \in typed, n = p[2]
      PROVE  n \in Uses(T)
  <2>1. PICK o \in T : o.kind = "column" /\ o.needs = {p[2]}
    BY <1>2
  <2>2. n \in o.needs
    BY <1>4, <2>1
  <2>3. QED
    BY <2>1, <2>2 DEF Uses
<1>5. QED
  BY <1>3, <1>4 DEF T

\* What is not a column uses no further type.
LEMMA UsesMore ==
  ASSUME NEW S, NEW T, \A o \in T : o.kind # "column", NEW n
  PROVE  n \in Uses(S \cup T) <=> n \in Uses(S)
BY UsesUnion, UsesNothing

\* The enums of 0001 are the types of its tables' columns, the one of 0002 is the
\* type of the publication state.
LEMMA TypesUsed == Uses(Tabled) = EnumNames /\ Uses(Publication) = {"listingstatus"}
<1>1. \A S, t, n, k : k \in Uses(S \cup {Index(t, n, {})}) <=> k \in Uses(S)
  BY UsesMore, IndexFields
<1>2. \A n : n \in Uses(User) <=> n = "renterrole"
  <2> DEFINE typed == {<<"role", "renterrole">>}
  <2>1. \A n : (\E p \in typed : n = p[2]) <=> n = "renterrole"
    OBVIOUS
  <2> HIDE DEF typed
  <2>2. \A t, references, constraints, n :
          n \in Uses(TableWith(t, typed, references, constraints)) <=> n = "renterrole"
    BY <2>1, UsesTableWith
  <2>3. QED
    BY <1>1, <2>2 DEF User, typed
<1>3. \A n : n \in Uses(KYCProfile) <=> n = "kycstatus"
  <2> DEFINE typed == {<<"status", "kycstatus">>}
  <2>1. \A n : (\E p \in typed : n = p[2]) <=> n = "kycstatus"
    OBVIOUS
  <2> HIDE DEF typed
  <2>2. \A t, references, constraints, n :
          n \in Uses(TableWith(t, typed, references, constraints)) <=> n = "kycstatus"
    BY <2>1, UsesTableWith
  <2>3. QED
    BY <1>1, <2>2 DEF KYCProfile, typed
<1>4. \A n : n \in Uses(Asset0001) <=> n \in {"assetcategory", "city"}
  <2> DEFINE typed == {<<"category", "assetcategory">>, <<"city", "city">>}
  <2>1. \A n : (\E p \in typed : n = p[2]) <=> n \in {"assetcategory", "city"}
    OBVIOUS
  <2> HIDE DEF typed
  <2>2. \A t, references, constraints, n :
          n \in Uses(TableWith(t, typed, references, constraints))
            <=> n \in {"assetcategory", "city"}
    BY <2>1, UsesTableWith
  <2>3. QED
    BY <1>1, <2>2 DEF Asset0001, typed
<1>5. \A n : n \in Uses(AvailabilityWindow) <=> FALSE
  <2> DEFINE typed == {}
  <2>1. \A n : (\E p \in typed : n = p[2]) <=> FALSE
    OBVIOUS
  <2> HIDE DEF typed
  <2>2. \A t, references, constraints, n :
          n \in Uses(TableWith(t, typed, references, constraints)) <=> FALSE
    BY <2>1, UsesTableWith
  <2>3. QED
    BY <1>1, <2>2 DEF AvailabilityWindow, typed
<1>6. \A n : n \in Uses(Booking) <=> n = "bookingstatus"
  <2> DEFINE typed == {<<"status", "bookingstatus">>}
             indexes ==
               {Index("bookings", n, {}) :
                  n \in {"ix_bookings_asset_id", "ix_bookings_renter_id", "ix_bookings_vendor_id"}}
  <2>1. \A n : (\E p \in typed : n = p[2]) <=> n = "bookingstatus"
    OBVIOUS
  <2>2. NoActiveAssetOverlap.kind # "column" /\ \A o \in indexes : o.kind # "column"
    BY IndexFields DEF NoActiveAssetOverlap, Part
  <2> HIDE DEF typed
  <2>3. \A t, references, constraints, n :
          n \in Uses(TableWith(t, typed, references, constraints)) <=> n = "bookingstatus"
    BY <2>1, UsesTableWith
  <2> HIDE DEF indexes
  <2>4. \A S, n : n \in Uses(S \cup {NoActiveAssetOverlap} \cup indexes) <=> n \in Uses(S)
    BY <2>2, UsesMore
  <2>5. QED
    BY <2>3, <2>4 DEF Booking, typed, indexes
<1>7. \A n : n \in Uses(HandoverRecord) <=> n \in {"handoverdirection", "handoverstatus"}
  <2> DEFINE typed == {<<"direction", "handoverdirection">>, <<"status", "handoverstatus">>}
  <2>1. \A n : (\E p \in typed : n = p[2]) <=> n \in {"handoverdirection", "handoverstatus"}
    OBVIOUS
  <2> HIDE DEF typed
  <2>2. \A t, references, constraints, n :
          n \in Uses(TableWith(t, typed, references, constraints))
            <=> n \in {"handoverdirection", "handoverstatus"}
    BY <2>1, UsesTableWith
  <2>3. QED
    BY <1>1, <2>2 DEF HandoverRecord, typed
<1>8. \A n : n \in Uses(Payment)
               <=> n \in {"paymenttype", "paymentstatus", "depositstatus", "payoutstatus"}
  <2> DEFINE typed == 
               {<<"type", "paymenttype">>, <<"status", "paymentstatus">>,
                <<"deposit_status", "depositstatus">>, <<"payout_status", "payoutstatus">>}
  <2>1. \A n : (\E p \in typed : n = p[2])
                 <=> n \in {"paymenttype", "paymentstatus", "depositstatus", "payoutstatus"}
    OBVIOUS
  <2> HIDE DEF typed
  <2>2. \A t, references, constraints, n :
          n \in Uses(TableWith(t, typed, references, constraints))
            <=> n \in {"paymenttype", "paymentstatus", "depositstatus", "payoutstatus"}
    BY <2>1, UsesTableWith
  <2>3. QED
    BY <1>1, <2>2 DEF Payment, typed
<1>9. Uses(Tabled) = EnumNames
  <2>1. \A n : n \in Uses(Tabled) <=>
          \/ n \in Uses(User) \/ n \in Uses(KYCProfile) \/ n \in Uses(Asset0001)
          \/ n \in Uses(AvailabilityWindow) \/ n \in Uses(Booking) \/ n \in Uses(HandoverRecord)
          \/ n \in Uses(Payment)
    <3> DEFINE A == User \cup KYCProfile \cup Asset0001
               B == AvailabilityWindow \cup Booking \cup HandoverRecord
    <3>1. Tabled = A \cup B \cup Payment
      BY DEF Tabled
    <3>2. \A n : n \in Uses(A) <=> \/ n \in Uses(User) \/ n \in Uses(KYCProfile)
                                  \/ n \in Uses(Asset0001)
      BY UsesUnion
    <3>3. \A n : n \in Uses(B) <=> \/ n \in Uses(AvailabilityWindow) \/ n \in Uses(Booking)
                                  \/ n \in Uses(HandoverRecord)
      BY UsesUnion
    <3> HIDE DEF A, B
    <3>4. \A n : n \in Uses(A \cup B) <=> n \in Uses(A) \/ n \in Uses(B)
      BY UsesUnion
    <3>5. \A n : n \in Uses(Tabled) <=> n \in Uses(A \cup B) \/ n \in Uses(Payment)
      BY <3>1, UsesUnion
    <3>6. QED
      BY <3>2, <3>3, <3>4, <3>5
  <2>2. QED
    BY <1>2, <1>3, <1>4, <1>5, <1>6, <1>7, <1>8, <2>1 DEF EnumNames
<1>10. Uses(Publication) = {"listingstatus"}
  <2>1. \A o \in Publication : o.kind = "column" => o = ListingColumn \/ o.needs = {}
    BY PublicationBelongs
  <2>2. /\ ListingColumn \in Publication
        /\ ListingColumn.kind = "column"
        /\ ListingColumn.needs = {"listingstatus"}
    BY ColumnFields DEF Publication, ListingColumn
  <2>3. \A n : n \in Uses(Publication) <=> n = "listingstatus"
    BY <2>1, <2>2 DEF Uses
  <2>4. QED
    BY <2>3
<1>11. QED
  BY <1>9, <1>10

EnumTypes == {Type(n) : n \in EnumNames}

\* The models: the seven tables, their enums, and what the publication adds.
LEMMA MetadataParts ==
  /\ Metadata = Tabled \cup EnumTypes \cup PublicationObjects
  /\ Declared(0) = {}
  /\ Declared(1) = Tabled \cup EnumTypes
  /\ Declared(2) = Metadata
  /\ (Tabled \cup EnumTypes \cup Outside) \cap PublicationObjects = {}
<1>1. Metadata = Tabled \cup EnumTypes \cup PublicationObjects
  <2>1. \A S : WithTypes(S) = S \cup {Type(n) : n \in Uses(S)}
    BY DEF WithTypes, Uses
  <2>2. Metadata = WithTypes(Tabled \cup Publication)
    <3>1. User \cup KYCProfile \cup Asset0001 \cup Publication \cup AvailabilityWindow
              \cup Booking \cup HandoverRecord \cup Payment = Tabled \cup Publication
      BY DEF Tabled
    <3>2. QED
      BY <3>1 DEF Metadata
  <2>3. Uses(Tabled \cup Publication) = EnumNames \cup {"listingstatus"}
    BY TypesUsed, UsesUnion
  <2>4. QED
    BY <2>1, <2>2, <2>3 DEF EnumTypes, PublicationObjects, ListingType
<1>2. (Tabled \cup EnumTypes \cup Outside) \cap PublicationObjects = {}
  <2>1. \A o \in PublicationObjects :
          \/ o.kind \in PartKinds /\ o.table = "assets" /\ o.name \in PublicationNames
          \/ o = Type("listingstatus")
    BY PublicationBelongs DEF PublicationObjects, ListingType
  <2>2. ASSUME NEW o, NEW t, Belongs(t, o), t # "assets"
        PROVE  o \notin PublicationObjects
    <3>1. CASE o = Table(t)
      <4>1. o.kind = "table"
        BY <3>1, TableFields
      <4>2. QED
        BY <2>1, <4>1, TypeFields DEF PartKinds
    <3>2. CASE o.kind \in PartKinds /\ o.table = t
      <4>1. o.kind # Type("listingstatus").kind
        BY <3>2, TypeFields DEF PartKinds
      <4>2. QED
        BY <2>1, <2>2, <3>2, <4>1
    <3>3. QED
      BY <2>2, <3>1, <3>2 DEF Belongs
  <2>3. ASSUME NEW o \in Asset0001
        PROVE  o \notin PublicationObjects
    <3>1. o.kind # "type"
      BY TablesBelong, TableFields DEF Belongs, PartKinds
    <3>2. o # Type("listingstatus")
      BY <3>1, TypeFields
    <3>3. QED
      BY <2>1, <3>2, AssetNames
  <2>4. ASSUME NEW o \in Tabled PROVE o \notin PublicationObjects
    <3>1. \/ o \in Asset0001
          \/ \E t \in {"users", "kyc_profiles", "availability_windows", "bookings",
                       "handover_records", "payments"} : Belongs(t, o)
      BY TablesBelong DEF Tabled
    <3>2. QED
      BY <2>2, <2>3, <3>1
  <2>5. ASSUME NEW o \in EnumTypes PROVE o \notin PublicationObjects
    <3>1. PICK n \in EnumNames : o = Type(n)
      BY DEF EnumTypes
    <3>2. o.kind = "type" /\ o.name # "listingstatus"
      BY <3>1, TypeFields DEF EnumNames
    <3>3. QED
      BY <2>1, <3>2, TypeFields DEF PartKinds
  <2>6. ASSUME NEW o \in Outside PROVE o \notin PublicationObjects
    <3>1. o.kind \in {"table", "extension"}
      BY TableFields, ExtensionFields DEF Outside, VersionTable
    <3>2. QED
      BY <2>1, <3>1, TypeFields DEF PartKinds
  <2>7. QED
    BY <2>4, <2>5, <2>6
<1>3. QED
  BY <1>1, <1>2 DEF Declared, PublicationObjects, ListingType

(***************************************************************************)
(* Which object is which                                                   *)
(***************************************************************************)

\* Every table is in the models.
LEMMA TablesThere == \A t \in TableNames : Table(t) \in Tabled
<1>1. \A t, typed, references, constraints :
        Table(t) \in TableWith(t, typed, references, constraints)
  BY DEF TableWith
<1>2. /\ Table("users") \in User /\ Table("kyc_profiles") \in KYCProfile
      /\ Table("assets") \in Asset0001
      /\ Table("availability_windows") \in AvailabilityWindow
      /\ Table("bookings") \in Booking
      /\ Table("handover_records") \in HandoverRecord
      /\ Table("payments") \in Payment
  BY <1>1 DEF User, KYCProfile, Asset0001, AvailabilityWindow, Booking, HandoverRecord, Payment
<1>3. QED
  BY <1>2 DEF TableNames, Tabled

TypeNames == EnumNames \cup {"listingstatus"}

\* An object is a part of one of the seven tables, such a table, an enum type, or
\* not the models'.
LEMMA ObjectCases ==
  \A o \in Object :
    \/ o.kind \in PartKinds /\ o.table \in TableNames
    \/ \E t \in TableNames : o = Table(t)
    \/ \E n \in TypeNames : o = Type(n)
    \/ o \in Outside
<1>1. \A o \in Tabled : \E t \in TableNames : Belongs(t, o)
  BY TablesBelong DEF Tabled, TableNames
<1>2. \A o \in EnumTypes : \E n \in TypeNames : o = Type(n)
  BY DEF EnumTypes, TypeNames
<1>3. \A o \in PublicationObjects : \/ o.kind \in PartKinds /\ o.table \in TableNames
                                    \/ o = Type("listingstatus")
  BY PublicationBelongs DEF PublicationObjects, ListingType, TableNames
<1>4. QED
  BY <1>1, <1>2, <1>3, MetadataParts DEF Object, Belongs, TypeNames

\* The version table and the extensions, by their fields.
LEMMA OutsideFields ==
  \A o \in Outside :
    /\ o.table = NoTable
    /\ \/ o = VersionTable /\ o.kind = "table" /\ o.name = "alembic_version"
       \/ o.kind = "extension" /\ o.name \in {"pgcrypto", "btree_gist"}
<1> TAKE o \in Outside
<1>1. CASE o = VersionTable
  BY <1>1, TableFields DEF VersionTable
<1>2. CASE o = Extension("pgcrypto")
  BY <1>2, ExtensionFields
<1>3. CASE o = Extension("btree_gist")
  BY <1>3, ExtensionFields
<1>4. QED
  BY <1>1, <1>2, <1>3 DEF Outside

\* Where an object is: in one of the seven tables, or free-standing and known by its name.
LEMMA ObjectTable ==
  \A o \in Object :
    /\ o.table # NoTable => o.table \in TableNames /\ o.kind \in PartKinds
    /\ o.kind \in PartKinds => o.table \in TableNames
    /\ o.kind = "table" => o = Table(o.name) /\ o.table = NoTable /\ o.name # NoTable
    /\ o.kind = "type" => o = Type(o.name) /\ o.table = NoTable
    /\ o.table = NoTable /\ o.name \in TableNames => o = Table(o.name)
    /\ o.table = NoTable /\ o.name = "listingstatus" => o = ListingType
<1> TAKE o \in Object
<1>1. CASE o.kind \in PartKinds /\ o.table \in TableNames
  BY <1>1 DEF PartKinds, TableNames, NoTable
<1>2. ASSUME NEW t \in TableNames, o = Table(t)
      PROVE  o.kind = "table" /\ o.name = t /\ o.table = NoTable
             /\ t \notin TypeNames /\ t # NoTable /\ o = Table(o.name)
  BY <1>2, TableFields DEF TableNames, TypeNames, EnumNames, NoTable
<1>3. ASSUME NEW n \in TypeNames, o = Type(n)
      PROVE  o.kind = "type" /\ o.name = n /\ o.table = NoTable /\ n \notin TableNames
             /\ o = Type(o.name)
  BY <1>3, TypeFields DEF TableNames, TypeNames, EnumNames
<1>4. CASE o \in Outside
  <2>1. /\ o.table = NoTable
        /\ \/ o = Table(o.name) /\ o.kind = "table" /\ o.name = "alembic_version"
           \/ o.kind = "extension" /\ o.name \in {"pgcrypto", "btree_gist"}
    BY <1>4, OutsideFields DEF VersionTable
  <2>2. QED
    BY <2>1 DEF PartKinds, TableNames, NoTable
<1>5. CASE \E t \in TableNames : o = Table(t)
  BY <1>2, <1>5 DEF PartKinds, TypeNames
<1>6. CASE \E n \in TypeNames : o = Type(n)
  BY <1>3, <1>6 DEF PartKinds, TypeNames, ListingType
<1>7. QED
  BY <1>1, <1>4, <1>5, <1>6, ObjectCases

\* The publication objects are declared, and are not what 0001 declares.
LEMMA PublicationThere ==
  /\ {PublicLagos, ListingColumn, ListingType} \subseteq PublicationObjects
  /\ PublicationObjects \subseteq Metadata
  /\ Type("renterrole") \in EnumTypes
  /\ Unmigrated \subseteq Tabled
  /\ Type("renterrole") \notin Unmigrated \cup Outside \cup PublicationObjects
  /\ ListingColumn.table = "assets" /\ ListingColumn.kind = "column"
  /\ ListingColumn.needs = {"listingstatus"}
<1>1. {PublicLagos, ListingColumn, ListingType} \subseteq PublicationObjects
  BY DEF PublicationObjects, Publication, ListingColumn
<1>2. PublicationObjects \subseteq Metadata /\ Type("renterrole") \in EnumTypes
  BY MetadataParts DEF EnumTypes, EnumNames
<1>3. Unmigrated \subseteq Tabled
  BY DEF Unmigrated, Tabled, HandoverRecord, TableWith
<1>4. /\ Type("renterrole").kind = "type"
      /\ ForeignKey("handover_records", "vendor_signer_id", "users").kind = "foreign key"
  BY TypeFields, ForeignKeyFields
<1>5. Type("renterrole") \notin Unmigrated
  BY <1>4 DEF Unmigrated
<1>6. Type("renterrole") \notin Outside
  BY <1>4, OutsideFields
<1>7. Type("renterrole") \notin PublicationObjects
  BY <1>2, MetadataParts
<1>8. /\ ListingColumn.table = "assets" /\ ListingColumn.kind = "column"
      /\ ListingColumn.needs = {"listingstatus"}
  BY ColumnFields DEF ListingColumn, PartOf
<1>9. QED
  BY <1>1, <1>2, <1>3, <1>5, <1>6, <1>7, <1>8

\* A part of assets is a publication object or has nothing to do with one.
LEMMA AssetParts ==
  \A o \in Object : o.table = "assets" =>
    \/ o \in Publication
    \/ /\ o \in Asset0001 /\ o.name \notin PublicationNames
       /\ o.reads \cap PublicationNames = {}
<1> TAKE o \in Object
<1> HAVE o.table = "assets"
<1>1. o \notin Outside /\ o \notin EnumTypes /\ o # ListingType
  BY OutsideFields, TypeFields DEF EnumTypes, ListingType, NoTable
<1>2. ASSUME o \in Tabled PROVE o \in Asset0001
  <2>1. \A t : Belongs(t, o) => t = "assets"
    BY TableFields DEF Belongs, NoTable
  <2>2. QED
    BY <1>2, <2>1, TablesBelong DEF Tabled
<1>3. o \in Asset0001 \/ o \in Publication
  BY <1>1, <1>2, MetadataParts DEF Object, PublicationObjects
<1>4. o # Table("assets")
  BY TableFields DEF NoTable
<1>5. QED
  BY <1>3, <1>4, AssetNames

\* The index on the publication state is the only one of its name.
LEMMA PublicLagosByName ==
  \A o \in Object :
    o.kind = "index" /\ o.table = "assets" /\ o.name = "ix_assets_public_lagos" => o = PublicLagos
<1>1. "ix_assets_public_lagos" \in PublicationNames
  BY DEF PublicationNames
<1>2. QED
  BY <1>1, AssetParts, PublicationBelongs

(***************************************************************************)
(* What a sequence of statements makes, removes and stamps                 *)
(***************************************************************************)

Statements(s) == {s[k] : k \in 1 .. Len(s)}
Created(P) == UNION {x.objects : x \in {y \in P : y.op = "create"}}
Dropped(P) == {x.object : x \in {y \in P : y.op = "drop"}}
Stamped(P) == {x \in P : x.op = "stamp"}

\* What a downgrade may not find.
LookForListingType == [op |-> "skip if absent", object |-> ListingType]

\* An upgrade may find these.
Skippable == Outside \cup {ListingType}

UpStatement(x) ==
  /\ x.op \in {"create", "skip if present", "backfill", "stamp"}
  /\ x.op = "skip if present" => x.object \in Skippable

DownStatement(x) ==
  /\ x.op \in {"drop", "skip if absent", "stamp"}
  /\ x.op = "skip if absent" => x = LookForListingType

\* s creates exactly O, or removes by exactly the keys K, and has exactly the stamps Z.
Builds(s, O, Z) ==
  /\ Lists(s, Statements(s)) /\ Looks(s)
  /\ \A x \in Statements(s) : UpStatement(x)
  /\ Created(Statements(s)) = O
  /\ Stamped(Statements(s)) = Z

Removes(s, K, Z) ==
  /\ Lists(s, Statements(s)) /\ Looks(s)
  /\ \A x \in Statements(s) : DownStatement(x)
  /\ Dropped(Statements(s)) = K
  /\ Stamped(Statements(s)) = Z

\* A list lists its statements.
LEMMA StatementsListed == \A s, S : Lists(s, S) => S = Statements(s) /\ Lists(s, Statements(s))
BY DEF Lists, Statements

\* The statements of two scripts.
LEMMA StatementsConcat ==
  ASSUME NEW s, NEW t, Lists(s, Statements(s)), Lists(t, Statements(t))
  PROVE  /\ Statements(s \o t) = Statements(s) \cup Statements(t)
         /\ Lists(s \o t, Statements(s \o t))
BY ListsConcat, StatementsListed

\* What the statements of two scripts create, drop and stamp.
LEMMA CollectedUnion ==
  ASSUME NEW P, NEW Q
  PROVE  /\ Created(P \cup Q) = Created(P) \cup Created(Q)
         /\ Dropped(P \cup Q) = Dropped(P) \cup Dropped(Q)
         /\ Stamped(P \cup Q) = Stamped(P) \cup Stamped(Q)
<1>1. Created(P \cup Q) = Created(P) \cup Created(Q)
  BY DEF Created
<1>2. Dropped(P \cup Q) = Dropped(P) \cup Dropped(Q)
  BY DEF Dropped
<1>3. Stamped(P \cup Q) = Stamped(P) \cup Stamped(Q)
  BY DEF Stamped
<1>4. QED
  BY <1>1, <1>2, <1>3

\* Two scripts that build, one after the other.
LEMMA BuildsConcat ==
  ASSUME NEW s, NEW O, NEW Z, NEW t, NEW U, NEW Y, Builds(s, O, Z), Builds(t, U, Y)
  PROVE  Builds(s \o t, O \cup U, Z \cup Y)
<1>1. Lists(s, Statements(s)) /\ Lists(t, Statements(t))
  BY DEF Builds
<1>2. /\ Statements(s \o t) = Statements(s) \cup Statements(t)
      /\ Lists(s \o t, Statements(s \o t))
  BY <1>1, StatementsConcat
<1>3. Looks(s \o t)
  BY <1>1, LooksConcat DEF Builds
<1>4. QED
  BY <1>2, <1>3, CollectedUnion DEF Builds

\* Two scripts that remove, one after the other.
LEMMA RemovesConcat ==
  ASSUME NEW s, NEW K, NEW Z, NEW t, NEW L, NEW Y, Removes(s, K, Z), Removes(t, L, Y)
  PROVE  Removes(s \o t, K \cup L, Z \cup Y)
<1>1. Lists(s, Statements(s)) /\ Lists(t, Statements(t))
  BY DEF Removes
<1>2. /\ Statements(s \o t) = Statements(s) \cup Statements(t)
      /\ Lists(s \o t, Statements(s \o t))
  BY <1>1, StatementsConcat
<1>3. Looks(s \o t)
  BY <1>1, LooksConcat DEF Removes
<1>4. QED
  BY <1>2, <1>3, CollectedUnion DEF Removes

\* The fields of a CREATE.
LEMMA CreateFields == \A S : Create(S).op = "create" /\ Create(S).objects = S
BY DEF Create

\* The fields of a DROP.
LEMMA DropFields ==
  \A kind, t, n : Drop(kind, t, n).op = "drop" /\ Drop(kind, t, n).object = <<kind, t, n>>
BY DEF Drop

\* The fields of a stamp.
LEMMA StampFields ==
  \A i, j : Stamp(i, j).op = "stamp" /\ Stamp(i, j).from = i /\ Stamp(i, j).to = j
BY DEF Stamp

\* A look and its statement.
LEMMA LooksPair ==
  ASSUME NEW a, NEW b, b.op \notin Skip, b = Skipped(a)
  PROVE  Looks(<<a, b>>)
<1> SUFFICES ASSUME NEW k \in 1 .. 2, <<a, b>>[k].op \in Skip
             PROVE  k < 2 /\ <<a, b>>[k + 1] = Skipped(<<a, b>>[k])
  BY DEF Looks
<1>1. CASE k = 2
  BY <1>1
<1>2. CASE k = 1
  BY <1>2
<1>3. QED
  BY <1>1, <1>2

\* Sequences of CREATEs alone, and of DROPs alone.
LEMMA BuildsCreates ==
  ASSUME NEW s, NEW P, Lists(s, P), \A x \in P : x.op = "create"
  PROVE  Builds(s, UNION {x.objects : x \in P}, {})
<1>1. P = Statements(s) /\ Lists(s, Statements(s))
  BY StatementsListed
<1>2. Looks(s)
  BY NoLooks DEF Skip
<1>3. Created(P) = UNION {x.objects : x \in P} /\ Stamped(P) = {}
  BY DEF Created, Stamped
<1>4. \A x \in P : UpStatement(x)
  BY DEF UpStatement
<1>5. QED
  BY <1>1, <1>2, <1>3, <1>4 DEF Builds

\* A sequence of DROPs removes by their keys.
LEMMA RemovesDrops ==
  ASSUME NEW s, NEW P, Lists(s, P), \A x \in P : x.op = "drop"
  PROVE  Removes(s, {x.object : x \in P}, {})
<1>1. P = Statements(s) /\ Lists(s, Statements(s))
  BY StatementsListed
<1>2. Looks(s)
  BY NoLooks DEF Skip
<1>3. Dropped(P) = {x.object : x \in P} /\ Stamped(P) = {}
  BY DEF Dropped, Stamped
<1>4. \A x \in P : DownStatement(x)
  BY DEF DownStatement
<1>5. QED
  BY <1>1, <1>2, <1>3, <1>4 DEF Removes

\* The empty script.
LEMMA BuildsNothing == Builds(<<>>, {}, {})
<1>1. UNION {x.objects : x \in {}} = {}
  OBVIOUS
<1>2. QED
  BY <1>1, ListsEmpty, BuildsCreates

\* A script of one CREATE.
LEMMA BuildsOne == \A A : Builds(<<Create(A)>>, A, {})
<1> TAKE A
<1> DEFINE P == {Create(A)}
<1>1. UNION {x.objects : x \in P} = A
  BY CreateFields
<1>2. Lists(<<Create(A)>>, P)
  BY ListsTuple
<1>3. \A x \in P : x.op = "create"
  BY CreateFields
<1> HIDE DEF P
<1>4. QED
  BY <1>1, <1>2, <1>3, BuildsCreates

\* A script of two.
LEMMA BuildsTwo == \A A, B : Builds(<<Create(A), Create(B)>>, A \cup B, {})
<1> TAKE A, B
<1> DEFINE P == {Create(A), Create(B)}
<1>1. UNION {x.objects : x \in P} = A \cup B
  BY CreateFields
<1>2. Lists(<<Create(A), Create(B)>>, P)
  BY ListsTuple
<1>3. \A x \in P : x.op = "create"
  BY CreateFields
<1> HIDE DEF P
<1>4. QED
  BY <1>1, <1>2, <1>3, BuildsCreates

\* A script of four.
LEMMA BuildsFour ==
  \A A, B, C, D : Builds(<<Create(A), Create(B), Create(C), Create(D)>>, A \cup B \cup C \cup D, {})
<1> TAKE A, B, C, D
<1> DEFINE P == {Create(A), Create(B), Create(C), Create(D)}
<1>1. UNION {x.objects : x \in P} = A \cup B \cup C \cup D
  BY CreateFields
<1>2. Lists(<<Create(A), Create(B), Create(C), Create(D)>>, P)
  BY ListsTuple
<1>3. \A x \in P : x.op = "create"
  BY CreateFields
<1> HIDE DEF P
<1>4. QED
  BY <1>1, <1>2, <1>3, BuildsCreates

\* CREATE ... IF NOT EXISTS creates its object.
LEMMA BuildsMissing == \A o \in Skippable : Builds(CreateMissing(o), {o}, {})
<1> TAKE o \in Skippable
<1> DEFINE look == [op |-> "skip if present", object |-> o]
           P == {look, Create({o})}
<1>1. look.op = "skip if present" /\ look.object = o
  OBVIOUS
<1>2. CreateMissing(o) = <<look, Create({o})>>
  BY DEF CreateMissing
<1>3. Lists(<<look, Create({o})>>, P)
  BY ListsTuple
<1> HIDE DEF look
<1>4. Looks(<<look, Create({o})>>)
  <2>1. Create({o}).op \notin Skip
    BY CreateFields DEF Skip
  <2>2. Skipped(look) = Create({o})
    BY <1>1 DEF Skipped
  <2>3. QED
    BY <2>1, <2>2, LooksPair
<1>5. \A x \in P : UpStatement(x)
  BY <1>1, CreateFields DEF UpStatement
<1>6. Created(P) = {o}
  <2>1. \A x \in P : x.op = "create" <=> x = Create({o})
    BY <1>1, CreateFields
  <2>2. Create({o}) \in P /\ Create({o}).objects = {o}
    BY CreateFields
  <2>3. {y \in P : y.op = "create"} = {Create({o})}
    BY <2>1, <2>2
  <2>4. QED
    BY <2>2, <2>3 DEF Created
<1>7. Stamped(P) = {}
  BY <1>1, CreateFields DEF Stamped
<1> HIDE DEF P
<1>8. P = Statements(CreateMissing(o)) /\ Lists(CreateMissing(o), P)
  BY <1>2, <1>3, StatementsListed
<1>9. QED
  BY <1>2, <1>4, <1>5, <1>6, <1>7, <1>8 DEF Builds

\* DROP ... IF EXISTS of the type of the publication state drops by its key.
LEMMA RemovesPresent ==
  Removes(DropPresent(ListingType), {<<"type", NoTable, "listingstatus">>}, {})
<1> DEFINE look == [op |-> "skip if absent", object |-> ListingType]
           drop == Drop("type", NoTable, "listingstatus")
           P == {look, drop}
<1>1. look.op = "skip if absent" /\ look.object = ListingType
  OBVIOUS
<1>2. drop.op = "drop" /\ drop.object = <<"type", NoTable, "listingstatus">>
  BY DropFields
<1>3. DropPresent(ListingType) = <<look, drop>>
  BY TypeFields DEF DropPresent, ListingType
<1>4. Lists(<<look, drop>>, P)
  BY ListsTuple
<1>5. Skipped(look) = drop
  BY <1>1, TypeFields DEF Skipped, Key, Drop, ListingType
<1> HIDE DEF look, drop
<1>6. Looks(<<look, drop>>)
  BY <1>2, <1>5, LooksPair DEF Skip
<1>7. \A x \in P : DownStatement(x)
  <2>1. look = LookForListingType
    BY DEF look, LookForListingType
  <2>2. QED
    BY <1>1, <1>2, <2>1 DEF DownStatement
<1>8. Dropped(P) = {<<"type", NoTable, "listingstatus">>}
  <2>1. {y \in P : y.op = "drop"} = {drop}
    BY <1>1, <1>2
  <2>2. QED
    BY <1>2, <2>1 DEF Dropped
<1>9. Stamped(P) = {}
  BY <1>1, <1>2 DEF Stamped
<1> HIDE DEF P
<1>10. P = Statements(DropPresent(ListingType)) /\ Lists(DropPresent(ListingType), P)
  BY <1>3, <1>4, StatementsListed
<1>11. QED
  BY <1>3, <1>6, <1>7, <1>8, <1>9, <1>10 DEF Removes

\* A stamp builds and removes nothing.
LEMMA StampsOne ==
  \A i, j : /\ Builds(<<Stamp(i, j)>>, {}, {Stamp(i, j)})
            /\ Removes(<<Stamp(i, j)>>, {}, {Stamp(i, j)})
<1> TAKE i, j
<1>1. Lists(<<Stamp(i, j)>>, {Stamp(i, j)})
  BY ListsTuple
<1>2. /\ {Stamp(i, j)} = Statements(<<Stamp(i, j)>>)
      /\ Lists(<<Stamp(i, j)>>, Statements(<<Stamp(i, j)>>))
  BY <1>1, StatementsListed
<1>3. Looks(<<Stamp(i, j)>>)
  <2>1. \A x \in {Stamp(i, j)} : x.op \notin Skip
    BY StampFields DEF Skip
  <2>2. QED
    BY <1>1, <2>1, NoLooks
<1>4. /\ Created({Stamp(i, j)}) = {}
      /\ Dropped({Stamp(i, j)}) = {}
      /\ Stamped({Stamp(i, j)}) = {Stamp(i, j)}
  BY StampFields DEF Created, Dropped, Stamped
<1>5. UpStatement(Stamp(i, j)) /\ DownStatement(Stamp(i, j))
  BY StampFields DEF UpStatement, DownStatement
<1>6. QED
  BY <1>2, <1>3, <1>4, <1>5 DEF Builds, Removes

(***************************************************************************)
(* 0001                                                                    *)
(***************************************************************************)

\* The enums of 0001, in their order.
LEMMA EnumsListed == Lists(ENUMS, EnumNames) /\ Len(ENUMS) = 11
<1>1. Lists(ENUMS, EnumNames)
  BY ListsTuple DEF ENUMS, EnumNames
<1>2. Len(ENUMS) = 11
  BY DEF ENUMS
<1>3. QED
  BY <1>1, <1>2

\* A sequence given as a function lists its values.
LEMMA ListsFunction ==
  ASSUME NEW n \in Nat, NEW S, NEW f \in [1 .. n -> S], \A x \in S : \E i \in 1 .. n : f[i] = x
  PROVE  Lists(f, S)
<1>1. f \in Seq(S)
  BY IsASeq
<1>2. Len(f) = n
  BY <1>1, LenProperties
<1>3. \A i \in 1 .. n : f[i] \in S
  OBVIOUS
<1>4. S = {f[i] : i \in 1 .. n}
  BY <1>3
<1>5. QED
  BY <1>1, <1>2, <1>4 DEF Lists

\* 0001 creates every enum type.
LEMMA CreateEnumsBuilds == Builds(CreateEnums, EnumTypes, {})
<1> DEFINE P == {Create({Type(n)}) : n \in EnumNames}
<1>1. Lists(CreateEnums, P)
  <2>1. \A i \in 1 .. 11 : ENUMS[i] \in EnumNames
    BY EnumsListed, ListsMember
  <2>2. \A n \in EnumNames : \E i \in 1 .. 11 : ENUMS[i] = n
    BY EnumsListed DEF Lists
  <2>3. CreateEnums = [i \in 1 .. 11 |-> Create({Type(ENUMS[i])})]
    BY EnumsListed DEF CreateEnums
  <2>4. CreateEnums \in [1 .. 11 -> P] /\ \A x \in P : \E i \in 1 .. 11 : CreateEnums[i] = x
    BY <2>1, <2>2, <2>3
  <2> HIDE DEF P
  <2>5. 11 \in Nat
    OBVIOUS
  <2>6. QED
    BY <2>4, <2>5, ListsFunction
<1>2. \A x \in P : x.op = "create"
  BY CreateFields
<1>3. UNION {x.objects : x \in P} = EnumTypes
  <2>1. \A n \in EnumNames : \E x \in P : Type(n) \in x.objects
    <3> TAKE n \in EnumNames
    <3>1. Create({Type(n)}) \in P
      OBVIOUS
    <3>2. Type(n) \in Create({Type(n)}).objects
      BY CreateFields
    <3> HIDE DEF P
    <3>3. QED
      BY <3>1, <3>2
  <2>2. ASSUME NEW x \in P, NEW o \in x.objects
        PROVE  \E n \in EnumNames : o = Type(n)
    <3>1. PICK n \in EnumNames : x = Create({Type(n)})
      OBVIOUS
    <3>2. x.objects = {Type(n)}
      BY <3>1, CreateFields
    <3>3. QED
      BY <3>2
  <2> HIDE DEF P
  <2>3. QED
    BY <2>1, <2>2 DEF EnumTypes
<1> HIDE DEF P
<1>4. QED
  BY <1>1, <1>2, <1>3, BuildsCreates

\* A CREATE TABLE with one more foreign key.
LEMMA TableWithKey ==
  ASSUME NEW t, NEW typed, NEW references, NEW constraints, NEW c, NEW u
  PROVE  TableWith(t, typed, references \cup {<<c, u>>}, constraints)
           = TableWith(t, typed, references, constraints) \cup {ForeignKey(t, c, u)}
<1> DEFINE keys(R) == {ForeignKey(t, p[1], p[2]) : p \in R}
<1>1. keys(references \cup {<<c, u>>}) = keys(references) \cup {ForeignKey(t, c, u)}
  <2>1. ForeignKey(t, c, u) = ForeignKey(t, <<c, u>>[1], <<c, u>>[2])
    OBVIOUS
  <2>2. QED
    BY <2>1
<1>2. \A R : TableWith(t, typed, R, constraints) =
               {Table(t)} \cup {Column(t, p[1], {p[2]}) : p \in typed} \cup keys(R)
                 \cup {Constraint(t, n, {}) : n \in constraints}
  BY DEF TableWith
<1> HIDE DEF keys
<1>3. QED
  BY <1>1, <1>2

\* Table by table, 0001 builds what the models declare, but for the key it forgets.
LEMMA CreateTablesBuild ==
  /\ Builds(CreateUsers, User, {})
  /\ Builds(CreateAssets, Asset0001, {})
  /\ Builds(CreateKYCProfiles, KYCProfile, {})
  /\ Builds(CreateAvailabilityWindows, AvailabilityWindow, {})
  /\ Builds(CreateBookings, Booking, {})
  /\ Builds(CreateHandoverRecords, HandoverRecord \ Unmigrated, {})
  /\ Builds(CreatePayments, Payment, {})
<1>1. Builds(CreateUsers, User, {})
  BY BuildsTwo DEF CreateUsers, User, CreateIndex
<1>2. Builds(CreateAssets, Asset0001, {})
  BY BuildsTwo DEF CreateAssets, Asset0001, CreateIndex
<1>3. Builds(CreateKYCProfiles, KYCProfile, {})
  BY BuildsOne DEF CreateKYCProfiles, KYCProfile
<1>4. Builds(CreateAvailabilityWindows, AvailabilityWindow, {})
  BY BuildsTwo DEF CreateAvailabilityWindows, AvailabilityWindow, CreateIndex
<1>5. Builds(CreateBookings, Booking, {})
  BY BuildsFour DEF CreateBookings, Booking, CreateIndex
<1>6. Builds(CreateHandoverRecords, HandoverRecord \ Unmigrated, {})
  <2> DEFINE typed == {<<"direction", "handoverdirection">>, <<"status", "handoverstatus">>}
             references ==
               {<<"booking_id", "bookings">>, <<"renter_signer_id", "users">>,
                <<"fk_handover_records_booking_vendor", "bookings">>,
                <<"fk_handover_records_booking_renter", "bookings">>}
             constraints ==
               {"ck_handover_records_completed_requirements",
                "uq_handover_records_booking_direction"}
             T == TableWith("handover_records", typed, references, constraints)
             index == Index("handover_records", "ix_handover_records_booking_id", {})
             key == ForeignKey("handover_records", "vendor_signer_id", "users")
  <2>1. Builds(CreateHandoverRecords, T \cup {index}, {})
    BY BuildsTwo DEF CreateHandoverRecords, CreateIndex
  <2>2. \A p \in references : p[1] # "vendor_signer_id"
    OBVIOUS
  <2>3. references \cup {<<"vendor_signer_id", "users">>} =
          {<<"booking_id", "bookings">>, <<"vendor_signer_id", "users">>,
           <<"renter_signer_id", "users">>, <<"fk_handover_records_booking_vendor", "bookings">>,
           <<"fk_handover_records_booking_renter", "bookings">>}
    OBVIOUS
  <2> HIDE DEF references
  <2>4. key \notin T
    <3>1. PartOf("handover_records", key, "vendor_signer_id", {"vendor_signer_id"})
          /\ key.kind = "foreign key"
      BY ForeignKeyFields
    <3> HIDE DEF key, typed, constraints
    <3>2. ASSUME NEW p \in references, PartOf("handover_records", key, p[1], {p[1]})
          PROVE  FALSE
      <4>1. key.name = "vendor_signer_id" /\ key.name = p[1]
        BY <3>1, <3>2 DEF PartOf
      <4>2. QED
        BY <2>2, <4>1
    <3>3. key # Table("handover_records")
      BY <3>1, TableFields
    <3>4. QED
      BY <3>1, <3>2, <3>3, InTableWith
  <2>5. key # index
    BY ForeignKeyFields, IndexFields
  <2>6. TableWith("handover_records", typed, references \cup {<<"vendor_signer_id", "users">>},
                  constraints) = T \cup {key}
    BY TableWithKey
  <2>7. HandoverRecord = T \cup {key} \cup {index}
    <3> HIDE DEF T, key
    <3>1. QED
      BY <2>3, <2>6 DEF HandoverRecord
  <2> HIDE DEF T, key, index
  <2>8. HandoverRecord \ {key} = T \cup {index}
    BY <2>4, <2>5, <2>7
  <2>9. QED
    BY <2>1, <2>8 DEF key, Unmigrated
<1>7. Builds(CreatePayments, Payment, {})
  BY BuildsTwo DEF CreatePayments, Payment, CreateIndex
<1>8. QED
  BY <1>1, <1>2, <1>3, <1>4, <1>5, <1>6, <1>7

\* The downgrade of 0001 drops every enum type.
LEMMA DropEnumsRemoves ==
  /\ Removes(DropEnums, {<<"type", NoTable, n>> : n \in EnumNames}, {})
  /\ Lists(DropEnums, {Drop("type", NoTable, n) : n \in EnumNames})
<1> DEFINE P == {Drop("type", NoTable, n) : n \in EnumNames}
<1>1. Lists(DropEnums, P)
  <2>1. \A i \in 1 .. 11 : ENUMS[12 - i] \in EnumNames
    BY EnumsListed, ListsMember
  <2>2. \A n \in EnumNames : \E i \in 1 .. 11 : ENUMS[12 - i] = n
    <3> TAKE n \in EnumNames
    <3>1. PICK i \in 1 .. 11 : ENUMS[i] = n
      BY EnumsListed DEF Lists
    <3>2. 12 - i \in 1 .. 11 /\ 12 - (12 - i) = i
      OBVIOUS
    <3>3. QED
      BY <3>1, <3>2
  <2>3. DropEnums = [i \in 1 .. 11 |-> Drop("type", NoTable, ENUMS[12 - i])]
    BY EnumsListed DEF DropEnums
  <2>4. DropEnums \in [1 .. 11 -> P] /\ \A x \in P : \E i \in 1 .. 11 : DropEnums[i] = x
    BY <2>1, <2>2, <2>3
  <2> HIDE DEF P
  <2>5. 11 \in Nat
    OBVIOUS
  <2>6. QED
    BY <2>4, <2>5, ListsFunction
<1>2. \A x \in P : x.op = "drop"
  BY DropFields
<1>3. {x.object : x \in P} = {<<"type", NoTable, n>> : n \in EnumNames}
  BY DropFields
<1> HIDE DEF P
<1>4. Removes(DropEnums, {<<"type", NoTable, n>> : n \in EnumNames}, {})
  BY <1>1, <1>2, <1>3, RemovesDrops
<1>5. QED
  BY <1>1, <1>4 DEF P

\* 0001 makes what the models declare at 0001, but for one key, and two extensions.
LEMMA Upgrade0001Builds ==
  Builds(Upgrade0001,
         {Extension("pgcrypto"), Extension("btree_gist")} \cup (Declared(1) \ Unmigrated), {})
<1>1. Builds(CreateMissing(Extension("pgcrypto")), {Extension("pgcrypto")}, {})
  BY BuildsMissing DEF Skippable, Outside
<1>2. Builds(CreateMissing(Extension("btree_gist")), {Extension("btree_gist")}, {})
  BY BuildsMissing DEF Skippable, Outside
<1> DEFINE O == {Extension("pgcrypto")} \cup {Extension("btree_gist")} \cup EnumTypes \cup User
                  \cup Asset0001 \cup KYCProfile \cup AvailabilityWindow \cup Booking
                  \cup (HandoverRecord \ Unmigrated) \cup Payment
<1>3. Builds(Upgrade0001, O, {})
  <2>1. ASSUME NEW s, NEW A, NEW t, NEW B, Builds(s, A, {}), Builds(t, B, {})
        PROVE  Builds(s \o t, A \cup B, {})
    <3>1. Builds(s \o t, A \cup B, {} \cup {})
      BY <2>1, BuildsConcat
    <3>2. {} \cup {} = {}
      OBVIOUS
    <3>3. QED
      BY <3>1, <3>2
  <2> DEFINE s0 == CreateMissing(Extension("pgcrypto")) \o CreateMissing(Extension("btree_gist"))
             s1 == s0 \o CreateEnums
             s2 == s1 \o CreateUsers
             s3 == s2 \o CreateAssets
             s4 == s3 \o CreateKYCProfiles
             s5 == s4 \o CreateAvailabilityWindows
             s6 == s5 \o CreateBookings
             s7 == s6 \o CreateHandoverRecords
             s8 == s7 \o CreatePayments
             O0 == {Extension("pgcrypto")} \cup {Extension("btree_gist")}
             O1 == O0 \cup EnumTypes
             O2 == O1 \cup User
             O3 == O2 \cup Asset0001
             O4 == O3 \cup KYCProfile
             O5 == O4 \cup AvailabilityWindow
             O6 == O5 \cup Booking
             O7 == O6 \cup (HandoverRecord \ Unmigrated)
             O8 == O7 \cup Payment
  <2>2. Builds(s0, O0, {})
    BY <1>1, <1>2, <2>1
  <2> HIDE DEF s0, O0
  <2>3. Builds(s1, O1, {})
    BY <2>1, <2>2, CreateEnumsBuilds
  <2> HIDE DEF s1, O1
  <2>4. Builds(s2, O2, {})
    BY <2>1, <2>3, CreateTablesBuild
  <2> HIDE DEF s2, O2
  <2>5. Builds(s3, O3, {})
    BY <2>1, <2>4, CreateTablesBuild
  <2> HIDE DEF s3, O3
  <2>6. Builds(s4, O4, {})
    BY <2>1, <2>5, CreateTablesBuild
  <2> HIDE DEF s4, O4
  <2>7. Builds(s5, O5, {})
    BY <2>1, <2>6, CreateTablesBuild
  <2> HIDE DEF s5, O5
  <2>8. Builds(s6, O6, {})
    BY <2>1, <2>7, CreateTablesBuild
  <2> HIDE DEF s6, O6
  <2>9. Builds(s7, O7, {})
    BY <2>1, <2>8, CreateTablesBuild
  <2> HIDE DEF s7, O7
  <2>10. Builds(s8, O8, {})
    BY <2>1, <2>9, CreateTablesBuild
  <2> HIDE DEF s8, O8
  <2>11. QED
    BY <2>10 DEF Upgrade0001, s0, s1, s2, s3, s4, s5, s6, s7, s8,
                 O0, O1, O2, O3, O4, O5, O6, O7, O8
<1>4. O = {Extension("pgcrypto"), Extension("btree_gist")} \cup (Declared(1) \ Unmigrated)
  <2>1. \A o \in Unmigrated : o.table = "handover_records" /\ o.kind = "foreign key"
    <3> DEFINE key == ForeignKey("handover_records", "vendor_signer_id", "users")
    <3>1. PartOf("handover_records", key, "vendor_signer_id", {"vendor_signer_id"})
          /\ key.kind = "foreign key"
      BY ForeignKeyFields
    <3> HIDE DEF key
    <3>2. QED
      BY <3>1 DEF PartOf, Unmigrated, key
  <2>2. Unmigrated \cap EnumTypes = {}
    BY <2>1, TypeFields DEF EnumTypes
  <2>3. \A t : t # "handover_records" => \A o \in Unmigrated : ~Belongs(t, o)
    BY <2>1, TableFields DEF Belongs
  <2>4. Unmigrated \cap (User \cup Asset0001 \cup KYCProfile \cup AvailabilityWindow \cup Booking
                           \cup Payment) = {}
    BY <2>3, TablesBelong
  <2>5. O = {Extension("pgcrypto"), Extension("btree_gist")}
              \cup ((Tabled \cup EnumTypes) \ Unmigrated)
    BY <2>2, <2>4 DEF Tabled
  <2>6. QED
    BY <2>5, MetadataParts
<1> HIDE DEF O
<1>5. QED
  BY <1>3, <1>4

Keys0001 == Dropped(Statements(Downgrade0001))

DropPublicLagos == DropIndex("ix_assets_public_lagos", "assets")

KeyKinds == {"table", "type", "index", "constraint", "column"}

\* The downgrade of 0001 drops every table and every enum type, and looks for nothing.
LEMMA Downgrade0001Removes ==
  /\ Removes(Downgrade0001, Keys0001, {})
  /\ \A key \in Keys0001 : key[1] \in KeyKinds
  /\ \A t \in TableNames : <<"table", NoTable, t>> \in Keys0001
  /\ \A n \in EnumNames : <<"type", NoTable, n>> \in Keys0001
  /\ {DropPublicLagos, LookForListingType} \cap Statements(Downgrade0001) = {}
<1> DEFINE s ==
             <<DropIndex("ix_payments_booking_id", "payments"), DropTable("payments"),
               DropIndex("ix_handover_records_booking_id", "handover_records"),
               DropTable("handover_records"),
               DropIndex("ix_bookings_vendor_id", "bookings"),
               DropIndex("ix_bookings_renter_id", "bookings"),
               DropIndex("ix_bookings_asset_id", "bookings"), DropTable("bookings"),
               DropIndex("ix_availability_windows_asset_id", "availability_windows"),
               DropTable("availability_windows"),
               DropTable("kyc_profiles"),
               DropIndex("ix_assets_vendor_id", "assets"), DropTable("assets"),
               DropIndex("ix_users_phone", "users"), DropTable("users")>>
           P == {s[1], s[2], s[3], s[4], s[5], s[6], s[7], s[8], s[9], s[10], s[11], s[12],
                 s[13], s[14], s[15]}
           K == {x.object : x \in P}
<1>1. Lists(s, P)
  BY ListsTuple
<1>2. \A x \in P : \/ \E t, n : n # "ix_assets_public_lagos" /\ x = DropIndex(n, t)
                  \/ \E t : x = DropTable(t)
  OBVIOUS
<1>3. \A t \in TableNames : DropTable(t) \in P
  BY DEF TableNames
<1> HIDE DEF P
<1>4. \A x \in P : x.op = "drop" /\ x.object[1] \in KeyKinds
  <2> TAKE x \in P
  <2>1. ASSUME NEW t, NEW n, x = DropIndex(n, t)
        PROVE  x.op = "drop" /\ x.object[1] \in KeyKinds
    <3>1. x.op = "drop" /\ x.object = <<"index", t, n>>
      BY <2>1, DropFields DEF DropIndex
    <3>2. QED
      BY <3>1 DEF KeyKinds
  <2>2. ASSUME NEW t, x = DropTable(t)
        PROVE  x.op = "drop" /\ x.object[1] \in KeyKinds
    <3>1. x.op = "drop" /\ x.object = <<"table", NoTable, t>>
      BY <2>2, DropFields DEF DropTable
    <3>2. x.object[1] = "table"
      BY <3>1
    <3>3. QED
      BY <3>1, <3>2 DEF KeyKinds
  <2>3. QED
    BY <1>2, <2>1, <2>2
<1>5. \A t \in TableNames : <<"table", NoTable, t>> \in K
  <2> TAKE t \in TableNames
  <2>1. DropTable(t) \in P /\ DropTable(t).object = <<"table", NoTable, t>>
    BY <1>3, DropFields DEF DropTable
  <2>2. QED
    BY <2>1
<1>6. Removes(s, K, {})
  BY <1>1, <1>4, RemovesDrops
<1>7. \A key \in K : key[1] \in KeyKinds
  BY <1>4
<1> HIDE DEF s, K
<1>8. Removes(s \o DropEnums, K \cup {<<"type", NoTable, n>> : n \in EnumNames}, {} \cup {})
  BY <1>6, DropEnumsRemoves, RemovesConcat
<1>9. Downgrade0001 = s \o DropEnums /\ {} \cup {} = {}
  BY DEF Downgrade0001, s
<1>10. Keys0001 = K \cup {<<"type", NoTable, n>> : n \in EnumNames}
  BY <1>8, <1>9 DEF Removes, Keys0001
<1>11. \A key \in {<<"type", NoTable, n>> : n \in EnumNames} : key[1] \in KeyKinds
  <2>1. \A n : <<"type", NoTable, n>>[1] = "type"
    OBVIOUS
  <2>2. QED
    BY <2>1 DEF KeyKinds
<1>12. Removes(Downgrade0001, Keys0001, {})
  BY <1>8, <1>9, <1>10
<1>13. \A x \in P : x.object[3] # "ix_assets_public_lagos" \/ x.object[1] = "table"
  <2> TAKE x \in P
  <2>1. ASSUME NEW t, NEW n, n # "ix_assets_public_lagos", x = DropIndex(n, t)
        PROVE  x.object[3] # "ix_assets_public_lagos"
    <3>1. x.object = <<"index", t, n>>
      BY <2>1, DropFields DEF DropIndex
    <3>2. x.object[3] = n
      BY <3>1
    <3>3. QED
      BY <2>1, <3>2
  <2>2. ASSUME NEW t, x = DropTable(t)
        PROVE  x.object[1] = "table"
    <3>1. x.object = <<"table", NoTable, t>>
      BY <2>2, DropFields DEF DropTable
    <3>2. QED
      BY <3>1
  <2>3. QED
    BY <1>2, <2>1, <2>2
<1>14. {DropPublicLagos, LookForListingType} \cap Statements(Downgrade0001) = {}
  <2> DEFINE Q == {Drop("type", NoTable, n) : n \in EnumNames}
  <2>1. Lists(s \o DropEnums, P \cup Q)
    BY <1>1, DropEnumsRemoves, ListsConcat
  <2>2. Statements(Downgrade0001) = P \cup Q
    BY <1>9, <2>1, StatementsListed
  <2>3. DropPublicLagos.object = <<"index", "assets", "ix_assets_public_lagos">>
    BY DropFields DEF DropPublicLagos, DropIndex
  <2>4. DropPublicLagos.object[1] = "index"
        /\ DropPublicLagos.object[3] = "ix_assets_public_lagos"
    BY <2>3
  <2>5. \A x \in Q : x.op = "drop" /\ x.object[1] = "type"
    <3> TAKE x \in Q
    <3>1. PICK n \in EnumNames : x = Drop("type", NoTable, n)
      OBVIOUS
    <3>2. x.op = "drop" /\ x.object = <<"type", NoTable, n>>
      BY <3>1, DropFields
    <3>3. QED
      BY <3>2
  <2>6. LookForListingType.op = "skip if absent"
    BY DEF LookForListingType
  <2> HIDE DEF Q
  <2>7. DropPublicLagos \notin P \cup Q
    BY <1>13, <2>4, <2>5
  <2>8. LookForListingType \notin P \cup Q
    BY <1>4, <2>5, <2>6
  <2>9. QED
    BY <2>2, <2>7, <2>8
<1>15. QED
  BY <1>5, <1>7, <1>10, <1>11, <1>12, <1>14

(***************************************************************************)
(* 0002                                                                    *)
(***************************************************************************)

\* 0002 makes what the publication adds.
LEMMA Upgrade0002Builds == Builds(Upgrade0002, PublicationObjects, {})
<1> DEFINE s ==
             <<Create({Column("assets", "listing_status", {"listingstatus"})}),
               Create({Column("assets", "minimum_trust_tier", {})}),
               Create({Column("assets", "review_actor_id", {}),
                       ForeignKey("assets", "review_actor_id", "users")}),
               Create({Column("assets", "reviewed_at", {})}),
               Create({Column("assets", "review_reason", {})}),
               Backfill,
               Create({TrustTierValid}),
               Create({PublicLagos})>>
           P == {s[1], s[2], s[3], s[4], s[5], s[6], s[7], s[8]}
<1>1. Lists(s, P)
  BY ListsTuple
<1>2. Backfill.op = "backfill"
  BY DEF Backfill
<1>3. \A x \in P : x = Backfill \/ \E S : x = Create(S)
  OBVIOUS
<1>4. {Column("assets", "listing_status", {"listingstatus"})}
        \cup {Column("assets", "minimum_trust_tier", {})}
        \cup {Column("assets", "review_actor_id", {}),
              ForeignKey("assets", "review_actor_id", "users")}
        \cup {Column("assets", "reviewed_at", {})} \cup {Column("assets", "review_reason", {})}
        \cup {TrustTierValid} \cup {PublicLagos} = Publication
  BY DEF Publication
<1>5. Created(P) = Publication
  <2> DEFINE A == {Column("assets", "listing_status", {"listingstatus"})}
             B == {Column("assets", "minimum_trust_tier", {})}
             C == {Column("assets", "review_actor_id", {}),
                   ForeignKey("assets", "review_actor_id", "users")}
             D == {Column("assets", "reviewed_at", {})}
             E == {Column("assets", "review_reason", {})}
             F == {TrustTierValid}
             G == {PublicLagos}
  <2>1. P = {Create(A), Create(B), Create(C), Create(D), Create(E), Backfill, Create(F), Create(G)}
    OBVIOUS
  <2>2. A \cup B \cup C \cup D \cup E \cup F \cup G = Publication
    BY <1>4
  <2> HIDE DEF A, B, C, D, E, F, G, P
  <2>3. {y \in P : y.op = "create"} =
          {Create(A), Create(B), Create(C), Create(D), Create(E), Create(F), Create(G)}
    BY <1>2, <2>1, CreateFields
  <2>4. UNION {x.objects :
               x \in {Create(A), Create(B), Create(C), Create(D), Create(E), Create(F), Create(G)}}
          = A \cup B \cup C \cup D \cup E \cup F \cup G
    BY CreateFields
  <2>5. QED
    BY <2>2, <2>3, <2>4 DEF Created
<1> HIDE DEF P
<1>6. \A x \in P : x.op \in {"backfill", "create"}
  BY <1>2, <1>3, CreateFields
<1> HIDE DEF s
<1>7. P = Statements(s) /\ Lists(s, Statements(s))
  BY <1>1, StatementsListed
<1>8. Looks(s)
  BY <1>1, <1>6, NoLooks DEF Skip
<1>9. Builds(s, Publication, {})
  BY <1>5, <1>6, <1>7, <1>8 DEF Builds, UpStatement, Stamped
<1>10. Builds(CreateMissing(ListingType), {ListingType}, {})
  BY BuildsMissing DEF Skippable
<1>11. Builds(CreateMissing(ListingType) \o s, {ListingType} \cup Publication, {} \cup {})
  BY <1>9, <1>10, BuildsConcat
<1>12. /\ Upgrade0002 = CreateMissing(ListingType) \o s
       /\ {ListingType} \cup Publication = PublicationObjects
       /\ {} \cup {} = {}
  BY DEF Upgrade0002, s, PublicationObjects, ListingType
<1>13. QED
  BY <1>11, <1>12

\* The object goes away with a DROP of this key.
Hit(key, o) == o \in Victims(key, {o})

\* A DROP takes what it hits, each object by itself.
LEMMA VictimsHit == \A key, S : Victims(key, S) = {o \in S : Hit(key, o)}
BY DEF Victims, Hit

Keys0002 == Dropped(Statements(Downgrade0002))

\* The downgrade of 0002 drops the publication objects by their names, the index first.
LEMMA Downgrade0002Removes ==
  /\ Removes(Downgrade0002, Keys0002, {})
  /\ First(Downgrade0002, DropPublicLagos, LookForListingType)
  /\ \A key \in Keys0002 : \/ key = <<"type", NoTable, "listingstatus">>
                           \/ \E kind \in {"index", "constraint", "column"} :
                              \E n \in PublicationNames : key = <<kind, "assets", n>>
  /\ {<<"index", "assets", "ix_assets_public_lagos">>,
      <<"constraint", "assets", "ck_assets_minimum_trust_tier_valid">>,
      <<"column", "assets", "review_reason">>, <<"column", "assets", "reviewed_at">>,
      <<"column", "assets", "review_actor_id">>, <<"column", "assets", "minimum_trust_tier">>,
      <<"column", "assets", "listing_status">>, <<"type", NoTable, "listingstatus">>}
       \subseteq Keys0002
<1> DEFINE s ==
             <<DropIndex("ix_assets_public_lagos", "assets"),
               Drop("constraint", "assets", "ck_assets_minimum_trust_tier_valid"),
               DropColumn("assets", "review_reason"),
               DropColumn("assets", "reviewed_at"),
               DropColumn("assets", "review_actor_id"),
               DropColumn("assets", "minimum_trust_tier"),
               DropColumn("assets", "listing_status")>>
           P == {s[1], s[2], s[3], s[4], s[5], s[6], s[7]}
           K == {x.object : x \in P}
<1>1. Lists(s, P)
  BY ListsTuple
<1>2. \A x \in P : \E kind \in {"index", "constraint", "column"}, n \in PublicationNames :
                     x = Drop(kind, "assets", n)
  BY DEF DropIndex, DropColumn, PublicationNames
<1>3. /\ Drop("index", "assets", "ix_assets_public_lagos") \in P
      /\ Drop("constraint", "assets", "ck_assets_minimum_trust_tier_valid") \in P
      /\ Drop("column", "assets", "review_reason") \in P
      /\ Drop("column", "assets", "reviewed_at") \in P
      /\ Drop("column", "assets", "review_actor_id") \in P
      /\ Drop("column", "assets", "minimum_trust_tier") \in P
      /\ Drop("column", "assets", "listing_status") \in P
  BY DEF DropIndex, DropColumn
<1> HIDE DEF P
<1>4. ASSUME NEW x \in P
      PROVE  /\ x.op = "drop"
             /\ \E kind \in {"index", "constraint", "column"}, n \in PublicationNames :
                  x.object = <<kind, "assets", n>>
  BY <1>2, DropFields
<1>5. Removes(s, K, {})
  BY <1>1, <1>4, RemovesDrops
<1>6. \A kind, n : Drop(kind, "assets", n) \in P => <<kind, "assets", n>> \in K
  BY DropFields
<1>7. \A key \in K : \E kind \in {"index", "constraint", "column"}, n \in PublicationNames :
                       key = <<kind, "assets", n>>
  BY <1>4
<1> HIDE DEF s, K
<1>8. Removes(s \o DropPresent(ListingType),
              K \cup {<<"type", NoTable, "listingstatus">>}, {} \cup {})
  BY <1>5, RemovesPresent, RemovesConcat
<1>9. Downgrade0002 = s \o DropPresent(ListingType) /\ {} \cup {} = {}
  BY DEF Downgrade0002, s, ListingType
<1>10. Keys0002 = K \cup {<<"type", NoTable, "listingstatus">>}
  BY <1>8, <1>9 DEF Removes, Keys0002
<1>11. First(Downgrade0002, DropPublicLagos, LookForListingType)
  <2> DEFINE drop == Drop("type", NoTable, "listingstatus")
             Q == {LookForListingType, drop}
  <2>1. Lists(DropPresent(ListingType), Q)
    BY ListsTuple, TypeFields DEF DropPresent, ListingType, LookForListingType
  <2>2. DropPublicLagos \in P
    BY <1>3 DEF DropPublicLagos, DropIndex
  <2>3. LookForListingType.op = "skip if absent"
    BY DEF LookForListingType
  <2>4. LookForListingType \notin P
    BY <1>4, <2>3
  <2>5. DropPublicLagos \notin Q
    <3>1. /\ DropPublicLagos.op = "drop"
          /\ DropPublicLagos.object = <<"index", "assets", "ix_assets_public_lagos">>
      BY DropFields DEF DropPublicLagos, DropIndex
    <3>2. drop.object = <<"type", NoTable, "listingstatus">>
      BY DropFields
    <3>3. DropPublicLagos.object # drop.object
      BY <3>1, <3>2
    <3> HIDE DEF drop
    <3>4. QED
      BY <3>1, <3>3, <2>3
  <2> HIDE DEF Q
  <2>6. LookForListingType \in Q
    BY DEF Q
  <2>7. QED
    BY <1>1, <1>9, <2>1, <2>2, <2>4, <2>5, <2>6, FirstAcross
<1>12. Removes(Downgrade0002, Keys0002, {})
  BY <1>8, <1>9, <1>10
<1>13. QED
  BY <1>3, <1>6, <1>7, <1>10, <1>11, <1>12

(***************************************************************************)
(* What a DROP removes                                                     *)
(***************************************************************************)

\* 0001 drops every table with its parts, and every enum.
LEMMA Keys0001Hit == \A o \in Tabled \cup EnumTypes : \E key \in Keys0001 : Hit(key, o)
<1>1. ASSUME NEW o \in Tabled
      PROVE  \E key \in Keys0001 : Hit(key, o)
  <2>1. PICK t \in TableNames : Belongs(t, o)
    BY TablesBelong DEF Tabled, TableNames
  <2> DEFINE key == <<"table", NoTable, t>>
  <2>2. key \in Keys0001
    BY Downgrade0001Removes
  <2>3. key[1] = "table" /\ key[3] = t
    OBVIOUS
  <2>4. o = Table(t) => Key(o) = key
    BY TableFields DEF Key
  <2> HIDE DEF key
  <2>5. Hit(key, o)
    BY <2>1, <2>3, <2>4 DEF Hit, Victims, Belongs
  <2>6. QED
    BY <2>2, <2>5
<1>2. ASSUME NEW n \in EnumNames
      PROVE  \E key \in Keys0001 : Hit(key, Type(n))
  <2> DEFINE key == <<"type", NoTable, n>>
  <2>1. key \in Keys0001
    BY Downgrade0001Removes
  <2>2. Key(Type(n)) = key
    BY TypeFields DEF Key
  <2> HIDE DEF key
  <2>3. Hit(key, Type(n))
    BY <2>2 DEF Hit, Victims
  <2>4. QED
    BY <2>1, <2>3
<1>3. QED
  BY <1>1, <1>2 DEF EnumTypes

\* 0002 drops nothing but what it made, and all of it.
LEMMA Keys0002Hit ==
  /\ \A key \in Keys0002 : key[1] \in KeyKinds
  /\ \A key \in Keys0002, o \in Object : Hit(key, o) => o \in PublicationObjects
  /\ \A o \in PublicationObjects : \E key \in Keys0002 : Hit(key, o)
<1>1. ASSUME NEW kind \in {"index", "constraint", "column"}, NEW n \in PublicationNames,
             NEW key, key = <<kind, "assets", n>>
      PROVE  /\ key[1] \in KeyKinds
             /\ \A o \in Object : Hit(key, o) => o \in PublicationObjects
  <2>1. key[1] = kind /\ key[2] = "assets" /\ key[3] = n
    BY <1>1
  <2>2. ASSUME NEW o \in Object, Hit(key, o)
        PROVE  o \in PublicationObjects
    <3>1. \/ Key(o) = key
          \/ o.table = "assets" /\ n \in o.reads
      BY <2>1, <2>2 DEF Hit, Victims
    <3>2. Key(o) = key => o.table = "assets" /\ o.name = n
      BY <1>1 DEF Key
    <3>3. QED
      BY <3>1, <3>2, AssetParts DEF PublicationObjects
  <2>3. QED
    BY <2>1, <2>2 DEF KeyKinds
<1>2. ASSUME NEW key, key = <<"type", NoTable, "listingstatus">>
      PROVE  /\ key[1] \in KeyKinds
             /\ \A o \in Object : Hit(key, o) => o \in PublicationObjects
  <2>1. key[1] = "type"
    BY <1>2
  <2>2. ASSUME NEW o \in Object, Hit(key, o)
        PROVE  o \in PublicationObjects
    <3>1. Key(o) = key
      BY <2>1, <2>2 DEF Hit, Victims
    <3>2. o.kind = "type" /\ o.name = "listingstatus"
      BY <1>2, <3>1 DEF Key
    <3>3. QED
      BY <3>2, ObjectTable DEF PublicationObjects, ListingType
  <2>3. QED
    BY <2>1, <2>2 DEF KeyKinds
<1>3. ASSUME NEW kind, NEW n, NEW o, <<kind, "assets", n>> \in Keys0002,
             \/ o.kind = kind /\ o.table = "assets" /\ o.name = n
             \/ kind = "column" /\ o.table = "assets" /\ n \in o.reads
      PROVE  \E key \in Keys0002 : Hit(key, o)
  <2> DEFINE key == <<kind, "assets", n>>
  <2>1. key[1] = kind /\ key[2] = "assets" /\ key[3] = n
    OBVIOUS
  <2>2. o.kind = kind /\ o.table = "assets" /\ o.name = n => Key(o) = key
    BY DEF Key
  <2>3. key \in Keys0002
    BY <1>3
  <2> HIDE DEF key
  <2>4. Hit(key, o)
    BY <1>3, <2>1, <2>2 DEF Hit, Victims
  <2>5. QED
    BY <2>3, <2>4
<1>4. ASSUME NEW o \in Publication
      PROVE  \E key \in Keys0002 : Hit(key, o)
  <2>1. CASE o = ListingColumn
    <3>1. o.kind = "column" /\ o.table = "assets" /\ o.name = "listing_status"
      BY <2>1, ColumnFields DEF ListingColumn, PartOf
    <3>2. QED
      BY <1>3, <3>1, Downgrade0002Removes
  <2>2. CASE o = PublicLagos
    <3>1. o.kind = "index" /\ o.table = "assets" /\ o.name = "ix_assets_public_lagos"
      BY <2>2, IndexFields DEF PublicLagos, PartOf
    <3>2. QED
      BY <1>3, <3>1, Downgrade0002Removes
  <2>3. CASE o = TrustTierValid
    <3>1. /\ o.kind = "constraint" /\ o.table = "assets"
          /\ o.name = "ck_assets_minimum_trust_tier_valid"
      BY <2>3, ConstraintFields DEF TrustTierValid, PartOf
    <3>2. QED
      BY <1>3, <3>1, Downgrade0002Removes
  <2>4. CASE o = ForeignKey("assets", "review_actor_id", "users")
    <3>1. PartOf("assets", o, "review_actor_id", {"review_actor_id"})
      BY <2>4, ForeignKeyFields
    <3>2. o.table = "assets" /\ "review_actor_id" \in o.reads
      BY <3>1 DEF PartOf
    <3>3. QED
      BY <1>3, <3>2, Downgrade0002Removes
  <2>5. ASSUME NEW c \in {"minimum_trust_tier", "review_actor_id", "reviewed_at",
                          "review_reason"},
               o = Column("assets", c, {})
        PROVE  \E key \in Keys0002 : Hit(key, o)
    <3>1. o.kind = "column" /\ o.table = "assets" /\ o.name = c
      BY <2>5, ColumnFields DEF PartOf
    <3>2. <<"column", "assets", c>> \in Keys0002
      BY Downgrade0002Removes
    <3>3. QED
      BY <1>3, <3>1, <3>2
  <2>6. QED
    BY <2>1, <2>2, <2>3, <2>4, <2>5, InPublication
<1>5. \E key \in Keys0002 : Hit(key, ListingType)
  <2> DEFINE key == <<"type", NoTable, "listingstatus">>
  <2>1. key \in Keys0002
    BY Downgrade0002Removes
  <2>2. Key(ListingType) = key
    BY TypeFields DEF Key, ListingType
  <2> HIDE DEF key
  <2>3. Hit(key, ListingType)
    BY <2>2 DEF Hit, Victims
  <2>4. QED
    BY <2>1, <2>3
<1>6. \A key \in Keys0002 : /\ key[1] \in KeyKinds
                            /\ \A o \in Object : Hit(key, o) => o \in PublicationObjects
  BY <1>1, <1>2, Downgrade0002Removes
<1>7. QED
  BY <1>4, <1>5, <1>6 DEF PublicationObjects

(***************************************************************************)
(* The plan of a command                                                   *)
(***************************************************************************)

Objects0001 ==
  {Extension("pgcrypto"), Extension("btree_gist")} \cup (Declared(1) \ Unmigrated)

\* What the plan from i up to j makes, what the one from i down to j drops, and how
\* either moves the version.
Makes(i, j) ==
  (IF i = 0 THEN {VersionTable} ELSE {})
    \cup (IF i = 0 /\ j # 0 THEN Objects0001 ELSE {})
    \cup (IF i # 2 /\ j = 2 THEN PublicationObjects ELSE {})

Drops(i, j) == (IF i = 2 THEN Keys0002 ELSE {}) \cup (IF j = 0 THEN Keys0001 ELSE {})

OneStep(i, j) == i - j \in {1, -1}

Stamps(i, j) ==
  IF i = j THEN {} ELSE IF OneStep(i, j) THEN {Stamp(i, j)} ELSE {Stamp(i, 1), Stamp(1, j)}

\* What a script does not have.
LEMMA Absent ==
  ASSUME NEW s, NEW Z, NEW x
  PROVE  /\ \A O : Builds(s, O, Z) /\ x.op = "stamp" /\ x \notin Z => x \notin Statements(s)
         /\ \A O, o : Builds(s, O, Z) /\ x.op = "create" /\ o \in x.objects /\ o \notin O
                      => x \notin Statements(s)
         /\ \A K : Removes(s, K, Z) /\ x.op = "stamp" /\ x \notin Z => x \notin Statements(s)
BY DEF Builds, Removes, Created, Stamped

\* The two scripts up, each with its stamp.
LEMMA ScriptsUp ==
  /\ Builds(Script(0, 1), Objects0001, {Stamp(0, 1)})
  /\ Builds(Script(1, 2), PublicationObjects, {Stamp(1, 2)})
<1>1. Script(0, 1) = Upgrade0001 \o <<Stamp(0, 1)>> /\ Script(1, 2) = Upgrade0002 \o <<Stamp(1, 2)>>
  BY DEF Script
<1>2. Builds(Upgrade0001 \o <<Stamp(0, 1)>>, Objects0001 \cup {}, {} \cup {Stamp(0, 1)})
  BY Upgrade0001Builds, StampsOne, BuildsConcat DEF Objects0001
<1>3. Builds(Upgrade0002 \o <<Stamp(1, 2)>>, PublicationObjects \cup {}, {} \cup {Stamp(1, 2)})
  BY Upgrade0002Builds, StampsOne, BuildsConcat
<1>4. \A S : S \cup {} = S /\ {} \cup S = S
  OBVIOUS
<1>5. QED
  BY <1>1, <1>2, <1>3, <1>4

\* The two scripts down, each with its stamp.
LEMMA ScriptsDown ==
  /\ Removes(Script(1, 0), Keys0001, {Stamp(1, 0)})
  /\ Removes(Script(2, 1), Keys0002, {Stamp(2, 1)})
<1>1. /\ Script(1, 0) = Downgrade0001 \o <<Stamp(1, 0)>>
      /\ Script(2, 1) = Downgrade0002 \o <<Stamp(2, 1)>>
  BY DEF Script
<1>2. Removes(Downgrade0001 \o <<Stamp(1, 0)>>, Keys0001 \cup {}, {} \cup {Stamp(1, 0)})
  BY Downgrade0001Removes, StampsOne, RemovesConcat
<1>3. Removes(Downgrade0002 \o <<Stamp(2, 1)>>, Keys0002 \cup {}, {} \cup {Stamp(2, 1)})
  BY Downgrade0002Removes, StampsOne, RemovesConcat
<1>4. \A S : S \cup {} = S /\ {} \cup S = S
  OBVIOUS
<1>5. QED
  BY <1>1, <1>2, <1>3, <1>4

\* The nine plans, spelled out.
LEMMA Plans ==
  /\ Plan[0][0] = CreateMissing(VersionTable) \o <<>>
  /\ Plan[0][1] = CreateMissing(VersionTable) \o Script(0, 1)
  /\ Plan[0][2] = CreateMissing(VersionTable) \o (Script(0, 1) \o Script(1, 2))
  /\ Plan[1][1] = <<>> \o <<>> /\ Plan[2][2] = <<>> \o <<>>
  /\ Plan[1][2] = <<>> \o Script(1, 2)
  /\ Plan[1][0] = <<>> \o Script(1, 0)
  /\ Plan[2][1] = <<>> \o Script(2, 1)
  /\ Plan[2][0] = <<>> \o (Script(2, 1) \o Script(1, 0))
BY DEF Plan, Revision

\* The empty sequence before another.
LEMMA NothingBefore == \A s, S : Lists(s, S) => <<>> \o s = s
BY ConcatEmptySeq DEF Lists

\* An upgrade, or a command that stays where it is.
LEMMA PlanUp ==
  \A i, j \in Revision : i <= j => Builds(Plan[i][j], Makes(i, j), Stamps(i, j))
<1>1. Builds(CreateMissing(VersionTable), {VersionTable}, {})
  BY BuildsMissing DEF Skippable, Outside
<1>2. \A S : S \cup {} = S /\ {} \cup S = S
  OBVIOUS
<1>3. Builds(Plan[0][0], Makes(0, 0), Stamps(0, 0))
  <2>1. Builds(Plan[0][0], {VersionTable} \cup {}, {} \cup {})
    BY <1>1, Plans, BuildsNothing, BuildsConcat
  <2>2. {VersionTable} \cup {} = Makes(0, 0) /\ {} \cup {} = Stamps(0, 0)
    BY DEF Makes, Stamps
  <2>3. QED
    BY <2>1, <2>2
<1>4. Builds(Plan[0][1], Makes(0, 1), Stamps(0, 1))
  <2>1. Builds(Plan[0][1], {VersionTable} \cup Objects0001, {} \cup {Stamp(0, 1)})
    BY <1>1, Plans, ScriptsUp, BuildsConcat
  <2>2. {VersionTable} \cup Objects0001 = Makes(0, 1) /\ {} \cup {Stamp(0, 1)} = Stamps(0, 1)
    BY DEF Makes, Stamps, OneStep
  <2>3. QED
    BY <2>1, <2>2
<1>5. Builds(Plan[0][2], Makes(0, 2), Stamps(0, 2))
  <2>1. Builds(Script(0, 1) \o Script(1, 2), Objects0001 \cup PublicationObjects,
               {Stamp(0, 1)} \cup {Stamp(1, 2)})
    BY ScriptsUp, BuildsConcat
  <2>2. Builds(Plan[0][2], {VersionTable} \cup (Objects0001 \cup PublicationObjects),
               {} \cup ({Stamp(0, 1)} \cup {Stamp(1, 2)}))
    BY <1>1, <2>1, Plans, BuildsConcat
  <2>3. {VersionTable} \cup (Objects0001 \cup PublicationObjects) = Makes(0, 2)
    BY DEF Makes
  <2>4. {} \cup ({Stamp(0, 1)} \cup {Stamp(1, 2)}) = Stamps(0, 2)
    BY DEF Stamps, OneStep
  <2>5. QED
    BY <2>2, <2>3, <2>4
<1>6. Builds(Plan[1][2], Makes(1, 2), Stamps(1, 2))
  <2>1. Plan[1][2] = Script(1, 2)
    BY Plans, ScriptsUp, NothingBefore DEF Builds
  <2>2. PublicationObjects = Makes(1, 2) /\ {Stamp(1, 2)} = Stamps(1, 2)
    BY DEF Makes, Stamps, OneStep
  <2>3. QED
    BY <2>1, <2>2, ScriptsUp
<1>7. Builds(Plan[1][1], Makes(1, 1), Stamps(1, 1)) /\ Builds(Plan[2][2], Makes(2, 2), Stamps(2, 2))
  <2>1. Plan[1][1] = <<>> /\ Plan[2][2] = <<>>
    BY Plans, ListsEmpty, NothingBefore
  <2>2. /\ {} = Makes(1, 1) /\ {} = Stamps(1, 1)
        /\ {} = Makes(2, 2) /\ {} = Stamps(2, 2)
    BY DEF Makes, Stamps
  <2>3. QED
    BY <2>1, <2>2, BuildsNothing
<1>8. QED
  BY <1>3, <1>4, <1>5, <1>6, <1>7 DEF Revision

\* A downgrade: it drops the index on the publication state before it looks for the
\* type of that state.
LEMMA PlanDown ==
  \A i, j \in Revision : i > j =>
    /\ Removes(Plan[i][j], Drops(i, j), Stamps(i, j))
    /\ First(Plan[i][j], DropPublicLagos, LookForListingType)
<1>1. \A S : S \cup {} = S /\ {} \cup S = S
  OBVIOUS
<1>2. DropPublicLagos.op = "drop" /\ LookForListingType.op = "skip if absent"
  BY DropFields DEF DropPublicLagos, DropIndex, LookForListingType
<1>3. /\ Plan[1][0] = Script(1, 0)
      /\ Plan[2][1] = Script(2, 1)
      /\ Plan[2][0] = Script(2, 1) \o Script(1, 0)
  <2>1. Removes(Script(2, 1) \o Script(1, 0), Keys0002 \cup Keys0001,
                {Stamp(2, 1)} \cup {Stamp(1, 0)})
    BY ScriptsDown, RemovesConcat
  <2>2. QED
    BY <2>1, Plans, ScriptsDown, NothingBefore DEF Removes
<1>4. \A i, j : DropPublicLagos \notin {Stamp(i, j)} /\ LookForListingType \notin {Stamp(i, j)}
  BY <1>2, StampFields
<1>5. /\ Lists(Script(1, 0), Statements(Downgrade0001) \cup {Stamp(1, 0)})
      /\ Lists(Downgrade0001, Statements(Downgrade0001))
      /\ Lists(<<Stamp(1, 0)>>, {Stamp(1, 0)})
  <2> DEFINE s == Downgrade0001
             t == <<Stamp(1, 0)>>
             Z == {Stamp(1, 0)}
  <2>1. Lists(s, Statements(s)) /\ Lists(t, Z)
    BY Downgrade0001Removes, ListsTuple DEF Removes
  <2>2. Script(1, 0) = s \o t
    BY DEF Script
  <2> HIDE DEF s, t, Z
  <2>3. Lists(s \o t, Statements(s) \cup Z)
    BY <2>1, ListsConcat
  <2>4. QED
    BY <2>1, <2>2, <2>3 DEF s, t, Z
<1>6. /\ DropPublicLagos \notin Statements(Downgrade0001) \cup {Stamp(1, 0)}
      /\ LookForListingType \notin Statements(Downgrade0001) \cup {Stamp(1, 0)}
  BY <1>4, Downgrade0001Removes
<1>7. /\ Lists(Downgrade0002, Statements(Downgrade0002))
      /\ Lists(<<Stamp(2, 1)>>, {Stamp(2, 1)})
  BY Downgrade0002Removes, ListsTuple DEF Removes
<1>8. First(Script(2, 1), DropPublicLagos, LookForListingType)
  BY <1>4, <1>7, Downgrade0002Removes, FirstOnTheLeft DEF Script
<1>9. Removes(Plan[1][0], Drops(1, 0), Stamps(1, 0))
      /\ First(Plan[1][0], DropPublicLagos, LookForListingType)
  <2>1. Keys0001 = Drops(1, 0) /\ {Stamp(1, 0)} = Stamps(1, 0)
    BY DEF Drops, Stamps, OneStep
  <2>2. First(Script(1, 0), DropPublicLagos, LookForListingType)
    BY <1>5, <1>6, ListsMember DEF First
  <2>3. QED
    BY <1>3, <2>1, <2>2, ScriptsDown
<1>10. Removes(Plan[2][1], Drops(2, 1), Stamps(2, 1))
       /\ First(Plan[2][1], DropPublicLagos, LookForListingType)
  <2>1. Keys0002 = Drops(2, 1) /\ {Stamp(2, 1)} = Stamps(2, 1)
    BY DEF Drops, Stamps, OneStep
  <2>2. QED
    BY <1>3, <1>8, <2>1, ScriptsDown
<1>11. Removes(Plan[2][0], Drops(2, 0), Stamps(2, 0))
       /\ First(Plan[2][0], DropPublicLagos, LookForListingType)
  <2>1. Removes(Script(2, 1) \o Script(1, 0), Keys0002 \cup Keys0001,
                {Stamp(2, 1)} \cup {Stamp(1, 0)})
    BY ScriptsDown, RemovesConcat
  <2>2. Keys0002 \cup Keys0001 = Drops(2, 0)
    BY DEF Drops
  <2>3. {Stamp(2, 1)} \cup {Stamp(1, 0)} = Stamps(2, 0)
    BY DEF Stamps, OneStep
  <2>4. Lists(Script(2, 1), Statements(Script(2, 1)))
    BY ScriptsDown DEF Removes
  <2>5. First(Script(2, 1) \o Script(1, 0), DropPublicLagos, LookForListingType)
    BY <1>5, <1>6, <1>8, <2>4, FirstOnTheLeft
  <2>6. QED
    BY <1>3, <2>1, <2>2, <2>3, <2>5
<1>12. QED
  BY <1>9, <1>10, <1>11 DEF Revision

\* Two scripts, two stamps, one after the other.
LEMMA StampOrder ==
  /\ First(Plan[0][2], Stamp(0, 1), Stamp(1, 2))
  /\ First(Plan[2][0], Stamp(2, 1), Stamp(1, 0))
<1>1. /\ Stamp(0, 1) # Stamp(1, 2)
      /\ Stamp(2, 1) # Stamp(1, 0)
  BY StampFields
<1>2. \A i, j : Stamp(i, j).op = "stamp"
  BY StampFields
<1>3. ASSUME NEW s, NEW t, NEW x, NEW y, x.op = "stamp", y.op = "stamp", x # y,
             \/ \E O, U : Builds(s, O, {x}) /\ Builds(t, U, {y})
             \/ \E O, U : Removes(s, O, {x}) /\ Removes(t, U, {y})
      PROVE  First(s \o t, x, y)
  <2>1. /\ Lists(s, Statements(s)) /\ Lists(t, Statements(t))
        /\ Stamped(Statements(s)) = {x} /\ Stamped(Statements(t)) = {y}
    BY <1>3 DEF Builds, Removes
  <2>2. x \in Statements(s) /\ y \in Statements(t)
        /\ x \notin Statements(t) /\ y \notin Statements(s)
    BY <1>3, <2>1 DEF Stamped
  <2>3. QED
    BY <2>1, <2>2, FirstAcross
<1>4. First(Script(0, 1) \o Script(1, 2), Stamp(0, 1), Stamp(1, 2))
  BY <1>1, <1>2, <1>3, ScriptsUp
<1>5. First(Script(2, 1) \o Script(1, 0), Stamp(2, 1), Stamp(1, 0))
  BY <1>1, <1>2, <1>3, ScriptsDown
<1>6. First(Plan[0][2], Stamp(0, 1), Stamp(1, 2))
  <2> DEFINE s == CreateMissing(VersionTable)
             t == Script(0, 1) \o Script(1, 2)
  <2>1. Builds(s, {VersionTable}, {})
    BY BuildsMissing DEF Skippable, Outside
  <2>2. Builds(t, Objects0001 \cup PublicationObjects, {Stamp(0, 1)} \cup {Stamp(1, 2)})
    BY ScriptsUp, BuildsConcat
  <2> HIDE DEF s, t
  <2>3. Stamp(0, 1) \notin Statements(s) /\ Stamp(1, 2) \notin Statements(s)
    BY <1>2, <2>1, Absent
  <2>4. First(s \o t, Stamp(0, 1), Stamp(1, 2))
    BY <1>4, <2>1, <2>2, <2>3, FirstOnTheRight DEF Builds, t
  <2>5. QED
    BY <2>4, Plans DEF s, t
<1>7. First(Plan[2][0], Stamp(2, 1), Stamp(1, 0))
  <2>1. Removes(Script(2, 1) \o Script(1, 0), Keys0002 \cup Keys0001,
                {Stamp(2, 1)} \cup {Stamp(1, 0)})
    BY ScriptsDown, RemovesConcat
  <2>2. QED
    BY <1>5, <2>1, Plans, NothingBefore DEF Removes
<1>8. QED
  BY <1>6, <1>7

\* What only 0001 makes, and nothing skips, is made before the first stamp.
LEMMA EnumFirst ==
  \A j \in {1, 2} :
    \E x : /\ x.op = "create" /\ Type("renterrole") \in x.objects
          /\ First(Plan[0][j], x, Stamp(0, 1))
<1> DEFINE o == Type("renterrole")
           y == Stamp(0, 1)
<1>1. PICK x \in Statements(Upgrade0001) : x.op = "create" /\ o \in x.objects
  <2>1. o \in Declared(1) \ Unmigrated
    BY PublicationThere, MetadataParts
  <2>2. o \in Created(Statements(Upgrade0001))
    BY <2>1, Upgrade0001Builds DEF Builds
  <2>3. QED
    BY <2>2 DEF Created
<1>2. y.op = "stamp" /\ y \notin {} /\ y \notin {Stamp(1, 2)}
  BY StampFields
<1>3. o # VersionTable /\ o \notin PublicationObjects
  BY PublicationThere DEF Outside
<1> HIDE DEF o, y
<1>4. First(Script(0, 1), x, y)
  <2>1. y \notin Statements(Upgrade0001)
    BY <1>2, Absent, Upgrade0001Builds
  <2>2. x \notin {y}
    BY <1>1, <1>2
  <2>3. Lists(Upgrade0001, Statements(Upgrade0001)) /\ Lists(<<y>>, {y})
    BY Upgrade0001Builds, ListsTuple DEF Builds
  <2>4. First(Upgrade0001 \o <<y>>, x, y)
    BY <2>1, <2>2, <2>3, FirstAcross
  <2>5. QED
    BY <2>4 DEF Script, y
<1>5. First(Script(0, 1) \o Script(1, 2), x, y)
  <2>1. x \notin Statements(Script(1, 2)) /\ y \notin Statements(Script(1, 2))
    BY <1>1, <1>2, <1>3, Absent, ScriptsUp
  <2>2. QED
    BY <1>4, <2>1, ScriptsUp, FirstOnTheLeft DEF Builds
<1>6. Builds(CreateMissing(VersionTable), {VersionTable}, {})
  BY BuildsMissing DEF Skippable, Outside
<1>7. /\ x \notin Statements(CreateMissing(VersionTable))
      /\ y \notin Statements(CreateMissing(VersionTable))
  BY <1>1, <1>2, <1>3, <1>6, Absent
<1>8. First(Plan[0][1], x, y)
  BY <1>4, <1>6, <1>7, Plans, ScriptsUp, FirstOnTheRight DEF Builds
<1>9. First(Plan[0][2], x, y)
  <2>1. Builds(Script(0, 1) \o Script(1, 2), Objects0001 \cup PublicationObjects,
               {Stamp(0, 1)} \cup {Stamp(1, 2)})
    BY ScriptsUp, BuildsConcat
  <2>2. QED
    BY <1>5, <1>6, <1>7, <2>1, Plans, FirstOnTheRight DEF Builds
<1>10. QED
  BY <1>1, <1>8, <1>9 DEF o, y

\* An upgrade makes what the models declare at its target and not where it starts.
LEMMA MakesDeclared ==
  \A i, j \in Revision : i <= j =>
    /\ Makes(i, j) \subseteq Object
    /\ (Declared(i) \ Unmigrated) \cup (Makes(i, j) \ Outside) = Declared(j) \ Unmigrated
    /\ i = j => Makes(i, j) \subseteq Outside
    /\ i # 2 /\ j = 2 => PublicationObjects \subseteq Makes(i, j)
    /\ Makes(i, j) \cap PublicationObjects # {} => i # 2 /\ j = 2
<1>1. /\ VersionTable \in Outside
      /\ {Extension("pgcrypto"), Extension("btree_gist")} \subseteq Outside
  BY DEF Outside
<1>2. (Tabled \cup EnumTypes) \cap Outside = {} /\ PublicationObjects \cap Outside = {}
  <2>1. ASSUME NEW o \in Outside PROVE o \notin Tabled \cup EnumTypes
    <3>1. /\ o.kind # "type" /\ o.kind \notin PartKinds
          /\ o.kind = "table" => o.name \notin TableNames
      BY OutsideFields DEF PartKinds, TableNames
    <3>2. o \notin EnumTypes
      BY <3>1, TypeFields DEF EnumTypes
    <3>3. \A t \in TableNames : ~Belongs(t, o)
      BY <3>1, TableFields DEF Belongs
    <3>4. o \notin Tabled
      BY <3>3, TablesBelong DEF Tabled, TableNames
    <3>5. QED
      BY <3>2, <3>4
  <2>2. QED
    BY <2>1, MetadataParts
<1>3. PublicationObjects \cap Unmigrated = {}
  BY PublicationThere, MetadataParts
<1>4. /\ Declared(0) = {}
      /\ Declared(1) = Tabled \cup EnumTypes
      /\ Declared(2) = Tabled \cup EnumTypes \cup PublicationObjects
      /\ Metadata = Tabled \cup EnumTypes \cup PublicationObjects
      /\ (Tabled \cup EnumTypes \cup Outside) \cap PublicationObjects = {}
  BY MetadataParts
<1> DEFINE A == Tabled \cup EnumTypes
<1>5. /\ Objects0001 \subseteq Outside \cup A
      /\ Objects0001 \ Outside = A \ Unmigrated
  BY <1>1, <1>2, <1>4 DEF Objects0001
<1>6. /\ Makes(0, 0) = {VersionTable}
      /\ Makes(0, 1) = {VersionTable} \cup Objects0001
      /\ Makes(0, 2) = {VersionTable} \cup Objects0001 \cup PublicationObjects
      /\ Makes(1, 2) = PublicationObjects
      /\ Makes(1, 1) = {} /\ Makes(2, 2) = {}
  BY DEF Makes
<1>7. Object = A \cup PublicationObjects \cup Outside
  BY <1>4 DEF Object
<1> HIDE DEF A
<1> DEFINE Q(i, j) ==
      /\ Makes(i, j) \subseteq Object
      /\ (Declared(i) \ Unmigrated) \cup (Makes(i, j) \ Outside) = Declared(j) \ Unmigrated
      /\ i = j => Makes(i, j) \subseteq Outside
      /\ i # 2 /\ j = 2 => PublicationObjects \subseteq Makes(i, j)
      /\ Makes(i, j) \cap PublicationObjects # {} => i # 2 /\ j = 2
<1>8. Declared(1) = A /\ Declared(2) = A \cup PublicationObjects
      /\ (A \cup Outside) \cap PublicationObjects = {}
  BY <1>4 DEF A
<1>9. Q(0, 0)
  BY <1>1, <1>4, <1>6, <1>7, <1>8
<1>10. Q(0, 1)
  BY <1>1, <1>4, <1>5, <1>6, <1>7, <1>8
<1>11. Q(0, 2)
  BY <1>1, <1>2, <1>3, <1>4, <1>5, <1>6, <1>7, <1>8
<1>12. Q(1, 2)
  BY <1>2, <1>3, <1>6, <1>7, <1>8
<1>13. Q(1, 1) /\ Q(2, 2)
  BY <1>6
<1>14. QED
  BY <1>9, <1>10, <1>11, <1>12, <1>13 DEF Revision

===============================================================================
