------------------------------ MODULE AloneProofs ------------------------------
(***************************************************************************)
(* A command that runs alone is never refused a statement: the scripts     *)
(* create what a statement needs before it, and drop what needs an object  *)
(* before the object; no name is taken twice; what may be there, or not,   *)
(* is looked for; and the version they stamp is the one they started from. *)
(* These are facts about the two scripts, statement by statement, for      *)
(* every upgrade and downgrade; the invariant says that a command which is *)
(* alone sees the catalog its position in the plan calls for.              *)
(***************************************************************************)
EXTENDS MigrationsProofs

-----------------------------------------------------------------------------
(* Scripts whose statements find what they need *)

\* The names that the objects of S need, and the statements of s before position k.
Needs(S) == UNION {o.needs \cup ({o.table} \ {NoTable}) : o \in S}
Passing(s, k) == {s[l] : l \in 1 .. k - 1}

\* Where the names N are there, every CREATE of s finds the names it needs, and the
\* backfill its table; nothing is made twice, and what may be there already is
\* looked for.
Works(s, N) ==
  \A k \in 1 .. Len(s) :
    /\ s[k].op = "create" =>
         /\ Needs(s[k].objects) \subseteq
              N \cup Names(Created(Passing(s, k))) \cup Names(s[k].objects)
         /\ s[k].objects \cap Created(Passing(s, k)) = {}
         /\ s[k].objects \cap Skippable # {} =>
              k > 1 /\ s[k - 1].op = "skip if present" /\ s[k].objects = {s[k - 1].object}
    /\ s[k].op = "backfill" =>
         s[k].table \in TableNames \cap (N \cup Names(Created(Passing(s, k))))

\* The names of two sets of objects.
LEMMA NamesUnion == \A S, T : Names(S \cup T) = Names(S) \cup Names(T)
BY DEF Names

\* The needs of two sets of objects.
LEMMA NeedsUnion == \A S, T : Needs(S \cup T) = Needs(S) \cup Needs(T)
BY DEF Needs

\* The statements before a position of two scripts.
LEMMA PassingConcat ==
  ASSUME NEW s, NEW t, Lists(s, Statements(s)), Lists(t, Statements(t))
  PROVE  /\ \A k \in 1 .. Len(s) : Passing(s \o t, k) = Passing(s, k)
         /\ \A n \in 1 .. Len(t) : Passing(s \o t, Len(s) + n) = Statements(s) \cup Passing(t, n)
<1>1. ASSUME NEW k \in 1 .. Len(s)
      PROVE  Passing(s \o t, k) = Passing(s, k)
  <2>1. \A l \in 1 .. k - 1 : (s \o t)[l] = s[l]
    <3>1. Len(s) \in Nat
      BY ListsMember
    <3>2. \A l \in 1 .. k - 1 : l \in 1 .. Len(s)
      BY <3>1
    <3>3. QED
      BY <3>2, ListsConcat
  <2>2. QED
    BY <2>1 DEF Passing
<1>2. ASSUME NEW n \in 1 .. Len(t)
      PROVE  Passing(s \o t, Len(s) + n) = Statements(s) \cup Passing(t, n)
  <2>1. Len(s) \in Nat /\ Len(t) \in Nat
    BY ListsMember
  <2>2. /\ \A l \in 1 .. Len(s) : (s \o t)[l] = s[l]
        /\ \A l \in 1 .. Len(t) : (s \o t)[Len(s) + l] = t[l]
    BY ListsConcat
  <2>3. \A l \in 1 .. Len(s) + n - 1 : l \in 1 .. Len(s) \/ \E h \in 1 .. n - 1 : l = Len(s) + h
    <3> TAKE l \in 1 .. Len(s) + n - 1
    <3>1. CASE l <= Len(s)
      BY <2>1, <3>1
    <3>2. CASE ~(l <= Len(s))
      <4>1. l - Len(s) \in 1 .. n - 1 /\ l = Len(s) + (l - Len(s))
        BY <2>1, <3>2
      <4>2. QED
        BY <4>1
    <3>3. QED
      BY <3>1, <3>2
  <2>4. \A l \in 1 .. Len(s) : l \in 1 .. Len(s) + n - 1
    BY <2>1
  <2>5. \A h \in 1 .. n - 1 : h \in 1 .. Len(t) /\ Len(s) + h \in 1 .. Len(s) + n - 1
    BY <2>1
  <2>6. ASSUME NEW x \in Passing(s \o t, Len(s) + n)
        PROVE  x \in Statements(s) \cup Passing(t, n)
    <3>1. PICK l \in 1 .. Len(s) + n - 1 : x = (s \o t)[l]
      BY DEF Passing
    <3>2. CASE l \in 1 .. Len(s)
      BY <2>2, <3>1, <3>2 DEF Statements
    <3>3. CASE \E h \in 1 .. n - 1 : l = Len(s) + h
      BY <2>2, <2>5, <3>1, <3>3 DEF Passing
    <3>4. QED
      BY <2>3, <3>2, <3>3
  <2>7. ASSUME NEW x \in Statements(s) \cup Passing(t, n)
        PROVE  x \in Passing(s \o t, Len(s) + n)
    <3>1. CASE x \in Statements(s)
      BY <2>2, <2>4, <3>1 DEF Statements, Passing
    <3>2. CASE x \in Passing(t, n)
      <4>1. PICK h \in 1 .. n - 1 : x = t[h]
        BY <3>2 DEF Passing
      <4>2. x = (s \o t)[Len(s) + h] /\ Len(s) + h \in 1 .. Len(s) + n - 1
        BY <2>2, <2>5, <4>1
      <4>3. QED
        BY <4>2 DEF Passing
    <3>3. QED
      BY <3>1, <3>2
  <2>8. QED
    BY <2>6, <2>7
<1>3. QED
  BY <1>1, <1>2

\* A script after another finds what the first has made.
LEMMA WorksConcat ==
  ASSUME NEW s, NEW O, NEW Z, NEW t, NEW U, NEW Y, Builds(s, O, Z), Builds(t, U, Y),
         NEW N, Works(s, N), Works(t, N \cup Names(O)), O \cap U = {}
  PROVE  Works(s \o t, N)
<1> DEFINE r == s \o t
<1>1. Lists(s, Statements(s)) /\ Lists(t, Statements(t)) /\ Created(Statements(s)) = O
      /\ Created(Statements(t)) = U
  BY DEF Builds
<1>2. Len(s) \in Nat /\ Len(t) \in Nat
  BY <1>1, ListsMember
<1>3. /\ \A k \in 1 .. Len(s) : r[k] = s[k]
      /\ \A n \in 1 .. Len(t) : r[Len(s) + n] = t[n]
      /\ \A k \in 1 .. Len(r) : k \in 1 .. Len(s) \/ \E n \in 1 .. Len(t) : k = Len(s) + n
  <2>1. Len(r) = Len(s) + Len(t)
    BY <1>1, ListsConcat
  <2>2. \A k \in 1 .. Len(s) : r[k] = s[k]
    BY <1>1, ListsConcat
  <2>3. \A n \in 1 .. Len(t) : r[Len(s) + n] = t[n]
    BY <1>1, ListsConcat
  <2>4. \A k \in 1 .. Len(s) + Len(t) : k \in 1 .. Len(s) \/ \E n \in 1 .. Len(t) : k = Len(s) + n
    BY <1>1, ListsConcat
  <2> HIDE DEF r
  <2>5. QED
    BY <2>1, <2>2, <2>3, <2>4
<1>4. /\ \A k \in 1 .. Len(s) : Passing(r, k) = Passing(s, k)
      /\ \A n \in 1 .. Len(t) : Passing(r, Len(s) + n) = Statements(s) \cup Passing(t, n)
  BY <1>1, PassingConcat
<1> DEFINE Fine(k) ==
      /\ r[k].op = "create" =>
           /\ Needs(r[k].objects) \subseteq
                N \cup Names(Created(Passing(r, k))) \cup Names(r[k].objects)
           /\ r[k].objects \cap Created(Passing(r, k)) = {}
           /\ r[k].objects \cap Skippable # {} =>
                k > 1 /\ r[k - 1].op = "skip if present" /\ r[k].objects = {r[k - 1].object}
      /\ r[k].op = "backfill" =>
           r[k].table \in TableNames \cap (N \cup Names(Created(Passing(r, k))))
<1> HIDE DEF r
<1>5. ASSUME NEW k \in 1 .. Len(s)
      PROVE  Fine(k)
  <2>1. r[k] = s[k] /\ Passing(r, k) = Passing(s, k)
    BY <1>3, <1>4
  <2>2. k > 1 => r[k - 1] = s[k - 1]
    <3>1. k > 1 => k - 1 \in 1 .. Len(s)
      BY <1>2
    <3>2. QED
      BY <1>3, <3>1
  <2>3. QED
    BY <2>1, <2>2 DEF Works
<1>6. ASSUME NEW n \in 1 .. Len(t)
      PROVE  Fine(Len(s) + n)
  <2> DEFINE k == Len(s) + n
             P == Passing(t, n)
             x == t[n]
  <2>1. r[k] = x /\ Passing(r, k) = Statements(s) \cup P
    BY <1>3, <1>4
  <2>2. Created(Passing(r, k)) = O \cup Created(P)
    BY <1>1, <2>1 DEF Created
  <2>3. n > 1 => r[k - 1] = t[n - 1]
    <3>1. n > 1 => n - 1 \in 1 .. Len(t) /\ Len(s) + (n - 1) = k - 1
      BY <1>2
    <3>2. QED
      BY <1>3, <3>1
  <2>4. n > 1 => k > 1
    BY <1>2
  <2>5. x.op = "create" => x.objects \subseteq U
    <3>1. x \in Statements(t)
      BY DEF Statements
    <3>2. QED
      BY <1>1, <3>1 DEF Created
  <2>6. /\ x.op = "create" =>
             /\ Needs(x.objects) \subseteq
                  (N \cup Names(O)) \cup Names(Created(P)) \cup Names(x.objects)
             /\ x.objects \cap Created(P) = {}
             /\ x.objects \cap Skippable # {} =>
                  n > 1 /\ t[n - 1].op = "skip if present" /\ x.objects = {t[n - 1].object}
        /\ x.op = "backfill" =>
             x.table \in TableNames \cap ((N \cup Names(O)) \cup Names(Created(P)))
    BY DEF Works
  <2>7. Names(Created(Passing(r, k))) = Names(O) \cup Names(Created(P))
    BY <2>2, NamesUnion
  <2> HIDE DEF k, P, x
  <2>8. x.op = "create" =>
          /\ Needs(x.objects) \subseteq N \cup Names(Created(Passing(r, k))) \cup Names(x.objects)
          /\ x.objects \cap Created(Passing(r, k)) = {}
    BY <2>2, <2>5, <2>6, <2>7
  <2>9. x.op = "create" /\ x.objects \cap Skippable # {} =>
          k > 1 /\ r[k - 1].op = "skip if present" /\ x.objects = {r[k - 1].object}
    BY <2>3, <2>4, <2>6
  <2>10. x.op = "backfill" =>
           x.table \in TableNames \cap (N \cup Names(Created(Passing(r, k))))
    BY <2>6, <2>7
  <2>11. Fine(k)
    BY <2>1, <2>8, <2>9, <2>10
  <2>12. QED
    BY <2>11 DEF k
<1>7. \A k \in 1 .. Len(r) : Fine(k)
  <2> HIDE DEF Fine
  <2>1. QED
    BY <1>3, <1>5, <1>6
<1>8. Works(r, N)
  BY <1>7 DEF Works
<1>9. QED
  BY <1>8 DEF r

\* More names do no harm.
LEMMA WorksMore ==
  ASSUME NEW s, NEW N, NEW K, Works(s, N), N \subseteq K
  PROVE  Works(s, K)
BY DEF Works

\* No statement lacks anything.
LEMMA WorksNothing == \A N : Works(<<>>, N)
<1> TAKE N
<1>1. Len(<<>>) = 0
  OBVIOUS
<1> DEFINE s == <<>>
<1> HIDE DEF s
<1>2. Len(s) = 0
  BY <1>1 DEF s
<1>3. Works(s, N)
  <2>1. 1 .. Len(s) = {}
    BY <1>2
  <2>2. QED
    BY <2>1 DEF Works
<1>4. QED
  BY <1>3 DEF s

\* A script of one CREATE.
LEMMA WorksOne ==
  ASSUME NEW A, NEW N, Needs(A) \subseteq N \cup Names(A), A \cap Skippable = {}
  PROVE  Works(<<Create(A)>>, N)
<1> DEFINE s == <<Create(A)>>
<1>1. Len(s) = 1 /\ s[1] = Create(A)
  OBVIOUS
<1>2. Passing(s, 1) = {}
  BY DEF Passing
<1>3. Created(Passing(s, 1)) = {}
  BY <1>2, Empty
<1> HIDE DEF s
<1>4. \A k \in 1 .. Len(s) : k = 1
  BY <1>1
<1>5. Works(s, N)
  BY <1>1, <1>3, <1>4, CreateFields DEF Works
<1>6. QED
  BY <1>5 DEF s

\* A stamp needs no object.
LEMMA WorksStamp == \A i, j, N : Works(<<Stamp(i, j)>>, N)
<1> TAKE i, j, N
<1> DEFINE s == <<Stamp(i, j)>>
<1>1. Len(s) = 1 /\ s[1] = Stamp(i, j)
  OBVIOUS
<1> HIDE DEF s
<1>2. \A k \in 1 .. Len(s) : s[k].op = "stamp"
  BY <1>1, StampFields
<1>3. Works(s, N)
  BY <1>2 DEF Works
<1>4. QED
  BY <1>3 DEF s

\* A look and the CREATE after it.
LEMMA WorksMissing ==
  ASSUME NEW o \in Skippable, NEW N
  PROVE  Works(CreateMissing(o), N)
<1> DEFINE s == CreateMissing(o)
           look == [op |-> "skip if present", object |-> o]
<1>1. Len(s) = 2 /\ s[1] = look /\ s[2] = Create({o})
  BY DEF CreateMissing
<1>2. look.op = "skip if present" /\ look.object = o
  OBVIOUS
<1>3. Passing(s, 2) = {look}
  <2>1. 1 .. 2 - 1 = {1}
    OBVIOUS
  <2>2. \A x : x \in Passing(s, 2) <=> x = s[1]
    BY <2>1 DEF Passing
  <2>3. QED
    BY <1>1, <2>2
<1>4. Created(Passing(s, 2)) = {}
  BY <1>2, <1>3 DEF Created
<1>5. Needs({o}) = {}
  <2>1. o.needs = {} /\ o.table = NoTable
    <3>1. \A kind, n : /\ FreeStanding(kind, n).needs = {}
                       /\ FreeStanding(kind, n).table = NoTable
      BY DEF FreeStanding
    <3>2. QED
      BY <3>1 DEF Skippable, Outside, VersionTable, ListingType, Type, Table, Extension
  <2>2. QED
    BY <2>1 DEF Needs
<1>6. s[2].op = "create" /\ s[2].objects = {o}
  BY <1>1, CreateFields
<1> HIDE DEF s, look
<1>7. \A k \in 1 .. Len(s) : k = 1 \/ k = 2
  BY <1>1
<1>8. 2 - 1 = 1 /\ 2 > 1
  OBVIOUS
<1>9. Works(s, N)
  BY <1>1, <1>2, <1>4, <1>5, <1>6, <1>7, <1>8 DEF Works
<1>10. QED
  BY <1>9 DEF s

-----------------------------------------------------------------------------
(* Scripts whose DROPs succeed *)

\* The objects of C that no drop of the keys K takes away.
Rest(C, K) == {o \in C : \A key \in K : ~Hit(key, o)}

Clears(s, C) ==
  \A k \in 1 .. Len(s) :
    s[k].op = "drop" => Droppable(s[k].object, Rest(C, Dropped(Passing(s, k))))

\* No version is stamped twice.
Once(s) == \A k \in 1 .. Len(s) : s[k].op = "stamp" => s[k] \notin Passing(s, k)

\* What is listed first and then.
LEMMA ConcatIs ==
  ASSUME NEW s, NEW S, NEW t, NEW T, NEW r, NEW R, Lists(s, S), Lists(t, T), Lists(r, R),
         Len(r) = Len(s) + Len(t), \A k \in 1 .. Len(s) : r[k] = s[k],
         \A k \in 1 .. Len(t) : r[Len(s) + k] = t[k]
  PROVE  s \o t = r
<1> DEFINE q == s \o t
<1>1. /\ Lists(q, S \cup T) /\ Len(q) = Len(s) + Len(t)
      /\ \A k \in 1 .. Len(s) : q[k] = s[k]
  BY ListsConcat
<1>2. \A k \in 1 .. Len(t) : q[Len(s) + k] = t[k]
  BY ListsConcat
<1>3. \A k \in 1 .. Len(s) + Len(t) : k \in 1 .. Len(s) \/ \E l \in 1 .. Len(t) : k = Len(s) + l
  BY ListsConcat
<1> HIDE DEF q
<1>4. \A k \in 1 .. Len(q) : q[k] = r[k]
  BY <1>1, <1>2, <1>3
<1> DEFINE A == S \cup T \cup R
<1>5. q \in Seq(A) /\ r \in Seq(A)
  <2>1. S \cup T \subseteq A /\ R \subseteq A
    OBVIOUS
  <2> HIDE DEF A
  <2>2. QED
    BY <1>1, <2>1, SeqMonotonic DEF Lists
<1> HIDE DEF A
<1>6. q = r
  BY <1>1, <1>4, <1>5, SeqEqual
<1>7. QED
  BY <1>6 DEF q

\* Two statements, one after the other.
LEMMA Pair == \A a, b : <<a>> \o <<b>> = <<a, b>>
<1> TAKE a, b
<1> DEFINE s == <<a>>
           t == <<b>>
           r == <<a, b>>
<1>1. Lists(s, {a}) /\ Lists(t, {b}) /\ Lists(r, {a, b})
  BY ListsTuple
<1>2. Len(s) = 1 /\ Len(t) = 1 /\ Len(r) = 2 /\ s[1] = a /\ t[1] = b /\ r[1] = a /\ r[2] = b
  OBVIOUS
<1> HIDE DEF s, t, r
<1>3. Len(r) = Len(s) + Len(t)
  BY <1>2
<1>4. \A k \in 1 .. Len(s) : r[k] = s[k]
  BY <1>2
<1>5. \A k \in 1 .. Len(t) : r[Len(s) + k] = t[k]
  BY <1>2
<1>6. s \o t = r
  BY <1>1, <1>3, <1>4, <1>5, ConcatIs
<1>7. QED
  BY <1>6 DEF s, t, r

\* Four statements, two after two.
LEMMA Four == \A a, b, c, d : <<a, b>> \o <<c, d>> = <<a, b, c, d>>
<1> TAKE a, b, c, d
<1> DEFINE s == <<a, b>>
           t == <<c, d>>
           r == <<a, b, c, d>>
<1>1. Lists(s, {a, b}) /\ Lists(t, {c, d}) /\ Lists(r, {a, b, c, d})
  BY ListsTuple
<1>2. /\ Len(s) = 2 /\ Len(t) = 2 /\ Len(r) = 4 /\ s[1] = a /\ s[2] = b /\ t[1] = c /\ t[2] = d
      /\ r[1] = a /\ r[2] = b /\ r[3] = c /\ r[4] = d
  OBVIOUS
<1> HIDE DEF s, t, r
<1>3. Len(r) = Len(s) + Len(t)
  BY <1>2
<1>4. \A k \in 1 .. Len(s) : r[k] = s[k]
  BY <1>2
<1>5. \A k \in 1 .. Len(t) : r[Len(s) + k] = t[k]
  BY <1>2
<1>6. s \o t = r
  BY <1>1, <1>3, <1>4, <1>5, ConcatIs
<1>7. QED
  BY <1>6 DEF s, t, r

\* Eight statements, four after four.
LEMMA Eight ==
  \A a, b, c, d, e, f, g, h :
    <<a, b, c, d>> \o <<e, f, g, h>> = <<a, b, c, d, e, f, g, h>>
<1> TAKE a, b, c, d, e, f, g, h
<1> DEFINE s == <<a, b, c, d>>
           t == <<e, f, g, h>>
           r == <<a, b, c, d, e, f, g, h>>
<1>1. Lists(s, {a, b, c, d}) /\ Lists(t, {e, f, g, h}) /\ Lists(r, {a, b, c, d, e, f, g, h})
  BY ListsTuple
<1>2. /\ Len(s) = 4 /\ Len(t) = 4 /\ Len(r) = 8
      /\ s[1] = a /\ s[2] = b /\ s[3] = c /\ s[4] = d
      /\ t[1] = e /\ t[2] = f /\ t[3] = g /\ t[4] = h
      /\ r[1] = a /\ r[2] = b /\ r[3] = c /\ r[4] = d
      /\ r[5] = e /\ r[6] = f /\ r[7] = g /\ r[8] = h
  OBVIOUS
<1> HIDE DEF s, t, r
<1>3. Len(r) = Len(s) + Len(t)
  BY <1>2
<1>4. \A k \in 1 .. Len(s) : r[k] = s[k]
  <2>1. \A k \in 1 .. Len(s) : k = 1 \/ k = 2 \/ k = 3 \/ k = 4
    BY <1>2
  <2>2. QED
    BY <1>2, <2>1
<1>5. \A k \in 1 .. Len(t) : r[Len(s) + k] = t[k]
  <2>1. \A k \in 1 .. Len(t) : k = 1 \/ k = 2 \/ k = 3 \/ k = 4
    BY <1>2
  <2>2. QED
    BY <1>2, <2>1
<1>6. s \o t = r
  BY <1>1, <1>3, <1>4, <1>5, ConcatIs
<1>7. QED
  BY <1>6 DEF s, t, r

-----------------------------------------------------------------------------
(* The order of what the scripts make *)

Good(s, O, N) == Builds(s, O, {}) /\ Works(s, N)

\* A script after another that makes other objects.
LEMMA GoodConcat ==
  ASSUME NEW s, NEW O, NEW N, NEW t, NEW U, NEW L, Good(s, O, N), Good(t, U, L),
         L \subseteq N \cup Names(O), O \cap U = {}
  PROVE  Good(s \o t, O \cup U, N)
<1>1. Builds(s, O, {}) /\ Works(s, N) /\ Builds(t, U, {}) /\ Works(t, L)
  BY DEF Good
<1>2. Works(t, N \cup Names(O))
  BY <1>1, WorksMore
<1>3. Works(s \o t, N)
  BY <1>1, <1>2, WorksConcat
<1>4. {} \cup {} = {}
  OBVIOUS
<1>5. Builds(s \o t, O \cup U, {} \cup {})
  BY <1>1, BuildsConcat
<1>6. Builds(s \o t, O \cup U, {})
  BY <1>4, <1>5
<1>7. QED
  BY <1>3, <1>6 DEF Good

\* The parts of a table are none of the objects that may be there already.
LEMMA PartNotSkippable ==
  \A t \in TableNames : \A o : Belongs(t, o) => o \notin Skippable
<1>1. \A n : Table(n).kind = "table" /\ Table(n).name = n
             /\ Type(n).kind = "type" /\ Extension(n).kind = "extension"
  BY TableFields, TypeFields, ExtensionFields
<1>2. "alembic_version" \notin TableNames
  BY DEF TableNames
<1>3. \A o \in Skippable :
        o = Table("alembic_version") \/ o.kind = "extension" \/ o.kind = "type"
  BY <1>1 DEF Skippable, Outside, ListingType, VersionTable
<1>4. \A o \in Skippable : o.kind \notin PartKinds
  BY <1>1, <1>3 DEF PartKinds
<1>5. \A t \in TableNames : Table(t) \notin Skippable
  BY <1>1, <1>2, <1>3
<1>6. QED
  BY <1>4, <1>5 DEF Belongs

\* No object belongs to two tables.
LEMMA OneTable ==
  \A t, u \in TableNames : \A o : Belongs(t, o) /\ Belongs(u, o) => t = u
<1>1. \A n : Table(n).kind = "table" /\ Table(n).name = n
  BY TableFields
<1>2. \A n : Table(n).kind \notin PartKinds
  BY <1>1 DEF PartKinds
<1>3. QED
  BY <1>1, <1>2 DEF Belongs

\* A CREATE of parts of one table.
LEMMA GoodCreate ==
  ASSUME NEW t \in TableNames, NEW A, \A o \in A : Belongs(t, o), NEW N,
         Needs(A) \subseteq N \cup Names(A)
  PROVE  Good(<<Create(A)>>, A, N)
<1>1. A \cap Skippable = {}
  BY PartNotSkippable
<1>2. QED
  BY <1>1, WorksOne, BuildsOne DEF Good

\* What the parts of a table need.
LEMMA NeedsTableWith ==
  ASSUME NEW t, NEW typed, NEW references, NEW constraints
  PROVE  Needs(TableWith(t, typed, references, constraints))
           \subseteq {t} \cup {p[2] : p \in typed} \cup {p[2] : p \in references}
<1> DEFINE T == TableWith(t, typed, references, constraints)
           R == {t} \cup {p[2] : p \in typed} \cup {p[2] : p \in references}
<1>1. \A n : Table(n).needs = {} /\ Table(n).table = NoTable
  BY DEF Table, FreeStanding
<1>2. \A c, n : Column(t, c, {n}).needs = {n} /\ Column(t, c, {n}).table = t
  BY DEF Column, Part
<1>3. \A c, u : ForeignKey(t, c, u).needs = {u} /\ ForeignKey(t, c, u).table = t
  BY DEF ForeignKey, Part
<1>4. \A n : Constraint(t, n, {}).needs = {} /\ Constraint(t, n, {}).table = t
  BY DEF Constraint, Part
<1>5. ASSUME NEW o \in T
      PROVE  o.needs \cup ({o.table} \ {NoTable}) \subseteq R
  <2>1. CASE o = Table(t)
    BY <1>1, <2>1
  <2>2. ASSUME NEW p \in typed, o = Column(t, p[1], {p[2]})
        PROVE  o.needs \cup ({o.table} \ {NoTable}) \subseteq R
    <3>1. o.needs = {p[2]} /\ o.table = t
      BY <1>2, <2>2
    <3>2. QED
      BY <3>1
  <2>3. ASSUME NEW p \in references, o = ForeignKey(t, p[1], p[2])
        PROVE  o.needs \cup ({o.table} \ {NoTable}) \subseteq R
    BY <1>3, <2>3
  <2>4. ASSUME NEW n \in constraints, o = Constraint(t, n, {})
        PROVE  o.needs \cup ({o.table} \ {NoTable}) \subseteq R
    BY <1>4, <2>4
  <2>5. QED
    BY <2>1, <2>2, <2>3, <2>4 DEF TableWith
<1> HIDE DEF R
<1>6. Needs(T) \subseteq R
  BY <1>5 DEF Needs
<1>7. QED
  BY <1>6 DEF R

\* A table is among its own names.
LEMMA TableNamed ==
  \A t, typed, references, constraints : t \in Names(TableWith(t, typed, references, constraints))
BY TableFields DEF Names, TableWith

\* An index needs its table.
LEMMA IndexNeeds == \A n, t : Needs({Index(t, n, {})}) \subseteq {t}
BY DEF Needs, Index, Part

\* A table and an index on it.
LEMMA GoodTable ==
  ASSUME NEW t \in TableNames, NEW typed, NEW references, NEW constraints,
         NEW N, {p[2] : p \in typed} \cup {p[2] : p \in references} \subseteq N
  PROVE  Good(<<Create(TableWith(t, typed, references, constraints))>>,
              TableWith(t, typed, references, constraints), N)
<1> DEFINE T == TableWith(t, typed, references, constraints)
<1>1. \A o \in T : Belongs(t, o)
  BY TableWithBelongs
<1>2. Needs(T) \subseteq {t} \cup {p[2] : p \in typed} \cup {p[2] : p \in references}
  BY NeedsTableWith
<1>3. t \in Names(T)
  BY TableNamed
<1> HIDE DEF T
<1>4. Needs(T) \subseteq N \cup Names(T)
  BY <1>2, <1>3
<1>5. Good(<<Create(T)>>, T, N)
  BY <1>1, <1>4, GoodCreate
<1>6. QED
  BY <1>5 DEF T

\* An index on a table that is there.
LEMMA GoodIndex ==
  \A t \in TableNames : \A n : Good(<<CreateIndex(n, t)>>, {Index(t, n, {})}, {t})
<1> TAKE t \in TableNames
<1> TAKE n
<1> DEFINE A == {Index(t, n, {})}
<1>1. \A o \in A : Belongs(t, o)
  BY IndexBelongs
<1>2. Needs(A) \subseteq {t}
  BY IndexNeeds
<1> HIDE DEF A
<1>3. Good(<<Create(A)>>, A, {t})
  BY <1>1, <1>2, GoodCreate
<1>4. QED
  BY <1>3 DEF A, CreateIndex

\* A CREATE TABLE makes no index.
LEMMA NoIndex ==
  ASSUME NEW t, NEW typed, NEW references, NEW constraints, NEW n
  PROVE  Index(t, n, {}) \notin TableWith(t, typed, references, constraints)
<1>1. Index(t, n, {}).kind = "index"
  BY IndexFields
<1>2. Table(t).kind = "table"
  BY TableFields
<1>3. QED
  BY <1>1, <1>2, InTableWith

\* A table, and then an index on it.
LEMMA GoodTableIndex ==
  ASSUME NEW t \in TableNames, NEW typed, NEW references, NEW constraints, NEW n,
         NEW N, {p[2] : p \in typed} \cup {p[2] : p \in references} \subseteq N
  PROVE  Good(<<Create(TableWith(t, typed, references, constraints)), CreateIndex(n, t)>>,
              TableWith(t, typed, references, constraints) \cup {Index(t, n, {})}, N)
<1> DEFINE T == TableWith(t, typed, references, constraints)
           A == {Index(t, n, {})}
           x == Create(T)
           y == CreateIndex(n, t)
<1>1. Good(<<x>>, T, N)
  BY GoodTable
<1>2. Good(<<y>>, A, {t})
  BY GoodIndex
<1>3. T \cap A = {} /\ t \in Names(T)
  BY NoIndex, TableNamed
<1> HIDE DEF T, A, x, y
<1>4. Good(<<x>> \o <<y>>, T \cup A, N)
  BY <1>1, <1>2, <1>3, GoodConcat
<1>5. <<x>> \o <<y>> = <<x, y>>
  BY Pair
<1>6. Good(<<x, y>>, T \cup A, N)
  BY <1>4, <1>5
<1>7. QED
  BY <1>6 DEF T, A, x, y

\* No enum is listed twice.
LEMMA EnumsDiffer == \A k, l \in 1 .. 11 : ENUMS[k] = ENUMS[l] => k = l
<1> DEFINE Rank(n) ==
      CASE n = "renterrole" -> 1 [] n = "kycstatus" -> 2 [] n = "assetcategory" -> 3
        [] n = "city" -> 4 [] n = "bookingstatus" -> 5 [] n = "handoverdirection" -> 6
        [] n = "handoverstatus" -> 7 [] n = "paymenttype" -> 8 [] n = "paymentstatus" -> 9
        [] n = "depositstatus" -> 10 [] n = "payoutstatus" -> 11
<1>1. /\ ENUMS[1] = "renterrole" /\ ENUMS[2] = "kycstatus" /\ ENUMS[3] = "assetcategory"
      /\ ENUMS[4] = "city" /\ ENUMS[5] = "bookingstatus" /\ ENUMS[6] = "handoverdirection"
      /\ ENUMS[7] = "handoverstatus" /\ ENUMS[8] = "paymenttype" /\ ENUMS[9] = "paymentstatus"
      /\ ENUMS[10] = "depositstatus" /\ ENUMS[11] = "payoutstatus"
  BY DEF ENUMS
<1>2. /\ Rank("renterrole") = 1 /\ Rank("kycstatus") = 2 /\ Rank("assetcategory") = 3
      /\ Rank("city") = 4 /\ Rank("bookingstatus") = 5 /\ Rank("handoverdirection") = 6
      /\ Rank("handoverstatus") = 7 /\ Rank("paymenttype") = 8 /\ Rank("paymentstatus") = 9
      /\ Rank("depositstatus") = 10 /\ Rank("payoutstatus") = 11
  OBVIOUS
<1> HIDE DEF Rank
<1>3. /\ Rank(ENUMS[1]) = 1 /\ Rank(ENUMS[2]) = 2 /\ Rank(ENUMS[3]) = 3 /\ Rank(ENUMS[4]) = 4
      /\ Rank(ENUMS[5]) = 5 /\ Rank(ENUMS[6]) = 6 /\ Rank(ENUMS[7]) = 7 /\ Rank(ENUMS[8]) = 8
      /\ Rank(ENUMS[9]) = 9 /\ Rank(ENUMS[10]) = 10 /\ Rank(ENUMS[11]) = 11
  BY <1>1, <1>2
<1>4. \A k \in 1 .. 11 : Rank(ENUMS[k]) = k
  BY <1>3
<1>5. QED
  BY <1>4

\* The enums need nothing.
LEMMA GoodEnums == Good(CreateEnums, EnumTypes, {})
<1> DEFINE s == CreateEnums
<1>1. Len(s) = 11 /\ \A k \in 1 .. 11 : s[k] = Create({Type(ENUMS[k])})
  BY EnumsListed DEF CreateEnums
<1> HIDE DEF s
<1>2. \A k \in 1 .. Len(s) : s[k].op = "create" /\ s[k].objects = {Type(ENUMS[k])}
  BY <1>1, CreateFields
<1>3. ASSUME NEW k \in 1 .. Len(s), NEW l \in 1 .. Len(s), ENUMS[k] = ENUMS[l]
      PROVE  k = l
  BY <1>1, <1>3, EnumsDiffer
<1>4. ASSUME NEW k \in 1 .. Len(s)
      PROVE  s[k].objects \cap Created(Passing(s, k)) = {}
  <2>1. \A l \in 1 .. k - 1 : l \in 1 .. Len(s) /\ l # k
    BY <1>1
  <2>2. SUFFICES ASSUME Type(ENUMS[k]) \in Created(Passing(s, k))
                 PROVE  FALSE
    BY <1>2
  <2>3. PICK l \in 1 .. k - 1 : Type(ENUMS[k]) \in s[l].objects
    BY <2>2 DEF Created, Passing
  <2>4. Type(ENUMS[k]) = Type(ENUMS[l])
    BY <1>2, <2>1, <2>3
  <2>5. ENUMS[k] = ENUMS[l]
    BY <2>4, TypeFields
  <2>6. QED
    BY <1>3, <2>1, <2>5
<1>5. \A n \in EnumNames : Type(n) \notin Skippable
  <2>1. \A n \in EnumNames : n # "listingstatus"
    BY DEF EnumNames
  <2>2. \A n \in EnumNames : Type(n) \notin Outside
    BY TypeFields, OutsideFields
  <2>3. QED
    BY <2>1, <2>2, TypeFields DEF Skippable, ListingType
<1>6. \A k \in 1 .. Len(s) : ENUMS[k] \in EnumNames
  BY <1>1, EnumsListed DEF Lists
<1>7. \A n : Needs({Type(n)}) = {}
  BY DEF Needs, Type, FreeStanding
<1>8. Works(s, {})
  BY <1>2, <1>4, <1>5, <1>6, <1>7 DEF Works
<1>9. QED
  BY <1>8, CreateEnumsBuilds DEF Good, s

\* The bookings need their type, the tables they refer to, and btree_gist.
LEMMA GoodBookings ==
  Good(CreateBookings, Booking, {"bookingstatus", "assets", "users", "btree_gist"})
<1> DEFINE T == TableWith("bookings", {<<"status", "bookingstatus">>},
                  {<<"asset_id", "assets">>, <<"renter_id", "users">>, <<"vendor_id", "users">>},
                  {"ck_bookings_deposit_amount_nonnegative", "ck_bookings_valid_date_range",
                   "ck_bookings_total_rental_fee_positive", "uq_bookings_id_renter",
                   "uq_bookings_id_vendor"})
           N == {"bookingstatus", "assets", "users", "btree_gist"}
           A == {NoActiveAssetOverlap}
           I(n) == {Index("bookings", n, {})}
           a == "ix_bookings_asset_id"
           b == "ix_bookings_renter_id"
           c == "ix_bookings_vendor_id"
<1>1. "bookings" \in TableNames
  BY DEF TableNames
<1>2. \A o \in T \cup A : Belongs("bookings", o)
  <2>1. \A o \in T : Belongs("bookings", o)
    BY TableWithBelongs
  <2>2. Belongs("bookings", NoActiveAssetOverlap)
    BY DEF NoActiveAssetOverlap, Belongs, Part, PartKinds
  <2>3. QED
    BY <2>1, <2>2
<1>3. Needs(T \cup A) \subseteq N \cup {"bookings"}
  <2>1. Needs(T) \subseteq N \cup {"bookings"}
    <3> DEFINE P == {<<"status", "bookingstatus">>}
               R == {<<"asset_id", "assets">>, <<"renter_id", "users">>, <<"vendor_id", "users">>}
    <3>1. Needs(T) \subseteq {"bookings"} \cup {p[2] : p \in P} \cup {p[2] : p \in R}
      BY NeedsTableWith
    <3>2. {p[2] : p \in P} \subseteq N /\ {p[2] : p \in R} \subseteq N
      OBVIOUS
    <3> HIDE DEF P, R, T, N
    <3>3. QED
      BY <3>1, <3>2
  <2>2. Needs(A) \subseteq N \cup {"bookings"}
    BY DEF Needs, NoActiveAssetOverlap, Part
  <2>3. QED
    BY <2>1, <2>2, NeedsUnion
<1>4. "bookings" \in Names(T \cup A)
  BY TableNamed, NamesUnion
<1>5. \A n : Index("bookings", n, {}) \notin T \cup A
  <2>1. \A n : Index("bookings", n, {}) \notin T
    BY NoIndex
  <2>2. \A n : Index("bookings", n, {}) # NoActiveAssetOverlap
    BY DEF NoActiveAssetOverlap, Index, Part
  <2>3. QED
    BY <2>1, <2>2
<1>6. a # b /\ a # c /\ b # c
  OBVIOUS
<1>7. \A n, l : n # l => I(n) \cap I(l) = {}
  BY IndexFields DEF PartOf
<1>8. \A n : (T \cup A) \cap I(n) = {}
  BY <1>5
<1>9. CreateBookings = <<Create(T \cup A), CreateIndex(a, "bookings"), CreateIndex(b, "bookings"),
                         CreateIndex(c, "bookings")>>
  BY DEF CreateBookings
<1>10. Booking = ((T \cup A) \cup I(a)) \cup (I(b) \cup I(c))
  BY DEF Booking
<1> DEFINE S == T \cup A
           w == Create(S)
           x == CreateIndex(a, "bookings")
           y == CreateIndex(b, "bookings")
           z == CreateIndex(c, "bookings")
<1>11. Good(<<x>>, I(a), {"bookings"}) /\ Good(<<y>>, I(b), {"bookings"})
       /\ Good(<<z>>, I(c), {"bookings"})
  BY <1>1, GoodIndex
<1> HIDE DEF T, A, N, I, a, b, c
<1>12. Good(<<w>>, S, N)
  BY <1>1, <1>2, <1>3, <1>4, GoodCreate
<1>13. S \cap I(a) = {} /\ S \cap I(b) = {} /\ S \cap I(c) = {} /\ I(b) \cap I(c) = {}
       /\ I(a) \cap I(b) = {} /\ I(a) \cap I(c) = {} /\ "bookings" \in Names(S)
  BY <1>4, <1>6, <1>7, <1>8
<1> HIDE DEF S, w, x, y, z
<1>14. Good(<<w, x>>, S \cup I(a), N)
  <2>1. Good(<<w>> \o <<x>>, S \cup I(a), N)
    BY <1>11, <1>12, <1>13, GoodConcat
  <2>2. QED
    BY <2>1, Pair
<1>15. Good(<<y, z>>, I(b) \cup I(c), {"bookings"})
  <2>1. Good(<<y>> \o <<z>>, I(b) \cup I(c), {"bookings"})
    BY <1>11, <1>13, GoodConcat
  <2>2. QED
    BY <2>1, Pair
<1>16. Good(<<w, x, y, z>>, (S \cup I(a)) \cup (I(b) \cup I(c)), N)
  <2>1. (S \cup I(a)) \cap (I(b) \cup I(c)) = {}
    BY <1>13
  <2>2. {"bookings"} \subseteq N \cup Names(S \cup I(a))
    BY <1>13, NamesUnion
  <2>3. Good(<<w, x>> \o <<y, z>>, (S \cup I(a)) \cup (I(b) \cup I(c)), N)
    BY <1>14, <1>15, <2>1, <2>2, GoodConcat
  <2>4. QED
    BY <2>3, Four
<1>17. Good(CreateBookings, Booking, N)
  BY <1>9, <1>10, <1>16 DEF S, w, x, y, z
<1>18. QED
  BY <1>17 DEF N

\* What the CREATEs of each table of 0001 need.
LEMMA GoodBlocks ==
  /\ Good(CreateUsers, User, {"renterrole"})
  /\ Good(CreateAssets, Asset0001, {"assetcategory", "city", "users"})
  /\ Good(CreateKYCProfiles, KYCProfile, {"kycstatus", "users"})
  /\ Good(CreateAvailabilityWindows, AvailabilityWindow, {"assets"})
  /\ Good(CreateHandoverRecords, HandoverRecord \ Unmigrated,
          {"handoverdirection", "handoverstatus", "bookings", "users"})
  /\ Good(CreatePayments, Payment,
          {"paymenttype", "paymentstatus", "depositstatus", "payoutstatus", "bookings"})
<1>0. {"users", "assets", "kyc_profiles", "availability_windows", "handover_records", "payments"}
        \subseteq TableNames
  BY DEF TableNames
<1>1. Good(CreateUsers, User, {"renterrole"})
  BY <1>0, GoodTableIndex DEF CreateUsers, User
<1>2. Good(CreateAssets, Asset0001, {"assetcategory", "city", "users"})
  BY <1>0, GoodTableIndex DEF CreateAssets, Asset0001
<1>3. Good(CreateKYCProfiles, KYCProfile, {"kycstatus", "users"})
  BY <1>0, GoodTable DEF CreateKYCProfiles, KYCProfile
<1>4. Good(CreateAvailabilityWindows, AvailabilityWindow, {"assets"})
  BY <1>0, GoodTableIndex DEF CreateAvailabilityWindows, AvailabilityWindow
<1>5. ASSUME NEW O, NEW N, Good(CreateHandoverRecords, O, N)
      PROVE  Good(CreateHandoverRecords, HandoverRecord \ Unmigrated, N)
  <2>1. Builds(CreateHandoverRecords, HandoverRecord \ Unmigrated, {})
    BY CreateTablesBuild
  <2>2. QED
    BY <1>5, <2>1 DEF Good
<1>6. Good(CreateHandoverRecords, HandoverRecord \ Unmigrated,
           {"handoverdirection", "handoverstatus", "bookings", "users"})
  <2> DEFINE P == {<<"direction", "handoverdirection">>, <<"status", "handoverstatus">>}
             R == {<<"booking_id", "bookings">>, <<"renter_signer_id", "users">>,
                   <<"fk_handover_records_booking_vendor", "bookings">>,
                   <<"fk_handover_records_booking_renter", "bookings">>}
             K == {"ck_handover_records_completed_requirements",
                   "uq_handover_records_booking_direction"}
             N == {"handoverdirection", "handoverstatus", "bookings", "users"}
             i == "ix_handover_records_booking_id"
             t == "handover_records"
  <2>1. {p[2] : p \in P} \cup {p[2] : p \in R} \subseteq N
    OBVIOUS
  <2>2. CreateHandoverRecords = <<Create(TableWith(t, P, R, K)), CreateIndex(i, t)>>
    BY DEF CreateHandoverRecords
  <2>3. t \in TableNames
    BY <1>0
  <2> HIDE DEF P, R, K, N, i, t
  <2>4. Good(CreateHandoverRecords, TableWith(t, P, R, K) \cup {Index(t, i, {})}, N)
    BY <2>1, <2>2, <2>3, GoodTableIndex
  <2>5. Good(CreateHandoverRecords, HandoverRecord \ Unmigrated, N)
    BY <1>5, <2>4
  <2>6. QED
    BY <2>5 DEF N
<1>7. Good(CreatePayments, Payment,
           {"paymenttype", "paymentstatus", "depositstatus", "payoutstatus", "bookings"})
  BY <1>0, GoodTableIndex DEF CreatePayments, Payment
<1>8. QED
  BY <1>1, <1>2, <1>3, <1>4, <1>6, <1>7

\* What 0001 makes for one table is not what it makes for another.
LEMMA BlocksApart ==
  /\ \A t \in TableNames : \A o \in EnumTypes : ~Belongs(t, o)
  /\ \A t \in TableNames : \A n : ~Belongs(t, Extension(n))
  /\ \A t \in TableNames : t # "users" => \A o \in User : ~Belongs(t, o)
  /\ \A t \in TableNames : t # "kyc_profiles" => \A o \in KYCProfile : ~Belongs(t, o)
  /\ \A t \in TableNames : t # "assets" => \A o \in Asset0001 : ~Belongs(t, o)
  /\ \A t \in TableNames :
       t # "availability_windows" => \A o \in AvailabilityWindow : ~Belongs(t, o)
  /\ \A t \in TableNames : t # "bookings" => \A o \in Booking : ~Belongs(t, o)
  /\ \A t \in TableNames : t # "handover_records" => \A o \in HandoverRecord : ~Belongs(t, o)
<1>1. {"users", "kyc_profiles", "assets", "availability_windows", "bookings", "handover_records"}
        \subseteq TableNames
  BY DEF TableNames
<1>2. \A t, n : ~Belongs(t, Type(n)) /\ ~Belongs(t, Extension(n))
  BY TableFields, TypeFields, ExtensionFields DEF Belongs, PartKinds
<1>3. \A t \in TableNames : \A o \in EnumTypes : ~Belongs(t, o)
  BY <1>2 DEF EnumTypes
<1>4. QED
  BY <1>1, <1>2, <1>3, OneTable, TablesBelong

\* The names that 0001 makes and needs.
LEMMA BlocksNamed ==
  /\ EnumNames \subseteq Names(EnumTypes)
  /\ "users" \in Names(User) /\ "assets" \in Names(Asset0001) /\ "bookings" \in Names(Booking)
  /\ \A n : n \in Names({Extension(n)})
<1>1. EnumNames \subseteq Names(EnumTypes)
  BY TypeFields DEF Names, EnumTypes
<1>2. "users" \in Names(User)
  BY TableNamed, NamesUnion DEF User
<1>3. "assets" \in Names(Asset0001)
  BY TableNamed, NamesUnion DEF Asset0001
<1>4. "bookings" \in Names(Booking)
  BY TableNamed, NamesUnion DEF Booking
<1>5. \A n : n \in Names({Extension(n)})
  BY ExtensionFields DEF Names
<1>6. QED
  BY <1>1, <1>2, <1>3, <1>4, <1>5

\* An object that may be there already.
LEMMA GoodMissing == \A o \in Skippable : Good(CreateMissing(o), {o}, {})
BY BuildsMissing, WorksMissing DEF Good

\* 0001 needs nothing that it does not make before.
LEMMA GoodUpgrade0001 == Good(Upgrade0001, Objects0001, {})
<1> DEFINE E1 == {Extension("pgcrypto")}
           E2 == {Extension("btree_gist")}
           Handover == HandoverRecord \ Unmigrated
           s0 == CreateMissing(Extension("pgcrypto")) \o CreateMissing(Extension("btree_gist"))
           s1 == s0 \o CreateEnums
           s2 == s1 \o CreateUsers
           s3 == s2 \o CreateAssets
           s4 == s3 \o CreateKYCProfiles
           s5 == s4 \o CreateAvailabilityWindows
           s6 == s5 \o CreateBookings
           s7 == s6 \o CreateHandoverRecords
           s8 == s7 \o CreatePayments
           O0 == E1 \cup E2
           O1 == O0 \cup EnumTypes
           O2 == O1 \cup User
           O3 == O2 \cup Asset0001
           O4 == O3 \cup KYCProfile
           O5 == O4 \cup AvailabilityWindow
           O6 == O5 \cup Booking
           O7 == O6 \cup Handover
           O8 == O7 \cup Payment
           Free(O, t) == \A o \in O : ~Belongs(t, o)
<1>1. Good(CreateMissing(Extension("pgcrypto")), E1, {})
      /\ Good(CreateMissing(Extension("btree_gist")), E2, {})
  BY GoodMissing DEF Skippable, Outside
<1>2. E1 \cap E2 = {}
  BY ExtensionFields
<1>3. O0 \cap EnumTypes = {}
  BY ExtensionFields, TypeFields DEF EnumTypes
<1>4. "btree_gist" \in Names(O0)
  <2>1. "btree_gist" \in Names(E2)
    BY BlocksNamed
  <2> HIDE DEF E1, E2
  <2>2. QED
    BY <2>1, NamesUnion
<1>5. \A t \in TableNames : Free(O0, t)
  BY BlocksApart
<1>6. /\ "users" \in TableNames /\ "assets" \in TableNames /\ "kyc_profiles" \in TableNames
      /\ "availability_windows" \in TableNames /\ "bookings" \in TableNames
      /\ "handover_records" \in TableNames /\ "payments" \in TableNames
  BY DEF TableNames
<1>7. ASSUME NEW O, NEW T, NEW t, Free(O, t), \A o \in T : Belongs(t, o)
      PROVE  O \cap T = {}
  BY <1>7
<1>8. ASSUME NEW O, NEW T, NEW t, Free(O, t), Free(T, t)
      PROVE  Free(O \cup T, t)
  BY <1>8
<1>9. ASSUME NEW s, NEW O, NEW r, NEW T, NEW N, NEW t, Good(s, O, {}), Good(r, T, N),
             N \subseteq Names(O), Free(O, t), \A o \in T : Belongs(t, o)
      PROVE  Good(s \o r, O \cup T, {})
  <2>1. O \cap T = {}
    BY <1>7, <1>9
  <2>2. N \subseteq {} \cup Names(O)
    BY <1>9
  <2>3. QED
    BY <1>9, <2>1, <2>2, GoodConcat
<1>10. Good(s0, O0, {})
  BY <1>1, <1>2, GoodConcat
<1> HIDE DEF E1, E2, s0, O0, Free
<1>11. Good(s1, O1, {})
  BY <1>3, <1>10, GoodEnums, GoodConcat
<1>12. EnumNames \subseteq Names(O1) /\ "btree_gist" \in Names(O1)
  BY <1>4, BlocksNamed, NamesUnion
<1>13. \A t \in TableNames : Free(O1, t)
  BY <1>5, <1>8, BlocksApart DEF Free
<1> HIDE DEF s1, O1
<1>14. Good(s2, O2, {})
  <2>1. {"renterrole"} \subseteq Names(O1)
    BY <1>12 DEF EnumNames
  <2>2. QED
    BY <1>6, <1>9, <1>11, <1>13, <2>1, GoodBlocks, TablesBelong
<1>15. EnumNames \subseteq Names(O2) /\ {"btree_gist", "users"} \subseteq Names(O2)
  BY <1>12, BlocksNamed, NamesUnion
<1>16. Free(User, "assets") /\ Free(User, "kyc_profiles") /\ Free(User, "availability_windows")
       /\ Free(User, "bookings") /\ Free(User, "handover_records") /\ Free(User, "payments")
  BY <1>6, BlocksApart DEF Free
<1>17. Free(O2, "assets") /\ Free(O2, "kyc_profiles") /\ Free(O2, "availability_windows")
       /\ Free(O2, "bookings") /\ Free(O2, "handover_records") /\ Free(O2, "payments")
  BY <1>6, <1>8, <1>13, <1>16
<1> HIDE DEF s2, O2
<1>18. Good(s3, O3, {})
  <2>1. {"assetcategory", "city", "users"} \subseteq Names(O2)
    BY <1>15 DEF EnumNames
  <2>2. QED
    BY <1>9, <1>14, <1>17, <2>1, GoodBlocks, TablesBelong
<1>19. EnumNames \subseteq Names(O3) /\ {"btree_gist", "users", "assets"} \subseteq Names(O3)
  BY <1>15, BlocksNamed, NamesUnion
<1>20. Free(Asset0001, "kyc_profiles") /\ Free(Asset0001, "availability_windows")
       /\ Free(Asset0001, "bookings") /\ Free(Asset0001, "handover_records")
       /\ Free(Asset0001, "payments")
  BY <1>6, BlocksApart DEF Free
<1>21. Free(O3, "kyc_profiles") /\ Free(O3, "availability_windows")
       /\ Free(O3, "bookings") /\ Free(O3, "handover_records") /\ Free(O3, "payments")
  BY <1>8, <1>17, <1>20
<1> HIDE DEF s3, O3
<1>22. Good(s4, O4, {})
  <2>1. {"kycstatus", "users"} \subseteq Names(O3)
    BY <1>19 DEF EnumNames
  <2>2. QED
    BY <1>9, <1>18, <1>21, <2>1, GoodBlocks, TablesBelong
<1>23. EnumNames \subseteq Names(O4) /\ {"btree_gist", "users", "assets"} \subseteq Names(O4)
  BY <1>19, NamesUnion
<1>24. Free(KYCProfile, "availability_windows") /\ Free(KYCProfile, "bookings")
       /\ Free(KYCProfile, "handover_records") /\ Free(KYCProfile, "payments")
  BY <1>6, BlocksApart DEF Free
<1>25. Free(O4, "availability_windows") /\ Free(O4, "bookings")
       /\ Free(O4, "handover_records") /\ Free(O4, "payments")
  BY <1>8, <1>21, <1>24
<1> HIDE DEF s4, O4
<1>26. Good(s5, O5, {})
  <2>1. {"assets"} \subseteq Names(O4)
    BY <1>23
  <2>2. QED
    BY <1>9, <1>22, <1>25, <2>1, GoodBlocks, TablesBelong
<1>27. EnumNames \subseteq Names(O5) /\ {"btree_gist", "users", "assets"} \subseteq Names(O5)
  BY <1>23, NamesUnion
<1>28. Free(AvailabilityWindow, "bookings") /\ Free(AvailabilityWindow, "handover_records")
       /\ Free(AvailabilityWindow, "payments")
  BY <1>6, BlocksApart DEF Free
<1>29. Free(O5, "bookings") /\ Free(O5, "handover_records") /\ Free(O5, "payments")
  BY <1>8, <1>25, <1>28
<1> HIDE DEF s5, O5
<1>30. Good(s6, O6, {})
  <2>1. {"bookingstatus", "assets", "users", "btree_gist"} \subseteq Names(O5)
    BY <1>27 DEF EnumNames
  <2>2. QED
    BY <1>9, <1>26, <1>29, <2>1, GoodBookings, TablesBelong
<1>31. EnumNames \subseteq Names(O6) /\ {"users", "bookings"} \subseteq Names(O6)
  BY <1>27, BlocksNamed, NamesUnion
<1>32. Free(Booking, "handover_records") /\ Free(Booking, "payments")
  BY <1>6, BlocksApart DEF Free
<1>33. Free(O6, "handover_records") /\ Free(O6, "payments")
  BY <1>8, <1>29, <1>32
<1> HIDE DEF s6, O6
<1>34. Good(s7, O7, {})
  <2>1. {"handoverdirection", "handoverstatus", "bookings", "users"} \subseteq Names(O6)
    BY <1>31 DEF EnumNames
  <2>2. \A o \in Handover : Belongs("handover_records", o)
    BY TablesBelong
  <2>3. QED
    BY <1>9, <1>30, <1>33, <2>1, <2>2, GoodBlocks
<1>35. EnumNames \subseteq Names(O7) /\ "bookings" \in Names(O7)
  BY <1>31, NamesUnion
<1>36. Free(Handover, "payments")
  BY <1>6, BlocksApart DEF Free
<1>37. Free(O7, "payments")
  BY <1>8, <1>33, <1>36
<1> HIDE DEF s7, O7
<1>38. Good(s8, O8, {})
  <2>1. {"paymenttype", "paymentstatus", "depositstatus", "payoutstatus", "bookings"}
          \subseteq Names(O7)
    BY <1>35 DEF EnumNames
  <2>2. QED
    BY <1>9, <1>34, <1>37, <2>1, GoodBlocks, TablesBelong
<1>39. Upgrade0001 = s8
  BY DEF Upgrade0001, s0, s1, s2, s3, s4, s5, s6, s7
<1> HIDE DEF s8, O8
<1>40. Builds(Upgrade0001, Objects0001, {})
  BY Upgrade0001Builds DEF Objects0001
<1>41. QED
  BY <1>38, <1>39, <1>40 DEF Good

\* 0002 needs the assets and the users.
LEMMA GoodUpgrade0002 == Good(Upgrade0002, PublicationObjects, {"assets", "users"})
<1> DEFINE A == {Column("assets", "listing_status", {"listingstatus"})}
           B == {Column("assets", "minimum_trust_tier", {})}
           C == {Column("assets", "review_actor_id", {}),
                 ForeignKey("assets", "review_actor_id", "users")}
           D == {Column("assets", "reviewed_at", {})}
           E == {Column("assets", "review_reason", {})}
           F == {TrustTierValid}
           G == {PublicLagos}
           N == {"assets", "users", "listingstatus"}
           a == Create(A)
           b == Create(B)
           c == Create(C)
           d == Create(D)
           e == Create(E)
           f == Create(F)
           g == Create(G)
<1>1. \A o \in A \cup B \cup C \cup D \cup E \cup F \cup G : Belongs("assets", o)
  <2>1. A \cup B \cup C \cup D \cup E \cup F \cup G \subseteq Publication
    BY DEF Publication
  <2>2. QED
    BY <2>1, PublicationBelongs DEF Belongs
<1>2. /\ Needs(A) \subseteq N /\ Needs(B) \subseteq N
      /\ Needs(C) \subseteq N /\ Needs(D) \subseteq N
      /\ Needs(E) \subseteq N /\ Needs(F) \subseteq N /\ Needs(G) \subseteq N
  <2>1. /\ \A n, T : Needs({Column("assets", n, T)}) \subseteq T \cup {"assets"}
        /\ \A n, u : Needs({ForeignKey("assets", n, u)}) \subseteq {u, "assets"}
        /\ \A n, T : Needs({Constraint("assets", n, T)}) \subseteq {"assets"}
        /\ \A n, T : Needs({Index("assets", n, T)}) \subseteq {"assets"}
    <3>1. \A n, T : Needs({Column("assets", n, T)}) \subseteq T \cup {"assets"}
      BY DEF Needs, Column, Part
    <3>2. \A n, u : Needs({ForeignKey("assets", n, u)}) \subseteq {u, "assets"}
      <4>1. \A v, u : ForeignKey("assets", v, u).needs = {u}
                     /\ ForeignKey("assets", v, u).table = "assets"
        BY DEF ForeignKey, Part
      <4>2. QED
        BY <4>1 DEF Needs
    <3>3. \A n, T : Needs({Constraint("assets", n, T)}) \subseteq {"assets"}
      BY DEF Needs, Constraint, Part
    <3>4. \A n, T : Needs({Index("assets", n, T)}) \subseteq {"assets"}
      BY DEF Needs, Index, Part
    <3>5. QED
      BY <3>1, <3>2, <3>3, <3>4
  <2>2. Needs(A) \subseteq N /\ Needs(B) \subseteq N /\ Needs(D) \subseteq N /\ Needs(E) \subseteq N
    BY <2>1
  <2>3. Needs(C) \subseteq N
    <3> DEFINE col == Column("assets", "review_actor_id", {})
               key == ForeignKey("assets", "review_actor_id", "users")
    <3>1. Needs({col}) \subseteq N /\ Needs({key}) \subseteq N
      BY <2>1
    <3>2. C = {col} \cup {key}
      OBVIOUS
    <3> HIDE DEF C, N, col, key
    <3>3. Needs({col} \cup {key}) = Needs({col}) \cup Needs({key})
      BY NeedsUnion
    <3>4. QED
      BY <3>1, <3>2, <3>3
  <2>4. Needs(F) \subseteq N /\ Needs(G) \subseteq N
    BY <2>1 DEF TrustTierValid, PublicLagos
  <2>5. QED
    BY <2>2, <2>3, <2>4
<1>3. ASSUME NEW S \in {A, B, C, D, E, F, G}
      PROVE  Good(<<Create(S)>>, S, N)
  <2>1. "assets" \in TableNames
    BY DEF TableNames
  <2>2. \A o \in S : Belongs("assets", o)
    BY <1>1
  <2>3. Needs(S) \subseteq N
    BY <1>2
  <2> HIDE DEF A, B, C, D, E, F, G, N
  <2>4. QED
    BY <2>1, <2>2, <2>3, GoodCreate
<1>4. /\ A \cap B = {} /\ C \cap D = {} /\ F \cap G = {}
      /\ (A \cup B) \cap (C \cup D) = {}
      /\ (A \cup B \cup C \cup D) \cap (E \cup F \cup G) = {} /\ E \cap (F \cup G) = {}
  <2> DEFINE col == Column("assets", "review_actor_id", {})
             key == ForeignKey("assets", "review_actor_id", "users")
  <2>1. \A o \in A : o.kind = "column" /\ o.name = "listing_status"
    BY ColumnFields DEF PartOf
  <2>2. \A o \in B : o.kind = "column" /\ o.name = "minimum_trust_tier"
    BY ColumnFields DEF PartOf
  <2>3. \A o \in C : o.kind \in {"column", "foreign key"} /\ o.name = "review_actor_id"
    <3>1. col.kind = "column" /\ col.name = "review_actor_id"
      BY ColumnFields DEF PartOf
    <3>2. PartOf("assets", key, "review_actor_id", {"review_actor_id"})
          /\ key.kind = "foreign key"
      BY ForeignKeyFields
    <3> HIDE DEF col, key
    <3>3. key.name = "review_actor_id"
      BY <3>2 DEF PartOf
    <3>4. QED
      BY <3>1, <3>2, <3>3 DEF col, key
  <2>4. \A o \in D : o.kind = "column" /\ o.name = "reviewed_at"
    BY ColumnFields DEF PartOf
  <2>5. \A o \in E : o.kind = "column" /\ o.name = "review_reason"
    BY ColumnFields DEF PartOf
  <2>6. \A o \in F : o.kind = "constraint"
    BY ConstraintFields DEF TrustTierValid
  <2>7. \A o \in G : o.kind = "index"
    BY IndexFields DEF PublicLagos
  <2> HIDE DEF A, B, C, D, E, F, G
  <2>8. QED
    BY <2>1, <2>2, <2>3, <2>4, <2>5, <2>6, <2>7
<1>5. Good(<<Backfill>>, {}, N)
  <2> DEFINE s == <<Backfill>>
  <2>1. Len(s) = 1 /\ s[1] = Backfill
    OBVIOUS
  <2>2. Backfill.op = "backfill" /\ Backfill.table = "assets"
    BY DEF Backfill
  <2>3. Lists(s, {Backfill})
    BY ListsTuple
  <2> HIDE DEF s
  <2>4. Works(s, N)
    <3>1. \A k \in 1 .. Len(s) : k = 1
      BY <2>1
    <3>2. "assets" \in TableNames
      BY DEF TableNames
    <3>3. QED
      BY <2>1, <2>2, <3>1, <3>2 DEF Works
  <2>5. Statements(s) = {Backfill} /\ Lists(s, Statements(s))
    BY <2>3, StatementsListed
  <2>6. Builds(s, {}, {})
    <3>1. Looks(s)
      <4>1. \A x \in {Backfill} : x.op \notin Skip
        BY <2>2 DEF Skip
      <4>2. QED
        BY <2>3, <4>1, NoLooks
    <3>2. Created({Backfill}) = {} /\ Stamped({Backfill}) = {} /\ UpStatement(Backfill)
      BY <2>2 DEF Created, Stamped, UpStatement
    <3> HIDE DEF Backfill
    <3>3. QED
      BY <2>5, <3>1, <3>2 DEF Builds
  <2>7. QED
    BY <2>4, <2>6 DEF Good, s
<1>6. /\ Good(<<a>>, A, N) /\ Good(<<b>>, B, N) /\ Good(<<c>>, C, N) /\ Good(<<d>>, D, N)
      /\ Good(<<e>>, E, N) /\ Good(<<f>>, F, N) /\ Good(<<g>>, G, N)
  BY <1>3
<1>7. ASSUME NEW s, NEW S, NEW t, NEW T, Good(s, S, N), Good(t, T, N), S \cap T = {}
      PROVE  Good(s \o t, S \cup T, N)
  <2>1. N \subseteq N \cup Names(S)
    OBVIOUS
  <2> HIDE DEF N
  <2>2. QED
    BY <1>7, <2>1, GoodConcat
<1>8. /\ (A \cup B) \cup (C \cup D) \cup ((E \cup {}) \cup (F \cup G)) = Publication
      /\ Upgrade0002 = CreateMissing(ListingType) \o <<a, b, c, d, e, Backfill, f, g>>
  BY DEF Publication, Upgrade0002, ListingType
<1> DEFINE h == Backfill
<1>0. h = Backfill
  OBVIOUS
<1> HIDE DEF A, B, C, D, E, F, G, a, b, c, d, e, f, g, h
<1>9. Good(<<a, b>>, A \cup B, N) /\ Good(<<c, d>>, C \cup D, N) /\ Good(<<f, g>>, F \cup G, N)
  <2>1. Good(<<a>> \o <<b>>, A \cup B, N)
    BY <1>4, <1>6, <1>7
  <2>2. Good(<<c>> \o <<d>>, C \cup D, N)
    BY <1>4, <1>6, <1>7
  <2>3. Good(<<f>> \o <<g>>, F \cup G, N)
    BY <1>4, <1>6, <1>7
  <2>4. QED
    BY <2>1, <2>2, <2>3, Pair
<1>10. Good(<<e, h>>, E \cup {}, N)
  <2>1. E \cap {} = {}
    OBVIOUS
  <2>2. Good(<<e>> \o <<h>>, E \cup {}, N)
    BY <1>0, <1>5, <1>6, <1>7, <2>1
  <2>3. QED
    BY <2>2, Pair
<1>11. Good(<<a, b, c, d>>, (A \cup B) \cup (C \cup D), N)
  <2>1. Good(<<a, b>> \o <<c, d>>, (A \cup B) \cup (C \cup D), N)
    BY <1>4, <1>7, <1>9
  <2>2. QED
    BY <2>1, Four
<1>12. Good(<<e, h, f, g>>, (E \cup {}) \cup (F \cup G), N)
  <2>1. (E \cup {}) \cap (F \cup G) = {}
    BY <1>4
  <2>2. Good(<<e, h>> \o <<f, g>>, (E \cup {}) \cup (F \cup G), N)
    BY <1>7, <1>9, <1>10, <2>1
  <2>3. QED
    BY <2>2, Four
<1> DEFINE s == <<a, b, c, d>>
           t == <<e, h, f, g>>
           S == (A \cup B) \cup (C \cup D)
           T == (E \cup {}) \cup (F \cup G)
<1>13. S \cap T = {}
  BY <1>4
<1>14. s \o t = <<a, b, c, d, e, h, f, g>>
  BY Eight
<1>15. S \cup T = Publication
  BY <1>8
<1> HIDE DEF s, t, S, T
<1>16. Good(s \o t, S \cup T, N)
  BY <1>7, <1>11, <1>12, <1>13 DEF s, t, S, T
<1>17. Good(s \o t, Publication, N)
  BY <1>15, <1>16
<1>18. Good(CreateMissing(ListingType), {ListingType}, {})
  BY GoodMissing DEF Skippable
<1>19. Good(CreateMissing(ListingType), {ListingType}, {"assets", "users"})
  BY <1>18, WorksMore DEF Good
<1>20. N \subseteq {"assets", "users"} \cup Names({ListingType})
  <2>1. "listingstatus" \in Names({ListingType})
    BY TypeFields DEF Names, ListingType
  <2>2. QED
    BY <2>1
<1>21. {ListingType} \cap Publication = {}
  <2>1. ListingType.kind = "type"
    BY TypeFields DEF ListingType
  <2>2. QED
    BY <2>1, PublicationBelongs DEF PartKinds
<1> HIDE DEF N
<1>22. Good(CreateMissing(ListingType) \o (s \o t), {ListingType} \cup Publication,
            {"assets", "users"})
  BY <1>17, <1>19, <1>20, <1>21, GoodConcat
<1>23. Upgrade0002 = CreateMissing(ListingType) \o (s \o t)
  BY <1>0, <1>8, <1>14
<1>24. {ListingType} \cup Publication = PublicationObjects
  BY DEF PublicationObjects
<1>25. QED
  BY <1>22, <1>23, <1>24

\* An upgrade makes nothing that its first revision declares.
LEMMA MakesNew == \A i, j \in Revision : i <= j => Makes(i, j) \cap Declared(i) = {}
<1> SUFFICES ASSUME NEW i \in Revision, NEW j \in Revision, i <= j
             PROVE  Makes(i, j) \cap Declared(i) = {}
  OBVIOUS
<1>1. CASE i = 0
  BY <1>1, MetadataParts
<1>2. CASE i = 1
  <2>1. Makes(i, j) \subseteq PublicationObjects
    BY <1>2 DEF Makes
  <2>2. Declared(i) \cap PublicationObjects = {}
    BY <1>2, MetadataParts
  <2>3. QED
    BY <2>1, <2>2
<1>3. CASE i = 2
  BY <1>3 DEF Makes, Revision
<1>4. QED
  BY <1>1, <1>2, <1>3 DEF Revision

\* What the models declare is not what alembic and the extensions bring.
LEMMA DeclaredApart ==
  (Tabled \cup EnumTypes) \cap Outside = {} /\ PublicationObjects \cap Outside = {}
<1>1. ASSUME NEW o \in Outside PROVE o \notin Tabled \cup EnumTypes
  <2>1. /\ o.kind # "type" /\ o.kind \notin PartKinds
        /\ o.kind = "table" => o.name \notin TableNames
    BY OutsideFields DEF PartKinds, TableNames
  <2>2. o \notin EnumTypes
    BY <2>1, TypeFields DEF EnumTypes
  <2>3. \A t \in TableNames : ~Belongs(t, o)
    BY <2>1, TableFields DEF Belongs
  <2>4. o \notin Tabled
    BY <2>3, TablesBelong DEF Tabled, TableNames
  <2>5. QED
    BY <2>2, <2>4
<1>2. QED
  BY <1>1, MetadataParts

\* More objects have more names.
LEMMA NamesGrow == \A S, T : S \subseteq T => Names(S) \subseteq Names(T)
BY DEF Names

\* Every upgrade finds what it needs at the revision it starts from.
LEMMA PlanWorks ==
  \A i, j \in Revision : i <= j => Works(Plan[i][j], Names(Declared(i) \ Unmigrated))
<1>1. Builds(CreateMissing(VersionTable), {VersionTable}, {})
      /\ Works(CreateMissing(VersionTable), {})
  BY BuildsMissing, WorksMissing DEF Skippable, Outside
<1>2. ASSUME NEW N
      PROVE  Works(Script(0, 1), N)
  <2>1. Script(0, 1) = Upgrade0001 \o <<Stamp(0, 1)>>
    BY DEF Script
  <2>2. Builds(Upgrade0001, Objects0001, {}) /\ Works(Upgrade0001, N)
    <3>1. {} \subseteq N
      OBVIOUS
    <3>2. QED
      BY <3>1, GoodUpgrade0001, WorksMore DEF Good
  <2>3. Builds(<<Stamp(0, 1)>>, {}, {Stamp(0, 1)})
        /\ Works(<<Stamp(0, 1)>>, N \cup Names(Objects0001))
    BY StampsOne, WorksStamp
  <2>4. Objects0001 \cap {} = {}
    OBVIOUS
  <2>5. QED
    BY <2>1, <2>2, <2>3, <2>4, WorksConcat
<1>3. ASSUME NEW N, {"assets", "users"} \subseteq N
      PROVE  Works(Script(1, 2), N)
  <2>1. Script(1, 2) = Upgrade0002 \o <<Stamp(1, 2)>>
    BY DEF Script
  <2>2. Builds(Upgrade0002, PublicationObjects, {}) /\ Works(Upgrade0002, N)
    BY <1>3, GoodUpgrade0002, WorksMore DEF Good
  <2>3. Builds(<<Stamp(1, 2)>>, {}, {Stamp(1, 2)})
        /\ Works(<<Stamp(1, 2)>>, N \cup Names(PublicationObjects))
    BY StampsOne, WorksStamp
  <2>4. PublicationObjects \cap {} = {}
    OBVIOUS
  <2>5. QED
    BY <2>1, <2>2, <2>3, <2>4, WorksConcat
<1>4. {"assets", "users"} \subseteq Names(Declared(1) \ Unmigrated)
  <2>1. \A t \in TableNames : Table(t) \in Declared(1) \ Unmigrated
    <3>1. \A n : Table(n) \notin Unmigrated
      BY TableFields, ForeignKeyFields DEF Unmigrated
    <3>2. QED
      BY <3>1, TablesThere, MetadataParts
  <2>2. Table("assets") \in Declared(1) \ Unmigrated /\ Table("users") \in Declared(1) \ Unmigrated
    BY <2>1 DEF TableNames
  <2>3. QED
    BY <2>2, TableFields DEF Names
<1>5. /\ {VersionTable} \cap Objects0001 = {} /\ {VersionTable} \cap PublicationObjects = {}
      /\ Objects0001 \cap PublicationObjects = {}
  <2>1. VersionTable \in Outside
        /\ {Extension("pgcrypto"), Extension("btree_gist")} \subseteq Outside
    BY DEF Outside
  <2>2. VersionTable \notin {Extension("pgcrypto"), Extension("btree_gist")}
    BY TableFields, ExtensionFields DEF VersionTable
  <2>3. QED
    BY <2>1, <2>2, DeclaredApart, MetadataParts DEF Objects0001
<1>6. Works(Plan[0][0], Names(Declared(0) \ Unmigrated))
  <2> DEFINE N == Names(Declared(0) \ Unmigrated)
             s == CreateMissing(VersionTable)
             e == <<>>
  <2>1. {} \subseteq N
    OBVIOUS
  <2>2. Works(s, N)
    BY <1>1, <2>1, WorksMore
  <2>3. Works(e, N \cup Names({VersionTable})) /\ Builds(e, {}, {})
    BY WorksNothing, BuildsNothing
  <2>4. {VersionTable} \cap {} = {}
    OBVIOUS
  <2>5. Plan[0][0] = s \o e
    BY Plans
  <2> HIDE DEF N, s, e
  <2>6. Works(s \o e, N)
    BY <1>1, <2>2, <2>3, <2>4, WorksConcat DEF s
  <2>7. QED
    BY <2>5, <2>6 DEF N
<1>7. Works(Plan[0][1], Names(Declared(0) \ Unmigrated))
  <2> DEFINE N == Names(Declared(0) \ Unmigrated)
             s == CreateMissing(VersionTable)
  <2>1. {} \subseteq N
    OBVIOUS
  <2>2. Works(s, N)
    BY <1>1, <2>1, WorksMore
  <2>3. Works(Script(0, 1), N \cup Names({VersionTable}))
        /\ Builds(Script(0, 1), Objects0001, {Stamp(0, 1)})
    BY <1>2, ScriptsUp
  <2>4. Plan[0][1] = s \o Script(0, 1)
    BY Plans
  <2> HIDE DEF N, s
  <2>5. Works(s \o Script(0, 1), N)
    BY <1>1, <1>5, <2>2, <2>3, WorksConcat DEF s
  <2>6. QED
    BY <2>4, <2>5 DEF N
<1>8. Works(Plan[0][2], Names(Declared(0) \ Unmigrated))
  <2> DEFINE N == Names(Declared(0) \ Unmigrated)
             s == CreateMissing(VersionTable)
             K == N \cup Names({VersionTable})
             t == Script(0, 1) \o Script(1, 2)
             Z == {Stamp(0, 1)}
             Y == {Stamp(1, 2)}
             O == Objects0001 \cup PublicationObjects
  <2>1. {} \subseteq N
    OBVIOUS
  <2>2. Works(s, N)
    BY <1>1, <2>1, WorksMore
  <2>3. /\ Works(Script(0, 1), K)
        /\ Builds(Script(0, 1), Objects0001, Z)
        /\ Builds(Script(1, 2), PublicationObjects, Y)
    BY <1>2, ScriptsUp
  <2>4. {"assets", "users"} \subseteq Names(Objects0001)
    <3>1. Declared(1) \ Unmigrated \subseteq Objects0001
      BY DEF Objects0001
    <3>2. QED
      BY <1>4, <3>1, NamesGrow
  <2>5. Plan[0][2] = s \o t
    BY Plans
  <2>6. {VersionTable} \cap O = {}
    BY <1>5
  <2> HIDE DEF N, s, K, Z, Y
  <2>7. Works(Script(1, 2), K \cup Names(Objects0001))
    BY <1>3, <2>4
  <2>8. Works(t, K)
    BY <1>5, <2>3, <2>7, WorksConcat
  <2>9. Builds(t, O, Z \cup Y)
    BY <2>3, BuildsConcat
  <2> HIDE DEF t, O
  <2>10. Works(s \o t, N)
    BY <1>1, <2>2, <2>6, <2>8, <2>9, WorksConcat DEF s, K
  <2>11. QED
    BY <2>5, <2>10 DEF N
<1>9. Works(Plan[1][2], Names(Declared(1) \ Unmigrated))
  <2>1. Plan[1][2] = Script(1, 2)
    BY Plans, ScriptsUp, NothingBefore DEF Builds
  <2>2. QED
    BY <1>3, <1>4, <2>1
<1>10. Works(Plan[1][1], Names(Declared(1) \ Unmigrated))
       /\ Works(Plan[2][2], Names(Declared(2) \ Unmigrated))
  <2>1. Plan[1][1] = <<>> /\ Plan[2][2] = <<>>
    BY Plans, ListsEmpty, NothingBefore
  <2>2. QED
    BY <2>1, WorksNothing
<1>11. QED
  BY <1>6, <1>7, <1>8, <1>9, <1>10 DEF Revision

-----------------------------------------------------------------------------
(* Every version is stamped once *)

\* Two scripts with different stamps.
LEMMA OnceConcat ==
  ASSUME NEW s, NEW t, Lists(s, Statements(s)), Lists(t, Statements(t)), Once(s), Once(t),
         Stamped(Statements(s)) \cap Stamped(Statements(t)) = {}
  PROVE  Once(s \o t)
<1> DEFINE r == s \o t
<1>1. Len(s) \in Nat /\ Len(t) \in Nat
  BY ListsMember
<1>2. \A k \in 1 .. Len(s) : r[k] = s[k]
  BY ListsConcat
<1>3. \A n \in 1 .. Len(t) : r[Len(s) + n] = t[n]
  BY ListsConcat
<1>4. \A k \in 1 .. Len(r) : k \in 1 .. Len(s) \/ \E n \in 1 .. Len(t) : k = Len(s) + n
  <2>1. Len(r) = Len(s) + Len(t)
    BY ListsConcat
  <2>2. \A k \in 1 .. Len(s) + Len(t) :
          k \in 1 .. Len(s) \/ \E n \in 1 .. Len(t) : k = Len(s) + n
    BY ListsConcat
  <2>3. QED
    BY <2>1, <2>2
<1>5. /\ \A k \in 1 .. Len(s) : Passing(r, k) = Passing(s, k)
      /\ \A n \in 1 .. Len(t) : Passing(r, Len(s) + n) = Statements(s) \cup Passing(t, n)
  BY PassingConcat
<1> HIDE DEF r
<1>6. ASSUME NEW k \in 1 .. Len(s), r[k].op = "stamp"
      PROVE  r[k] \notin Passing(r, k)
  BY <1>2, <1>5, <1>6 DEF Once
<1>7. ASSUME NEW n \in 1 .. Len(t), r[Len(s) + n].op = "stamp"
      PROVE  r[Len(s) + n] \notin Passing(r, Len(s) + n)
  <2>1. t[n].op = "stamp" /\ t[n] \in Statements(t)
    BY <1>3, <1>7 DEF Statements
  <2>2. t[n] \notin Statements(s)
    BY <2>1 DEF Stamped
  <2>3. t[n] \notin Passing(t, n)
    BY <2>1 DEF Once
  <2>4. QED
    BY <1>3, <1>5, <2>2, <2>3
<1>8. Once(r)
  BY <1>4, <1>6, <1>7 DEF Once
<1>9. QED
  BY <1>8 DEF r

\* A script without a stamp.
LEMMA OnceNone == \A s : Stamped(Statements(s)) = {} => Once(s)
BY DEF Once, Stamped, Statements

\* A stamp.
LEMMA OnceOne == \A i, j : Once(<<Stamp(i, j)>>)
<1> TAKE i, j
<1> DEFINE s == <<Stamp(i, j)>>
<1>1. Len(s) = 1
  OBVIOUS
<1> HIDE DEF s
<1>2. \A k \in 1 .. Len(s) : Passing(s, k) = {}
  BY <1>1 DEF Passing
<1>3. Once(s)
  BY <1>2 DEF Once
<1>4. QED
  BY <1>3 DEF s

\* A script that stamps nothing itself, and its stamp.
LEMMA OnceScript ==
  ASSUME NEW s, NEW i, NEW j, Lists(s, Statements(s)), Stamped(Statements(s)) = {}
  PROVE  Once(s \o <<Stamp(i, j)>>)
<1>1. Lists(<<Stamp(i, j)>>, Statements(<<Stamp(i, j)>>))
  BY StampsOne DEF Builds
<1>2. QED
  BY <1>1, OnceConcat, OnceNone, OnceOne

\* No command stamps a version twice.
LEMMA PlanOnce == \A i, j \in Revision : Once(Plan[i][j])
<1>1. /\ Lists(Upgrade0001, Statements(Upgrade0001)) /\ Stamped(Statements(Upgrade0001)) = {}
      /\ Lists(Upgrade0002, Statements(Upgrade0002)) /\ Stamped(Statements(Upgrade0002)) = {}
      /\ Lists(Downgrade0001, Statements(Downgrade0001))
      /\ Stamped(Statements(Downgrade0001)) = {}
      /\ Lists(Downgrade0002, Statements(Downgrade0002))
      /\ Stamped(Statements(Downgrade0002)) = {}
  BY Upgrade0001Builds, Upgrade0002Builds, Downgrade0001Removes, Downgrade0002Removes
     DEF Builds, Removes
<1>2. Once(Script(0, 1)) /\ Once(Script(1, 2)) /\ Once(Script(2, 1)) /\ Once(Script(1, 0))
  BY <1>1, OnceScript DEF Script
<1>3. /\ \A x \in {Script(0, 1), Script(1, 2), Script(2, 1), Script(1, 0)} : Lists(x, Statements(x))
      /\ Stamped(Statements(Script(0, 1))) = {Stamp(0, 1)}
      /\ Stamped(Statements(Script(1, 2))) = {Stamp(1, 2)}
      /\ Stamped(Statements(Script(2, 1))) = {Stamp(2, 1)}
      /\ Stamped(Statements(Script(1, 0))) = {Stamp(1, 0)}
  BY ScriptsUp, ScriptsDown DEF Builds, Removes
<1>4. Stamp(0, 1) # Stamp(1, 2) /\ Stamp(2, 1) # Stamp(1, 0)
  <2>1. Stamp(0, 1).to = 1 /\ Stamp(1, 2).to = 2 /\ Stamp(2, 1).to = 1 /\ Stamp(1, 0).to = 0
    BY StampFields
  <2>2. QED
    BY <2>1
<1>5. Once(Script(0, 1) \o Script(1, 2)) /\ Once(Script(2, 1) \o Script(1, 0))
  BY <1>2, <1>3, <1>4, OnceConcat
<1>6. /\ Lists(Script(0, 1) \o Script(1, 2), Statements(Script(0, 1) \o Script(1, 2)))
      /\ Lists(Script(2, 1) \o Script(1, 0), Statements(Script(2, 1) \o Script(1, 0)))
  BY <1>3, StatementsConcat
<1> DEFINE v == CreateMissing(VersionTable)
<1>7. Lists(v, Statements(v)) /\ Stamped(Statements(v)) = {}
  BY BuildsMissing DEF Builds, Skippable, Outside
<1> HIDE DEF v
<1>8. ASSUME NEW t, Lists(t, Statements(t)), Once(t)
      PROVE  Once(v \o t)
  BY <1>7, <1>8, OnceConcat, OnceNone
<1>9. Once(<<>>) /\ Lists(<<>>, Statements(<<>>))
  BY BuildsNothing, OnceNone DEF Builds
<1>10. Once(Plan[0][0]) /\ Once(Plan[0][1]) /\ Once(Plan[0][2])
  BY <1>2, <1>3, <1>5, <1>6, <1>8, <1>9, Plans DEF v
<1>11. Once(Plan[1][1]) /\ Once(Plan[2][2])
  BY <1>9, Plans, NothingBefore
<1>12. Once(Plan[1][2]) /\ Once(Plan[1][0]) /\ Once(Plan[2][1]) /\ Once(Plan[2][0])
  BY <1>2, <1>3, <1>5, <1>6, Plans, NothingBefore
<1>13. QED
  BY <1>10, <1>11, <1>12 DEF Revision

-----------------------------------------------------------------------------
(* An object is known by its kind, its table and its name *)

Determined(S) == \A o, x \in S : Key(o) = Key(x) => o = x

\* What a key is made of.
LEMMA KeyFields ==
  \A o, x : Key(o) = Key(x) <=> o.kind = x.kind /\ o.table = x.table /\ o.name = x.name
BY DEF Key

\* Two sets with different keys.
LEMMA DeterminedUnion ==
  ASSUME NEW S, NEW T, Determined(S), Determined(T), \A o \in S, x \in T : Key(o) # Key(x)
  PROVE  Determined(S \cup T)
BY DEF Determined

\* One object.
LEMMA DeterminedOne == \A o : Determined({o})
BY DEF Determined

\* A set of pairs in which the first determines the second.
Functional(P) == \A p, q \in P : p[1] = q[1] => p[2] = q[2]

\* The parts of a table are known by kind and name.
LEMMA DeterminedTableWith ==
  ASSUME NEW t, NEW typed, NEW references, NEW constraints, Functional(typed),
         Functional(references)
  PROVE  Determined(TableWith(t, typed, references, constraints))
<1> DEFINE S == TableWith(t, typed, references, constraints)
<1>1. ASSUME NEW o \in S
      PROVE  \/ o.kind = "table" /\ o = Table(t)
             \/ \E p \in typed : o.kind = "column" /\ o.name = p[1] /\ o = Column(t, p[1], {p[2]})
             \/ \E p \in references : /\ o.kind = "foreign key" /\ o.name = p[1]
                                      /\ o = ForeignKey(t, p[1], p[2])
             \/ \E n \in constraints : /\ o.kind = "constraint" /\ o.name = n
                                       /\ o = Constraint(t, n, {})
  <2>1. CASE o = Table(t)
    BY <2>1, TableFields
  <2>2. ASSUME NEW p \in typed, o = Column(t, p[1], {p[2]})
        PROVE  o.kind = "column" /\ o.name = p[1]
    BY <2>2, ColumnFields DEF PartOf
  <2>3. ASSUME NEW p \in references, o = ForeignKey(t, p[1], p[2])
        PROVE  o.kind = "foreign key" /\ o.name = p[1]
    <3>1. PartOf(t, o, p[1], {p[1]}) /\ o.kind = "foreign key"
      BY <2>3, ForeignKeyFields
    <3>2. QED
      BY <3>1 DEF PartOf
  <2>4. ASSUME NEW n \in constraints, o = Constraint(t, n, {})
        PROVE  o.kind = "constraint" /\ o.name = n
    BY <2>4, ConstraintFields DEF PartOf
  <2>5. QED
    BY <2>1, <2>2, <2>3, <2>4 DEF TableWith
<1> HIDE DEF S
<1>2. SUFFICES ASSUME NEW o \in S, NEW x \in S, Key(o) = Key(x)
               PROVE  o = x
  BY DEF Determined, S
<1>3. o.kind = x.kind /\ o.name = x.name
  BY <1>2, KeyFields
<1>4. CASE o.kind = "table"
  BY <1>1, <1>3, <1>4
<1>5. CASE o.kind = "column"
  <2>1. PICK p \in typed : o.name = p[1] /\ o = Column(t, p[1], {p[2]})
    BY <1>1, <1>5
  <2>2. PICK q \in typed : x.name = q[1] /\ x = Column(t, q[1], {q[2]})
    BY <1>1, <1>3, <1>5
  <2>3. p[1] = q[1] /\ p[2] = q[2]
    BY <1>3, <2>1, <2>2 DEF Functional
  <2>4. QED
    BY <2>1, <2>2, <2>3
<1>6. CASE o.kind = "foreign key"
  <2>1. PICK p \in references : o.name = p[1] /\ o = ForeignKey(t, p[1], p[2])
    BY <1>1, <1>6
  <2>2. PICK q \in references : x.name = q[1] /\ x = ForeignKey(t, q[1], q[2])
    BY <1>1, <1>3, <1>6
  <2>3. p[1] = q[1] /\ p[2] = q[2]
    BY <1>3, <2>1, <2>2 DEF Functional
  <2>4. QED
    BY <2>1, <2>2, <2>3
<1>7. CASE o.kind = "constraint"
  BY <1>1, <1>3, <1>7
<1>8. QED
  BY <1>1, <1>4, <1>5, <1>6, <1>7

\* So are its indexes.
LEMMA DeterminedMore ==
  ASSUME NEW t, NEW typed, NEW references, NEW constraints, Functional(typed),
         Functional(references), NEW I
  PROVE  Determined(TableWith(t, typed, references, constraints) \cup {Index(t, n, {}) : n \in I})
<1> DEFINE S == TableWith(t, typed, references, constraints)
           T == {Index(t, n, {}) : n \in I}
<1>1. Determined(S)
  BY DeterminedTableWith
<1>2. \A n : Index(t, n, {}).name = n /\ Index(t, n, {}).kind = "index"
  BY IndexFields DEF PartOf
<1>3. Determined(T)
  <2>1. SUFFICES ASSUME NEW o \in T, NEW x \in T, Key(o) = Key(x)
                 PROVE  o = x
    BY DEF Determined
  <2>2. PICK n \in I : o = Index(t, n, {})
    OBVIOUS
  <2>3. PICK l \in I : x = Index(t, l, {})
    OBVIOUS
  <2>4. n = l
    BY <1>2, <2>1, <2>2, <2>3, KeyFields
  <2>5. QED
    BY <2>2, <2>3, <2>4
<1>4. \A o \in S : o.kind # "index"
  BY TableFields, InTableWith
<1>5. \A x \in T : x.kind = "index"
  BY <1>2
<1> HIDE DEF S, T
<1>6. \A o \in S, x \in T : Key(o) # Key(x)
  BY <1>4, <1>5, KeyFields
<1>7. Determined(S \cup T)
  BY <1>1, <1>3, <1>6, DeterminedUnion
<1>8. QED
  BY <1>7 DEF S, T

\* So is one index.
LEMMA DeterminedIndex ==
  ASSUME NEW t, NEW typed, NEW references, NEW constraints, Functional(typed),
         Functional(references), NEW n
  PROVE  Determined(TableWith(t, typed, references, constraints) \cup {Index(t, n, {})})
<1>1. Determined(TableWith(t, typed, references, constraints)
                   \cup {Index(t, l, {}) : l \in {n}})
  BY DeterminedMore
<1>2. {Index(t, l, {}) : l \in {n}} = {Index(t, n, {})}
  OBVIOUS
<1>3. QED
  BY <1>1, <1>2

\* At most two pairs.
LEMMA FunctionalFew ==
  /\ Functional({})
  /\ \A a, b : Functional({<<a, b>>})
  /\ \A a, b, c, d : a # c => Functional({<<a, b>>, <<c, d>>})
BY DEF Functional

\* The models name nothing twice.
LEMMA DeterminedTables ==
  /\ Determined(User) /\ Determined(KYCProfile) /\ Determined(Asset0001)
  /\ Determined(AvailabilityWindow) /\ Determined(Booking) /\ Determined(HandoverRecord)
  /\ Determined(Payment)
<1>1. Determined(User)
  BY FunctionalFew, DeterminedIndex DEF User
<1>2. Determined(KYCProfile)
  BY FunctionalFew, DeterminedTableWith DEF KYCProfile
<1>3. Determined(Asset0001)
  <2>1. Functional({<<"category", "assetcategory">>, <<"city", "city">>})
    BY FunctionalFew
  <2>2. QED
    BY <2>1, FunctionalFew, DeterminedIndex DEF Asset0001
<1>4. Determined(AvailabilityWindow)
  BY FunctionalFew, DeterminedIndex DEF AvailabilityWindow
<1>5. Determined(Booking)
  <2> DEFINE P == {<<"status", "bookingstatus">>}
             R == {<<"asset_id", "assets">>, <<"renter_id", "users">>, <<"vendor_id", "users">>}
             K == {"ck_bookings_total_rental_fee_positive",
                   "ck_bookings_deposit_amount_nonnegative", "ck_bookings_valid_date_range",
                   "uq_bookings_id_renter", "uq_bookings_id_vendor"}
             I == {"ix_bookings_asset_id", "ix_bookings_renter_id", "ix_bookings_vendor_id"}
             T == TableWith("bookings", P, R, K)
             X == {Index("bookings", n, {}) : n \in I}
             A == {NoActiveAssetOverlap}
  <2>1. Functional(P)
    BY FunctionalFew
  <2>2. Functional(R)
    BY DEF Functional
  <2>3. Booking = (T \cup X) \cup A
    BY DEF Booking
  <2>4. NoActiveAssetOverlap.kind = "constraint"
        /\ NoActiveAssetOverlap.name = "ex_bookings_no_active_asset_overlap"
    BY DEF NoActiveAssetOverlap, Part
  <2>5. \A n \in K : n # "ex_bookings_no_active_asset_overlap"
    OBVIOUS
  <2>6. \A o \in X : o.kind = "index"
    BY IndexFields
  <2> HIDE DEF P, R, K, I
  <2>7. ASSUME NEW o \in T, o.kind = "constraint"
        PROVE  o.name \in K
    <3>1. o # Table("bookings")
      BY <2>7, TableFields
    <3>2. PICK n \in K : PartOf("bookings", o, n, {})
      BY <2>7, <3>1, InTableWith
    <3>3. o.name = n
      BY <3>2 DEF PartOf
    <3>4. QED
      BY <3>3
  <2>8. Determined(T \cup X)
    BY <2>1, <2>2, DeterminedMore
  <2> HIDE DEF T, X
  <2>9. \A o \in T \cup X : Key(o) # Key(NoActiveAssetOverlap)
    BY <2>4, <2>5, <2>6, <2>7, KeyFields
  <2>10. Determined((T \cup X) \cup A)
    BY <2>8, <2>9, DeterminedOne, DeterminedUnion
  <2>11. QED
    BY <2>3, <2>10
<1>6. Determined(HandoverRecord)
  <2> DEFINE P == {<<"direction", "handoverdirection">>, <<"status", "handoverstatus">>}
             R == {<<"booking_id", "bookings">>, <<"vendor_signer_id", "users">>,
                   <<"renter_signer_id", "users">>,
                   <<"fk_handover_records_booking_vendor", "bookings">>,
                   <<"fk_handover_records_booking_renter", "bookings">>}
  <2>1. Functional(P)
    BY FunctionalFew
  <2>2. Functional(R)
    BY DEF Functional
  <2> HIDE DEF P, R
  <2>3. QED
    BY <2>1, <2>2, DeterminedIndex DEF HandoverRecord, P, R
<1>7. Determined(Payment)
  <2> DEFINE P == {<<"type", "paymenttype">>, <<"status", "paymentstatus">>,
                   <<"deposit_status", "depositstatus">>, <<"payout_status", "payoutstatus">>}
  <2>1. Functional(P)
    BY DEF Functional
  <2> HIDE DEF P
  <2>2. QED
    BY <2>1, FunctionalFew, DeterminedIndex DEF Payment, P
<1>8. QED
  BY <1>1, <1>2, <1>3, <1>4, <1>5, <1>6, <1>7

\* 0002 names nothing twice.
LEMMA DeterminedPublication == Determined(Publication)
<1> DEFINE key == ForeignKey("assets", "review_actor_id", "users")
           C == {"minimum_trust_tier", "review_actor_id", "reviewed_at", "review_reason"}
<1>1. ListingColumn.kind = "column" /\ ListingColumn.name = "listing_status"
  BY ColumnFields DEF ListingColumn, PartOf
<1>2. PublicLagos.kind = "index" /\ TrustTierValid.kind = "constraint"
  BY IndexFields, ConstraintFields DEF PublicLagos, TrustTierValid
<1>3. key.kind = "foreign key"
  BY ForeignKeyFields
<1>4. \A c : Column("assets", c, {}).kind = "column" /\ Column("assets", c, {}).name = c
  BY ColumnFields DEF PartOf
<1>5. "listing_status" \notin C
  OBVIOUS
<1>6. \A o \in Publication :
        \/ o = ListingColumn \/ o = PublicLagos \/ o = TrustTierValid \/ o = key
        \/ \E c \in C : o = Column("assets", c, {})
  BY InPublication
<1> HIDE DEF key, C
<1>7. SUFFICES ASSUME NEW o \in Publication, NEW x \in Publication, Key(o) = Key(x)
               PROVE  o = x
  BY DEF Determined
<1>8. o.kind = x.kind /\ o.name = x.name
  BY <1>7, KeyFields
<1>9. CASE o.kind = "column"
  <2>1. \A y \in Publication : y.kind = "column" =>
          \/ y = ListingColumn
          \/ y = Column("assets", y.name, {}) /\ y.name \in C
    BY <1>2, <1>3, <1>4, <1>6
  <2>2. o = ListingColumn \/ (o = Column("assets", o.name, {}) /\ o.name \in C)
    BY <1>7, <1>9, <2>1
  <2>3. x = ListingColumn \/ (x = Column("assets", x.name, {}) /\ x.name \in C)
    BY <1>7, <1>8, <1>9, <2>1
  <2>4. CASE o = ListingColumn
    BY <1>1, <1>5, <1>8, <2>3, <2>4
  <2>5. CASE o # ListingColumn
    <3>1. o = Column("assets", o.name, {}) /\ o.name \in C
      BY <2>2, <2>5
    <3>2. x # ListingColumn
      BY <1>1, <1>5, <1>8, <3>1
    <3>3. x = Column("assets", x.name, {})
      BY <2>3, <3>2
    <3>4. QED
      BY <1>8, <3>1, <3>3
  <2>6. QED
    BY <2>4, <2>5
<1>10. CASE o.kind # "column"
  <2>1. \A y \in Publication : y.kind # "column" =>
          \/ y.kind = "index" /\ y = PublicLagos
          \/ y.kind = "constraint" /\ y = TrustTierValid
          \/ y.kind = "foreign key" /\ y = key
    BY <1>1, <1>2, <1>3, <1>4, <1>6
  <2>2. QED
    BY <1>8, <1>10, <2>1
<1>11. QED
  BY <1>9, <1>10

\* The parts of each table.
LEMMA PartsOfTables ==
  \A o \in Object : o.table # NoTable =>
    \/ o.table = "users" /\ o \in User
    \/ o.table = "kyc_profiles" /\ o \in KYCProfile
    \/ o.table = "assets" /\ o \in Asset0001 \cup Publication
    \/ o.table = "availability_windows" /\ o \in AvailabilityWindow
    \/ o.table = "bookings" /\ o \in Booking
    \/ o.table = "handover_records" /\ o \in HandoverRecord
    \/ o.table = "payments" /\ o \in Payment
<1> TAKE o \in Object
<1> HAVE o.table # NoTable
<1>1. o \notin Outside /\ o \notin EnumTypes /\ o # ListingType
  BY OutsideFields, TypeFields DEF EnumTypes, ListingType
<1>2. o \in Tabled \cup Publication
  BY <1>1, MetadataParts DEF Object, PublicationObjects
<1>3. \A t : Belongs(t, o) => o.table = t
  BY TableFields DEF Belongs
<1>4. o \in Publication => o.table = "assets"
  BY PublicationBelongs
<1>5. QED
  BY <1>2, <1>3, <1>4, TablesBelong DEF Tabled

\* No two objects have the same kind, table and name.
LEMMA KeyInjective == \A o, x \in Object : Key(o) = Key(x) => o = x
<1> SUFFICES ASSUME NEW o \in Object, NEW x \in Object, Key(o) = Key(x)
             PROVE  o = x
  OBVIOUS
<1>1. o.kind = x.kind /\ o.table = x.table /\ o.name = x.name
  BY KeyFields
<1>2. CASE o.table # NoTable
  <2>1. Determined(Asset0001 \cup Publication)
    <3>1. \A a \in Asset0001, b \in Publication : a.name # b.name
      BY AssetNames, PublicationBelongs
    <3>2. \A a \in Asset0001, b \in Publication : Key(a) # Key(b)
      BY <3>1, KeyFields
    <3>3. QED
      BY <3>2, DeterminedTables, DeterminedPublication, DeterminedUnion
  <2>2. \E S : Determined(S) /\ o \in S /\ x \in S
    <3>1. x.table # NoTable
      BY <1>1, <1>2
    <3>2. CASE o.table = "assets"
      <4>1. o \in Asset0001 \cup Publication /\ x \in Asset0001 \cup Publication
        BY <1>1, <1>2, <3>1, <3>2, PartsOfTables
      <4>2. QED
        BY <2>1, <4>1
    <3>3. CASE o.table # "assets"
      BY <1>1, <1>2, <3>1, <3>3, PartsOfTables, DeterminedTables
    <3>4. QED
      BY <3>2, <3>3
  <2>3. QED
    BY <2>2 DEF Determined
<1>3. CASE o.table = NoTable
  <2>1. CASE o.kind \in {"table", "type"}
    BY <1>1, <2>1, ObjectTable
  <2>2. CASE o.kind \notin {"table", "type"}
    <3>1. o \in Outside /\ x \in Outside
      <4>1. ASSUME NEW y \in Object, y.table = NoTable, y.kind \notin {"table", "type"}
            PROVE  y \in Outside
        <5>1. y.kind \notin PartKinds
          BY <4>1, ObjectTable DEF TableNames, NoTable
        <5>2. QED
          BY <4>1, <5>1, ObjectCases, TableFields, TypeFields
      <4>2. QED
        BY <1>1, <1>3, <2>2, <4>1
    <3>2. \A y \in Outside : y.kind = "extension" => y = Extension(y.name)
      BY TableFields, ExtensionFields DEF Outside, VersionTable
    <3>3. o.kind = "extension" /\ x.kind = "extension"
      BY <1>1, <2>2, <3>1, OutsideFields
    <3>4. QED
      BY <1>1, <3>1, <3>2, <3>3
  <2>3. QED
    BY <2>1, <2>2
<1>4. QED
  BY <1>2, <1>3

-----------------------------------------------------------------------------
(* A downgrade on its own finds what it drops, and drops nothing that is needed *)

\* The keys of the two kinds of DROP.
LEMMA DropKeys ==
  /\ \A n, t : DropIndex(n, t).op = "drop" /\ DropIndex(n, t).object = <<"index", t, n>>
  /\ \A t : DropTable(t).op = "drop" /\ DropTable(t).object = <<"table", NoTable, t>>
  /\ \A c, t : DropColumn(t, c).op = "drop" /\ DropColumn(t, c).object = <<"column", t, c>>
BY DropFields DEF DropIndex, DropTable, DropColumn

\* What a key hits.
LEMMA HitBy ==
  \A kind, t, n, o :
    Hit(<<kind, t, n>>, o) <=>
      \/ o.kind = kind /\ o.table = t /\ o.name = n
      \/ kind = "table" /\ o.table = n
      \/ kind = "column" /\ o.table = t /\ n \in o.reads
<1> TAKE kind, t, n, o
<1> DEFINE key == <<kind, t, n>>
<1>1. key[1] = kind /\ key[2] = t /\ key[3] = n
  OBVIOUS
<1>2. Key(o) = key <=> o.kind = kind /\ o.table = t /\ o.name = n
  BY DEF Key
<1> HIDE DEF key
<1>3. Hit(key, o) <=> \/ Key(o) = key
                      \/ key[1] = "table" /\ o.table = key[3]
                      \/ key[1] = "column" /\ o.table = key[2] /\ key[3] \in o.reads
  BY DEF Hit, Victims
<1>4. QED
  BY <1>1, <1>2, <1>3 DEF key

\* Nothing needs a part of a table.
LEMMA DropsPart ==
  ASSUME NEW kind, kind # "table", NEW t, t # NoTable, NEW n, NEW S, NEW x \in S,
         x.kind = kind, x.table = t, x.name = n
  PROVE  Droppable(<<kind, t, n>>, S)
<1> DEFINE key == <<kind, t, n>>
           V == Victims(key, S)
<1>1. \A o \in V : o \in S /\ Hit(key, o)
  BY VictimsHit
<1>2. \A o \in V : o.table = t
  BY <1>1, HitBy
<1>3. x \in V
  BY HitBy, VictimsHit
<1>4. Key(x) = key
  BY DEF Key
<1> HIDE DEF V, key
<1>5. Names(V) = {}
  BY <1>2 DEF Names
<1>6. key \in Keys(V)
  BY <1>3, <1>4 DEF Keys
<1>7. Droppable(key, S)
  BY <1>5, <1>6 DEF Droppable, V
<1>8. QED
  BY <1>7 DEF key

\* A table, or a type, that nothing needs but what goes away with it.
LEMMA DropsFree ==
  ASSUME NEW kind \in {"table", "type"}, NEW n, n # NoTable, NEW S, NEW x \in S,
         x.kind = kind, x.table = NoTable, x.name = n,
         \A o \in S : n \in o.needs => Hit(<<kind, NoTable, n>>, o)
  PROVE  Droppable(<<kind, NoTable, n>>, S)
<1> DEFINE key == <<kind, NoTable, n>>
           V == Victims(key, S)
<1>1. V = {o \in S : Hit(key, o)}
  BY VictimsHit
<1>2. \A o \in V : o.table = NoTable => o.name = n
  BY <1>1, HitBy
<1>3. x \in V
  BY <1>1, HitBy
<1>4. Key(x) = key
  BY DEF Key
<1>5. \A o \in S \ V : n \notin o.needs
  BY <1>1
<1> HIDE DEF V, key
<1>6. Names(V) \subseteq {n}
  BY <1>2 DEF Names
<1>7. key \in Keys(V)
  BY <1>3, <1>4 DEF Keys
<1>8. (UNION {o.needs : o \in S \ V}) \cap Names(V) = {}
  <2> DEFINE U == UNION {o.needs : o \in S \ V}
  <2>1. \A y \in U : \E o \in S \ V : y \in o.needs
    OBVIOUS
  <2> HIDE DEF U
  <2>2. U \cap Names(V) = {}
    BY <1>5, <1>6, <2>1
  <2>3. QED
    BY <2>2 DEF U
<1>9. Droppable(key, S)
  BY <1>7, <1>8 DEF Droppable, V
<1>10. QED
  BY <1>9 DEF key

\* What the statements before a position leave.
LEMMA RestIs ==
  ASSUME NEW s, NEW k, NEW C, NEW o
  PROVE  o \in Rest(C, Dropped(Passing(s, k))) <=>
           /\ o \in C
           /\ \A l \in 1 .. k - 1 : s[l].op = "drop" => ~Hit(s[l].object, o)
BY DEF Rest, Dropped, Passing

\* The drops of two scripts, one after the other.
LEMMA RestTwice == \A C, K, L : Rest(C, K \cup L) = Rest(Rest(C, K), L)
BY DEF Rest

\* A downgrade after another, on what the first leaves.
LEMMA ClearsConcat ==
  ASSUME NEW s, NEW t, Lists(s, Statements(s)), Lists(t, Statements(t)), NEW C, Clears(s, C),
         Clears(t, Rest(C, Dropped(Statements(s))))
  PROVE  Clears(s \o t, C)
<1> DEFINE r == s \o t
           D == Dropped(Statements(s))
<1>1. /\ \A k \in 1 .. Len(s) : r[k] = s[k]
      /\ \A n \in 1 .. Len(t) : r[Len(s) + n] = t[n]
      /\ \A k \in 1 .. Len(r) : k \in 1 .. Len(s) \/ \E n \in 1 .. Len(t) : k = Len(s) + n
  <2>1. Len(r) = Len(s) + Len(t)
    BY ListsConcat
  <2>2. \A k \in 1 .. Len(s) : r[k] = s[k]
    BY ListsConcat
  <2>3. \A n \in 1 .. Len(t) : r[Len(s) + n] = t[n]
    BY ListsConcat
  <2>4. \A k \in 1 .. Len(s) + Len(t) : k \in 1 .. Len(s) \/ \E n \in 1 .. Len(t) : k = Len(s) + n
    BY ListsConcat
  <2> HIDE DEF r
  <2>5. QED
    BY <2>1, <2>2, <2>3, <2>4
<1>2. /\ \A k \in 1 .. Len(s) : Passing(r, k) = Passing(s, k)
      /\ \A n \in 1 .. Len(t) : Passing(r, Len(s) + n) = Statements(s) \cup Passing(t, n)
  BY PassingConcat
<1> HIDE DEF r
<1>3. \A k \in 1 .. Len(s) :
        r[k].op = "drop" => Droppable(r[k].object, Rest(C, Dropped(Passing(r, k))))
  BY <1>1, <1>2 DEF Clears
<1>4. ASSUME NEW n \in 1 .. Len(t), r[Len(s) + n].op = "drop"
      PROVE  Droppable(r[Len(s) + n].object, Rest(C, Dropped(Passing(r, Len(s) + n))))
  <2> DEFINE P == Passing(t, n)
             k == Len(s) + n
  <2>1. r[k] = t[n] /\ Passing(r, k) = Statements(s) \cup P
    BY <1>1, <1>2
  <2>2. Dropped(Passing(r, k)) = D \cup Dropped(P)
    BY <2>1, CollectedUnion
  <2>3. Droppable(t[n].object, Rest(Rest(C, D), Dropped(P)))
    BY <1>4, <2>1 DEF Clears
  <2> HIDE DEF P, k, D
  <2>4. Rest(C, Dropped(Passing(r, k))) = Rest(Rest(C, D), Dropped(P))
    BY <2>2, RestTwice
  <2>5. Droppable(r[k].object, Rest(C, Dropped(Passing(r, k))))
    BY <2>1, <2>3, <2>4
  <2>6. QED
    BY <2>5 DEF k
<1>5. \A k \in 1 .. Len(r) :
        r[k].op = "drop" => Droppable(r[k].object, Rest(C, Dropped(Passing(r, k))))
  BY <1>1, <1>3, <1>4
<1>6. Clears(r, C)
  BY <1>5 DEF Clears
<1>7. QED
  BY <1>6 DEF r

\* A stamp drops nothing.
LEMMA ClearsStamp == \A i, j, C : Clears(<<Stamp(i, j)>>, C)
<1> TAKE i, j, C
<1> DEFINE s == <<Stamp(i, j)>>
<1>1. Len(s) = 1 /\ s[1] = Stamp(i, j)
  OBVIOUS
<1> HIDE DEF s
<1>2. \A k \in 1 .. Len(s) : s[k].op = "stamp"
  BY <1>1, StampFields
<1>3. Clears(s, C)
  BY <1>2 DEF Clears
<1>4. QED
  BY <1>3 DEF s

-----------------------------------------------------------------------------
(* The order in which 0001 drops the tables *)

\* The positions of the tables and of the indexes in the downgrade of 0001.
TableTurn(t) ==
  CASE t = "payments" -> 2 [] t = "handover_records" -> 4 [] t = "bookings" -> 8
    [] t = "availability_windows" -> 10 [] t = "kyc_profiles" -> 11 [] t = "assets" -> 13
    [] t = "users" -> 15

IndexTurn(n) ==
  CASE n = "ix_payments_booking_id" -> 1 [] n = "ix_handover_records_booking_id" -> 3
    [] n = "ix_bookings_vendor_id" -> 5 [] n = "ix_bookings_renter_id" -> 6
    [] n = "ix_bookings_asset_id" -> 7 [] n = "ix_availability_windows_asset_id" -> 9
    [] n = "ix_assets_vendor_id" -> 12 [] n = "ix_users_phone" -> 14

\* The positions of the tables.
LEMMA TableTurns ==
  /\ TableTurn("payments") = 2 /\ TableTurn("handover_records") = 4
  /\ TableTurn("bookings") = 8 /\ TableTurn("availability_windows") = 10
  /\ TableTurn("kyc_profiles") = 11 /\ TableTurn("assets") = 13 /\ TableTurn("users") = 15
BY DEF TableTurn

\* The positions of the indexes.
LEMMA IndexTurns ==
  /\ IndexTurn("ix_payments_booking_id") = 1 /\ IndexTurn("ix_handover_records_booking_id") = 3
  /\ IndexTurn("ix_bookings_vendor_id") = 5 /\ IndexTurn("ix_bookings_renter_id") = 6
  /\ IndexTurn("ix_bookings_asset_id") = 7 /\ IndexTurn("ix_availability_windows_asset_id") = 9
  /\ IndexTurn("ix_assets_vendor_id") = 12 /\ IndexTurn("ix_users_phone") = 14
BY DEF IndexTurn

\* The DROPs of indexes and tables.
DropTables ==
  <<DropIndex("ix_payments_booking_id", "payments"), DropTable("payments"),
    DropIndex("ix_handover_records_booking_id", "handover_records"),
    DropTable("handover_records"),
    DropIndex("ix_bookings_vendor_id", "bookings"),
    DropIndex("ix_bookings_renter_id", "bookings"),
    DropIndex("ix_bookings_asset_id", "bookings"), DropTable("bookings"),
    DropIndex("ix_availability_windows_asset_id", "availability_windows"),
    DropTable("availability_windows"),
    DropTable("kyc_profiles"),
    DropIndex("ix_assets_vendor_id", "assets"), DropTable("assets"),
    DropIndex("ix_users_phone", "users"), DropTable("users")>>

\* The statements by their positions.
LEMMA DropTablesAt ==
  /\ Len(DropTables) = 15
  /\ DropTables[1] = DropIndex("ix_payments_booking_id", "payments")
  /\ DropTables[2] = DropTable("payments")
  /\ DropTables[3] = DropIndex("ix_handover_records_booking_id", "handover_records")
  /\ DropTables[4] = DropTable("handover_records")
  /\ DropTables[5] = DropIndex("ix_bookings_vendor_id", "bookings")
  /\ DropTables[6] = DropIndex("ix_bookings_renter_id", "bookings")
  /\ DropTables[7] = DropIndex("ix_bookings_asset_id", "bookings")
  /\ DropTables[8] = DropTable("bookings")
  /\ DropTables[9] = DropIndex("ix_availability_windows_asset_id", "availability_windows")
  /\ DropTables[10] = DropTable("availability_windows")
  /\ DropTables[11] = DropTable("kyc_profiles")
  /\ DropTables[12] = DropIndex("ix_assets_vendor_id", "assets")
  /\ DropTables[13] = DropTable("assets")
  /\ DropTables[14] = DropIndex("ix_users_phone", "users")
  /\ DropTables[15] = DropTable("users")
BY DEF DropTables

\* The tables go first, then the enums.
LEMMA DropTablesListed ==
  /\ Lists(DropTables, Statements(DropTables))
  /\ Downgrade0001 = DropTables \o DropEnums
BY ListsTuple, StatementsListed DEF DropTables, Downgrade0001

\* The indexes that 0001 drops.
LEMMA IndexesThere ==
  {Index("payments", "ix_payments_booking_id", {}),
   Index("handover_records", "ix_handover_records_booking_id", {}),
   Index("bookings", "ix_bookings_vendor_id", {}),
   Index("bookings", "ix_bookings_renter_id", {}),
   Index("bookings", "ix_bookings_asset_id", {}),
   Index("availability_windows", "ix_availability_windows_asset_id", {}),
   Index("assets", "ix_assets_vendor_id", {}), Index("users", "ix_users_phone", {})}
    \subseteq Tabled
<1>1. Index("payments", "ix_payments_booking_id", {}) \in Payment
  BY DEF Payment
<1>2. Index("handover_records", "ix_handover_records_booking_id", {}) \in HandoverRecord
  BY DEF HandoverRecord
<1>3. /\ Index("bookings", "ix_bookings_vendor_id", {}) \in Booking
      /\ Index("bookings", "ix_bookings_renter_id", {}) \in Booking
      /\ Index("bookings", "ix_bookings_asset_id", {}) \in Booking
  BY DEF Booking
<1>4. Index("availability_windows", "ix_availability_windows_asset_id", {}) \in AvailabilityWindow
  BY DEF AvailabilityWindow
<1>5. Index("assets", "ix_assets_vendor_id", {}) \in Asset0001
  BY DEF Asset0001
<1>6. Index("users", "ix_users_phone", {}) \in User
  BY DEF User
<1>7. QED
  BY <1>1, <1>2, <1>3, <1>4, <1>5, <1>6 DEF Tabled

\* Each statement drops an index of a table whose turn is yet to come, or a table.
DropsAt(k) ==
  \/ \E t \in TableNames : DropTables[k] = DropTable(t) /\ k = TableTurn(t)
  \/ \E t \in TableNames :
       \E n : /\ DropTables[k] = DropIndex(n, t)
              /\ k = IndexTurn(n) /\ k < TableTurn(t)
              /\ Index(t, n, {}) \in Tabled

\* The order of the statements.
LEMMA DropTablesOrdered ==
  /\ \A k \in 1 .. 15 : DropsAt(k)
  /\ \A t \in TableNames : TableTurn(t) \in 1 .. 15 /\ DropTables[TableTurn(t)] = DropTable(t)
<1>1. {"users", "kyc_profiles", "assets", "availability_windows", "bookings",
       "handover_records", "payments"} \subseteq TableNames
  BY DEF TableNames
<1>2. DropsAt(1) /\ DropsAt(3)
  BY <1>1, DropTablesAt, IndexTurns, TableTurns, IndexesThere DEF DropsAt
<1>3. DropsAt(5) /\ DropsAt(6) /\ DropsAt(7)
  BY <1>1, DropTablesAt, IndexTurns, TableTurns, IndexesThere DEF DropsAt
<1>4. DropsAt(9) /\ DropsAt(12) /\ DropsAt(14)
  BY <1>1, DropTablesAt, IndexTurns, TableTurns, IndexesThere DEF DropsAt
<1>5. DropsAt(2) /\ DropsAt(4) /\ DropsAt(8) /\ DropsAt(10) /\ DropsAt(11) /\ DropsAt(13)
      /\ DropsAt(15)
  BY <1>1, DropTablesAt, TableTurns DEF DropsAt
<1>6. \A k \in 1 .. 15 : \/ k = 1 \/ k = 2 \/ k = 3 \/ k = 4 \/ k = 5 \/ k = 6 \/ k = 7
                         \/ k = 8 \/ k = 9 \/ k = 10 \/ k = 11 \/ k = 12 \/ k = 13 \/ k = 14
                         \/ k = 15
  OBVIOUS
<1>7. \A k \in 1 .. 15 : DropsAt(k)
  BY <1>2, <1>3, <1>4, <1>5, <1>6
<1>8. \A t \in TableNames : TableTurn(t) \in 1 .. 15 /\ DropTables[TableTurn(t)] = DropTable(t)
  BY DropTablesAt, TableTurns DEF TableNames
<1>9. QED
  BY <1>7, <1>8

\* An object that stands by itself needs nothing.
LEMMA FreeNeedsNothing == \A o \in Object : o.table = NoTable => o.needs = {}
<1>1. \A kind, n : FreeStanding(kind, n).needs = {}
  BY DEF FreeStanding
<1>2. ASSUME NEW o \in Object, o.table = NoTable
      PROVE  o.needs = {}
  <2>1. o.kind \notin PartKinds
    BY <1>2, ObjectTable DEF TableNames, NoTable
  <2>2. \/ \E t \in TableNames : o = Table(t)
        \/ \E n \in TypeNames : o = Type(n)
        \/ o \in Outside
    BY <2>1, ObjectCases
  <2>3. QED
    BY <1>1, <2>2 DEF Table, Type, Outside, VersionTable, Extension
<1>3. QED
  BY <1>2

\* What the parts of a table and of its indexes need.
LEMMA PartsNeed ==
  ASSUME NEW t, NEW typed, NEW references, NEW constraints,
         NEW N, {p[2] : p \in typed} \cup {p[2] : p \in references} \subseteq N, t \in N
  PROVE  /\ \A o \in TableWith(t, typed, references, constraints) : o.needs \subseteq N
         /\ \A n : \A o \in TableWith(t, typed, references, constraints) \cup {Index(t, n, {})} :
              o.needs \subseteq N
<1>1. \A S : \A o \in S : o.needs \subseteq Needs(S)
  BY DEF Needs
<1> DEFINE T == TableWith(t, typed, references, constraints)
           P == {p[2] : p \in typed}
           R == {p[2] : p \in references}
<1>2. Needs(T) \subseteq {t} \cup P \cup R
  BY NeedsTableWith
<1>3. \A n : Index(t, n, {}).needs = {}
  BY DEF Index, Part
<1> HIDE DEF T, P, R
<1>4. P \cup R \subseteq N
  BY DEF P, R
<1>5. \A o \in T : o.needs \subseteq N
  BY <1>1, <1>2, <1>4
<1>6. \A n : \A o \in T \cup {Index(t, n, {})} : o.needs \subseteq N
  BY <1>3, <1>5
<1>7. QED
  BY <1>5, <1>6 DEF T

\* What the models need.
LEMMA ModelsNeed ==
  /\ \A o \in User : o.needs \subseteq {"users", "renterrole"}
  /\ \A o \in KYCProfile : o.needs \subseteq {"kyc_profiles", "kycstatus", "users"}
  /\ \A o \in Asset0001 : o.needs \subseteq {"assets", "assetcategory", "city", "users"}
  /\ \A o \in AvailabilityWindow : o.needs \subseteq {"availability_windows", "assets"}
  /\ \A o \in Booking :
       o.needs \subseteq {"bookings", "bookingstatus", "assets", "users", "btree_gist"}
  /\ \A o \in HandoverRecord :
       o.needs \subseteq {"handover_records", "handoverdirection", "handoverstatus", "users",
                         "bookings"}
  /\ \A o \in Payment :
       o.needs \subseteq {"payments", "paymenttype", "paymentstatus", "depositstatus",
                         "payoutstatus", "bookings"}
<1>1. ASSUME NEW o \in User
      PROVE  o.needs \subseteq {"users", "renterrole"}
  <2> DEFINE P == {<<"role", "renterrole">>}
             R == {}
             K == {}
             N == {"users", "renterrole"}
  <2>1. {p[2] : p \in P} \cup {p[2] : p \in R} \subseteq N /\ "users" \in N
    OBVIOUS
  <2>2. User = TableWith("users", P, R, K) \cup {Index("users", "ix_users_phone", {})}
    BY DEF User
  <2> HIDE DEF P, R, K, N
  <2>3. o.needs \subseteq N
    BY <2>1, <2>2, PartsNeed
  <2>4. QED
    BY <2>3 DEF N
<1>2. ASSUME NEW o \in KYCProfile
      PROVE  o.needs \subseteq {"kyc_profiles", "kycstatus", "users"}
  <2> DEFINE P == {<<"status", "kycstatus">>}
             R == {<<"user_id", "users">>}
             K == {"ck_kyc_profiles_supported_tier", "ck_kyc_profiles_verified_at_required",
                   "ck_kyc_profiles_verification_consistency",
                   "uq_kyc_profiles_provider_reference"}
             N == {"kyc_profiles", "kycstatus", "users"}
  <2>1. {p[2] : p \in P} \cup {p[2] : p \in R} \subseteq N /\ "kyc_profiles" \in N
    OBVIOUS
  <2>2. KYCProfile = TableWith("kyc_profiles", P, R, K)
    BY DEF KYCProfile
  <2> HIDE DEF P, R, K, N
  <2>3. o.needs \subseteq N
    BY <2>1, <2>2, PartsNeed
  <2>4. QED
    BY <2>3 DEF N
<1>3. ASSUME NEW o \in Asset0001
      PROVE  o.needs \subseteq {"assets", "assetcategory", "city", "users"}
  <2> DEFINE P == {<<"category", "assetcategory">>, <<"city", "city">>}
             R == {<<"vendor_id", "users">>}
             K == {"ck_assets_daily_rate_positive", "ck_assets_deposit_amount_nonnegative"}
             N == {"assets", "assetcategory", "city", "users"}
  <2>1. {p[2] : p \in P} \cup {p[2] : p \in R} \subseteq N /\ "assets" \in N
    OBVIOUS
  <2>2. Asset0001 = TableWith("assets", P, R, K)
                     \cup {Index("assets", "ix_assets_vendor_id", {})}
    BY DEF Asset0001
  <2> HIDE DEF P, R, K, N
  <2>3. o.needs \subseteq N
    BY <2>1, <2>2, PartsNeed
  <2>4. QED
    BY <2>3 DEF N
<1>4. ASSUME NEW o \in AvailabilityWindow
      PROVE  o.needs \subseteq {"availability_windows", "assets"}
  <2> DEFINE P == {}
             R == {<<"asset_id", "assets">>}
             K == {"ck_availability_windows_valid_date_range"}
             N == {"availability_windows", "assets"}
  <2>1. {p[2] : p \in P} \cup {p[2] : p \in R} \subseteq N /\ "availability_windows" \in N
    OBVIOUS
  <2>2. AvailabilityWindow = TableWith("availability_windows", P, R, K)
                     \cup {Index("availability_windows", "ix_availability_windows_asset_id", {})}
    BY DEF AvailabilityWindow
  <2> HIDE DEF P, R, K, N
  <2>3. o.needs \subseteq N
    BY <2>1, <2>2, PartsNeed
  <2>4. QED
    BY <2>3 DEF N
<1>5. ASSUME NEW o \in Booking
      PROVE  o.needs \subseteq {"bookings", "bookingstatus", "assets", "users", "btree_gist"}
  <2> DEFINE P == {<<"status", "bookingstatus">>}
             R == {<<"asset_id", "assets">>, <<"renter_id", "users">>, <<"vendor_id", "users">>}
             K == {"ck_bookings_total_rental_fee_positive",
                   "ck_bookings_deposit_amount_nonnegative", "ck_bookings_valid_date_range",
                   "uq_bookings_id_renter", "uq_bookings_id_vendor"}
             I == {"ix_bookings_asset_id", "ix_bookings_renter_id", "ix_bookings_vendor_id"}
             N == {"bookings", "bookingstatus", "assets", "users", "btree_gist"}
             X == {Index("bookings", n, {}) : n \in I}
  <2>1. {p[2] : p \in P} \cup {p[2] : p \in R} \subseteq N /\ "bookings" \in N
    OBVIOUS
  <2>2. o \in TableWith("bookings", P, R, K) \cup {NoActiveAssetOverlap} \cup X
    BY DEF Booking
  <2>3. \A x \in X : x.needs = {}
    BY DEF Index, Part
  <2>4. NoActiveAssetOverlap.needs = {"btree_gist"} /\ "btree_gist" \in N
    BY DEF NoActiveAssetOverlap, Part
  <2> HIDE DEF P, R, K, I, N, X
  <2>5. \A x \in TableWith("bookings", P, R, K) : x.needs \subseteq N
    BY <2>1, PartsNeed
  <2>6. o.needs \subseteq N
    BY <2>2, <2>3, <2>4, <2>5
  <2>7. QED
    BY <2>6 DEF N
<1>6. ASSUME NEW o \in HandoverRecord
      PROVE  o.needs \subseteq {"handover_records", "handoverdirection", "handoverstatus", "users",
                               "bookings"}
  <2> DEFINE P == {<<"direction", "handoverdirection">>, <<"status", "handoverstatus">>}
             R == {<<"booking_id", "bookings">>, <<"vendor_signer_id", "users">>,
                   <<"renter_signer_id", "users">>,
                   <<"fk_handover_records_booking_vendor", "bookings">>,
                   <<"fk_handover_records_booking_renter", "bookings">>}
             K == {"ck_handover_records_completed_requirements",
                   "uq_handover_records_booking_direction"}
             N == {"handover_records", "handoverdirection", "handoverstatus", "users", "bookings"}
  <2>1. {p[2] : p \in P} \cup {p[2] : p \in R} \subseteq N /\ "handover_records" \in N
    OBVIOUS
  <2>2. o \in TableWith("handover_records", P, R, K)
              \cup {Index("handover_records", "ix_handover_records_booking_id", {})}
    BY DEF HandoverRecord
  <2> HIDE DEF P, R, K, N
  <2>3. o.needs \subseteq N
    BY <2>1, <2>2, PartsNeed
  <2>4. QED
    BY <2>3 DEF N
<1>7. ASSUME NEW o \in Payment
      PROVE  o.needs \subseteq {"payments", "paymenttype", "paymentstatus", "depositstatus",
                               "payoutstatus", "bookings"}
  <2> DEFINE P == {<<"type", "paymenttype">>, <<"status", "paymentstatus">>,
                   <<"deposit_status", "depositstatus">>, <<"payout_status", "payoutstatus">>}
             R == {<<"booking_id", "bookings">>}
             K == {"ck_payments_amount_positive", "ck_payments_payout_fields_required",
                   "ck_payments_platform_fee_nonnegative", "ck_payments_deposit_lifecycle_type",
                   "ck_payments_payout_lifecycle_type", "ck_payments_deposit_status_timestamps",
                   "ck_payments_payout_status_timestamps"}
             N == {"payments", "paymenttype", "paymentstatus", "depositstatus", "payoutstatus",
                   "bookings"}
  <2>1. {p[2] : p \in P} \cup {p[2] : p \in R} \subseteq N /\ "payments" \in N
    OBVIOUS
  <2>2. Payment = TableWith("payments", P, R, K)
                     \cup {Index("payments", "ix_payments_booking_id", {})}
    BY DEF Payment
  <2> HIDE DEF P, R, K, N
  <2>3. o.needs \subseteq N
    BY <2>1, <2>2, PartsNeed
  <2>4. QED
    BY <2>3 DEF N
<1>8. QED
  BY <1>1, <1>2, <1>3, <1>4, <1>5, <1>6, <1>7

\* What the publication needs.
LEMMA PublicationNeeds ==
  \A o \in Publication : /\ o.needs \subseteq {"listingstatus", "users"}
                         /\ "listingstatus" \in o.needs => o = ListingColumn
<1>1. ListingColumn.needs = {"listingstatus"} /\ \A c : Column("assets", c, {}).needs = {}
  BY ColumnFields DEF ListingColumn
<1>2. PublicLagos.needs = {} /\ TrustTierValid.needs = {}
  BY DEF PublicLagos, TrustTierValid, Index, Constraint, Part
<1>3. ForeignKey("assets", "review_actor_id", "users").needs = {"users"}
  BY DEF ForeignKey, Part
<1>4. QED
  BY <1>1, <1>2, <1>3, InPublication

\* A part of a table needs no table whose turn has come before.
LEMMA NeedsTable ==
  \A o \in Object, t \in TableNames :
    t \in o.needs => /\ o.table \in TableNames
                     /\ o.table = t \/ TableTurn(o.table) < TableTurn(t)
<1> SUFFICES ASSUME NEW o \in Object, NEW t \in TableNames, t \in o.needs
             PROVE  o.table \in TableNames /\ (o.table = t \/ TableTurn(o.table) < TableTurn(t))
  OBVIOUS
<1>1. o.table # NoTable
  BY FreeNeedsNothing
<1>2. o.table \in TableNames
  BY <1>1, ObjectTable
<1>3. \/ o.table = "users" /\ t = "users"
      \/ o.table = "kyc_profiles" /\ t \in {"kyc_profiles", "users"}
      \/ o.table = "assets" /\ t \in {"assets", "users"}
      \/ o.table = "availability_windows" /\ t \in {"availability_windows", "assets"}
      \/ o.table = "bookings" /\ t \in {"bookings", "assets", "users"}
      \/ o.table = "handover_records" /\ t \in {"handover_records", "bookings", "users"}
      \/ o.table = "payments" /\ t \in {"payments", "bookings"}
  <2>1. t \notin EnumNames /\ t # "listingstatus" /\ t # "btree_gist"
    BY DEF TableNames, EnumNames
  <2>2. \/ o.table = "users" /\ o \in User
        \/ o.table = "kyc_profiles" /\ o \in KYCProfile
        \/ o.table = "assets" /\ (o \in Asset0001 \/ o \in Publication)
        \/ o.table = "availability_windows" /\ o \in AvailabilityWindow
        \/ o.table = "bookings" /\ o \in Booking
        \/ o.table = "handover_records" /\ o \in HandoverRecord
        \/ o.table = "payments" /\ o \in Payment
    BY <1>1, PartsOfTables
  <2>3. QED
    BY <2>1, <2>2, ModelsNeed, PublicationNeeds DEF EnumNames
<1>4. QED
  BY <1>2, <1>3, TableTurns

\* Only the publication state has the type of 0002.
LEMMA NeedsListingType ==
  \A o \in Object : "listingstatus" \in o.needs => o = ListingColumn
<1> SUFFICES ASSUME NEW o \in Object, "listingstatus" \in o.needs
             PROVE  o = ListingColumn
  OBVIOUS
<1>1. o.table # NoTable
  BY FreeNeedsNothing
<1>2. o \in Publication
  BY <1>1, PartsOfTables, ModelsNeed
<1>3. QED
  BY <1>2, PublicationNeeds

\* Where the tables and indexes of 0001 are, its DROPs of indexes and tables succeed.
LEMMA DropTablesClear ==
  ASSUME NEW C \in SUBSET Object, Parts0001 \ Unmigrated \subseteq C
  PROVE  Clears(DropTables, C)
<1> DEFINE s == DropTables
<1>1. Len(s) = 15
  BY DropTablesAt
<1>2. \A o \in Tabled : o.kind # "foreign key" => o \in C
  <2>1. \A o \in Unmigrated : o.kind = "foreign key"
    BY ForeignKeyFields DEF Unmigrated
  <2>2. QED
    BY <2>1 DEF Parts0001
<1>3. NoTable \notin TableNames
  BY DEF TableNames, NoTable
<1>4. \A k \in 1 .. 15 : DropsAt(k)
  BY DropTablesOrdered
<1> HIDE DEF s
<1>5. ASSUME NEW k \in 1 .. 15, NEW t \in TableNames, s[k] = DropTable(t), k = TableTurn(t)
      PROVE  Droppable(s[k].object, Rest(C, Dropped(Passing(s, k))))
  <2> DEFINE S == Rest(C, Dropped(Passing(s, k)))
             x == Table(t)
  <2>1. x.kind = "table" /\ x.table = NoTable /\ x.name = t
    BY TableFields
  <2>2. x \in C
    BY <1>2, <2>1, TablesThere
  <2> HIDE DEF x
  <2>3. ASSUME NEW l \in 1 .. k - 1
        PROVE  ~Hit(s[l].object, x)
    <3>1. l \in 1 .. 15 /\ l # k
      OBVIOUS
    <3>2. DropsAt(l)
      BY <1>4, <3>1
    <3>3. CASE \E u \in TableNames : DropTables[l] = DropTable(u) /\ l = TableTurn(u)
      <4>1. PICK u \in TableNames : DropTables[l] = DropTable(u) /\ l = TableTurn(u)
        BY <3>3
      <4>2. s[l].object = <<"table", NoTable, u>> /\ u # t /\ u # NoTable
        BY <1>3, <1>5, <3>1, <4>1, DropKeys DEF s
      <4>3. QED
        BY <2>1, <4>2, HitBy
    <3>4. CASE \E u, n : DropTables[l] = DropIndex(n, u)
      <4>1. PICK u, n : DropTables[l] = DropIndex(n, u)
        BY <3>4
      <4>2. s[l].object = <<"index", u, n>>
        BY <4>1, DropKeys DEF s
      <4>3. QED
        BY <2>1, <4>2, HitBy
    <3>5. QED
      BY <3>2, <3>3, <3>4 DEF DropsAt
  <2>4. x \in S
    BY <2>2, <2>3, RestIs
  <2>5. ASSUME NEW o \in S, t \in o.needs
        PROVE  Hit(<<"table", NoTable, t>>, o)
    <3>1. o \in C /\ \A l \in 1 .. k - 1 : s[l].op = "drop" => ~Hit(s[l].object, o)
      BY RestIs
    <3>2. o.table \in TableNames /\ (o.table = t \/ TableTurn(o.table) < TableTurn(t))
      BY <2>5, <3>1, NeedsTable
    <3>3. CASE o.table = t
      BY <3>3, HitBy
    <3>4. CASE TableTurn(o.table) < TableTurn(t)
      <4> DEFINE l == TableTurn(o.table)
      <4>1. l \in 1 .. 15 /\ s[l] = DropTable(o.table)
        BY <3>2, DropTablesOrdered DEF s
      <4>2. s[l].op = "drop" /\ s[l].object = <<"table", NoTable, o.table>>
        BY <4>1, DropKeys
      <4>3. l \in 1 .. k - 1
        <5>1. l < k
          BY <1>5, <3>4
        <5> HIDE DEF l
        <5>2. QED
          BY <4>1, <5>1
      <4>4. Hit(<<"table", NoTable, o.table>>, o)
        BY HitBy
      <4> HIDE DEF l
      <4>5. QED
        BY <3>1, <4>2, <4>3, <4>4
    <3>5. QED
      BY <3>2, <3>3, <3>4
  <2> HIDE DEF S
  <2>6. Droppable(<<"table", NoTable, t>>, S)
    BY <1>3, <2>1, <2>4, <2>5, DropsFree
  <2>7. s[k].object = <<"table", NoTable, t>>
    BY <1>5, DropKeys
  <2>8. QED
    BY <2>6, <2>7 DEF S
<1>6. ASSUME NEW k \in 1 .. 15, NEW t \in TableNames, NEW n, s[k] = DropIndex(n, t),
             k = IndexTurn(n), k < TableTurn(t), Index(t, n, {}) \in Tabled
      PROVE  Droppable(s[k].object, Rest(C, Dropped(Passing(s, k))))
  <2> DEFINE S == Rest(C, Dropped(Passing(s, k)))
             x == Index(t, n, {})
  <2>1. x.kind = "index" /\ x.table = t /\ x.name = n
    <3>1. PartOf(t, x, n, {}) /\ x.kind = "index"
      BY IndexFields
    <3> HIDE DEF x
    <3>2. QED
      BY <3>1 DEF PartOf
  <2>2. x \in C
    BY <1>2, <1>6, <2>1
  <2> HIDE DEF x
  <2>3. ASSUME NEW l \in 1 .. k - 1
        PROVE  ~Hit(s[l].object, x)
    <3>1. l \in 1 .. 15 /\ l < k
      OBVIOUS
    <3>2. DropsAt(l)
      BY <1>4, <3>1
    <3>3. CASE \E u \in TableNames : DropTables[l] = DropTable(u) /\ l = TableTurn(u)
      <4>1. PICK u \in TableNames : DropTables[l] = DropTable(u) /\ l = TableTurn(u)
        BY <3>3
      <4>2. u # t
        <5>1. TableTurn(t) \in 1 .. 15
          BY DropTablesOrdered
        <5>2. QED
          BY <1>6, <3>1, <4>1, <5>1
      <4>3. s[l].object = <<"table", NoTable, u>>
        BY <4>1, DropKeys DEF s
      <4>4. QED
        BY <2>1, <4>2, <4>3, HitBy
    <3>4. CASE \E u, i : DropTables[l] = DropIndex(i, u) /\ l = IndexTurn(i)
      <4>1. PICK u, i : DropTables[l] = DropIndex(i, u) /\ l = IndexTurn(i)
        BY <3>4
      <4>2. i # n
        BY <1>6, <3>1, <4>1
      <4>3. s[l].object = <<"index", u, i>>
        BY <4>1, DropKeys DEF s
      <4>4. QED
        BY <2>1, <4>2, <4>3, HitBy
    <3>5. QED
      BY <3>2, <3>3, <3>4 DEF DropsAt
  <2>4. x \in S
    BY <2>2, <2>3, RestIs
  <2> HIDE DEF S
  <2>5. Droppable(<<"index", t, n>>, S)
    BY <1>3, <2>1, <2>4, DropsPart
  <2>6. s[k].object = <<"index", t, n>>
    BY <1>6, DropKeys
  <2>7. QED
    BY <2>5, <2>6 DEF S
<1>7. ASSUME NEW k \in 1 .. 15
      PROVE  Droppable(s[k].object, Rest(C, Dropped(Passing(s, k))))
  <2>1. DropsAt(k)
    BY <1>4
  <2>2. QED
    BY <1>5, <1>6, <2>1 DEF DropsAt, s
<1>8. QED
  BY <1>1, <1>7 DEF Clears, s

\* Where no table is left, the DROPs of the enum types succeed.
LEMMA DropEnumsClear ==
  ASSUME NEW C \in SUBSET Object, EnumTypes \subseteq C, \A o \in C : o.table = NoTable
  PROVE  Clears(DropEnums, C)
<1> DEFINE s == DropEnums
<1>1. Len(s) = 11 /\ \A k \in 1 .. 11 : s[k] = Drop("type", NoTable, ENUMS[12 - k])
  BY EnumsListed DEF DropEnums
<1> HIDE DEF s
<1>2. ASSUME NEW k \in 1 .. 11
      PROVE  Droppable(s[k].object, Rest(C, Dropped(Passing(s, k))))
  <2> DEFINE S == Rest(C, Dropped(Passing(s, k)))
             n == ENUMS[12 - k]
             x == Type(n)
  <2>1. 12 - k \in 1 .. 11 /\ n \in EnumNames
    <3>1. 12 - k \in 1 .. 11
      OBVIOUS
    <3>2. \A i \in 1 .. 11 : ENUMS[i] \in EnumNames
      BY EnumsListed, ListsMember
    <3>3. QED
      BY <3>1, <3>2
  <2>2. x \in C /\ x.kind = "type" /\ x.table = NoTable /\ x.name = n
    BY <2>1, TypeFields DEF EnumTypes
  <2> HIDE DEF x
  <2>3. ASSUME NEW l \in 1 .. k - 1
        PROVE  ~Hit(s[l].object, x)
    <3>1. l \in 1 .. 11 /\ 12 - l \in 1 .. 11 /\ 12 - l # 12 - k
      OBVIOUS
    <3>2. ENUMS[12 - l] # n
      BY <2>1, <3>1, EnumsDiffer
    <3>3. s[l].object = <<"type", NoTable, ENUMS[12 - l]>>
      BY <1>1, <3>1, DropFields
    <3> HIDE DEF n
    <3>4. QED
      BY <2>2, <3>2, <3>3, HitBy
  <2>4. x \in S
    BY <2>2, <2>3, RestIs
  <2>5. \A o \in S : o.needs = {}
    BY RestIs, FreeNeedsNothing
  <2>6. s[k].object = <<"type", NoTable, n>>
    BY <1>1, DropFields
  <2>7. n # NoTable
    BY <2>1 DEF EnumNames, NoTable
  <2> HIDE DEF S, n
  <2>8. Droppable(<<"type", NoTable, n>>, S)
    BY <2>2, <2>4, <2>5, <2>7, DropsFree
  <2>9. QED
    BY <2>6, <2>8 DEF S
<1>3. QED
  BY <1>1, <1>2 DEF Clears, s

\* A script and its stamp.
LEMMA ClearsThenStamp ==
  ASSUME NEW s, NEW C, Lists(s, Statements(s)), Clears(s, C), NEW i, NEW j
  PROVE  Clears(s \o <<Stamp(i, j)>>, C)
<1> DEFINE t == <<Stamp(i, j)>>
<1>1. Lists(t, Statements(t))
  BY StampsOne DEF Removes
<1>2. \A D : Clears(t, D)
  BY ClearsStamp
<1> HIDE DEF t
<1>3. Clears(s \o t, C)
  BY <1>1, <1>2, ClearsConcat
<1>4. QED
  BY <1>3 DEF t

\* The downgrade of 0001.
LEMMA Script0001Clears ==
  ASSUME NEW C \in SUBSET Object, Parts0001 \ Unmigrated \subseteq C
  PROVE  Clears(Script(1, 0), C)
<1> DEFINE D == Dropped(Statements(DropTables))
           R == Rest(C, D)
<1>1. Clears(DropTables, C)
  BY DropTablesClear
<1>2. \A t \in TableNames : <<"table", NoTable, t>> \in D
  <2> TAKE t \in TableNames
  <2>1. TableTurn(t) \in 1 .. Len(DropTables) /\ DropTables[TableTurn(t)] = DropTable(t)
    BY DropTablesAt, DropTablesOrdered
  <2>2. DropTable(t) \in Statements(DropTables)
    BY <2>1 DEF Statements
  <2>3. QED
    BY <2>2, DropKeys DEF Dropped
<1>3. ASSUME NEW key \in D
      PROVE  \E t \in TableNames :
               key = <<"table", NoTable, t>> \/ \E n : key = <<"index", t, n>>
  <2>1. PICK y \in Statements(DropTables) : y.op = "drop" /\ key = y.object
    BY DEF Dropped
  <2>2. PICK k \in 1 .. 15 : y = DropTables[k]
    BY <2>1, DropTablesAt DEF Statements
  <2>3. DropsAt(k)
    BY DropTablesOrdered
  <2>4. QED
    BY <2>1, <2>2, <2>3, DropKeys DEF DropsAt
<1> HIDE DEF D
<1>4. R \in SUBSET Object /\ \A o \in R : o.table = NoTable
  <2>1. R \subseteq C
    BY DEF Rest
  <2>2. ASSUME NEW o \in R, o.table # NoTable
        PROVE  FALSE
    <3>1. o.table \in TableNames
      BY <2>1, <2>2, ObjectTable
    <3>2. ~Hit(<<"table", NoTable, o.table>>, o)
      BY <1>2, <3>1 DEF Rest
    <3>3. QED
      BY <3>2, HitBy
  <2>3. QED
    BY <2>1, <2>2
<1>5. EnumTypes \subseteq R
  <2> SUFFICES ASSUME NEW o \in EnumTypes
               PROVE  o \in R
    OBVIOUS
  <2>1. o.kind = "type" /\ o.table = NoTable
    BY TypeFields DEF EnumTypes
  <2>2. o \in C
    <3>1. \A x \in Unmigrated : x.kind = "foreign key"
      BY ForeignKeyFields DEF Unmigrated
    <3>2. QED
      BY <2>1, <3>1 DEF Parts0001
  <2>3. NoTable \notin TableNames
    BY DEF TableNames, NoTable
  <2>4. \A key \in D : ~Hit(key, o)
    BY <1>3, <2>1, <2>3, HitBy
  <2>5. QED
    BY <2>2, <2>4 DEF Rest
<1>6. Clears(DropEnums, R)
  BY <1>4, <1>5, DropEnumsClear
<1> HIDE DEF R
<1>7. Lists(DropEnums, Statements(DropEnums)) /\ Lists(DropTables, Statements(DropTables))
  BY DropEnumsRemoves, DropTablesListed DEF Removes
<1>8. Clears(DropTables \o DropEnums, C)
  BY <1>1, <1>6, <1>7, ClearsConcat DEF R, D
<1>9. Clears(Downgrade0001, C) /\ Lists(Downgrade0001, Statements(Downgrade0001))
  BY <1>8, DropTablesListed, Downgrade0001Removes DEF Removes
<1>10. Script(1, 0) = Downgrade0001 \o <<Stamp(1, 0)>>
  BY DEF Script
<1>11. QED
  BY <1>9, <1>10, ClearsThenStamp

\* The DROPs of 0002 that look for nothing.
DropPublication ==
  <<DropIndex("ix_assets_public_lagos", "assets"),
    Drop("constraint", "assets", "ck_assets_minimum_trust_tier_valid"),
    DropColumn("assets", "review_reason"),
    DropColumn("assets", "reviewed_at"),
    DropColumn("assets", "review_actor_id"),
    DropColumn("assets", "minimum_trust_tier"),
    DropColumn("assets", "listing_status")>>

DroppedColumns ==
  {"review_reason", "reviewed_at", "review_actor_id", "minimum_trust_tier", "listing_status"}

\* The index first, the constraint after it, and then the columns, each once.
LEMMA DropPublicationAt ==
  /\ Len(DropPublication) = 7
  /\ DropPublication[1].object = <<"index", "assets", "ix_assets_public_lagos">>
  /\ DropPublication[2].object = <<"constraint", "assets", "ck_assets_minimum_trust_tier_valid">>
  /\ \A k \in 3 .. 7 :
       \E c \in DroppedColumns :
         /\ DropPublication[k].object = <<"column", "assets", c>>
         /\ \A l \in 3 .. 7 : DropPublication[l].object = <<"column", "assets", c>> => l = k
  /\ DropPublication[7].op = "drop"
  /\ DropPublication[7].object = <<"column", "assets", "listing_status">>
<1> DEFINE s == DropPublication
           Key0002(c) == <<"column", "assets", c>>
           Turn(c) == CASE c = "review_reason" -> 3 [] c = "reviewed_at" -> 4
                        [] c = "review_actor_id" -> 5 [] c = "minimum_trust_tier" -> 6
                        [] c = "listing_status" -> 7
<1>1. Len(s) = 7
  BY DEF DropPublication
<1>2. /\ s[1].object = <<"index", "assets", "ix_assets_public_lagos">>
      /\ s[2].object = <<"constraint", "assets", "ck_assets_minimum_trust_tier_valid">>
  BY DropFields DEF DropPublication, DropIndex
<1>3. /\ s[3].object = Key0002("review_reason") /\ s[4].object = Key0002("reviewed_at")
      /\ s[5].object = Key0002("review_actor_id") /\ s[6].object = Key0002("minimum_trust_tier")
      /\ s[7].object = Key0002("listing_status") /\ s[7].op = "drop"
  BY DropFields DEF DropPublication, DropColumn
<1>4. \A c, d : Key0002(c) = Key0002(d) => c = d
  OBVIOUS
<1>5. /\ Turn("review_reason") = 3 /\ Turn("reviewed_at") = 4 /\ Turn("review_actor_id") = 5
      /\ Turn("minimum_trust_tier") = 6 /\ Turn("listing_status") = 7
  OBVIOUS
<1>6. {"review_reason", "reviewed_at", "review_actor_id", "minimum_trust_tier",
       "listing_status"} \subseteq DroppedColumns
  BY DEF DroppedColumns
<1> HIDE DEF s, Key0002, Turn
<1>7. \A k \in 3 .. 7 : \E c \in DroppedColumns : s[k].object = Key0002(c) /\ Turn(c) = k
  <2>1. \A k \in 3 .. 7 : k = 3 \/ k = 4 \/ k = 5 \/ k = 6 \/ k = 7
    OBVIOUS
  <2>2. QED
    BY <1>3, <1>5, <1>6, <2>1
<1>8. ASSUME NEW k \in 3 .. 7
      PROVE  \E c \in DroppedColumns : /\ s[k].object = Key0002(c)
                                       /\ \A l \in 3 .. 7 : s[l].object = Key0002(c) => l = k
  <2>1. PICK c \in DroppedColumns : s[k].object = Key0002(c) /\ Turn(c) = k
    BY <1>7
  <2>2. \A l \in 3 .. 7 : s[l].object = Key0002(c) => l = k
    BY <1>4, <1>7, <2>1
  <2>3. QED
    BY <2>1, <2>2
<1>9. QED
  BY <1>1, <1>2, <1>3, <1>8 DEF s, Key0002

\* What 0002 drops, and then its type if it is there.
LEMMA DropPublicationListed ==
  /\ Lists(DropPublication, Statements(DropPublication))
  /\ Downgrade0002 = DropPublication \o DropPresent(ListingType)
BY ListsTuple, StatementsListed DEF DropPublication, Downgrade0002, ListingType

\* The columns that 0002 drops are the ones it made.
LEMMA ColumnsThere ==
  \A c \in DroppedColumns :
    \E o \in Publication : o.kind = "column" /\ o.table = "assets" /\ o.name = c /\ o.reads = {}
<1>1. \A c, types : LET o == Column("assets", c, types)
                    IN o.kind = "column" /\ o.table = "assets" /\ o.name = c /\ o.reads = {}
  BY DEF Column, Part
<1>2. Column("assets", "listing_status", {"listingstatus"}) \in Publication
  BY DEF Publication
<1>3. \A c \in {"minimum_trust_tier", "review_actor_id", "reviewed_at", "review_reason"} :
        Column("assets", c, {}) \in Publication
  BY DEF Publication
<1>4. QED
  BY <1>1, <1>2, <1>3 DEF DroppedColumns

\* Where the publication is, its index and its constraint go before the columns they
\* read, and every DROP finds what it names.
LEMMA DropPublicationClears ==
  ASSUME NEW C \in SUBSET Object, Publication \subseteq C
  PROVE  Clears(DropPublication, C)
<1> DEFINE s == DropPublication
<1>1. "assets" # NoTable
  BY DEF NoTable
<1>2. /\ PublicLagos.kind = "index" /\ PublicLagos.table = "assets"
      /\ PublicLagos.name = "ix_assets_public_lagos"
      /\ TrustTierValid.kind = "constraint" /\ TrustTierValid.table = "assets"
      /\ TrustTierValid.name = "ck_assets_minimum_trust_tier_valid"
      /\ PublicLagos \in C /\ TrustTierValid \in C
  BY DEF PublicLagos, TrustTierValid, Index, Constraint, Part, Publication
<1> DEFINE S(k) == Rest(C, Dropped(Passing(s, k)))
<1> HIDE DEF s
<1>3. Droppable(s[1].object, S(1))
  <2>1. PublicLagos \in S(1)
    <3>1. \A l \in 1 .. 1 - 1 : FALSE
      OBVIOUS
    <3>2. QED
      BY <1>2, <3>1, RestIs
  <2> DEFINE T == S(1)
  <2> HIDE DEF T
  <2>2. Droppable(<<"index", "assets", "ix_assets_public_lagos">>, T)
    BY <1>1, <1>2, <2>1, DropsPart DEF T
  <2>3. s[1].object = <<"index", "assets", "ix_assets_public_lagos">>
    BY DropPublicationAt DEF s
  <2>4. QED
    BY <2>2, <2>3 DEF T
<1>4. Droppable(s[2].object, S(2))
  <2>1. TrustTierValid \in S(2)
    <3>1. \A l \in 1 .. 2 - 1 : l = 1
      OBVIOUS
    <3>2. ~Hit(s[1].object, TrustTierValid)
      BY <1>2, DropPublicationAt, HitBy DEF s
    <3>3. QED
      BY <1>2, <3>1, <3>2, RestIs
  <2> DEFINE T == S(2)
  <2> HIDE DEF T
  <2>2. Droppable(<<"constraint", "assets", "ck_assets_minimum_trust_tier_valid">>, T)
    BY <1>1, <1>2, <2>1, DropsPart DEF T
  <2>3. s[2].object = <<"constraint", "assets", "ck_assets_minimum_trust_tier_valid">>
    BY DropPublicationAt DEF s
  <2>4. QED
    BY <2>2, <2>3 DEF T
<1>5. ASSUME NEW k \in 3 .. 7
      PROVE  Droppable(s[k].object, S(k))
  <2>1. PICK c \in DroppedColumns :
          /\ s[k].object = <<"column", "assets", c>>
          /\ \A l \in 3 .. 7 : s[l].object = <<"column", "assets", c>> => l = k
    BY DropPublicationAt DEF s
  <2>2. PICK x \in C : x.kind = "column" /\ x.table = "assets" /\ x.name = c /\ x.reads = {}
    BY ColumnsThere
  <2>3. ASSUME NEW l \in 1 .. k - 1
        PROVE  ~Hit(s[l].object, x)
    <3>1. l = 1 \/ l = 2 \/ (l \in 3 .. 7 /\ l # k)
      OBVIOUS
    <3>2. CASE l = 1
      BY <2>2, <3>2, DropPublicationAt, HitBy DEF s
    <3>3. CASE l = 2
      BY <2>2, <3>3, DropPublicationAt, HitBy DEF s
    <3>4. CASE l \in 3 .. 7 /\ l # k
      <4>1. PICK d : s[l].object = <<"column", "assets", d>>
        BY <3>4, DropPublicationAt DEF s
      <4>2. d # c
        BY <2>1, <3>4, <4>1
      <4>3. QED
        BY <2>2, <4>1, <4>2, HitBy
    <3>5. QED
      BY <3>1, <3>2, <3>3, <3>4
  <2>4. x \in S(k)
    BY <2>3, RestIs
  <2> HIDE DEF S
  <2>5. QED
    BY <1>1, <2>1, <2>2, <2>4, DropsPart
<1>6. \A k \in 1 .. Len(s) : Droppable(s[k].object, S(k))
  <2>1. \A k \in 1 .. Len(s) : k = 1 \/ k = 2 \/ k \in 3 .. 7
    BY DropPublicationAt DEF s
  <2> HIDE DEF S
  <2>2. QED
    BY <1>3, <1>4, <1>5, <2>1
<1>7. QED
  BY <1>6 DEF Clears, s

\* Where no publication state is left, its type can go.
LEMMA DropTypeClears ==
  ASSUME NEW C \in SUBSET Object, ListingType \in C, ListingColumn \notin C
  PROVE  Clears(DropPresent(ListingType), C)
<1> DEFINE s == DropPresent(ListingType)
           look == [op |-> "skip if absent", object |-> ListingType]
<1>1. ListingType.kind = "type" /\ ListingType.table = NoTable /\ ListingType.name = "listingstatus"
  BY TypeFields DEF ListingType
<1>2. Len(s) = 2 /\ s[1] = look /\ s[2] = Drop("type", NoTable, "listingstatus")
  BY <1>1 DEF DropPresent
<1>3. s[1].op = "skip if absent" /\ s[2].object = <<"type", NoTable, "listingstatus">>
  <2>1. look.op = "skip if absent"
    OBVIOUS
  <2> HIDE DEF s, look
  <2>2. s[1].op = "skip if absent"
    BY <1>2, <2>1
  <2>3. s[2].object = <<"type", NoTable, "listingstatus">>
    BY <1>2, DropFields
  <2>4. QED
    BY <2>2, <2>3
<1> HIDE DEF s, look
<1>4. Droppable(s[2].object, Rest(C, Dropped(Passing(s, 2))))
  <2> DEFINE S == Rest(C, Dropped(Passing(s, 2)))
  <2>1. \A l \in 1 .. 2 - 1 : l = 1
    OBVIOUS
  <2>2. ListingType \in S
    BY <1>3, <2>1, RestIs
  <2>3. \A o \in S : "listingstatus" \notin o.needs
    BY RestIs, NeedsListingType
  <2>4. "listingstatus" # NoTable
    BY DEF NoTable
  <2> HIDE DEF S
  <2>5. Droppable(<<"type", NoTable, "listingstatus">>, S)
    BY <1>1, <2>2, <2>3, <2>4, DropsFree
  <2>6. QED
    BY <1>3, <2>5 DEF S
<1>5. \A k \in 1 .. Len(s) : k = 1 \/ k = 2
  BY <1>2
<1>6. QED
  BY <1>3, <1>4, <1>5 DEF Clears, s

\* The downgrade of 0002.
LEMMA Script0002Clears ==
  ASSUME NEW C \in SUBSET Object, PublicationObjects \subseteq C
  PROVE  Clears(Script(2, 1), C)
<1> DEFINE D == Dropped(Statements(DropPublication))
           R == Rest(C, D)
<1>1. Clears(DropPublication, C)
  BY DropPublicationClears DEF PublicationObjects
<1>2. <<"column", "assets", "listing_status">> \in D
  <2>1. DropPublication[7] \in Statements(DropPublication)
    BY DropPublicationAt DEF Statements
  <2>2. QED
    BY <2>1, DropPublicationAt DEF Dropped
<1>3. ASSUME NEW key \in D
      PROVE  \E kind, n : key = <<kind, "assets", n>> /\ kind # "table"
  <2>1. PICK k \in 1 .. 7 : key = DropPublication[k].object
    BY DropPublicationAt DEF Dropped, Statements
  <2>2. k = 1 \/ k = 2 \/ k \in 3 .. 7
    OBVIOUS
  <2>3. QED
    BY <2>1, <2>2, DropPublicationAt
<1> HIDE DEF D
<1>4. ListingColumn \notin R
  <2>1. ListingColumn.kind = "column" /\ ListingColumn.table = "assets"
        /\ ListingColumn.name = "listing_status"
    BY DEF ListingColumn, Column, Part
  <2>2. Hit(<<"column", "assets", "listing_status">>, ListingColumn)
    BY <2>1, HitBy
  <2>3. QED
    BY <1>2, <2>2 DEF Rest
<1>5. ListingType \in R
  <2>1. ListingType.table = NoTable /\ NoTable # "assets"
    BY TypeFields DEF ListingType, NoTable
  <2>2. \A key \in D : ~Hit(key, ListingType)
    BY <1>3, <2>1, HitBy
  <2>3. ListingType \in C
    BY DEF PublicationObjects
  <2>4. QED
    BY <2>2, <2>3 DEF Rest
<1>6. R \in SUBSET Object
  BY DEF Rest
<1>7. Clears(DropPresent(ListingType), R)
  BY <1>4, <1>5, <1>6, DropTypeClears
<1> HIDE DEF R
<1>8. /\ Lists(DropPresent(ListingType), Statements(DropPresent(ListingType)))
      /\ Lists(DropPublication, Statements(DropPublication))
  BY RemovesPresent, DropPublicationListed DEF Removes
<1>9. Clears(DropPublication \o DropPresent(ListingType), C)
  BY <1>1, <1>7, <1>8, ClearsConcat DEF R, D
<1>10. Clears(Downgrade0002, C) /\ Lists(Downgrade0002, Statements(Downgrade0002))
  BY <1>9, DropPublicationListed, Downgrade0002Removes DEF Removes
<1>11. Script(2, 1) = Downgrade0002 \o <<Stamp(2, 1)>>
  BY DEF Script
<1>12. QED
  BY <1>10, <1>11, ClearsThenStamp

\* Every downgrade.
LEMMA PlanClears ==
  ASSUME NEW i \in Revision, NEW j \in Revision, i > j, NEW C \in SUBSET Object,
         C \ Outside = Declared(i) \ Unmigrated
  PROVE  Clears(Plan[i][j], C)
<1>1. /\ Lists(Script(1, 0), Statements(Script(1, 0)))
      /\ Lists(Script(2, 1), Statements(Script(2, 1)))
      /\ Dropped(Statements(Script(2, 1))) = Keys0002
  BY ScriptsDown DEF Removes
<1>2. /\ Plan[1][0] = Script(1, 0)
      /\ Plan[2][1] = Script(2, 1)
      /\ Plan[2][0] = Script(2, 1) \o Script(1, 0)
  <2>1. Lists(Script(2, 1) \o Script(1, 0),
              Statements(Script(2, 1)) \cup Statements(Script(1, 0)))
    BY <1>1, ListsConcat
  <2>2. QED
    BY <1>1, <2>1, NothingBefore, Plans
<1>3. \/ i = 1 /\ j = 0
      \/ i = 2 /\ j = 1
      \/ i = 2 /\ j = 0
  BY DEF Revision
<1>4. CASE i = 1
  <2>1. Parts0001 \ Unmigrated \subseteq C
    BY <1>4, MetadataParts DEF Parts0001
  <2>2. QED
    BY <1>2, <1>3, <1>4, <2>1, Script0001Clears
<1>5. CASE i = 2
  <2>1. PublicationObjects \subseteq C /\ Parts0001 \ Unmigrated \subseteq C
    <3>1. Unmigrated \cap PublicationObjects = {}
      BY MetadataParts, PublicationThere
    <3>2. QED
      BY <1>5, <3>1, MetadataParts DEF Parts0001
  <2>2. Clears(Script(2, 1), C)
    BY <2>1, Script0002Clears
  <2> DEFINE R == Rest(C, Keys0002)
  <2>3. R \in SUBSET Object /\ Parts0001 \ Unmigrated \subseteq R
    <3>1. \A o \in Parts0001 : \A key \in Keys0002 : o \in Object => ~Hit(key, o)
      BY Keys0002Hit, MetadataParts DEF Parts0001
    <3>2. QED
      BY <2>1, <3>1 DEF Rest
  <2>4. Clears(Script(1, 0), R)
    BY <2>3, Script0001Clears
  <2> HIDE DEF R
  <2>5. Clears(Script(2, 1) \o Script(1, 0), C)
    BY <1>1, <2>2, <2>4, ClearsConcat DEF R
  <2>6. QED
    BY <1>2, <1>3, <1>5, <2>2, <2>5
<1>6. QED
  BY <1>3, <1>4, <1>5

-----------------------------------------------------------------------------
(* A command on its own *)

\* At position p of its plan a command sees all that the plan has made, and has removed
\* nothing but what the plan has dropped; after a look that skips nothing, the object is
\* there or not as the next statement wants it.
OnTrack(i, j, p, W, G) ==
  /\ i <= j => Created(Passed(i, j, p)) \subseteq W
  /\ i > j => \A o \in G : \E key \in Dropped(Passed(i, j, p)) : Hit(key, o)
  /\ \A k \in 1 .. Len(Plan[i][j]) :
       p = k + 1 /\ Plan[i][j][k].op \in Skip =>
         (Plan[i][j][k].object \in W <=> Plan[i][j][k].op = "skip if absent")

AloneInv(m) ==
  alone[m] =>
    /\ Running(m)
    /\ \A t \in Migrator \ {m} : ~Running(t)
    /\ version = {job[m][1]} \ {0}
    /\ OnTrack(job[m][1], job[m][2], pc[m], View(m), gone[m])

AInv == IInv /\ \A m \in Migrator : AloneInv(m)

\* What an upgrade has made, and makes next, is in its plan.
LEMMA CreatedInPlan ==
  ASSUME NEW i \in Revision, NEW j \in Revision, i <= j, NEW p \in 1 .. Len(Plan[i][j])
  PROVE  /\ Created(Passed(i, j, p)) \subseteq Makes(i, j)
         /\ Plan[i][j][p].op = "create" => Plan[i][j][p].objects \subseteq Makes(i, j)
<1>1. Created(Statements(Plan[i][j])) = Makes(i, j)
  BY PlanUp DEF Builds
<1>2. Passed(i, j, p) \subseteq Statements(Plan[i][j]) /\ Plan[i][j][p] \in Statements(Plan[i][j])
  BY PassedMore
<1>3. QED
  BY <1>1, <1>2 DEF Created

\* The statements a command has passed.
LEMMA PassedIsPassing == \A i, j, p : Passed(i, j, p) = Passing(Plan[i][j], p)
BY DEF Passed, Passing

\* A CREATE of a command that is on track succeeds.
LEMMA CreatesInTurn ==
  ASSUME NEW i \in Revision, NEW j \in Revision, i <= j, NEW p \in 1 .. Len(Plan[i][j]),
         NEW C \in SUBSET Object, C \ Outside = Declared(i) \ Unmigrated,
         NEW M, M \subseteq Created(Passed(i, j, p)), NEW W, W = C \cup M,
         OnTrack(i, j, p, W, {}), NEW S, S = Plan[i][j][p].objects, Plan[i][j][p].op = "create"
  PROVE  Creatable(S, W)
<1> DEFINE P == Passed(i, j, p)
           D == Declared(i) \ Unmigrated
<1>1. /\ Needs(S) \subseteq Names(D) \cup Names(Created(P)) \cup Names(S)
      /\ S \cap Created(P) = {}
      /\ S \cap Skippable # {} => /\ p > 1 /\ Plan[i][j][p - 1].op = "skip if present"
                                  /\ S = {Plan[i][j][p - 1].object}
  <2>1. P = Passing(Plan[i][j], p)
    BY PassedIsPassing
  <2>2. Works(Plan[i][j], Names(D))
    BY PlanWorks
  <2>3. QED
    BY <2>1, <2>2 DEF Works
<1>2. S \subseteq Makes(i, j) /\ Created(P) \subseteq Makes(i, j)
  BY CreatedInPlan
<1>3. Makes(i, j) \subseteq Object /\ Makes(i, j) \cap Declared(i) = {}
  BY MakesDeclared, MakesNew
<1>4. W \subseteq Object /\ S \subseteq Object /\ Created(P) \subseteq W
  BY <1>2, <1>3 DEF OnTrack
<1>5. S \cap Skippable # {} => S \cap W = {}
  <2>1. SUFFICES ASSUME S \cap Skippable # {}
                 PROVE  S \cap W = {}
    OBVIOUS
  <2>2. p - 1 \in 1 .. Len(Plan[i][j]) /\ p = (p - 1) + 1
    <3>1. Len(Plan[i][j]) \in Nat /\ p > 1
      BY <1>1, <2>1, PlanListed
    <3>2. QED
      BY <3>1
  <2>3. Plan[i][j][p - 1].op = "skip if present" /\ S = {Plan[i][j][p - 1].object}
    BY <1>1, <2>1
  <2>4. Plan[i][j][p - 1].object \notin W
    BY <2>2, <2>3 DEF OnTrack, Skip
  <2>5. QED
    BY <2>3, <2>4
<1>6. S \cap W = {}
  <2>1. SUFFICES ASSUME NEW o \in S, o \in W
                 PROVE  FALSE
    OBVIOUS
  <2>2. o \in C
    BY <1>1, <2>1
  <2>3. o \notin Skippable
    BY <1>5, <2>1
  <2>4. o \notin Outside
    BY <2>3 DEF Skippable
  <2>5. o \in Declared(i)
    BY <2>2, <2>4
  <2>6. QED
    BY <1>2, <1>3, <2>5
<1>7. Keys(S) \cap Keys(W) = {}
  BY <1>4, <1>6, KeyInjective DEF Keys
<1>8. Names(D) \subseteq Names(W \cup S) /\ Names(Created(P)) \subseteq Names(W \cup S)
      /\ Names(S) \subseteq Names(W \cup S)
  <2>1. D \subseteq W \cup S /\ Created(P) \subseteq W \cup S
    BY <1>4
  <2> HIDE DEF D, P
  <2>2. QED
    BY <2>1 DEF Names
<1>9. Needs(S) \subseteq Names(W \cup S)
  BY <1>1, <1>8
<1>10. QED
  BY <1>7, <1>9 DEF Creatable, Needs

\* So does a DROP.
LEMMA DropsInTurn ==
  ASSUME NEW i \in Revision, NEW j \in Revision, i > j, NEW p \in 1 .. Len(Plan[i][j]),
         NEW C \in SUBSET Object, C \ Outside = Declared(i) \ Unmigrated,
         NEW M, NEW G, NEW H, GoesDown(i, j, p, M, G, H, C), G \subseteq C,
         NEW W, OnTrack(i, j, p, W, G), Plan[i][j][p].op = "drop"
  PROVE  Droppable(Plan[i][j][p].object, C \ G)
<1> DEFINE K == Dropped(Passed(i, j, p))
<1>1. C \ G = Rest(C, K)
  <2>1. \A key \in K : Victims(key, C \ G) = {}
    BY DEF GoesDown
  <2>2. \A key \in K : \A o \in C \ G : ~Hit(key, o)
    BY <2>1, VictimsHit
  <2>3. \A o \in G : \E key \in K : Hit(key, o)
    BY DEF OnTrack
  <2> HIDE DEF K
  <2>4. QED
    BY <2>2, <2>3 DEF Rest
<1>2. Passed(i, j, p) = Passing(Plan[i][j], p)
  BY PassedIsPassing
<1>3. Clears(Plan[i][j], C)
  BY PlanClears
<1>4. Droppable(Plan[i][j][p].object, Rest(C, Dropped(Passing(Plan[i][j], p))))
  BY <1>3 DEF Clears
<1>5. Rest(C, Dropped(Passing(Plan[i][j], p))) = C \ G
  BY <1>1, <1>2
<1>6. QED
  BY <1>4, <1>5

\* So does a stamp.
LEMMA StampsInTurn ==
  ASSUME NEW i \in Revision, NEW j \in Revision, NEW p \in 1 .. Len(Plan[i][j]),
         NEW s, s = Plan[i][j][p], s.op = "stamp",
         NEW z, NEW V, V = {i} \ {0}, Versions(i, j, p, z, V)
  PROVE  Stampable(s, Seen(z, V))
<1> DEFINE P == Passed(i, j, p)
           Q == Stamped(P)
<1>1. s \in Stamps(i, j) /\ Q \subseteq Stamps(i, j) /\ s \notin P
  <2>1. P \subseteq Statements(Plan[i][j]) /\ s \in Statements(Plan[i][j])
    BY PassedMore
  <2>2. Stamped(Statements(Plan[i][j])) = Stamps(i, j)
    BY PlanListed
  <2>3. P = Passing(Plan[i][j], p)
    BY PassedIsPassing
  <2>4. s \notin P
    BY <2>3, PlanOnce DEF Once
  <2>5. QED
    BY <2>1, <2>2, <2>4 DEF Stamped
<1>2. s \notin Q
  BY <1>1 DEF Stamped
<1>3. i # j
  BY <1>1 DEF Stamps
<1>4. Q = {} => z = NoStamp
  BY DEF Versions
<1>5. CASE OneStep(i, j)
  <2>1. s = Stamp(i, j) /\ Q = {}
    BY <1>1, <1>2, <1>3, <1>5, StampsFacts
  <2>2. Seen(z, V) = {i} \ {0}
    BY <1>4, <2>1 DEF Seen
  <2>3. s.from = i /\ s.to = j
    BY <2>1, StampFields
  <2>4. QED
    BY <1>3, <2>2, <2>3 DEF Stampable
<1>6. CASE ~OneStep(i, j)
  <2>1. /\ Stamps(i, j) = {Stamp(i, 1), Stamp(1, j)} /\ i # 1 /\ j # 1
        /\ First(Plan[i][j], Stamp(i, 1), Stamp(1, j))
    BY <1>3, <1>6, StampsFacts
  <2>2. CASE s = Stamp(i, 1)
    <3>1. Stamp(1, j) \notin P
      BY <2>1, <2>2 DEF First, Passed
    <3>2. Q = {}
      BY <1>1, <1>2, <2>1, <2>2, <3>1 DEF Stamped
    <3>3. Seen(z, V) = {i} \ {0}
      BY <1>4, <3>2 DEF Seen
    <3>4. s.from = i /\ s.to = 1
      BY <2>2, StampFields
    <3>5. QED
      BY <3>3, <3>4 DEF Stampable
  <2>3. CASE s = Stamp(1, j)
    <3>1. Stamp(i, 1) \in P
      BY <2>1, <2>3 DEF First, Passed
    <3>2. Stamp(i, 1) \in Q
      BY <3>1, StampFields DEF Stamped
    <3>3. \A x \in Q : x = Stamp(i, 1)
      BY <1>1, <1>2, <2>1, <2>3
    <3>4. \A x \in Q : x.to # j
      BY <2>1, <3>3, StampFields
    <3>5. z # NoStamp /\ z = {1}
      <4>1. z # NoStamp
        BY <3>2 DEF Versions
      <4>2. z = IF \E x \in Q : x.to = j THEN {j} \ {0} ELSE {1}
        BY <4>1 DEF Versions
      <4> HIDE DEF Q
      <4>3. QED
        BY <3>4, <4>1, <4>2
    <3>6. Seen(z, V) = {1}
      BY <3>5 DEF Seen
    <3>7. s.from = 1
      BY <2>3, StampFields
    <3>9. s.from # 0 /\ s.from \in Seen(z, V)
      <4> DEFINE w == Seen(z, V)
                 f == s.from
      <4>1. f = 1 /\ w = {1}
        BY <3>6, <3>7
      <4> HIDE DEF w, f
      <4>2. f # 0 /\ f \in w
        BY <4>1
      <4>3. QED
        BY <4>2 DEF w, f
    <3>8. QED
      BY <3>9 DEF Stampable
  <2>4. QED
    BY <1>1, <2>1, <2>2, <2>3
<1>7. QED
  BY <1>5, <1>6

\* So does the backfill.
LEMMA BackfillsInTurn ==
  ASSUME NEW i \in Revision, NEW j \in Revision, i <= j, NEW p \in 1 .. Len(Plan[i][j]),
         NEW C \in SUBSET Object, C \ Outside = Declared(i) \ Unmigrated,
         NEW M \in SUBSET Object, NEW W, W = C \cup M, OnTrack(i, j, p, W, {}),
         Plan[i][j][p].op = "backfill"
  PROVE  Table(Plan[i][j][p].table) \in W
<1> DEFINE P == Passed(i, j, p)
           D == Declared(i) \ Unmigrated
           n == Plan[i][j][p].table
<1>1. n \in TableNames /\ n \in Names(D) \cup Names(Created(P))
  <2>1. P = Passing(Plan[i][j], p)
    BY PassedIsPassing
  <2>2. Works(Plan[i][j], Names(D))
    BY PlanWorks
  <2>3. QED
    BY <2>1, <2>2 DEF Works
<1>2. D \subseteq W /\ Created(P) \subseteq W
  BY DEF OnTrack
<1> HIDE DEF P, D, n
<1>3. PICK o \in W : o.name = n /\ o.table = NoTable
  BY <1>1, <1>2 DEF Names
<1>4. o \in Object
  OBVIOUS
<1>5. o = Table(n)
  BY <1>1, <1>3, <1>4, ObjectTable
<1>6. QED
  BY <1>5 DEF n

\* The positions after a statement and after the one it skips.
LEMMA Positions ==
  \A n \in Nat : \A k, q \in 1 .. n : (q + 1 = k + 1 => k = q) /\ (q + 2 = k + 1 => k = q + 1)
OBVIOUS

\* What has been dropped stays dropped.
LEMMA PassedGrows ==
  ASSUME NEW i \in Revision, NEW j \in Revision, NEW p \in 1 .. Len(Plan[i][j])
  PROVE  /\ Dropped(Passed(i, j, p)) \subseteq Dropped(Passed(i, j, p + 1))
         /\ \A k \in 1 .. Len(Plan[i][j]) : p + 1 = k + 1 => k = p
         /\ \A k \in 1 .. Len(Plan[i][j]) : p + 2 = k + 1 => k = p + 1
<1>1. Passed(i, j, p + 1) = With(Passed(i, j, p), Plan[i][j][p])
  BY PassedMore
<1>2. Dropped(Passed(i, j, p)) \subseteq Dropped(Passed(i, j, p + 1))
  BY <1>1 DEF With, Dropped
<1>3. Len(Plan[i][j]) \in Nat
  BY PlanListed
<1>4. \A k \in 1 .. Len(Plan[i][j]) : p + 1 = k + 1 => k = p
  BY <1>3, Positions
<1>6. \A k \in 1 .. Len(Plan[i][j]) : p + 2 = k + 1 => k = p + 1
  BY <1>3, Positions
<1>7. QED
  BY <1>2, <1>4, <1>6

\* A command starts on track.
LEMMA TrackStarts ==
  ASSUME NEW i \in Revision, NEW j \in Revision, NEW W
  PROVE  OnTrack(i, j, 1, W, {})
<1>1. Created(Passed(i, j, 1)) = {}
  BY PassedEnds, Empty
<1>2. Len(Plan[i][j]) \in Nat
  BY PlanListed
<1>3. \A k \in 1 .. Len(Plan[i][j]) : 1 # k + 1
  BY <1>2
<1>4. QED
  BY <1>1, <1>3 DEF OnTrack

\* A statement that makes and removes nothing keeps it there.
LEMMA TrackPasses ==
  ASSUME NEW i \in Revision, NEW j \in Revision, NEW p \in 1 .. Len(Plan[i][j]),
         NEW W, NEW G, OnTrack(i, j, p, W, G), Plan[i][j][p].op \notin {"create", "drop"},
         Plan[i][j][p].op \in Skip
           => (Plan[i][j][p].object \in W <=> Plan[i][j][p].op = "skip if absent")
  PROVE  OnTrack(i, j, p + 1, W, G)
<1>1. Passed(i, j, p + 1) = With(Passed(i, j, p), Plan[i][j][p])
  BY PassedMore
<1>2. Created(Passed(i, j, p + 1)) = Created(Passed(i, j, p))
  BY <1>1, CreatedMore
<1>3. Dropped(Passed(i, j, p + 1)) = Dropped(Passed(i, j, p))
  BY <1>1, DroppedMore
<1>4. \A k \in 1 .. Len(Plan[i][j]) : p + 1 = k + 1 => k = p
  BY PassedGrows
<1>5. QED
  BY <1>2, <1>3, <1>4 DEF OnTrack

\* So does a look that skips the next statement.
LEMMA TrackSkips ==
  ASSUME NEW i \in Revision, NEW j \in Revision, NEW p \in 1 .. Len(Plan[i][j]),
         NEW W, NEW G, OnTrack(i, j, p, W, G), Plan[i][j][p].op \in Skip,
         Plan[i][j][p].object \in W <=> Plan[i][j][p].op = "skip if present"
  PROVE  OnTrack(i, j, p + 2, W, G)
<1> DEFINE x == Plan[i][j][p]
           y == Skipped(x)
           P == Passed(i, j, p)
<1>1. /\ p + 1 \in 1 .. Len(Plan[i][j]) /\ Plan[i][j][p + 1] = y
      /\ Passed(i, j, p + 2) = With(With(P, x), y)
      /\ i <= j => x.op = "skip if present"
      /\ i > j => x.op = "skip if absent"
  BY Skips
<1>2. x.op = "skip if present" => /\ y.op = "create" /\ y.objects = {x.object}
                                  /\ x.object \in W
  BY SkippedFields
<1>3. x.op # "create"
  BY DEF Skip
<1>4. ASSUME i <= j
      PROVE  Created(Passed(i, j, p + 2)) \subseteq W
  <2>1. Created(With(P, x)) = Created(P)
    BY <1>3, CreatedMore
  <2>2. x.op = "skip if present"
    BY <1>1, <1>4
  <2>3. Created(With(With(P, x), y)) = Created(P) \cup {x.object}
    BY <1>2, <2>1, <2>2, CreatedMore
  <2>4. Created(P) \subseteq W
    BY <1>4 DEF OnTrack
  <2>5. x.object \in W
    BY <1>2, <2>2
  <2>6. Passed(i, j, p + 2) = With(With(P, x), y)
    BY <1>1
  <2> HIDE DEF P, x, y
  <2>7. QED
    BY <2>3, <2>4, <2>5, <2>6
<1>5. Dropped(P) \subseteq Dropped(Passed(i, j, p + 2))
  <2>1. Passed(i, j, p + 2) = With(With(P, x), y)
    BY <1>1
  <2> HIDE DEF P, x, y
  <2>2. QED
    BY <2>1 DEF With, Dropped
<1>6. y.op \notin Skip
  BY DEF Skipped, Skip, Create
<1>7. \A k \in 1 .. Len(Plan[i][j]) : p + 2 = k + 1 => k = p + 1
  BY PassedGrows
<1>8. \A k \in 1 .. Len(Plan[i][j]) : p + 2 = k + 1 => Plan[i][j][k].op \notin Skip
  <2>1. Plan[i][j][p + 1] = y
    BY <1>1
  <2> HIDE DEF y
  <2>2. QED
    BY <1>6, <1>7, <2>1
<1>9. i > j => \A o \in G : \E key \in Dropped(Passed(i, j, p + 2)) : Hit(key, o)
  <2> HIDE DEF x, y
  <2>1. QED
    BY <1>5 DEF OnTrack
<1>10. QED
  BY <1>4, <1>8, <1>9 DEF OnTrack

\* So does a CREATE.
LEMMA TrackCreates ==
  ASSUME NEW i \in Revision, NEW j \in Revision, i <= j, NEW p \in 1 .. Len(Plan[i][j]),
         NEW W, NEW G, OnTrack(i, j, p, W, G), Plan[i][j][p].op = "create"
  PROVE  OnTrack(i, j, p + 1, W \cup Plan[i][j][p].objects, G)
<1> DEFINE S == Plan[i][j][p].objects
           V == W \cup S
<1>1. Passed(i, j, p + 1) = With(Passed(i, j, p), Plan[i][j][p])
  BY PassedMore
<1>2. Created(Passed(i, j, p + 1)) = Created(Passed(i, j, p)) \cup S
  BY <1>1, CreatedMore
<1>3. Created(Passed(i, j, p + 1)) \subseteq V
  BY <1>2 DEF OnTrack
<1>4. \A k \in 1 .. Len(Plan[i][j]) : p + 1 = k + 1 => Plan[i][j][k].op \notin Skip
  BY PassedGrows DEF Skip
<1>5. ~(i > j)
  BY DEF Revision
<1> HIDE DEF V
<1>6. OnTrack(i, j, p + 1, V, G)
  BY <1>3, <1>4, <1>5 DEF OnTrack
<1>7. QED
  BY <1>6 DEF V

\* So does a DROP.
LEMMA TrackDrops ==
  ASSUME NEW i \in Revision, NEW j \in Revision, i > j, NEW p \in 1 .. Len(Plan[i][j]),
         NEW W, NEW G, OnTrack(i, j, p, W, G), Plan[i][j][p].op = "drop",
         NEW X, \A o \in X : Hit(Plan[i][j][p].object, o), NEW V
  PROVE  OnTrack(i, j, p + 1, V, G \cup X)
<1> DEFINE key == Plan[i][j][p].object
           K == Dropped(Passed(i, j, p + 1))
<1>1. Passed(i, j, p + 1) = With(Passed(i, j, p), Plan[i][j][p])
  BY PassedMore
<1>2. key \in K
  BY <1>1 DEF With, Dropped
<1>3. Dropped(Passed(i, j, p)) \subseteq K
  BY PassedGrows
<1>4. \A k \in 1 .. Len(Plan[i][j]) : p + 1 = k + 1 => Plan[i][j][k].op \notin Skip
  BY PassedGrows DEF Skip
<1>5. ~(i <= j)
  BY DEF Revision
<1>6. \A o \in G : \E k \in Dropped(Passed(i, j, p)) : Hit(k, o)
  BY DEF OnTrack
<1> HIDE DEF K, key
<1>7. \A o \in G \cup X : \E k \in K : Hit(k, o)
  BY <1>2, <1>3, <1>6 DEF key
<1>8. QED
  BY <1>4, <1>5, <1>7 DEF OnTrack, K

-----------------------------------------------------------------------------
(* The invariant of a command on its own *)

\* What a step that stays in the command keeps.
LEMMA AloneStays ==
  ASSUME AInv, NEW m \in Migrator, Running(m), UNCHANGED <<version, job, alone>>, IInv',
         alone[m] => OnTrack(job[m][1], job[m][2], pc'[m], View(m)', gone'[m])
  PROVE  AInv'
<1>1. ASSUME NEW t \in Migrator, alone[t]
      PROVE  t = m
  BY <1>1 DEF AInv, AloneInv
<1>2. AloneInv(m)'
  BY DEF AInv, AloneInv, Running
<1>3. ASSUME NEW t \in Migrator \ {m}
      PROVE  AloneInv(t)'
  BY <1>1 DEF AloneInv
<1>4. QED
  BY <1>2, <1>3 DEF AInv

\* A command that ends, or fails, is alone no more.
LEMMA LeaveEnds ==
  ASSUME AInv, NEW m \in Migrator, Running(m), Leave(m), IInv'
  PROVE  AInv'
<1>1. ASSUME NEW t \in Migrator, alone[t]
      PROVE  t = m
  BY <1>1 DEF AInv, AloneInv
<1>2. alone \in [Migrator -> BOOLEAN]
  BY DEF AInv, IInv, TypeOK
<1>3. \A t \in Migrator : ~alone'[t]
  BY <1>1, <1>2 DEF Leave
<1>4. QED
  BY <1>3 DEF AInv, AloneInv

\* A command that starts alone starts on track; one that joins another is not alone.
LEMMA StartAlone ==
  ASSUME AInv, NEW m \in Migrator, Start(m)
  PROVE  AInv'
<1>0. IInv
  BY DEF AInv
<1>1. PICK i \in Revision, j \in Revision :
        version = {i} \ {0} /\ job' = [job EXCEPT ![m] = <<i, j>>]
  BY <1>0, StartReads
<1>2. /\ UNCHANGED <<catalog, version, pc, made, gone>>
      /\ alone' = [t \in Migrator |-> t = m /\ \A x \in Migrator : ~Running(x)]
      /\ ~Running(m)
  BY DEF Start, rows, transaction
<1>3. job'[m] = <<i, j>> /\ \A t \in Migrator \ {m} : job'[t] = job[t]
  BY <1>0, <1>1 DEF IInv, TypeOK
<1>4. <<i, j>> # NoJob
  BY SentinelAssumption
<1>5. pc[m] = 1 /\ gone[m] = {}
  BY <1>0, <1>2 DEF IInv, CommandInv, Idle
<1>6. OnTrack(i, j, 1, View(m)', {})
  BY TrackStarts
<1>7. ASSUME alone'[m]
      PROVE  \A t \in Migrator \ {m} : ~Running(t)'
  BY <1>2, <1>3, <1>7 DEF Running
<1>8. AloneInv(m)'
  <2>1. job'[m][1] = i /\ job'[m][2] = j
    BY <1>3
  <2>2. Running(m)'
    BY <1>3, <1>4 DEF Running
  <2>3. version' = {i} \ {0}
    BY <1>1, <1>2
  <2>4. pc'[m] = 1 /\ gone'[m] = {}
    BY <1>2, <1>5
  <2>5. OnTrack(job'[m][1], job'[m][2], pc'[m], View(m)', gone'[m])
    BY <1>6, <2>1, <2>4
  <2>6. QED
    BY <1>7, <2>1, <2>2, <2>3, <2>5 DEF AloneInv
<1>9. \A t \in Migrator \ {m} : AloneInv(t)'
  BY <1>2 DEF AloneInv
<1>10. IInv'
  BY <1>0, StartKeeps
<1>11. QED
  BY <1>8, <1>9, <1>10 DEF AInv

\* A look keeps a lone command on track.
LEMMA LookAlone ==
  ASSUME AInv, NEW m \in Migrator, Look(m)
  PROVE  AInv'
<1> DEFINE i == job[m][1]
           j == job[m][2]
           p == pc[m]
           s == Statement(m)
<1>0. IInv
  BY DEF AInv
<1>1. Running(m) /\ ~Finished(m) /\ s.op \in Skip
  BY DEF Look, Skip
<1>2. /\ i \in Revision /\ j \in Revision /\ p \in 1 .. Len(Plan[i][j]) /\ s = Plan[i][j][p]
  BY <1>0, <1>1, Position
<1>3. UNCHANGED <<catalog, version, job, alone, made, gone>>
  BY DEF Look, Advance
<1>4. pc'[m] = p + (IF s.object \in View(m) <=> s.op = "skip if present" THEN 2 ELSE 1)
  BY <1>0 DEF Look, Advance, IInv, TypeOK
<1>5. View(m)' = View(m) /\ gone'[m] = gone[m]
  BY <1>3 DEF View
<1>6. ASSUME alone[m]
      PROVE  OnTrack(i, j, pc'[m], View(m), gone[m])
  <2>1. OnTrack(i, j, p, View(m), gone[m])
    BY <1>6 DEF AInv, AloneInv
  <2> HIDE DEF i, j, p, s
  <2>2. CASE s.object \in View(m) <=> s.op = "skip if present"
    <3>1. OnTrack(i, j, p + 2, View(m), gone[m])
      BY <1>1, <1>2, <2>1, <2>2, TrackSkips
    <3>2. QED
      BY <1>4, <2>2, <3>1
  <2>3. CASE ~(s.object \in View(m) <=> s.op = "skip if present")
    <3>1. s.op \notin {"create", "drop"}
      BY <1>1 DEF Skip
    <3>2. s.object \in View(m) <=> s.op = "skip if absent"
      BY <1>1, <2>3 DEF Skip
    <3>3. OnTrack(i, j, p + 1, View(m), gone[m])
      BY <1>2, <2>1, <3>1, <3>2, TrackPasses
    <3>4. QED
      BY <1>4, <2>3, <3>3
  <2>4. QED
    BY <2>2, <2>3
<1>7. IInv'
  BY <1>0, LookKeeps
<1>8. QED
  BY <1>1, <1>3, <1>5, <1>6, <1>7, AloneStays

\* So does a CREATE, a DROP or the backfill.
LEMMA ExecuteAlone ==
  ASSUME AInv, NEW m \in Migrator, Execute(m)
  PROVE  AInv'
<1> DEFINE i == job[m][1]
           j == job[m][2]
           p == pc[m]
           s == Statement(m)
<1>0. IInv
  BY DEF AInv
<1>1. Running(m) /\ ~Finished(m) /\ Advance(m, 1) /\ s.op \in {"create", "drop", "backfill"}
  BY DEF Execute
<1>2. /\ i \in Revision /\ j \in Revision /\ p \in 1 .. Len(Plan[i][j]) /\ s = Plan[i][j][p]
      /\ Underway(i, j, p, made[m], gone[m], held[m], stamped[m], catalog, version)
      /\ made[m] \in SUBSET Object /\ gone[m] \in SUBSET Object
  BY <1>0, <1>1, Position
<1>3. UNCHANGED <<catalog, version, job, alone>> /\ pc'[m] = p + 1
  BY <1>0, <1>1 DEF Advance, IInv, TypeOK
<1>4. IInv'
  BY <1>0, <1>1, CreateKeeps, DropKeeps, BackfillKeeps
<1>5. ASSUME alone[m]
      PROVE  OnTrack(i, j, p + 1, View(m)', gone'[m])
  <2>1. OnTrack(i, j, p, View(m), gone[m])
    BY <1>5 DEF AInv, AloneInv
  <2>2. s.op \in {"create", "backfill"} => i <= j
    BY <1>0, <1>1, Direction
  <2>3. s.op = "drop" => i > j
    BY <1>0, <1>1, Direction
  <2>4. CASE s.op = "create"
    <3>1. made'[m] = made[m] \cup s.objects /\ gone'[m] = gone[m]
      BY <1>0, <2>4 DEF Execute, Written, IInv, TypeOK
    <3>2. View(m)' = View(m) \cup s.objects
      BY <1>3, <3>1 DEF View
    <3> HIDE DEF i, j, p, s
    <3>3. OnTrack(i, j, p + 1, View(m) \cup s.objects, gone[m])
      BY <1>2, <2>1, <2>2, <2>4, TrackCreates
    <3>4. QED
      BY <3>1, <3>2, <3>3
  <2>5. CASE s.op = "drop"
    <3> DEFINE X == Written(m) \cap catalog
    <3>1. gone'[m] = gone[m] \cup X
      BY <1>0, <2>5 DEF Execute, IInv, TypeOK
    <3>2. \A o \in X : Hit(s.object, o)
      <4>1. Written(m) = Victims(s.object, View(m))
        BY <2>5 DEF Written
      <4>2. QED
        BY <4>1, VictimsHit
    <3> HIDE DEF i, j, p, s, X
    <3>3. OnTrack(i, j, p + 1, View(m)', gone[m] \cup X)
      BY <1>2, <2>1, <2>3, <2>5, <3>2, TrackDrops
    <3>4. QED
      BY <3>1, <3>3
  <2>6. CASE s.op = "backfill"
    <3>1. made' = made /\ gone' = gone
      BY <2>6 DEF Execute
    <3>2. View(m)' = View(m)
      BY <1>3, <3>1 DEF View
    <3> HIDE DEF i, j, p, s
    <3>3. OnTrack(i, j, p + 1, View(m), gone[m])
      BY <1>2, <2>1, <2>6, TrackPasses DEF Skip
    <3>4. QED
      BY <3>1, <3>2, <3>3
  <2>7. QED
    BY <1>1, <2>4, <2>5, <2>6
<1>6. QED
  BY <1>1, <1>3, <1>4, <1>5, AloneStays

\* So does a stamp.
LEMMA StampAlone ==
  ASSUME AInv, NEW m \in Migrator, WriteVersion(m)
  PROVE  AInv'
<1> DEFINE i == job[m][1]
           j == job[m][2]
           p == pc[m]
           s == Statement(m)
<1>0. IInv
  BY DEF AInv
<1>1. Running(m) /\ ~Finished(m) /\ Advance(m, 1) /\ s.op = "stamp" /\ UNCHANGED <<made, gone>>
  BY DEF WriteVersion
<1>2. /\ i \in Revision /\ j \in Revision /\ p \in 1 .. Len(Plan[i][j]) /\ s = Plan[i][j][p]
  BY <1>0, <1>1, Position
<1>3. UNCHANGED <<catalog, version, job, alone>> /\ pc'[m] = p + 1
  BY <1>0, <1>1 DEF Advance, IInv, TypeOK
<1>4. View(m)' = View(m)
  BY <1>1, <1>3 DEF View
<1>5. ASSUME alone[m]
      PROVE  OnTrack(i, j, p + 1, View(m), gone[m])
  <2>1. OnTrack(i, j, p, View(m), gone[m])
    BY <1>5 DEF AInv, AloneInv
  <2> HIDE DEF i, j, p, s
  <2>2. QED
    BY <1>1, <1>2, <2>1, TrackPasses DEF Skip
<1>6. IInv'
  BY <1>0, WriteVersionKeeps
<1>7. QED
  BY <1>1, <1>3, <1>4, <1>5, <1>6, AloneStays

\* Every step keeps the invariant.
LEMMA NextAlone == AInv /\ [Next]_vars => AInv'
<1> SUFFICES ASSUME AInv, [Next]_vars PROVE AInv'
  OBVIOUS
<1>0. IInv /\ IInv'
  BY NextIInv DEF AInv
<1>1. ASSUME NEW m \in Migrator, Start(m)
      PROVE  AInv'
  BY <1>1, StartAlone
<1>2. ASSUME NEW m \in Migrator, Running(m), Leave(m)
      PROVE  AInv'
  BY <1>0, <1>2, LeaveEnds
<1>3. ASSUME NEW m \in Migrator, Step(m)
      PROVE  AInv'
  <2>1. CASE Look(m)
    BY <2>1, LookAlone
  <2>2. CASE Execute(m)
    BY <2>2, ExecuteAlone
  <2>3. CASE WriteVersion(m)
    BY <2>3, StampAlone
  <2>4. CASE Commit(m)
    BY <1>2, <2>4 DEF Commit
  <2>5. CASE Fail(m)
    BY <1>2, <2>5 DEF Fail, RollBack
  <2>6. CASE Detect(m)
    <3>1. Running(m)
      BY <2>6 DEF Detect, Deadlocked, WaitsFor
    <3>2. QED
      BY <1>2, <2>6, <3>1 DEF Detect, RollBack
  <2>7. QED
    BY <1>3, <2>1, <2>2, <2>3, <2>4, <2>5, <2>6 DEF Step
<1>4. ASSUME NEW m \in Migrator, Die(m)
      PROVE  AInv'
  BY <1>2, <1>4 DEF Die, RollBack
<1>5. ASSUME UNCHANGED <<catalog, version, job, pc, made, gone, alone>>
      PROVE  AInv'
  <2>1. \A m \in Migrator : AloneInv(m)' <=> AloneInv(m)
    BY <1>5 DEF AloneInv, Running, View
  <2>2. QED
    BY <1>0, <2>1 DEF AInv
<1>6. ASSUME NEW a \in Asset, InsertAsset(a) \/ Review(a)
      PROVE  AInv'
  BY <1>5, <1>6 DEF InsertAsset, Review, transaction
<1>7. CASE UNCHANGED vars
  BY <1>5, <1>7 DEF vars
<1>8. QED
  BY <1>1, <1>3, <1>4, <1>6, <1>7 DEF Next

\* The invariant holds at the start.
LEMMA InitAlone == Init => AInv
<1> SUFFICES ASSUME Init PROVE AInv
  OBVIOUS
<1>1. \A m \in Migrator : ~alone[m]
  BY DEF Init
<1>2. QED
  BY <1>1, InitIInv DEF AInv, AloneInv

\* A lone command that is on track is never refused.
LEMMA AloneWorks ==
  ASSUME AInv
  PROVE  CommandsWorkAlone
<1> SUFFICES ASSUME NEW m \in Migrator, Running(m), alone[m], ~Finished(m)
             PROVE  Applicable(m)
  BY DEF CommandsWorkAlone
<1> DEFINE i == job[m][1]
           j == job[m][2]
           p == pc[m]
           s == Statement(m)
<1>0. IInv
  BY DEF AInv
<1>1. /\ i \in Revision /\ j \in Revision /\ p \in 1 .. Len(Plan[i][j]) /\ s = Plan[i][j][p]
      /\ Underway(i, j, p, made[m], gone[m], held[m], stamped[m], catalog, version)
      /\ Fits(made[m], gone[m], held[m], catalog)
      /\ made[m] \in SUBSET Object /\ catalog \in SUBSET Object
      /\ AtRevision(catalog, version)
  BY <1>0, Position
<1>2. version = {i} \ {0} /\ OnTrack(i, j, p, View(m), gone[m])
  BY DEF AInv, AloneInv
<1>3. catalog \ Outside = Declared(i) \ Unmigrated
  <2>1. PICK r \in Revision : version = {r} \ {0} /\ catalog \ Outside = Declared(r) \ Unmigrated
    BY <1>1 DEF AtRevision
  <2>2. r = i
    <3> HIDE DEF i
    <3>1. QED
      BY <1>1, <1>2, <2>1, RevisionNamed
  <2>3. QED
    BY <2>1, <2>2
<1>4. /\ s.op \in {"create", "backfill"} => i <= j
      /\ s.op = "drop" => i > j
  BY <1>0, Direction
<1>5. i <= j => GoesUp(i, j, p, made[m], gone[m], held[m])
  BY <1>1 DEF Underway
<1>6. i > j => GoesDown(i, j, p, made[m], gone[m], held[m], catalog)
  BY <1>1 DEF Underway
<1>7. i <= j => /\ gone[m] = {} /\ made[m] \subseteq Created(Passed(i, j, p))
                /\ View(m) = catalog \cup made[m]
  BY <1>5 DEF GoesUp, View
<1>8. i > j => View(m) = catalog \ gone[m] /\ gone[m] \subseteq catalog
  BY <1>1, <1>6 DEF GoesDown, View, Fits
<1>9. ASSUME s.op = "create"
      PROVE  Creatable(s.objects, View(m))
  <2> HIDE DEF i, j, p, s
  <2>1. QED
    BY <1>1, <1>2, <1>3, <1>4, <1>7, <1>9, CreatesInTurn
<1>10. ASSUME s.op = "drop"
       PROVE  Droppable(s.object, View(m))
  <2>1. i > j
    BY <1>4, <1>10
  <2>2. GoesDown(i, j, p, made[m], gone[m], held[m], catalog)
    BY <1>6, <2>1
  <2> HIDE DEF i, j, p, s
  <2>3. Droppable(s.object, catalog \ gone[m])
    BY <1>1, <1>2, <1>3, <1>8, <1>10, <2>1, <2>2, DropsInTurn
  <2>4. QED
    BY <1>8, <2>1, <2>3
<1>11. ASSUME s.op = "backfill"
       PROVE  Table(s.table) \in View(m)
  <2> HIDE DEF i, j, p, s
  <2>1. QED
    <3>1. i <= j /\ gone[m] = {} /\ View(m) = catalog \cup made[m]
      BY <1>4, <1>7, <1>11
    <3>2. OnTrack(i, j, p, View(m), {})
      BY <1>2, <3>1
    <3>3. Table(Plan[i][j][p].table) \in View(m)
      BY <1>1, <1>3, <1>11, <3>1, <3>2, BackfillsInTurn
    <3>4. QED
      BY <1>1, <3>3
<1>12. ASSUME s.op = "stamp"
       PROVE  Stampable(s, VersionSeen(m))
  <2>1. Versions(i, j, p, stamped[m], version)
    BY <1>1 DEF Underway
  <2> HIDE DEF i, j, p, s
  <2>2. Stampable(s, Seen(stamped[m], version))
    BY <1>1, <1>2, <1>12, <2>1, StampsInTurn
  <2>3. QED
    BY <2>2 DEF Seen, VersionSeen
<1>13. QED
  BY <1>9, <1>10, <1>11, <1>12 DEF Applicable

\* 0001 and 0002, the order of their statements: a command that runs with no other, from
\* any revision to any other and after any history of commands that failed or died, is
\* never refused a statement.
THEOREM CommandsAloneWork == Spec => []CommandsWorkAlone
BY InitAlone, NextAlone, AloneWorks, PTL DEF Spec

================================================================================
