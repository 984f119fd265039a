------------------------------ MODULE ApiProofs -------------------------------
(***************************************************************************)
(* What holds of module Api for any number of requests, any pool size and  *)
(* any overflow: the types, the accounts of the pool, and that requests    *)
(* that live through no outage are answered as the contract says.          *)
(***************************************************************************)
EXTENDS Api, FiniteSetTheorems, SequenceTheorems, TLAPS

\* The phases in which a request holds a connection or the slot for one.
Holding == {"connecting", "querying", "closing"}

HoldersHold == \A r \in Request : conn[r] # NoConn <=> phase[r] \in Holding

\* The pool's count, without the bounds.
Counted == open = Len(idle) + Cardinality(Holders)

PoolInv == TypeOK /\ HoldersHold /\ Counted /\ Len(idle) <= PoolSize /\ open <= Capacity

(***************************************************************************)
(* The holders of connections                                              *)
(***************************************************************************)

LEMMA HoldersFinite == IsFiniteSet(Holders) /\ Cardinality(Holders) \in Nat
BY RequestAssumption, FS_Subset, FS_CardinalityType DEF Holders

\* A request that takes a connection is one holder more.
LEMMA OneMoreHolder ==
  ASSUME TypeOK, NEW r \in Request, NEW c, conn[r] = NoConn, c # NoConn,
         conn' = [conn EXCEPT ![r] = c]
  PROVE  Cardinality(Holders') = Cardinality(Holders) + 1
<1>1. Holders' = Holders \cup {r} /\ r \notin Holders
  BY DEF Holders, TypeOK
<1>2. QED
  BY <1>1, HoldersFinite, FS_AddElement

\* A request that gives its connection back is one holder less.
LEMMA OneHolderLess ==
  ASSUME TypeOK, NEW r \in Request, conn[r] # NoConn,
         conn' = [conn EXCEPT ![r] = NoConn]
  PROVE  Cardinality(Holders') = Cardinality(Holders) - 1
<1>1. Holders' = Holders \ {r} /\ r \in Holders
  BY DEF Holders, TypeOK
<1>2. QED
  BY <1>1, HoldersFinite, FS_RemoveElement

\* Replacing a connection by another keeps the holders.
LEMMA SameHolders ==
  ASSUME TypeOK, NEW r \in Request, NEW c, conn[r] # NoConn, c # NoConn,
         conn' = [conn EXCEPT ![r] = c]
  PROVE  Holders' = Holders
BY DEF Holders, TypeOK

LEMMA CapacityType == Capacity \in Nat \ {0}
BY PoolAssumption DEF Capacity

(***************************************************************************)
(* Taking and returning a connection                                       *)
(***************************************************************************)

\* What a step that deals with the pool preserves.
PoolPart ==
  /\ idle \in Seq(0 .. MaxEpoch) /\ open \in Nat
  /\ phase \in [Request -> Phase] /\ conn \in [Request -> (0 .. MaxEpoch) \cup {NoConn}]
  /\ HoldersHold /\ Counted /\ Len(idle) <= PoolSize /\ open <= Capacity

LEMMA AcquireKeepsPool ==
  ASSUME PoolInv, NEW r \in Request, conn[r] = NoConn, Acquire(r)
  PROVE  PoolPart'
<1>1. CASE /\ idle # <<>>
           /\ idle' = Tail(idle)
           /\ conn' = [conn EXCEPT ![r] = Head(idle)]
           /\ phase' = [phase EXCEPT ![r] = "connecting"]
           /\ UNCHANGED open
  <2>1. /\ Head(idle) \in 0 .. MaxEpoch /\ Tail(idle) \in Seq(0 .. MaxEpoch)
        /\ Len(Tail(idle)) = Len(idle) - 1 /\ Len(idle) \in Nat
    BY <1>1, HeadTailProperties, LenProperties DEF PoolInv, TypeOK
  <2>2. Head(idle) # NoConn
    BY <2>1, EpochAssumption
  <2>3. Counted'
    <3>1. Cardinality(Holders') = Cardinality(Holders) + 1
      BY <1>1, <2>2, OneMoreHolder DEF PoolInv
    <3>2. QED
      BY <1>1, <2>1, <3>1, HoldersFinite DEF PoolInv, Counted
  <2>4. HoldersHold'
    BY <1>1, <2>2 DEF PoolInv, TypeOK, HoldersHold, Holding
  <2>5. QED
    BY <1>1, <2>1, <2>3, <2>4, PoolAssumption DEF PoolInv, TypeOK, PoolPart, Phase
<1>2. CASE /\ idle = <<>>
           /\ open < Capacity
           /\ open' = open + 1
           /\ conn' = [conn EXCEPT ![r] = 0]
           /\ phase' = [phase EXCEPT ![r] = "connecting"]
           /\ UNCHANGED idle
  <2>1. NoConn # 0 /\ 0 \in 0 .. MaxEpoch
    BY EpochAssumption
  <2>2. Counted'
    <3>1. Cardinality(Holders') = Cardinality(Holders) + 1
      BY <1>2, <2>1, OneMoreHolder DEF PoolInv
    <3>2. Len(idle) \in Nat
      BY LenProperties DEF PoolInv, TypeOK
    <3>3. QED
      BY <1>2, <3>1, <3>2, HoldersFinite DEF PoolInv, Counted
  <2>3. HoldersHold'
    BY <1>2, <2>1 DEF PoolInv, TypeOK, HoldersHold, Holding
  <2>4. QED
    BY <1>2, <2>1, <2>2, <2>3, CapacityType DEF PoolInv, TypeOK, PoolPart, Phase
<1>3. CASE /\ phase' = [phase EXCEPT ![r] = "queued"]
           /\ UNCHANGED <<idle, open, conn>>
  BY <1>3 DEF PoolInv, TypeOK, PoolPart, Phase, HoldersHold, Holding, Counted, Holders
<1>4. QED
  BY <1>1, <1>2, <1>3 DEF Acquire

LEMMA ReleaseKeepsPool ==
  ASSUME PoolInv, NEW r \in Request, conn[r] # NoConn, Release(r),
         phase' = [phase EXCEPT ![r] = "answered"]
  PROVE  PoolPart'
<1>1. conn' = [conn EXCEPT ![r] = NoConn] /\ conn[r] \in 0 .. MaxEpoch
  BY DEF Release, PoolInv, TypeOK
<1>2. Cardinality(Holders') = Cardinality(Holders) - 1 /\ Cardinality(Holders') \in Nat
  <2>1. IsFiniteSet(Holders')
    BY RequestAssumption, FS_Subset DEF Holders
  <2>2. QED
    BY <1>1, <2>1, OneHolderLess, FS_CardinalityType DEF PoolInv
<1>3. HoldersHold'
  BY <1>1 DEF PoolInv, TypeOK, HoldersHold, Holding
<1>4. CASE Len(idle) < PoolSize /\ idle' = Append(idle, conn[r]) /\ UNCHANGED open
  <2>1. idle' \in Seq(0 .. MaxEpoch) /\ Len(idle') = Len(idle) + 1
    BY <1>1, <1>4 DEF PoolInv, TypeOK
  <2>2. Counted'
    BY <1>2, <1>4, <2>1, HoldersFinite DEF PoolInv, TypeOK, Counted
  <2>3. QED
    BY <1>1, <1>3, <1>4, <2>1, <2>2, PoolAssumption DEF PoolInv, TypeOK, PoolPart, Phase
<1>5. CASE Len(idle) >= PoolSize /\ open' = open - 1 /\ UNCHANGED idle
  <2>1. Counted'
    BY <1>2, <1>5, HoldersFinite DEF PoolInv, TypeOK, Counted
  <2>2. open' \in Nat /\ open' <= Capacity
    BY <1>2, <1>5, <2>1, CapacityType DEF PoolInv, TypeOK, Counted
  <2>3. QED
    BY <1>1, <1>3, <1>5, <2>1, <2>2 DEF PoolInv, TypeOK, PoolPart, Phase
<1>6. QED
  BY <1>4, <1>5 DEF Release

(***************************************************************************)
(* The pool's accounts are kept                                            *)
(***************************************************************************)

LEMMA VerdictType == \A w : Verdict(w) \subseteq Status
BY DEF Verdict, Status, Unhandled

LEMMA ResultType ==
  \A w : Result(w) \in Status /\ OnSQLAlchemyError(w) \in Status /\ OnOSError(w) \in Status
BY DEF Result, OnSQLAlchemyError, OnOSError, Status, Unhandled

\* The variables that the pool does not depend on.
RestType ==
  /\ serving \in BOOLEAN /\ up \in BOOLEAN /\ epoch \in 1 .. MaxEpoch
  /\ want \in [Request -> Wanted] /\ status \in [Request -> Status]
  /\ fate \in [Request -> {"calm", "outage", "starved"}]

LEMMA PoolParts == PoolPart' /\ RestType' => PoolInv'
BY DEF PoolInv, PoolPart, RestType, TypeOK

\* Steps that move a request between phases that agree about the connection.
LEMMA MoveKeepsPool ==
  ASSUME PoolInv, NEW r \in Request, NEW p \in Phase, phase' = [phase EXCEPT ![r] = p],
         phase[r] \in Holding <=> p \in Holding, UNCHANGED <<pool, conn>>
  PROVE  PoolPart'
BY DEF PoolInv, TypeOK, PoolPart, HoldersHold, Counted, Holders, pool

\* A request in no phase that holds a connection holds none; what the other
\* variables are stays, if they do.
LEMMA HoldsNone ==
  ASSUME PoolInv, NEW r \in Request, phase[r] \notin Holding
  PROVE  conn[r] = NoConn
BY DEF PoolInv, HoldersHold

LEMMA RestStays ==
  ASSUME PoolInv, UNCHANGED <<serving, database, want, status, fate>>
  PROVE  RestType'
BY DEF PoolInv, TypeOK, RestType, database

LEMMA InitPool == Init => PoolInv
<1> SUFFICES ASSUME Init PROVE PoolInv
  OBVIOUS
<1>1. Holders = {}
  BY DEF Init, Holders
<1>2. Counted
  BY <1>1, FS_EmptySet DEF Init, Counted
<1>3. TypeOK
  <2>1. (CHOOSE w \in Wanted : TRUE) \in Wanted
    BY WantedAssumption
  <2>2. epoch \in 1 .. MaxEpoch
    BY EpochAssumption DEF Init
  <2>3. idle \in Seq(0 .. MaxEpoch) /\ open \in Nat
    BY EmptySeq DEF Init
  <2>4. serving \in BOOLEAN /\ up \in BOOLEAN
    BY DEF Init
  <2>5. phase \in [Request -> Phase] /\ want \in [Request -> Wanted]
    BY <2>1 DEF Init, Phase
  <2>6. conn \in [Request -> (0 .. MaxEpoch) \cup {NoConn}]
    BY DEF Init
  <2>7. /\ status \in [Request -> Status]
        /\ fate \in [Request -> {"calm", "outage", "starved"}]
    BY DEF Init, Status, Unhandled
  <2>8. QED
    BY <2>2, <2>3, <2>4, <2>5, <2>6, <2>7 DEF TypeOK
<1>4. HoldersHold
  BY DEF Init, HoldersHold, Holding
<1>5. Len(idle) <= PoolSize
  BY PoolAssumption DEF Init
<1>6. open <= Capacity
  BY CapacityType DEF Init
<1>7. QED
  BY <1>2, <1>3, <1>4, <1>5, <1>6 DEF PoolInv

LEMMA StepKeepsPool ==
  ASSUME PoolInv, NEW r \in Request, Step(r)
  PROVE  PoolInv'
<1>1. CASE Handle(r)
  <2>1. CASE Verdict(want[r]) = {} /\ Acquire(r) /\ UNCHANGED status
    <3>1. PoolPart'
      BY <1>1, <2>1, AcquireKeepsPool, HoldsNone DEF Handle, Holding
    <3>2. RestType'
      BY <1>1, <2>1, RestStays DEF Handle
    <3>3. QED
      BY <3>1, <3>2, PoolParts
  <2>2. CASE /\ \E s \in Verdict(want[r]) : status' = [status EXCEPT ![r] = s]
             /\ phase' = [phase EXCEPT ![r] = "answered"]
             /\ UNCHANGED <<pool, conn>>
    <3>1. PoolPart'
      BY <1>1, <2>2, MoveKeepsPool DEF Handle, Holding, Phase
    <3>2. RestType'
      BY <1>1, <2>2, VerdictType DEF Handle, PoolInv, TypeOK, RestType, database
    <3>3. QED
      BY <3>1, <3>2, PoolParts
  <2>3. QED
    BY <1>1, <2>1, <2>2 DEF Handle
<1>2. CASE Wake(r)
  <2>1. PoolPart'
    BY <1>2, AcquireKeepsPool, HoldsNone DEF Wake, Holding
  <2>2. RestType'
    BY <1>2, RestStays DEF Wake
  <2>3. QED
    BY <2>1, <2>2, PoolParts
<1>3. CASE Timeout(r)
  <2>1. CASE Acquire(r) /\ UNCHANGED <<status, fate>>
    <3>1. PoolPart'
      BY <1>3, <2>1, AcquireKeepsPool, HoldsNone DEF Timeout, Holding
    <3>2. RestType'
      BY <1>3, <2>1, RestStays DEF Timeout
    <3>3. QED
      BY <3>1, <3>2, PoolParts
  <2>2. CASE /\ status' = [status EXCEPT ![r] = OnSQLAlchemyError(want[r])]
             /\ phase' = [phase EXCEPT ![r] = "answered"]
             /\ fate' = [fate EXCEPT ![r] = "starved"]
             /\ UNCHANGED <<pool, conn>>
    <3>1. PoolPart'
      BY <1>3, <2>2, MoveKeepsPool DEF Timeout, Holding, Phase
    <3>2. RestType'
      BY <1>3, <2>2, ResultType DEF Timeout, PoolInv, TypeOK, RestType, database
    <3>3. QED
      BY <3>1, <3>2, PoolParts
  <2>3. QED
    BY <1>3, <2>1, <2>2 DEF Timeout
<1>4. CASE Connect(r)
  <2>1. epoch # NoConn /\ conn[r] # NoConn /\ epoch \in 0 .. MaxEpoch
    BY <1>4, EpochAssumption DEF Connect, PoolInv, TypeOK, HoldersHold, Holding
  <2>2. Holders' = Holders
    BY <1>4, <2>1, SameHolders DEF Connect, PoolInv
  <2>3. HoldersHold' /\ phase' \in [Request -> Phase]
        /\ conn' \in [Request -> (0 .. MaxEpoch) \cup {NoConn}]
    BY <1>4, <2>1 DEF Connect, PoolInv, TypeOK, HoldersHold, Holding, Phase
  <2>4. QED
    BY <1>4, <2>2, <2>3 DEF Connect, PoolInv, TypeOK, Counted, pool, database
<1>5. CASE ConnectFails(r)
  <2>1. conn[r] # NoConn
    BY <1>5 DEF ConnectFails, PoolInv, HoldersHold, Holding
  <2>2. RestType'
    BY <1>5, ResultType DEF ConnectFails, PoolInv, TypeOK, RestType, database
  <2>3. CASE conn[r] = 0
    <3>1. /\ Cardinality(Holders') = Cardinality(Holders) - 1
          /\ Cardinality(Holders') \in Nat
      <4>1. IsFiniteSet(Holders')
        BY RequestAssumption, FS_Subset DEF Holders
      <4>2. QED
        BY <1>5, <2>1, <2>3, <4>1, OneHolderLess, FS_CardinalityType
           DEF ConnectFails, PoolInv
    <3>2. open' = open - 1 /\ idle' = idle /\ Len(idle) \in Nat
      BY <1>5, <2>3, LenProperties DEF ConnectFails, PoolInv, TypeOK
    <3>3. Counted'
      BY <3>1, <3>2, HoldersFinite DEF PoolInv, TypeOK, Counted
    <3>4. open' \in Nat /\ open' <= Capacity
      BY <3>1, <3>2, <3>3, CapacityType DEF PoolInv, TypeOK, Counted
    <3>5. HoldersHold' /\ phase' \in [Request -> Phase]
          /\ conn' \in [Request -> (0 .. MaxEpoch) \cup {NoConn}]
      BY <1>5, <2>3 DEF ConnectFails, PoolInv, TypeOK, HoldersHold, Holding, Phase
    <3>6. PoolPart'
      BY <3>2, <3>3, <3>4, <3>5 DEF PoolInv, TypeOK, PoolPart
    <3>7. QED
      BY <2>2, <3>6, PoolParts
  <2>4. CASE conn[r] # 0
    BY <1>5, <2>1, <2>2, <2>4, ReleaseKeepsPool, PoolParts DEF ConnectFails
  <2>5. QED
    BY <2>3, <2>4
<1>6. CASE Query(r)
  <2>1. PoolPart'
    BY <1>6, MoveKeepsPool DEF Query, Holding, Phase
  <2>2. RestType'
    BY <1>6, ResultType DEF Query, PoolInv, TypeOK, RestType, database
  <2>3. QED
    BY <2>1, <2>2, PoolParts
<1>7. CASE Close(r)
  <2>1. conn[r] # NoConn
    BY <1>7 DEF Close, PoolInv, HoldersHold, Holding
  <2>2. PoolPart'
    BY <1>7, <2>1, ReleaseKeepsPool DEF Close
  <2>3. RestType'
    BY <1>7, RestStays DEF Close
  <2>4. QED
    BY <2>2, <2>3, PoolParts
<1>8. QED
  BY <1>1, <1>2, <1>3, <1>4, <1>5, <1>6, <1>7 DEF Step

LEMMA NextPool ==
  ASSUME PoolInv, [Next]_vars
  PROVE  PoolInv'
<1>1. ASSUME NEW r \in Request, Arrive(r) PROVE PoolInv'
  <2>1. PoolPart'
    BY <1>1, MoveKeepsPool DEF Arrive, Holding, Phase
  <2>2. RestType'
    BY <1>1 DEF Arrive, PoolInv, TypeOK, RestType, database
  <2>3. QED
    BY <2>1, <2>2, PoolParts
<1>2. ASSUME NEW r \in Request, Step(r) PROVE PoolInv'
  BY <1>2, StepKeepsPool
<1>3. CASE Startup \/ DbStop \/ DbStart \/ UNCHANGED vars
  <2>1. UNCHANGED <<idle, open, phase, conn>>
    BY <1>3 DEF Startup, DbStop, DbStart, vars, pool
  <2>2. PoolPart'
    BY <2>1 DEF PoolInv, TypeOK, PoolPart, HoldersHold, Counted, Holders
  <2>3. CASE Startup \/ DbStop \/ UNCHANGED vars
    <3>1. RestType'
      BY <2>3 DEF Startup, DbStop, vars, PoolInv, TypeOK, RestType, database
    <3>2. QED
      BY <2>2, <3>1, PoolParts
  <2>4. CASE DbStart
    <3>1. epoch' \in 1 .. MaxEpoch
      BY <2>4, EpochAssumption DEF DbStart, PoolInv, TypeOK
    <3>2. RestType'
      BY <2>4, <3>1 DEF DbStart, PoolInv, TypeOK, RestType
    <3>3. QED
      BY <2>2, <3>2, PoolParts
  <2>5. QED
    BY <1>3, <2>3, <2>4
<1>4. CASE Shutdown
  <2>1. Holders = {}
    BY <1>4 DEF Shutdown, InFlight, PoolInv, HoldersHold, Holding, Holders
  <2>2. Holders' = {}
    BY <1>4, <2>1 DEF Shutdown, Holders
  <2>3. Counted' /\ Len(idle') = 0 /\ idle' \in Seq(0 .. MaxEpoch)
    BY <1>4, <2>2, FS_EmptySet, EmptySeq DEF Shutdown, Counted
  <2>4. PoolPart'
    BY <1>4, <2>3, CapacityType, PoolAssumption DEF Shutdown, PoolInv, TypeOK, PoolPart, HoldersHold
  <2>5. RestType'
    BY <1>4 DEF Shutdown, PoolInv, TypeOK, RestType, database
  <2>6. QED
    BY <2>4, <2>5, PoolParts
<1>5. QED
  BY <1>1, <1>2, <1>3, <1>4 DEF Next

\* The pool's counters and the requests' phases agree in every reachable state: the
\* connections counted as open are the ones at rest and the ones that requests hold.
THEOREM PoolHolds == Spec => []PoolInv
BY InitPool, NextPool, PTL DEF Spec

\* Every reachable state is well typed: what lies in the pool is a connection.
THEOREM TypeCorrect == Spec => []TypeOK
BY PoolHolds, PTL DEF PoolInv

\* Whatever the pool's size and overflow and however many requests compete, no path
\* through time-outs, failed connects and dead connections leaks a connection.
THEOREM PoolNeverLeaks == Spec => []PoolAccounts
<1>1. PoolInv => PoolAccounts
  BY DEF PoolInv, PoolAccounts, Counted, HoldersHold, Holding, Holders, InFlight
<1>2. QED
  BY <1>1, PoolHolds, PTL

(***************************************************************************)
(* Calm requests                                                           *)
(***************************************************************************)

\* The requests whose flaws the code handles.
Handled(w) == w.flaws \cap {"foreign_cursor", "unknown_category"} = {}

LEMMA WantedFlaws ==
  ASSUME NEW w \in Wanted
  PROVE  /\ w.route \in Route /\ w.flaws \subseteq Flaws[w.route]
BY WantedAssumption

\* The checks and the query give the answers of the contract.
LEMMA VerdictIsContract ==
  ASSUME NEW w \in Wanted, Handled(w), NEW s \in Verdict(w)
  PROVE  s = Contract(w)
<1>1. w.route \in Route /\ w.flaws \subseteq Flaws[w.route]
  BY WantedFlaws
<1>2. CASE w.route = "live"
  BY <1>1, <1>2 DEF Verdict, Contract, Flaws
<1>3. CASE w.route # "live" /\ "schema" \in w.flaws
  BY <1>3 DEF Verdict, Contract
<1>4. CASE w.route # "live" /\ "schema" \notin w.flaws /\ "domain" \in w.flaws
  <2>1. w.flaws = {"domain"}
    BY <1>1, <1>4 DEF Handled, Flaws, Route
  <2>2. QED
    BY <1>4, <2>1 DEF Verdict, Contract
<1>5. CASE w.route # "live" /\ w.flaws \cap {"schema", "domain"} = {}
  BY <1>5 DEF Verdict, Handled
<1>6. QED
  BY <1>2, <1>3, <1>4, <1>5

LEMMA ResultIsContract ==
  ASSUME NEW w \in Wanted, Handled(w), Verdict(w) = {}
  PROVE  Result(w) = Contract(w)
<1>1. w.route \in Route /\ w.flaws \subseteq Flaws[w.route]
  BY WantedFlaws
<1>2. w.route # "live" /\ "schema" \notin w.flaws /\ "domain" \notin w.flaws
  BY DEF Verdict
<1>3. w.flaws = {} \/ (w.route = "detail" /\ w.flaws = {"hidden"})
  BY <1>1, <1>2 DEF Handled, Flaws, Route
<1>4. QED
  BY <1>2, <1>3 DEF Result, Contract

\* While a request lives through no outage the database is up, it is the one the
\* request's connection was opened to, and its answer is the contract's.
CalmInv ==
  \A r \in Request :
    /\ fate[r] = "calm" /\ InFlight(r) => up
    /\ phase[r] \in {"queued", "connecting", "querying"} => Verdict(want[r]) = {}
    /\ fate[r] = "calm" /\ phase[r] = "querying" => conn[r] = epoch
    /\ fate[r] = "calm" /\ phase[r] \in {"closing", "answered"} /\ Handled(want[r])
         => status[r] = Contract(want[r])

LEMMA InitCalm == Init => CalmInv
BY DEF Init, CalmInv, InFlight

\* What CalmInv says of one request.
CalmRequest(r) ==
  /\ fate[r] = "calm" /\ InFlight(r) => up
  /\ phase[r] \in {"queued", "connecting", "querying"} => Verdict(want[r]) = {}
  /\ fate[r] = "calm" /\ phase[r] = "querying" => conn[r] = epoch
  /\ fate[r] = "calm" /\ phase[r] \in {"closing", "answered"} /\ Handled(want[r])
       => status[r] = Contract(want[r])

\* A step of one request leaves the others alone.
LEMMA OthersAlone ==
  ASSUME TypeOK, NEW r \in Request, Arrive(r) \/ Step(r), NEW q \in Request \ {r}
  PROVE  /\ phase'[q] = phase[q] /\ want'[q] = want[q] /\ conn'[q] = conn[q]
         /\ status'[q] = status[q] /\ fate'[q] = fate[q]
         /\ up' = up /\ epoch' = epoch
BY DEF TypeOK, Arrive, Step, Handle, Wake, Timeout, Connect, ConnectFails, Query, Close,
       Acquire, Release, database, pool

LEMMA StepKeepsCalm ==
  ASSUME TypeOK, CalmInv, NEW r \in Request, Arrive(r) \/ Step(r)
  PROVE  CalmRequest(r)'
<1>1. CASE Arrive(r)
  BY <1>1 DEF Arrive, TypeOK, CalmRequest, InFlight, database
<1>2. CASE Handle(r)
  <2>1. want' = want /\ fate' = fate /\ up' = up /\ want[r] \in Wanted
    BY <1>2 DEF Handle, TypeOK, database
  <2>2. CASE /\ \E s \in Verdict(want[r]) : status' = [status EXCEPT ![r] = s]
             /\ phase' = [phase EXCEPT ![r] = "answered"]
    BY <2>1, <2>2, VerdictIsContract DEF TypeOK, CalmRequest, InFlight
  <2>3. CASE Verdict(want[r]) = {} /\ Acquire(r)
    <3>1. phase'[r] \in {"connecting", "queued"}
      BY <2>3 DEF Acquire, TypeOK
    <3>2. fate[r] = "calm" => up
      BY <1>2 DEF Handle, CalmInv, InFlight
    <3>3. QED
      BY <2>1, <2>3, <3>1, <3>2 DEF CalmRequest
  <2>4. QED
    BY <1>2, <2>2, <2>3 DEF Handle
<1>3. CASE Wake(r)
  <2>1. phase'[r] \in {"connecting", "queued"}
    BY <1>3 DEF Wake, Acquire, TypeOK
  <2>2. QED
    BY <1>3, <2>1 DEF Wake, CalmInv, CalmRequest, InFlight, database
<1>4. CASE Timeout(r)
  <2>1. CASE Acquire(r) /\ UNCHANGED <<status, fate>>
    <3>1. phase'[r] \in {"connecting", "queued"}
      BY <2>1 DEF Acquire, TypeOK
    <3>2. QED
      BY <1>4, <2>1, <3>1 DEF Timeout, CalmInv, CalmRequest, InFlight, database
  <2>2. CASE phase' = [phase EXCEPT ![r] = "answered"] /\ fate' = [fate EXCEPT ![r] = "starved"]
    BY <2>2 DEF TypeOK, CalmRequest
  <2>3. QED
    BY <1>4, <2>1, <2>2 DEF Timeout
<1>5. CASE Connect(r)
  BY <1>5 DEF Connect, TypeOK, CalmInv, CalmRequest, InFlight, database
<1>6. CASE ConnectFails(r)
  BY <1>6 DEF ConnectFails, TypeOK, CalmInv, CalmRequest, InFlight
<1>7. CASE Query(r)
  <2>1. fate[r] = "calm" => Alive(conn[r])
    BY <1>7 DEF Query, CalmInv, InFlight, Alive
  <2>2. Handled(want[r]) => Result(want[r]) = Contract(want[r])
    BY <1>7, ResultIsContract DEF Query, CalmInv, TypeOK
  <2>3. /\ phase'[r] = "closing" /\ want' = want /\ fate' = fate /\ up' = up
        /\ fate[r] = "calm" => status'[r] = Result(want[r])
    BY <1>7, <2>1 DEF Query, TypeOK, database
  <2>4. fate[r] = "calm" => up
    BY <1>7 DEF Query, CalmInv, InFlight
  <2>5. QED
    BY <2>2, <2>3, <2>4 DEF CalmRequest
<1>8. CASE Close(r)
  BY <1>8 DEF Close, TypeOK, CalmInv, CalmRequest, InFlight, database
<1>9. QED
  BY <1>1, <1>2, <1>3, <1>4, <1>5, <1>6, <1>7, <1>8 DEF Step

LEMMA NextCalm ==
  ASSUME TypeOK, CalmInv, [Next]_vars
  PROVE  CalmInv'
<1>1. ASSUME NEW r \in Request, Arrive(r) \/ Step(r) PROVE CalmInv'
  <2>1. ASSUME NEW q \in Request \ {r} PROVE CalmRequest(q)'
    BY <1>1, <2>1, OthersAlone DEF CalmInv, CalmRequest, InFlight
  <2>2. QED
    BY <1>1, <2>1, StepKeepsCalm DEF CalmInv, CalmRequest
<1>2. CASE Startup \/ Shutdown \/ UNCHANGED vars
  BY <1>2 DEF Startup, Shutdown, vars, CalmInv, InFlight, database, pool
<1>3. CASE DbStop
  BY <1>3 DEF DbStop, TypeOK, CalmInv, InFlight
<1>4. CASE DbStart
  BY <1>4 DEF DbStart, CalmInv, InFlight
<1>5. QED
  BY <1>1, <1>2, <1>3, <1>4 DEF Next

\* A request that comes while the database is up, lives through no outage and gets a
\* connection in time is answered as the contract says, however many dead connections
\* earlier outages have left in the pool.
THEOREM CalmRequestsAreServed == Spec => []CalmRequestsSucceed
<1>1. CalmInv => CalmRequestsSucceed
  BY DEF CalmInv, CalmRequestsSucceed, Answered, Handled
<1>2. TypeOK /\ CalmInv /\ [Next]_vars => CalmInv'
  BY NextCalm
<1>3. QED
  BY <1>1, <1>2, InitCalm, TypeCorrect, PTL DEF Spec

===============================================================================
