--------------------------------- MODULE Api ---------------------------------
(***************************************************************************)
(* The HTTP side of the service: requests pass CORS and the request-ID     *)
(* middleware, are validated, take a connection from the SQLAlchemy pool,  *)
(* query the database and are answered, while the database stops and       *)
(* starts.  The event loop switches between requests at every await: for a *)
(* pooled connection, while connecting, during the query and on closing.   *)
(*                                                                         *)
(* A connection is represented by the database epoch it was opened in: it  *)
(* is alive as long as that epoch lasts.                                   *)
(***************************************************************************)
EXTENDS Integers, Sequences, FiniteSets

CONSTANTS
  Request,      \* requests that may be in flight together
  Wanted,       \* what clients ask for
  PoolSize,     \* database_pool_size
  MaxOverflow,  \* database_max_overflow
  MaxEpoch,     \* bound on the starts of the database
  NoConn        \* "holds no connection"

Route == {"live", "ready", "search", "detail"}

\* What can be wrong with a request: "schema", a parameter of the wrong type or
\* size; "domain", a city other than Lagos, one date without the other, dates in
\* the wrong order or a cursor that does not decode; a cursor that decodes to
\* fields that are no time or no UUID; a category outside the enum; an asset that
\* is not public.
Flaws ==
  [live |-> {}, ready |-> {}, detail |-> {"schema", "hidden"},
   search |-> {"schema", "domain", "foreign_cursor", "unknown_category"}]

ASSUME WantedAssumption ==
  Wanted # {} /\ \A w \in Wanted : \E x \in Route : w \in [route : {x}, flaws : SUBSET Flaws[x]]
ASSUME PoolAssumption == PoolSize \in Nat \ {0} /\ MaxOverflow \in Nat
ASSUME EpochAssumption == MaxEpoch \in Nat \ {0} /\ NoConn \notin Nat
ASSUME RequestAssumption == IsFiniteSet(Request)

Status == {200, 400, 404, 422, 500, 503}

VARIABLES
  serving,    \* the lifespan has started and not ended
  up,         \* the database accepts connections
  epoch,      \* the number of times it was started
  idle,       \* the connections at rest in the pool, oldest first
  open,       \* the connections and attempts the pool counts
  phase,      \* phase[r]: where request r is
  want,       \* want[r]: what r asks for
  conn,       \* conn[r]: the connection r holds; 0: a slot without connection
  status,     \* status[r]: the answer of r, once it is determined
  fate        \* history of r: "calm", or "outage", or "starved" of a connection

pool == <<idle, open>>
database == <<up, epoch>>
vars == <<serving, up, epoch, idle, open, phase, want, conn, status, fate>>

\* absent: no request.  received: routed.  queued: waits for a pooled
\* connection.  connecting: holds a slot.  querying: the statement runs.
\* closing: the outcome is known, the session is still open.
Phase == {"absent", "received", "queued", "connecting", "querying", "closing", "answered"}

TypeOK ==
  /\ serving \in BOOLEAN
  /\ up \in BOOLEAN
  /\ epoch \in 1 .. MaxEpoch
  /\ idle \in Seq(0 .. MaxEpoch)
  /\ open \in Nat
  /\ phase \in [Request -> Phase]
  /\ want \in [Request -> Wanted]
  /\ conn \in [Request -> (0 .. MaxEpoch) \cup {NoConn}]
  /\ status \in [Request -> Status]
  /\ fate \in [Request -> {"calm", "outage", "starved"}]

-----------------------------------------------------------------------------
(* Answers *)

\* An exception nobody handles: the server answers 500.
Unhandled == 500

\* The answer that needs no database, in the order the checks are made: FastAPI's,
\* list_assets' and, on the way to the query, search_public_assets'.  {} when the
\* request goes on to the database.
Verdict(w) ==
  CASE w.route = "live" -> {200}
    [] "schema" \in w.flaws -> {422}
    [] "schema" \notin w.flaws /\ "domain" \in w.flaws -> {400}
    [] w.flaws \cap {"schema", "domain"} = {} /\ "foreign_cursor" \in w.flaws -> {Unhandled}
    [] OTHER -> {}

\* The answer of a query that reaches a live database.
Result(w) ==
  CASE "unknown_category" \in w.flaws -> Unhandled
    [] w.route = "detail" /\ "hidden" \in w.flaws -> 404
    [] OTHER -> 200

\* database_is_ready turns SQLAlchemyError, and nothing else, into "not ready".
OnSQLAlchemyError(w) == IF w.route = "ready" THEN 503 ELSE Unhandled
OnOSError(w) == Unhandled

-----------------------------------------------------------------------------
(* The connection pool *)

Capacity == PoolSize + MaxOverflow

Alive(c) == up /\ c = epoch

\* Take a pooled connection, or count a new one, or queue for one.
Acquire(r) ==
  \/ /\ idle # <<>>
     /\ idle' = Tail(idle)
     /\ conn' = [conn EXCEPT ![r] = Head(idle)]
     /\ phase' = [phase EXCEPT ![r] = "connecting"]
     /\ UNCHANGED open
  \/ /\ idle = <<>>
     /\ open < Capacity
     /\ open' = open + 1
     /\ conn' = [conn EXCEPT ![r] = 0]
     /\ phase' = [phase EXCEPT ![r] = "connecting"]
     /\ UNCHANGED idle
  \/ /\ idle = <<>>
     /\ open = Capacity
     /\ phase' = [phase EXCEPT ![r] = "queued"]
     /\ UNCHANGED <<idle, open, conn>>

\* A fault: an error path that forgets the connection.
ReleaseUnlessDead(r) ==
  /\ IF Alive(conn[r]) /\ Len(idle) < PoolSize
     THEN idle' = Append(idle, conn[r]) ELSE UNCHANGED idle
  /\ conn' = [conn EXCEPT ![r] = NoConn]
  /\ UNCHANGED open

\* Give the connection back: to the pool while it has room, else close it.
Release(r) ==
  /\ \/ /\ Len(idle) < PoolSize
        /\ idle' = Append(idle, conn[r])
        /\ UNCHANGED open
     \/ /\ Len(idle) >= PoolSize
        /\ open' = open - 1
        /\ UNCHANGED idle
  /\ conn' = [conn EXCEPT ![r] = NoConn]

-----------------------------------------------------------------------------
(* The life of a request *)

Arrive(r) ==
  /\ serving
  /\ phase[r] \in {"absent", "answered"}
  /\ phase' = [phase EXCEPT ![r] = "received"]
  /\ \E w \in Wanted : want' = [want EXCEPT ![r] = w]
  /\ fate' = [fate EXCEPT ![r] = IF up THEN "calm" ELSE "outage"]
  /\ UNCHANGED <<serving, database, pool, conn, status>>

\* Middleware, validation and the route up to its first await.
Handle(r) ==
  /\ phase[r] = "received"
  /\ \/ /\ \E s \in Verdict(want[r]) : status' = [status EXCEPT ![r] = s]
        /\ phase' = [phase EXCEPT ![r] = "answered"]
        /\ UNCHANGED <<pool, conn>>
     \/ /\ Verdict(want[r]) = {}
        /\ Acquire(r)
        /\ UNCHANGED status
  /\ UNCHANGED <<serving, database, want, fate>>

\* A returned connection wakes a queued request.
Wake(r) ==
  /\ phase[r] = "queued"
  /\ idle # <<>>
  /\ Acquire(r)
  /\ UNCHANGED <<serving, database, want, status, fate>>

\* A fault: a pool without timeout.
TimeoutNever(r) == FALSE

\* The wait of a queued request runs out: by now there may be room again.
Timeout(r) ==
  /\ phase[r] = "queued"
  /\ idle = <<>>
  /\ \/ /\ open < Capacity
        /\ Acquire(r)
        /\ UNCHANGED <<status, fate>>
     \/ /\ open = Capacity
        /\ status' = [status EXCEPT ![r] = OnSQLAlchemyError(want[r])]
        /\ phase' = [phase EXCEPT ![r] = "answered"]
        /\ fate' = [fate EXCEPT ![r] = "starved"]
        /\ UNCHANGED <<pool, conn>>
  /\ UNCHANGED <<serving, database, want>>

\* A fault: without pre-ping only a new connection is established.
ConnectWithoutPing(r) ==
  /\ phase[r] = "connecting"
  /\ up
  /\ conn' = [conn EXCEPT ![r] = IF @ = 0 THEN epoch ELSE @]
  /\ phase' = [phase EXCEPT ![r] = "querying"]
  /\ UNCHANGED <<serving, database, pool, want, status, fate>>

\* pool_pre_ping: test a pooled connection, replace it when it is dead.
Connect(r) ==
  /\ phase[r] = "connecting"
  /\ up
  /\ conn' = [conn EXCEPT ![r] = epoch]
  /\ phase' = [phase EXCEPT ![r] = "querying"]
  /\ UNCHANGED <<serving, database, pool, want, status, fate>>

\* No connection can be made.  A slot is given up, the record of a pooled
\* connection goes back to the pool without one.
ConnectFails(r) ==
  /\ phase[r] = "connecting"
  /\ ~ up
  /\ IF conn[r] = 0
     THEN open' = open - 1 /\ conn' = [conn EXCEPT ![r] = NoConn] /\ UNCHANGED idle
     ELSE Release(r)
  /\ status' = [status EXCEPT ![r] = OnOSError(want[r])]
  /\ phase' = [phase EXCEPT ![r] = "answered"]
  /\ UNCHANGED <<serving, database, want, fate>>

\* The statement returns, or finds that the connection is gone.
Query(r) ==
  /\ phase[r] = "querying"
  /\ status' = [status EXCEPT ![r] =
                  IF Alive(conn[r]) THEN Result(want[r]) ELSE OnSQLAlchemyError(want[r])]
  /\ phase' = [phase EXCEPT ![r] = "closing"]
  /\ UNCHANGED <<serving, database, pool, want, conn, fate>>

\* The session, or the connection of the readiness check, is closed.
Close(r) ==
  /\ phase[r] = "closing"
  /\ Release(r)
  /\ phase' = [phase EXCEPT ![r] = "answered"]
  /\ UNCHANGED <<serving, database, want, status, fate>>

-----------------------------------------------------------------------------
(* The process and the database *)

InFlight(r) == phase[r] \notin {"absent", "answered"}

\* lifespan: an engine without connections.
Startup ==
  /\ ~ serving
  /\ serving' = TRUE
  /\ UNCHANGED <<database, pool, phase, want, conn, status, fate>>

\* A fault: dispose while requests hold connections.
ShutdownAtOnce ==
  /\ serving
  /\ serving' = FALSE
  /\ idle' = <<>>
  /\ open' = 0
  /\ UNCHANGED <<database, phase, want, conn, status, fate>>

\* lifespan: the server has let the requests in flight end; dispose.
Shutdown ==
  /\ serving
  /\ \A r \in Request : ~ InFlight(r)
  /\ serving' = FALSE
  /\ idle' = <<>>
  /\ open' = 0
  /\ UNCHANGED <<database, phase, want, conn, status, fate>>

DbStop ==
  /\ up
  /\ up' = FALSE
  /\ fate' = [r \in Request |-> IF InFlight(r) THEN "outage" ELSE fate[r]]
  /\ UNCHANGED <<serving, epoch, pool, phase, want, conn, status>>

DbStart ==
  /\ ~ up
  /\ epoch < MaxEpoch
  /\ up' = TRUE
  /\ epoch' = epoch + 1
  /\ UNCHANGED <<serving, pool, phase, want, conn, status, fate>>

-----------------------------------------------------------------------------

Init ==
  /\ serving = FALSE
  /\ up = TRUE
  /\ epoch = 1
  /\ idle = <<>>
  /\ open = 0
  /\ phase = [r \in Request |-> "absent"]
  /\ want = [r \in Request |-> CHOOSE w \in Wanted : TRUE]
  /\ conn = [r \in Request |-> NoConn]
  /\ status = [r \in Request |-> Unhandled]
  /\ fate = [r \in Request |-> "calm"]

Step(r) ==
  \/ Handle(r) \/ Wake(r) \/ Timeout(r)
  \/ Connect(r) \/ ConnectFails(r) \/ Query(r) \/ Close(r)

Next ==
  \/ \E r \in Request : Arrive(r) \/ Step(r)
  \/ Startup \/ Shutdown \/ DbStop \/ DbStart

Spec == Init /\ [][Next]_vars

\* The event loop runs every task that can continue, the wait for a connection
\* is bounded by the pool's timeout, and a query returns.
FairSpec == Spec /\ \A r \in Request : WF_vars(Step(r))

-----------------------------------------------------------------------------
(* Properties *)

Answered(r) == phase[r] = "answered"
Holders == {r \in Request : conn[r] # NoConn}

\* session.py, create_database_engine: whatever fails on the way, the pool's
\* count of connections is the ones at rest and the ones requests hold, and it
\* never exceeds database_pool_size + database_max_overflow: no path leaks a
\* connection, and a request that is answered holds none.
PoolAccounts ==
  /\ open = Len(idle) + Cardinality(Holders)
  /\ Len(idle) <= PoolSize
  /\ open <= Capacity
  /\ \A r \in Holders : InFlight(r)

\* docs/API_CONTRACT.md, 2.2: what a request deserves while its dependencies work.
Contract(w) ==
  CASE "schema" \in w.flaws -> 422
    [] w.flaws = {"domain"} -> 400
    [] w.flaws = {"hidden"} -> 404
    [] w.flaws = {} -> 200

\* session.py, pool_pre_ping: an outage is over when it is over.  A request that
\* comes after the database is back, and lives through no further outage and
\* gets a connection in time, has the answer of the contract, though the pool
\* still holds connections from before the outage.  (The two flaws the code
\* does not handle are left out.)
CalmRequestsSucceed ==
  \A r \in {q \in Request : Answered(q) /\ fate[q] = "calm"} :
    want[r].flaws \cap {"foreign_cursor", "unknown_category"} = {}
      => status[r] = Contract(want[r])

\* main.py and session.py: no request hangs, through outages, a full pool and
\* connections that die: each that arrives is answered.
EveryRequestAnswered ==
  \A r \in Request : InFlight(r) ~> Answered(r)

\* schemas/pagination.py: a tampered cursor gives a 400 or an unexpected page,
\* never an unhandled exception.
TamperedCursorIs400 ==
  \A r \in Request :
    Answered(r) /\ fate[r] = "calm" /\ "foreign_cursor" \in want[r].flaws
      => status[r] \in {200, 400}

\* docs/API_CONTRACT.md, table of endpoints: the readiness endpoint answers 200
\* or 503, whatever the database does meanwhile.
ReadinessIs200Or503 ==
  \A r \in Request :
    Answered(r) /\ want[r].route = "ready" => status[r] \in {200, 503}
=============================================================================
