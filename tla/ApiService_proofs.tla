-------------------------- MODULE ApiService_proofs --------------------------
(***************************************************************************)
(* The safety of the API, for any number of processes, requests, names,    *)
(* deaths and connections and any set of deployments: Typed is inductive,  *)
(* the pool bound with it; ProcessInv is inductive relative to Typed and   *)
(* RequestInv relative to both; and RequestInv gives the safety properties.*)
(* Most steps change one request and nothing of the database: what such a  *)
(* step may do is stated once, as Move.  The last part is what             *)
(* EveryRequestIsAnswered rests on besides fairness: requests wind down and*)
(* do not wait in a circle, and what a client was told stands.             *)
(***************************************************************************)
EXTENDS ApiService, FiniteSetTheorems, TLAPS

USE DEF installed, database, serving

Codes == {"NOT_FOUND", "CONFLICT", "VALIDATION_ERROR", "UNAUTHENTICATED",
          "PROVIDER_NOT_CONFIGURED", "MODEL_UNAVAILABLE"}

\* What a step of one request keeps to, that neither inserts nor commits.
Move(r, rec) ==
  /\ r \in DOMAIN requests /\ rec \in Request
  /\ requests' = [requests EXCEPT ![r] = rec]
  /\ UNCHANGED <<installed, database, process, kills>>
  /\ bound' = bound \/ bound' = [bound EXCEPT ![r] = NoId]
  /\ \/ lines' = lines
     \/ \E e \in Events : /\ lines' = lines \cup {Line(r, e)}
                          /\ e = "unhandled.exception" \/ bound[r] = r
  /\ rec.process = requests[r].process /\ rec.call = requests[r].call
  /\ rec.connection =>
       requests[r].connection \/ Connections(requests[r].process) < PoolSize
  /\ RecordOK(r, rec, bound'[r])
  /\ Holding(rec) => Holding(requests[r])
  /\ Settled(requests[r]) => Settled(rec)

\* The status of every error the routes raise.
LEMMA Statuses ==
  ASSUME NEW code \in Codes
  PROVE  /\ StatusFor(code) \in Nat \ {201}
         /\ StatusFor(code) = 409 => code = "CONFLICT"
<1>1. DOMAIN ExplicitStatus = {"NOT_FOUND", "CONFLICT", "VALIDATION_ERROR", "UNAUTHENTICATED",
                               "FORBIDDEN", "RATE_LIMITED", "UNSUPPORTED_MEDIA_TYPE",
                               "PAYLOAD_TOO_LARGE"}
  BY DEF ExplicitStatus
<1>2. DOMAIN StatusByCode = {"MODEL_RATE_LIMIT", "MODEL_TIMEOUT", "MODEL_UNAVAILABLE",
                             "MODEL_CONTEXT_EXCEEDED", "PROVIDER_NOT_CONFIGURED"}
  BY DEF StatusByCode
<1> QED BY <1>1, <1>2 DEF Codes, StatusFor, ExplicitStatus, StatusByCode

\* A domain error is enveloped and logged under the request's own id.
LEMMA RejectMoves ==
  ASSUME Typed, RequestInv, NEW r \in DOMAIN requests, NEW code \in Codes,
         requests[r].pc \in {"routed", "connected", "calling"},
         Reject(r, code) \/ Reply(r, Enveloped(r, code)),
         code = "CONFLICT" => Taken("development", requests[r].call.name)
  PROVE  Move(r, Enveloped(r, code))
<1> DEFINE rec == Enveloped(r, code)
<1>1. requests[r] \in Request /\ RecordOK(r, requests[r], bound[r]) /\ bound[r] = r
  BY DEF Typed, RequestInv, RecordOK, Named
<1>2. StatusFor(code) \in Nat \ {201} /\ (StatusFor(code) = 409 => code = "CONFLICT")
  BY Statuses
<1>3. rec = [requests[r] EXCEPT !.pc = "replied", !.connection = FALSE,
                                !.status = StatusFor(code), !.envelope = r]
  BY <1>1 DEF Enveloped
<1>3a. rec \in Request
  <2>1. r \in Requests /\ StatusFor(code) \in Nat
    BY <1>2 DEF Typed
  <2> QED BY <1>1, <1>3, <2>1 DEF Request, RequestPoints
<1>4. RecordOK(r, rec, bound[r])
  BY <1>1, <1>2, <1>3 DEF RecordOK, Request, Named
<1>5. ~Holding(rec) /\ Settled(rec) /\ rec.process = requests[r].process
        /\ rec.call = requests[r].call /\ ~rec.connection
  BY <1>1, <1>3 DEF Holding, Settled, Request
<1>6. "app.error" \in Events
  BY DEF Events
<1> QED BY <1>1, <1>3a, <1>4, <1>5, <1>6 DEF Move, Reject, Reply, Becomes

\* A request as most steps change it.
Changed(q, pc, connection, status, caller) ==
  [q EXCEPT !.pc = pc, !.connection = connection, !.status = status, !.caller = caller]

\* It stays one, and keeps what it is not said to change.
LEMMA ChangedIsRequest ==
  ASSUME NEW q \in Request, NEW pc \in RequestPoints, NEW connection \in BOOLEAN,
         NEW status \in Nat, NEW caller \in {"nobody", "anyone", "developer"}
  PROVE  LET rec == Changed(q, pc, connection, status, caller) IN
         /\ rec \in Request
         /\ rec.pc = pc /\ rec.connection = connection /\ rec.status = status
         /\ rec.caller = caller /\ rec.process = q.process /\ rec.call = q.call
         /\ rec.envelope = q.envelope /\ rec.header = q.header
  BY DEF Request, Changed

\* A reply changes it so.
LEMMA RepliedIsChanged ==
  ASSUME NEW r, requests[r] \in Request, NEW status
  PROVE  Replied(r, status) = Changed(requests[r], "replied", FALSE, status, requests[r].caller)
  BY DEF Replied, Changed, Request

\* And only so.
LEMMA RepliedIsRequest ==
  ASSUME NEW r, requests[r] \in Request, NEW status \in Nat
  PROVE  LET q == requests[r]
             rec == Replied(r, status)
         IN /\ rec \in Request
            /\ rec.pc = "replied" /\ ~rec.connection /\ rec.status = status
            /\ rec.caller = q.caller /\ rec.process = q.process /\ rec.call = q.call
            /\ rec.envelope = q.envelope
  BY DEF Request, RequestPoints, Replied

\* A step inside the middlewares that neither raises nor inserts nor commits.
LEMMA ReplyMoves ==
  ASSUME Typed, RequestInv, NEW r \in DOMAIN requests, requests[r].pc \in Named \ {"replied"},
         NEW pc \in Named, NEW connection \in BOOLEAN,
         NEW status \in {requests[r].status, 200, 201, 503},
         NEW caller \in {requests[r].caller, "anyone", "developer"},
         Reply(r, Changed(requests[r], pc, connection, status, caller)),
         connection => requests[r].connection \/ Connections(requests[r].process) < PoolSize,
         caller = "developer" => settings.AUTH_MODE = "disabled",
         pc \in {"opening", "connected"} /\ requests[r].call.endpoint \notin Open =>
           settings.AUTH_MODE = "disabled",
         pc \in {"connected", "calling", "returned"} => connection,
         status = 201 => lateExit \/ status = requests[r].status,
         requests[r].call.endpoint = "create" /\ connection /\ pc \in {"returned", "replied"} =>
           requests[r].connection /\ requests[r].pc = "returned"
  PROVE  Move(r, Changed(requests[r], pc, connection, status, caller))
<1> DEFINE q == requests[r]
           rec == Changed(q, pc, connection, status, caller)
<1>1. q \in Request /\ RecordOK(r, q, bound[r]) /\ bound[r] = r /\ ~Settled(q)
  BY DEF Typed, RequestInv, RecordOK, Named, Settled
<1>2. status \in Nat /\ pc \in RequestPoints /\ caller \in {"nobody", "anyone", "developer"}
  BY <1>1 DEF Request, RequestPoints, Named
<1>3. /\ rec \in Request
      /\ rec.pc = pc /\ rec.connection = connection /\ rec.status = status
      /\ rec.caller = caller /\ rec.process = q.process /\ rec.call = q.call
      /\ rec.envelope = q.envelope
  BY <1>1, <1>2, ChangedIsRequest
<1> HIDE DEF rec
<1>4. RecordOK(r, rec, bound[r])
  BY <1>1, <1>3 DEF RecordOK
<1>5. Holding(rec) => Holding(q)
  BY <1>3 DEF Holding, Named
<1> QED BY <1>1, <1>3, <1>4, <1>5 DEF Move, Reply, Becomes, rec

\* An exception: the connection is given up, and nothing is told.
LEMMA RaiseMoves ==
  ASSUME Typed, RequestInv, NEW r \in DOMAIN requests, requests[r].pc \in Named \ {"replied"},
         Raise(r)
  PROVE  \E rec : Move(r, rec)
<1> DEFINE q == requests[r]
           rec == [q EXCEPT !.pc = "raising", !.connection = FALSE]
<1>1. q \in Request /\ RecordOK(r, q, bound[r]) /\ ~Settled(q)
  BY DEF Typed, RequestInv, Named, Settled
<1>2. /\ rec \in Request
      /\ rec.pc = "raising" /\ ~rec.connection /\ rec.status = q.status
      /\ rec.caller = q.caller /\ rec.process = q.process /\ rec.call = q.call
      /\ rec.envelope = q.envelope
  BY <1>1 DEF Request, RequestPoints
<1>3. Reply(r, rec)
  BY ONLY Raise(r) DEF Raise
<1> HIDE DEF rec
<1>4. RecordOK(r, rec, bound[r])
  BY <1>1, <1>2 DEF RecordOK, Named
<1>5. ~Holding(rec)
  BY <1>2 DEF Holding
<1>6. Move(r, rec)
  BY <1>1, <1>2, <1>3, <1>4, <1>5 DEF Reply, Becomes, Move
<1> QED BY ONLY <1>6

\* So it is with a reply that needs no session, or is made behind it.
LEMMA AnswerMoves ==
  ASSUME Typed, RequestInv, NEW r \in DOMAIN requests, requests[r].pc \in Named \ {"replied"},
         NEW status \in {200, 503}, Reply(r, Replied(r, status))
  PROVE  \E rec : Move(r, rec)
<1> DEFINE q == requests[r]
           rec == Replied(r, status)
<1>1. q \in Request /\ RecordOK(r, q, bound[r]) /\ ~Settled(q)
  BY DEF Typed, RequestInv, Named, Settled
<1>2. /\ rec \in Request
      /\ rec.pc = "replied" /\ ~rec.connection /\ rec.status = status
      /\ rec.caller = q.caller /\ rec.process = q.process /\ rec.call = q.call
      /\ rec.envelope = q.envelope
  <2>1. status \in Nat /\ requests[r] \in Request
    BY <1>1
  <2> QED BY ONLY <2>1, RepliedIsRequest
<1> HIDE DEF rec
<1>3. RecordOK(r, rec, bound[r])
  BY <1>1, <1>2 DEF RecordOK, Named
<1>4. ~Holding(rec)
  BY <1>2 DEF Holding
<1>5. Move(r, rec)
  BY <1>1, <1>2, <1>3, <1>4 DEF Reply, Becomes, Move, rec
<1> QED BY ONLY <1>5

\* Routing: who the caller is, and whether a session is opened.
LEMMA RoutedMoves ==
  ASSUME Typed, RequestInv, NEW r \in Requests,
         \/ Authenticate(r) \/ Decode(r) \/ OpenSession(r) \/ AnswerAtOnce(r) \/ CallStub(r)
  PROVE  \E rec : Move(r, rec)
<1> DEFINE q == requests[r]
<1>1. /\ r \in DOMAIN requests /\ q.pc = "routed"
      /\ q \in Request /\ RecordOK(r, q, bound[r])
  BY DEF Authenticate, Decode, OpenSession, AnswerAtOnce, CallStub, At, Arrived, Typed, RequestInv
<1>2. q.connection \in BOOLEAN /\ "routed" \in Named \ {"replied"}
  BY <1>1 DEF Request, Named
<1>3. Caller(r) = "developer" => settings.AUTH_MODE = "disabled"
  BY DEF Caller
<1>4. Caller(r) = "anyone" <=> q.call.endpoint \in Open
  BY DEF Caller
<1>5. CASE Authenticate(r)
  <2>1. Move(r, Enveloped(r, "UNAUTHENTICATED"))
    BY <1>1, <1>5, RejectMoves DEF Authenticate, Codes
  <2> QED BY <2>1
<1>6. CASE Decode(r) \/ CallStub(r)
  <2>1. Raise(r)
    BY ONLY <1>6 DEF Decode, CallStub
  <2>2. r \in DOMAIN requests /\ requests[r].pc \in Named \ {"replied"}
    BY ONLY <1>1, <1>2
  <2> QED BY ONLY Typed, RequestInv, <2>1, <2>2, RaiseMoves
<1>7. CASE OpenSession(r)
  <2> DEFINE rec == Changed(q, "opening", q.connection, q.status, Caller(r))
  <2>1. Reply(r, rec) /\ "opening" \in Named
    BY <1>1, <1>7 DEF OpenSession, Changed, Request, Named
  <2>2. Caller(r) \in {q.caller, "anyone", "developer"}
    BY <1>7 DEF OpenSession
  <2>3. q.call.endpoint \notin Open => settings.AUTH_MODE = "disabled"
    BY <1>3, <1>4, <1>7 DEF OpenSession
  <2>4. Move(r, rec)
    BY <1>1, <1>2, <1>3, <2>1, <2>2, <2>3, ReplyMoves
  <2> QED BY <2>4
<1>8. CASE AnswerAtOnce(r)
  <2>1. CASE \E code \in {"NOT_FOUND", "VALIDATION_ERROR"} : Reply(r, Enveloped(r, code))
    <3>1. PICK code \in {"NOT_FOUND", "VALIDATION_ERROR"} : Reply(r, Enveloped(r, code))
      BY <2>1
    <3>2. Move(r, Enveloped(r, code))
      BY <1>1, <3>1, RejectMoves DEF Codes
    <3> QED BY <3>2
  <2>2. CASE Reply(r, Replied(r, 200)) /\ q.call.endpoint = "health"
    <3>1. PICK status \in {200, 503} : status = 200
      OBVIOUS
    <3>2. Reply(r, Replied(r, status)) /\ status \in {200, 503}
      BY ONLY <2>2, <3>1
    <3>3. r \in DOMAIN requests /\ requests[r].pc \in Named \ {"replied"}
      BY ONLY <1>1, <1>2
    <3> QED BY ONLY Typed, RequestInv, <3>2, <3>3, AnswerMoves
  <2> QED BY <1>8, <2>1, <2>2 DEF AnswerAtOnce
<1> QED BY <1>5, <1>6, <1>7, <1>8

\* A connection of the pool, if there is one left.
LEMMA ConnectMoves ==
  ASSUME Typed, RequestInv, NEW r \in Requests, Connect(r)
  PROVE  Move(r, [requests[r] EXCEPT !.pc = "connected", !.connection = TRUE])
<1> DEFINE q == requests[r]
           rec == [q EXCEPT !.pc = "connected", !.connection = TRUE]
<1>1. r \in DOMAIN requests /\ q.pc = "opening" /\ q \in Request
        /\ RecordOK(r, q, bound[r]) /\ Connections(q.process) < PoolSize
  BY DEF Connect, At, Arrived, Typed, RequestInv
<1>2. /\ rec \in Request
      /\ rec.pc = "connected" /\ rec.connection /\ rec.status = q.status
      /\ rec.caller = q.caller /\ rec.process = q.process /\ rec.call = q.call
      /\ rec.envelope = q.envelope
  BY <1>1 DEF Request, RequestPoints
<1>3. RecordOK(r, rec, bound[r])
  BY <1>1, <1>2 DEF RecordOK, Named
<1>4. ~Holding(rec) /\ ~Settled(q)
  BY <1>1, <1>2 DEF Holding, Settled
<1> QED BY <1>1, <1>2, <1>3, <1>4 DEF Connect, Reply, Becomes, Move

Stayed(q, pc, status) == [q EXCEPT !.pc = pc, !.status = status]

\* A request as it changes while it keeps its connection.
LEMMA StayedIsRequest ==
  ASSUME NEW q \in Request, NEW pc \in RequestPoints, NEW status \in Nat
  PROVE  LET rec == Stayed(q, pc, status) IN
         /\ rec \in Request
         /\ rec.pc = pc /\ rec.connection = q.connection /\ rec.status = status
         /\ rec.caller = q.caller /\ rec.process = q.process /\ rec.call = q.call
         /\ rec.envelope = q.envelope
  BY DEF Request, Stayed

\* A step that leaves the connection where it is.
LEMMA StayMoves ==
  ASSUME Typed, RequestInv, NEW r \in DOMAIN requests,
         requests[r].pc \in {"connected", "returned"},
         NEW pc \in {"calling", "returned", "replied"},
         NEW status \in {requests[r].status, 200, 201},
         Reply(r, Stayed(requests[r], pc, status)),
         requests[r].pc = "connected" => requests[r].call.endpoint # "create" /\ pc # "replied",
         status = 201 => lateExit \/ status = requests[r].status
  PROVE  Move(r, Stayed(requests[r], pc, status))
<1> DEFINE q == requests[r]
           rec == Stayed(q, pc, status)
<1>1. q \in Request /\ RecordOK(r, q, bound[r]) /\ bound[r] = r /\ ~Settled(q) /\ q.connection
  BY DEF Typed, RequestInv, RecordOK, Named, Settled
<1>2. status \in Nat /\ pc \in RequestPoints
  BY <1>1 DEF Request, RequestPoints
<1>3. /\ rec \in Request
      /\ rec.pc = pc /\ rec.connection = q.connection /\ rec.status = status
      /\ rec.caller = q.caller /\ rec.process = q.process /\ rec.call = q.call
      /\ rec.envelope = q.envelope
  <2>1. q \in Request
    BY <1>1
  <2> QED BY ONLY <1>2, <2>1, StayedIsRequest
<1> HIDE DEF rec
<1>4. RecordOK(r, rec, bound[r])
  BY <1>1, <1>3 DEF RecordOK, Named
<1>5. Holding(rec) => Holding(q)
  BY <1>1, <1>3 DEF Holding
<1> QED BY <1>1, <1>3, <1>4, <1>5 DEF Reply, Becomes, Move, rec

\* The routes, unless they insert.
LEMMA RouteMoves ==
  ASSUME Typed, RequestInv, NEW r \in Requests,
         \/ ListProjects(r) \/ ReadProject(r) \/ StartQuery(r) \/ EndQuery(r) \/ Probe(r)
  PROVE  \E rec : Move(r, rec)
<1> DEFINE q == requests[r]
           staying(pc, status) == Stayed(q, pc, status)
<1>1. /\ r \in DOMAIN requests /\ q.pc \in {"connected", "calling"} /\ q \in Request
      /\ q.pc \in Named \ {"replied"}
  BY DEF ListProjects, ReadProject, StartQuery, EndQuery, Probe, Works, At, Arrived, Typed, Named
<1>3. ASSUME NEW pc \in RequestPoints
      PROVE  [q EXCEPT !.pc = pc] = staying(pc, q.status)
  BY <1>1 DEF Request, Stayed
<1>4. CASE ListProjects(r)
  <2>1. Reply(r, staying("returned", q.status)) /\ q.pc = "connected"
          /\ q.call.endpoint # "create"
    BY <1>3, <1>4 DEF ListProjects, Works, At, RequestPoints
  <2>2. Move(r, staying("returned", q.status))
    BY <1>1, <2>1, StayMoves
  <2> QED BY <2>2
<1>5. CASE ReadProject(r)
  <2>1. CASE Reply(r, [q EXCEPT !.pc = "returned"])
    <3>1. Reply(r, staying("returned", q.status)) /\ q.pc = "connected"
            /\ q.call.endpoint # "create"
      BY <1>3, <1>5, <2>1 DEF ReadProject, Works, At, RequestPoints
    <3>2. Move(r, staying("returned", q.status))
      BY <1>1, <3>1, StayMoves
    <3> QED BY <3>2
  <2>2. CASE Reject(r, "NOT_FOUND")
    <3>1. Move(r, Enveloped(r, "NOT_FOUND"))
      BY <1>1, <2>2, RejectMoves DEF Codes
    <3> QED BY <3>1
  <2> QED BY <1>5, <2>1, <2>2 DEF ReadProject
<1>6. CASE StartQuery(r)
  <2>1. CASE Reply(r, [q EXCEPT !.pc = "calling"])
    <3>1. Reply(r, staying("calling", q.status)) /\ q.pc = "connected"
            /\ q.call.endpoint # "create"
      BY <1>3, <1>6, <2>1 DEF StartQuery, Works, At, RequestPoints
    <3>2. Move(r, staying("calling", q.status))
      BY <1>1, <3>1, StayMoves
    <3> QED BY <3>2
  <2>2. CASE \E code \in {"NOT_FOUND", "PROVIDER_NOT_CONFIGURED"} : Reject(r, code)
    <3>1. PICK code \in {"NOT_FOUND", "PROVIDER_NOT_CONFIGURED"} : Reject(r, code)
      BY <2>2
    <3>2. Move(r, Enveloped(r, code))
      BY <1>1, <3>1, RejectMoves DEF Codes
    <3> QED BY <3>2
  <2> QED BY <1>6, <2>1, <2>2 DEF StartQuery
<1>6a. ASSUME NEW status \in {200, 503}, Reply(r, Replied(r, status))
       PROVE  \E rec : Move(r, rec)
  <2>1. r \in DOMAIN requests /\ requests[r].pc \in Named \ {"replied"}
    BY ONLY <1>1
  <2> QED BY ONLY Typed, RequestInv, <1>6a, <2>1, AnswerMoves
<1>7. CASE EndQuery(r)
  <2>1. CASE Reply(r, Replied(r, 200))
    BY ONLY <1>6a, <2>1
  <2>2. CASE Reject(r, "MODEL_UNAVAILABLE")
    <3>1. Move(r, Enveloped(r, "MODEL_UNAVAILABLE"))
      BY <1>1, <2>2, RejectMoves DEF Codes
    <3> QED BY <3>1
  <2> QED BY <1>7, <2>1, <2>2 DEF EndQuery
<1>8. CASE Probe(r)
  <2>1. PICK redis \in BOOLEAN : Reply(r, Replied(r, IF redis THEN 200 ELSE 503))
    BY ONLY <1>8 DEF Probe
  <2>2. PICK status \in {200, 503} : status = IF redis THEN 200 ELSE 503
    OBVIOUS
  <2>3. Reply(r, Replied(r, status)) /\ status \in {200, 503}
    BY ONLY <2>1, <2>2
  <2> QED BY ONLY <1>6a, <2>3
<1> QED BY <1>4, <1>5, <1>6, <1>7, <1>8

\* A create that finds the name taken, and nothing else, is a conflict.
LEMMA ConflictMoves ==
  ASSUME Typed, RequestInv, NEW r \in Requests, Works(r, "create"), Reject(r, "CONFLICT"),
         Taken("development", requests[r].call.name) \/ rows # PrincipalRows
  PROVE  Move(r, Enveloped(r, "CONFLICT"))
<1>1. r \in DOMAIN requests /\ requests[r].pc = "connected" /\ requests[r].call.endpoint = "create"
  BY DEF Works, At, Arrived
<1>2. "create" \notin Open
  BY DEF Open
<1>3. settings.AUTH_MODE = "disabled"
  BY <1>1, <1>2 DEF RequestInv, RecordOK
<1>4. Taken("development", requests[r].call.name)
  BY <1>1, <1>3 DEF RequestInv
<1> QED BY <1>1, <1>4, RejectMoves DEF Codes

\* The database or the pool does not answer: raised, or told by the probe.
LEMMA LoseDatabaseMoves ==
  ASSUME Typed, RequestInv, NEW r \in Requests, LoseDatabase(r)
  PROVE  \E rec : Move(r, rec)
<1> DEFINE q == requests[r]
<1>1. r \in DOMAIN requests /\ q \in Request /\ q.pc \in Named \ {"replied"}
  BY DEF LoseDatabase, At, Arrived, Typed, Named
<1>1a. r \in DOMAIN requests /\ requests[r].pc \in Named \ {"replied"}
  BY ONLY <1>1
<1>2. CASE Reply(r, Replied(r, 503))
  <2>1. PICK status \in {200, 503} : status = 503
    OBVIOUS
  <2>2. Reply(r, Replied(r, status)) /\ status \in {200, 503}
    BY ONLY <1>2, <2>1
  <2> QED BY ONLY Typed, RequestInv, <1>1a, <2>2, AnswerMoves
<1>3. CASE Raise(r)
  BY ONLY Typed, RequestInv, <1>1a, <1>3, RaiseMoves
<1> QED BY <1>2, <1>3 DEF LoseDatabase

\* A response before its commit, and a commit that fails.
LEMMA RespondMoves ==
  ASSUME Typed, RequestInv, NEW r \in Requests, RespondFirst(r) \/ LoseCommit(r)
  PROVE  \E rec : Move(r, rec)
<1> DEFINE q == requests[r]
<1>1. /\ r \in DOMAIN requests /\ q \in Request /\ RecordOK(r, q, bound[r])
      /\ q.pc \in {"returned", "sent"}
  BY DEF RespondFirst, LoseCommit, At, Arrived, Typed, RequestInv
<1>2. CASE RespondFirst(r)
  <2>1. PICK status \in {200, 201} : status = Success(r)
    BY DEF Success
  <2>2. q.pc = "returned" /\ lateExit
          /\ Reply(r, [Replied(r, status) EXCEPT !.connection = q.connection])
    BY <1>2, <2>1 DEF RespondFirst, At
  <2>3. [Replied(r, status) EXCEPT !.connection = q.connection]
          = Stayed(q, "replied", status)
    BY <1>1 DEF Replied, Stayed, Request
  <2>4. Reply(r, Stayed(q, "replied", status))
    BY <2>2, <2>3
  <2>4a. /\ q.pc \in {"connected", "returned"} /\ q.pc # "connected"
         /\ status \in {q.status, 200, 201} /\ "replied" \in {"calling", "returned", "replied"}
    BY <2>1, <2>2
  <2>4b. /\ q.pc = "connected" => q.call.endpoint # "create" /\ "replied" # "replied"
         /\ status = 201 => lateExit \/ status = q.status
    BY <2>2, <2>4a
  <2>5. Move(r, Stayed(q, "replied", status))
    BY <1>1, <2>4, <2>4a, <2>4b, StayMoves
  <2> QED BY <2>5
<1>3. CASE q.pc = "returned" /\ Raise(r)
  <2>1. r \in DOMAIN requests /\ requests[r].pc \in Named \ {"replied"}
    BY ONLY <1>1, <1>3 DEF Named
  <2>2. Raise(r)
    BY ONLY <1>3
  <2> QED BY ONLY Typed, RequestInv, <2>1, <2>2, RaiseMoves
<1>4. CASE LoseCommit(r) /\ q.pc = "sent"
  <2> DEFINE rec == [q EXCEPT !.pc = "done", !.connection = FALSE]
  <2>1. /\ rec \in Request
        /\ rec.pc = "done" /\ ~rec.connection /\ rec.status = q.status
        /\ rec.caller = q.caller /\ rec.process = q.process /\ rec.call = q.call
        /\ rec.envelope = q.envelope
    BY <1>1 DEF Request, RequestPoints
  <2>2. RecordOK(r, rec, bound[r])
    BY <1>1, <2>1 DEF RecordOK, Named
  <2>3. ~Holding(rec) /\ ~Settled(q)
    BY <1>4, <2>1 DEF Holding, Settled
  <2>4. "unhandled.exception" \in Events
    BY DEF Events
  <2>5. Move(r, rec)
    BY <1>1, <1>4, <2>1, <2>2, <2>3, <2>4 DEF Move, LoseCommit, At, Becomes
  <2> QED BY <2>5
<1> QED BY <1>2, <1>3, <1>4, <1>1 DEF LoseCommit, At

\* A request of which the client has been told.
Answered(q, status, id) == [q EXCEPT !.pc = "done", !.status = status, !.envelope = id]

\* Being answered changes nothing else of a request.
LEMMA AnsweredIsRequest ==
  ASSUME NEW q \in Request, NEW status \in Nat, NEW id \in Requests \cup {NoId}
  PROVE  LET rec == Answered(q, status, id) IN
         /\ rec \in Request
         /\ rec.pc = "done" /\ rec.connection = q.connection /\ rec.status = status
         /\ rec.caller = q.caller /\ rec.process = q.process /\ rec.call = q.call
  BY DEF Request, RequestPoints, Answered

\* The way out through the middlewares, and the handler behind them.
LEMMA DepartMoves ==
  ASSUME Typed, RequestInv, NEW r \in Requests, Depart(r) \/ Escape(r) \/ HandleEscaped(r)
  PROVE  \E rec : Move(r, rec)
<1> DEFINE q == requests[r]
<1>1. /\ r \in DOMAIN requests /\ q \in Request /\ RecordOK(r, q, bound[r])
      /\ bound[r] \in Requests \cup {NoId}
  BY DEF Depart, Escape, HandleEscaped, At, Arrived, Typed, RequestInv
<1>2. {"request.completed", "request.failed", "unhandled.exception"} \subseteq Events
  BY DEF Events
<1>3. CASE Depart(r)
  <2> DEFINE pc == IF q.connection THEN "sent" ELSE "done"
             rec == [q EXCEPT !.header = r, !.pc = pc]
  <2>1. pc \in {"sent", "done"} /\ q.pc = "replied" /\ bound[r] = r
    BY <1>1, <1>3 DEF Depart, At, RecordOK, Named
  <2>2. /\ rec \in Request
        /\ rec.pc = pc /\ rec.connection = q.connection /\ rec.status = q.status
        /\ rec.caller = q.caller /\ rec.process = q.process /\ rec.call = q.call
        /\ rec.envelope = q.envelope
    BY <1>1, <2>1 DEF Request, RequestPoints
  <2>3. \A id : RecordOK(r, rec, id)
    BY <1>1, <2>1, <2>2 DEF RecordOK, Named
  <2>4. (Holding(rec) => Holding(q)) /\ (Settled(q) => Settled(rec))
    BY <2>1, <2>2 DEF Holding, Settled
  <2>5. Move(r, rec)
    BY <1>1, <1>2, <1>3, <2>1, <2>2, <2>3, <2>4 DEF Move, Depart, Becomes
  <2> QED BY <2>5
<1>4. CASE Escape(r)
  <2> DEFINE rec == [q EXCEPT !.pc = "escaped"]
  <2>1. q.pc = "raising" /\ bound[r] = r
    BY <1>1, <1>4 DEF Escape, At, RecordOK, Named
  <2>2. /\ rec \in Request
        /\ rec.pc = "escaped" /\ rec.connection = q.connection /\ rec.status = q.status
        /\ rec.caller = q.caller /\ rec.process = q.process /\ rec.call = q.call
        /\ rec.envelope = q.envelope
    BY <1>1 DEF Request, RequestPoints
  <2>3. \A id : RecordOK(r, rec, id)
    BY <1>1, <2>2 DEF RecordOK, Named
  <2>4. ~Holding(rec) /\ ~Settled(q)
    BY <2>1, <2>2 DEF Holding, Settled
  <2>5. Move(r, rec)
    BY <1>1, <1>2, <1>4, <2>1, <2>2, <2>3, <2>4 DEF Move, Escape, Becomes
  <2> QED BY <2>5
<1>5. CASE HandleEscaped(r)
  <2>0. PICK status \in Nat : status = 500
    OBVIOUS
  <2> DEFINE rec == Answered(q, status, bound[r])
  <2>1. q.pc = "escaped"
    BY <1>5 DEF HandleEscaped, At
  <2>2. /\ rec \in Request
        /\ rec.pc = "done" /\ rec.connection = q.connection /\ rec.status = status
        /\ rec.caller = q.caller /\ rec.process = q.process /\ rec.call = q.call
    BY <1>1, AnsweredIsRequest
  <2> HIDE DEF rec
  <2>3. RecordOK(r, rec, bound[r])
    BY <1>1, <2>0, <2>2 DEF RecordOK, Named
  <2>4. ~Holding(rec) /\ ~Settled(q)
    BY <2>1, <2>2 DEF Holding, Settled
  <2>5. requests' = [requests EXCEPT ![r] = rec]
    BY <1>5, <2>0 DEF HandleEscaped, Becomes, Answered, rec
  <2>6. Move(r, rec)
    BY <1>1, <1>2, <1>5, <2>2, <2>3, <2>4, <2>5 DEF Move, HandleEscaped
  <2> QED BY <2>6
<1> QED BY <1>3, <1>4, <1>5
-----------------------------------------------------------------------------
(* What Move preserves.                                                    *)

\* After a move one request is different, and one binding at most.
LEMMA AfterMove ==
  ASSUME Typed, NEW r, NEW rec, Move(r, rec)
  PROVE  /\ DOMAIN requests' = DOMAIN requests /\ requests'[r] = rec
         /\ \A q \in DOMAIN requests \ {r} : requests'[q] = requests[q] /\ bound'[q] = bound[q]
         /\ r \in Requests /\ bound' \in [Requests -> Requests \cup {NoId}]
         /\ UNCHANGED <<settings, lateExit, rows, projects, process, kills>>
<1>1. r \in Requests /\ DOMAIN requests \subseteq Requests
        /\ bound \in [Requests -> Requests \cup {NoId}]
  BY DEF Typed, Move
<1>2. requests' = [requests EXCEPT ![r] = rec] /\ r \in DOMAIN requests
  BY DEF Move
<1>3. bound' = bound \/ bound' = [bound EXCEPT ![r] = NoId]
  BY DEF Move
<1>4. UNCHANGED <<settings, lateExit, rows, projects, process, kills>>
  BY DEF Move
<1> QED BY <1>1, <1>2, <1>3, <1>4

\* A move keeps the types.
LEMMA MoveTyped ==
  ASSUME Typed, NEW r, NEW rec, Move(r, rec)
  PROVE  Typed'
<1>1. /\ DOMAIN requests' = DOMAIN requests /\ requests'[r] = rec /\ rec \in Request
      /\ \A q \in DOMAIN requests \ {r} : requests'[q] = requests[q]
      /\ r \in Requests /\ bound' \in [Requests -> Requests \cup {NoId}]
      /\ UNCHANGED <<settings, lateExit, rows, projects, process, kills>>
  BY AfterMove DEF Move
<1>2. lines' \subseteq [request : Requests, event : Events, request_id : Requests \cup {NoId}]
  <2>1. ASSUME NEW e \in Events, lines' = lines \cup {Line(r, e)}
        PROVE  lines' \subseteq [request : Requests, event : Events,
                                 request_id : Requests \cup {NoId}]
    BY <1>1, <2>1 DEF Typed, Line
  <2> QED BY <2>1 DEF Move, Typed
<1>3. \A q \in DOMAIN requests' : requests'[q] \in Request
  BY <1>1 DEF Typed
<1> QED BY <1>1, <1>2, <1>3 DEF Typed

\* The connections of a process: there are finitely many requests.
Bounded == IsFiniteSet(DOMAIN requests) /\ PoolIsBounded

\* A move takes a connection only when the pool has one.
LEMMA MoveBounded ==
  ASSUME Typed, Bounded, NEW r, NEW rec, Move(r, rec)
  PROVE  Bounded'
<1> DEFINE Of(a) == {q \in DOMAIN requests : requests[q].process = a /\ requests[q].connection}
<1>1. /\ DOMAIN requests' = DOMAIN requests /\ requests'[r] = rec /\ r \in DOMAIN requests
      /\ \A q \in DOMAIN requests \ {r} : requests'[q] = requests[q]
      /\ rec.process = requests[r].process
      /\ rec.connection =>
           requests[r].connection \/ Connections(requests[r].process) < PoolSize
  BY AfterMove DEF Move
<1>2. ASSUME NEW a \in Processes
      PROVE  Connections(a)' <= PoolSize
  <2>1. IsFiniteSet(Of(a)) /\ Cardinality(Of(a)) \in Nat /\ PoolSize \in Nat
    BY FS_Subset, FS_CardinalityType, ServiceAssumption DEF Bounded
  <2>2. Cardinality(Of(a)) <= PoolSize
    BY DEF Bounded, PoolIsBounded, Connections
  <2>3. CASE requests[r].process = a /\ ~requests[r].connection /\ rec.connection
    <3>1. Of(a)' = Of(a) \cup {r} /\ r \notin Of(a)
      BY <1>1, <2>3
    <3>2. Cardinality(Of(a)') = Cardinality(Of(a)) + 1
      BY <2>1, <3>1, FS_AddElement
    <3>3. Cardinality(Of(a)) < PoolSize
      BY <1>1, <2>3 DEF Connections
    <3> QED BY <2>1, <3>2, <3>3 DEF Connections
  <2>4. CASE ~(requests[r].process = a /\ ~requests[r].connection /\ rec.connection)
    <3>1. Of(a)' \subseteq Of(a)
      BY <1>1, <2>4
    <3>2. Cardinality(Of(a)') <= Cardinality(Of(a)) /\ Cardinality(Of(a)') \in Nat
      BY <2>1, <3>1, FS_Subset, FS_CardinalityType
    <3> QED BY <2>1, <2>2, <3>2 DEF Connections
  <2> QED BY <2>3, <2>4
<1> QED BY <1>1, <1>2 DEF Bounded, PoolIsBounded

\* A move keeps what is known of the requests.
LEMMA MoveInv ==
  ASSUME Typed, RequestInv, NEW r, NEW rec, Move(r, rec)
  PROVE  RequestInv'
<1>1. /\ DOMAIN requests' = DOMAIN requests /\ requests'[r] = rec /\ r \in DOMAIN requests
      /\ \A q \in DOMAIN requests \ {r} : requests'[q] = requests[q] /\ bound'[q] = bound[q]
      /\ UNCHANGED <<settings, lateExit, rows, projects, process>>
  BY AfterMove DEF Move
<1>2. ASSUME NEW q \in DOMAIN requests'
      PROVE  RecordOK(q, requests[q], bound[q])'
  <2>1. CASE q = r
    <3>1. RecordOK(r, rec, bound'[r])
      BY DEF Move
    <3> QED BY <1>1, <2>1, <3>1 DEF RecordOK, Taken
  <2>2. CASE q # r
    <3>1. RecordOK(q, requests[q], bound[q])
      BY <1>1 DEF RequestInv
    <3> QED BY <1>1, <2>2, <3>1 DEF RecordOK, Taken
  <2> QED BY <2>1, <2>2
<1>3. ASSUME NEW q \in DOMAIN projects' \cap Requests
      PROVE  Arrived(q)' /\ Settled(requests[q])'
  <2>1. q \in DOMAIN requests /\ Settled(requests[q])
    BY <1>1 DEF RequestInv, Arrived
  <2>2. Settled(requests[r]) => Settled(rec)
    BY DEF Move
  <2> QED BY <1>1, <2>1, <2>2 DEF Arrived, Settled
<1>4. \A q \in DOMAIN requests :
        (Inserting(q)' => Inserting(q)) /\ requests'[q].call.name = requests[q].call.name
  <2>1. Holding(rec) => Holding(requests[r])
    BY DEF Move
  <2>2. rec.call = requests[r].call
    BY DEF Move
  <2> QED BY <1>1, <2>1, <2>2 DEF Inserting, Arrived, Holding
<1>5. ASSUME NEW q \in DOMAIN requests', Inserting(q)'
      PROVE  /\ ~Taken("development", requests[q].call.name)'
             /\ \A p \in DOMAIN requests' \ {q} :
                  Inserting(p)' => requests'[p].call.name # requests'[q].call.name
  <2>1. /\ Inserting(q) /\ ~Taken("development", requests[q].call.name)
        /\ \A p \in DOMAIN requests \ {q} :
             Inserting(p) => requests[p].call.name # requests[q].call.name
    BY <1>1, <1>4, <1>5 DEF RequestInv
  <2> QED BY <1>1, <1>4, <2>1 DEF Taken
<1>6. ASSUME NEW l \in lines', l.event # "unhandled.exception"
      PROVE  l.request_id = l.request
  <2>1. CASE l \in lines
    BY <1>6, <2>1 DEF RequestInv
  <2>2. CASE l \notin lines
    <3>1. PICK e \in Events : l = Line(r, e) /\ (e = "unhandled.exception" \/ bound[r] = r)
      BY <2>2 DEF Move
    <3> QED BY <1>6, <3>1 DEF Line
  <2> QED BY <2>1, <2>2
<1>7. /\ DOMAIN requests' # {} => /\ Accepts(settings)'
                                  /\ settings'.AUTH_MODE = "disabled" => rows' = PrincipalRows
      /\ NamesAreUnique'
  BY <1>1 DEF RequestInv, NamesAreUnique, Accepts, HasKey
<1> QED BY <1>2, <1>3, <1>5, <1>6, <1>7 DEF RequestInv
-----------------------------------------------------------------------------
(* The steps of a request that insert or commit, and all the others.       *)

\* The INSERT that succeeds.
Inserts(r) ==
  /\ Works(r, "create")
  /\ \A q \in DOMAIN requests \ {r} : Inserting(q) => requests[q].call.name # requests[r].call.name
  /\ ~Taken("development", requests[r].call.name)
  /\ Reply(r, [requests[r] EXCEPT !.pc = "returned"])

\* Every step of a request is a move, but for the INSERT and the COMMIT.
LEMMA StepMoves ==
  ASSUME Typed, RequestInv, NEW r \in Requests, RequestStep(r) \/ RequestFault(r)
  PROVE  \/ \E rec : Move(r, rec)
         \/ Inserts(r) \/ CommitSession(r) \/ CommitLate(r)
<1>1. CASE Authenticate(r) \/ Decode(r) \/ OpenSession(r) \/ AnswerAtOnce(r) \/ CallStub(r)
  BY <1>1, RoutedMoves
<1>2. CASE Connect(r)
  BY <1>2, ConnectMoves
<1>3. CASE RespondFirst(r) \/ LoseCommit(r)
  BY <1>3, RespondMoves
<1>4. CASE Depart(r) \/ Escape(r) \/ HandleEscaped(r)
  BY <1>4, DepartMoves
<1>5. CASE ListProjects(r) \/ ReadProject(r) \/ StartQuery(r) \/ EndQuery(r) \/ Probe(r)
  BY <1>5, RouteMoves
<1>6. CASE LoseDatabase(r)
  BY <1>6, LoseDatabaseMoves
<1>7. CASE InsertProject(r)
  <2>1. Works(r, "create")
    BY <1>7 DEF InsertProject
  <2>2. CASE Taken("development", requests[r].call.name) \/ rows # PrincipalRows
    <3>1. Reject(r, "CONFLICT")
      BY <1>7, <2>2 DEF InsertProject
    <3> QED BY <2>1, <2>2, <3>1, ConflictMoves
  <2>3. CASE ~(Taken("development", requests[r].call.name) \/ rows # PrincipalRows)
    BY <1>7, <2>3 DEF InsertProject, Inserts
  <2> QED BY <2>2, <2>3
<1> QED BY <1>1, <1>2, <1>3, <1>4, <1>5, <1>6, <1>7
        DEF RequestStep, ScopeStep, RouteStep, RequestFault

\* An INSERT only moves its request on; what it inserts nobody else does.
LEMMA InsertKeeps ==
  ASSUME Typed, Bounded, RequestInv, NEW r \in Requests, Inserts(r)
  PROVE  Typed' /\ Bounded' /\ RequestInv'
<1> DEFINE q == requests[r]
           rec == Stayed(q, "returned", q.status)
<1>1. /\ r \in DOMAIN requests /\ q \in Request /\ RecordOK(r, q, bound[r])
      /\ q.pc = "connected" /\ q.call.endpoint = "create"
      /\ ~Taken("development", q.call.name)
      /\ \A p \in DOMAIN requests \ {r} : Inserting(p) => requests[p].call.name # q.call.name
  BY DEF Inserts, Works, At, Arrived, Typed, RequestInv
<1>2. /\ rec \in Request
      /\ rec.pc = "returned" /\ rec.connection = q.connection /\ rec.status = q.status
      /\ rec.caller = q.caller /\ rec.process = q.process /\ rec.call = q.call
      /\ rec.envelope = q.envelope
  <2>1. q.status \in Nat /\ "returned" \in RequestPoints
    BY <1>1 DEF Request, RequestPoints
  <2> QED BY <1>1, <2>1, StayedIsRequest
<1>3. /\ requests' = [requests EXCEPT ![r] = rec]
      /\ UNCHANGED <<settings, lateExit, rows, projects, process, bound, lines, kills>>
  BY <1>1 DEF Inserts, Reply, Becomes, Stayed, Request
<1> HIDE DEF rec
<1>4. /\ DOMAIN requests' = DOMAIN requests /\ requests'[r] = rec
      /\ \A p \in DOMAIN requests \ {r} : requests'[p] = requests[p]
  BY <1>1, <1>3
<1>5. Typed'
  <2>1. \A p \in DOMAIN requests' : requests'[p] \in Request
    BY <1>2, <1>4 DEF Typed
  <2> QED BY <1>3, <1>4, <2>1 DEF Typed
<1>6. Bounded'
  <2>1. \A p \in DOMAIN requests : /\ requests'[p].process = requests[p].process
                                   /\ requests'[p].connection = requests[p].connection
    BY <1>1, <1>2, <1>4
  <2>2. \A a : Connections(a)' = Connections(a)
    BY <1>4, <2>1 DEF Connections
  <2> QED BY <1>4, <2>2 DEF Bounded, PoolIsBounded
<1>7. RequestInv'
  <2>1. ASSUME NEW p \in DOMAIN requests'
        PROVE  RecordOK(p, requests[p], bound[p])'
    <3>1. CASE p = r
      BY <1>1, <1>2, <1>3, <1>4, <3>1 DEF RecordOK, Taken, Named
    <3>2. CASE p # r
      <4>1. RecordOK(p, requests[p], bound[p])
        BY <1>4 DEF RequestInv
      <4> QED BY <1>3, <1>4, <3>2, <4>1 DEF RecordOK, Taken
    <3> QED BY <3>1, <3>2
  <2>2. \A p \in DOMAIN projects' \cap Requests : Arrived(p)' /\ Settled(requests[p])'
    <3>1. ~Settled(q)
      BY <1>1 DEF Settled
    <3> QED BY <1>3, <1>4, <3>1 DEF RequestInv, Arrived, Settled
  <2>3. \A p \in DOMAIN requests \ {r} : Inserting(p)' = Inserting(p)
    BY <1>4 DEF Inserting, Arrived, Holding
  <2>4. ASSUME NEW p \in DOMAIN requests', Inserting(p)'
        PROVE  /\ ~Taken("development", requests[p].call.name)'
               /\ \A o \in DOMAIN requests' \ {p} :
                    Inserting(o)' => requests'[o].call.name # requests'[p].call.name
    <3>1. CASE p = r
      BY <1>1, <1>2, <1>3, <1>4, <2>3, <3>1 DEF Taken
    <3>2. CASE p # r
      <4>1. /\ Inserting(p) /\ ~Taken("development", requests[p].call.name)
            /\ requests[p].call.name # q.call.name
            /\ \A o \in DOMAIN requests \ {p} :
                 Inserting(o) => requests[o].call.name # requests[p].call.name
        BY <1>1, <1>4, <2>3, <2>4, <3>2 DEF RequestInv
      <4> QED BY <1>1, <1>2, <1>3, <1>4, <2>3, <3>2, <4>1 DEF Taken
    <3> QED BY <3>1, <3>2
  <2>5. /\ DOMAIN requests' # {} => /\ Accepts(settings)'
                                    /\ settings'.AUTH_MODE = "disabled" => rows' = PrincipalRows
        /\ \A l \in lines' : l.event # "unhandled.exception" => l.request_id = l.request
        /\ NamesAreUnique'
    BY <1>3, <1>4 DEF RequestInv, NamesAreUnique, Accepts, HasKey
  <2> QED BY <2>1, <2>2, <2>4, <2>5 DEF RequestInv
<1> QED BY <1>5, <1>6, <1>7

\* A commit, before the response or after it.
Commits(r, pc, status) ==
  /\ r \in DOMAIN requests /\ requests[r].pc \in {"returned", "sent"}
  /\ pc \in {"replied", "done"} /\ (pc = "replied" => bound[r] = r)
  /\ status \in {requests[r].status, 200, 201}
  /\ status = 201 => status = requests[r].status \/ Inserting(r)
  /\ projects' = Insert(r)
  /\ Becomes(r, Changed(requests[r], pc, FALSE, status, requests[r].caller))
  /\ UNCHANGED <<settings, lateExit, rows, process, bound, lines, kills>>

\* Both of get_db_session's ways to commit are one.
LEMMA CommitsEither ==
  ASSUME Typed, RequestInv, NEW r \in Requests, CommitSession(r) \/ CommitLate(r)
  PROVE  \E pc, status : Commits(r, pc, status)
<1> DEFINE q == requests[r]
<1>1. r \in DOMAIN requests /\ q \in Request /\ RecordOK(r, q, bound[r])
  BY DEF CommitSession, CommitLate, At, Arrived, Typed, RequestInv
<1>2. CASE CommitSession(r)
  <2>1. q.pc = "returned" /\ bound[r] = r /\ q.connection
    BY <1>1, <1>2 DEF CommitSession, At, RecordOK, Named
  <2>2. Success(r) \in {200, 201} /\ (Success(r) = 201 => Inserting(r))
    BY <1>1, <2>1 DEF Success, Inserting, Arrived, Holding
  <2>3. Becomes(r, Changed(q, "replied", FALSE, Success(r), q.caller))
    BY <1>1, <1>2, RepliedIsChanged DEF CommitSession
  <2>4. Commits(r, "replied", Success(r))
    BY <1>1, <1>2, <2>1, <2>2, <2>3 DEF CommitSession, Commits
  <2> QED BY <2>4
<1>3. CASE CommitLate(r)
  <2>1. Becomes(r, Changed(q, "done", FALSE, q.status, q.caller))
    BY <1>1, <1>3 DEF CommitLate, Becomes, Changed, Request
  <2>2. Commits(r, "done", q.status)
    BY <1>1, <1>3, <2>1 DEF CommitLate, At, Commits
  <2> QED BY <2>2
<1> QED BY <1>2, <1>3

\* What a commit makes of the projects.
LEMMA AfterCommit ==
  ASSUME Typed, RequestInv, NEW r, NEW pc, NEW status, Commits(r, pc, status)
  PROVE  LET q == requests[r] IN
         /\ DOMAIN projects' = DOMAIN projects \cup {p \in {r} : Inserting(r)}
         /\ \A p \in DOMAIN projects : projects'[p] = projects[p]
         /\ Inserting(r) =>
              /\ r \in DOMAIN projects' \ DOMAIN projects
              /\ projects'[r] = [organization |-> "development", name |-> q.call.name]
              /\ projects'[r] \in Project
         /\ \A n : Taken("development", n)' <=>
                     Taken("development", n) \/ (Inserting(r) /\ n = q.call.name)
<1> DEFINE q == requests[r]
<1>1. r \in DOMAIN requests /\ q \in Request /\ projects' = Insert(r) /\ r \in Requests
  BY DEF Commits, Typed
<1>2. CASE ~Inserting(r)
  BY <1>1, <1>2 DEF Insert, Taken
<1>3. CASE Inserting(r)
  <2>1. r \notin DOMAIN projects
    BY <1>1, <1>3 DEF RequestInv, Settled, Inserting, Holding
  <2>2. /\ DOMAIN projects' = DOMAIN projects \cup {r}
        /\ \A p \in DOMAIN projects : projects'[p] = projects[p]
        /\ projects'[r] = [organization |-> "development", name |-> q.call.name]
    BY <1>1, <1>3, <2>1 DEF Insert
  <2>3. q.call.name \in Names
    BY <1>1, CallAssumption DEF Request, Call
  <2>4. projects'[r] \in Project
    BY <2>2, <2>3 DEF Project, Organizations
  <2>5. ASSUME NEW n
        PROVE  Taken("development", n)' <=> Taken("development", n) \/ n = q.call.name
    BY <2>1, <2>2 DEF Taken
  <2> QED BY <1>3, <2>1, <2>2, <2>4, <2>5
<1> QED BY <1>2, <1>3

\* A commit stores a project nobody else has, and settles its request.
LEMMA CommitKeeps ==
  ASSUME Typed, Bounded, RequestInv, NEW r, NEW pc, NEW status, Commits(r, pc, status)
  PROVE  Typed' /\ Bounded' /\ RequestInv'
<1> DEFINE q == requests[r]
           rec == Changed(q, pc, FALSE, status, q.caller)
<1>1. /\ r \in DOMAIN requests /\ r \in Requests /\ q \in Request /\ RecordOK(r, q, bound[r])
      /\ pc \in {"replied", "done"} /\ (pc = "replied" => bound[r] = r)
      /\ status \in {q.status, 200, 201}
      /\ status = 201 => status = q.status \/ Inserting(r)
  BY DEF Commits, Typed, RequestInv
<1>2. /\ rec \in Request
      /\ rec.pc = pc /\ rec.connection = FALSE /\ rec.status = status
      /\ rec.caller = q.caller /\ rec.process = q.process /\ rec.call = q.call
      /\ rec.envelope = q.envelope
  <2>1. pc \in RequestPoints /\ status \in Nat
    BY <1>1 DEF Request, RequestPoints
  <2>2. PICK closed \in BOOLEAN : closed = FALSE
    OBVIOUS
  <2>3. q \in Request /\ q.caller \in {"nobody", "anyone", "developer"}
    BY <1>1 DEF Request
  <2>4. LET then == Changed(q, pc, closed, status, q.caller) IN
        /\ then \in Request
        /\ then.pc = pc /\ then.connection = closed /\ then.status = status
        /\ then.caller = q.caller /\ then.process = q.process /\ then.call = q.call
        /\ then.envelope = q.envelope
    BY ONLY <2>1, <2>3, closed \in BOOLEAN, ChangedIsRequest
  <2> QED BY <2>2, <2>4
<1>3. /\ requests' = [requests EXCEPT ![r] = rec]
      /\ UNCHANGED <<settings, lateExit, rows, process, bound, lines, kills>>
  BY DEF Commits, Becomes
<1> HIDE DEF rec
<1>4. /\ DOMAIN requests' = DOMAIN requests /\ requests'[r] = rec
      /\ \A p \in DOMAIN requests \ {r} : requests'[p] = requests[p]
  BY <1>1, <1>3
<1>5. /\ DOMAIN projects' = DOMAIN projects \cup {p \in {r} : Inserting(r)}
      /\ \A p \in DOMAIN projects : projects'[p] = projects[p]
      /\ Inserting(r) =>
           /\ r \in DOMAIN projects' \ DOMAIN projects
           /\ projects'[r] = [organization |-> "development", name |-> q.call.name]
           /\ projects'[r] \in Project
      /\ \A n : Taken("development", n)' <=>
                  Taken("development", n) \/ (Inserting(r) /\ n = q.call.name)
  BY AfterCommit
<1>6. Typed'
  <2>1. \A p \in DOMAIN requests' : requests'[p] \in Request
    BY <1>2, <1>4 DEF Typed
  <2>2. /\ DOMAIN projects' \subseteq Requests \cup {Foreign}
        /\ \A p \in DOMAIN projects' : projects'[p] \in Project
    BY <1>1, <1>5 DEF Typed
  <2> QED BY <1>3, <1>4, <2>1, <2>2 DEF Typed
<1>7. Bounded'
  <2> DEFINE Of(a) == {p \in DOMAIN requests : requests[p].process = a /\ requests[p].connection}
  <2>1. ASSUME NEW a \in Processes
        PROVE  Connections(a)' <= PoolSize
    <3>1. IsFiniteSet(Of(a)) /\ Cardinality(Of(a)) \in Nat /\ PoolSize \in Nat
      BY FS_Subset, FS_CardinalityType, ServiceAssumption DEF Bounded
    <3>2. Cardinality(Of(a)) <= PoolSize
      BY DEF Bounded, PoolIsBounded, Connections
    <3>3. Of(a)' \subseteq Of(a)
      BY <1>2, <1>4
    <3>4. Cardinality(Of(a)') <= Cardinality(Of(a)) /\ Cardinality(Of(a)') \in Nat
      BY <3>1, <3>3, FS_Subset, FS_CardinalityType
    <3> QED BY <3>1, <3>2, <3>4 DEF Connections
  <2> QED BY <1>4, <2>1 DEF Bounded, PoolIsBounded
<1>8. RequestInv'
  <2>1. ASSUME NEW p \in DOMAIN requests'
        PROVE  RecordOK(p, requests[p], bound[p])'
    <3>1. CASE p = r
      <4>1. status = 201 => r \in DOMAIN projects' \/ lateExit
        BY <1>1, <1>5 DEF RecordOK
      <4>2. requests'[p].status = 409 => Taken("development", requests[p].call.name)'
        BY <1>1, <1>2, <1>4, <1>5, <3>1 DEF RecordOK
      <4>3. status \notin {0, 200, 201, 500, 503} => q.envelope = r
        BY <1>1 DEF RecordOK
      <4>4. rec.caller = "developer" => settings.AUTH_MODE = "disabled"
        BY <1>1, <1>2 DEF RecordOK
      <4>5. requests'[p] = rec /\ bound'[p] = bound[r] /\ rec.pc \in {"replied", "done"}
        BY <1>1, <1>2, <1>3, <1>4, <3>1
      <4> QED BY <1>1, <1>2, <1>3, <3>1, <4>1, <4>2, <4>3, <4>4, <4>5 DEF RecordOK, Named
    <3>2. CASE p # r
      <4>1. RecordOK(p, requests[p], bound[p])
        BY <1>4 DEF RequestInv
      <4>2. requests[p].status = 409 => Taken("development", requests[p].call.name)'
        BY <1>4, <1>5, <3>2, <4>1 DEF RecordOK
      <4>3. requests[p].status = 201 => p \in DOMAIN projects' \/ lateExit
        BY <1>5, <4>1 DEF RecordOK
      <4>4. requests'[p] = requests[p] /\ bound'[p] = bound[p]
        BY <1>3, <1>4, <3>2
      <4> QED BY <1>3, <4>1, <4>2, <4>3, <4>4 DEF RecordOK
    <3> QED BY <3>1, <3>2
  <2>2. ASSUME NEW p \in DOMAIN projects' \cap Requests
        PROVE  Arrived(p)' /\ Settled(requests[p])'
    <3>1. CASE p = r
      BY <1>1, <1>2, <1>4, <3>1 DEF Arrived, Settled
    <3>2. CASE p # r
      BY <1>4, <1>5, <3>2 DEF RequestInv, Arrived, Settled
    <3> QED BY <3>1, <3>2
  <2>3. ~Inserting(r)' /\ \A p \in DOMAIN requests \ {r} : Inserting(p)' = Inserting(p)
    BY <1>2, <1>4 DEF Inserting, Arrived, Holding
  <2>4. ASSUME NEW p \in DOMAIN requests', Inserting(p)'
        PROVE  /\ ~Taken("development", requests[p].call.name)'
               /\ \A o \in DOMAIN requests' \ {p} :
                    Inserting(o)' => requests'[o].call.name # requests'[p].call.name
    <3>1. /\ p # r /\ Inserting(p) /\ ~Taken("development", requests[p].call.name)
          /\ \A o \in DOMAIN requests \ {p} :
               Inserting(o) => requests[o].call.name # requests[p].call.name
      BY <1>4, <2>3, <2>4 DEF RequestInv
    <3>2. requests'[p] = requests[p]
      BY <1>4, <3>1
    <3>3. ~Taken("development", requests[p].call.name)'
      BY <1>1, <1>5, <3>1, <3>2
    <3> QED BY <1>4, <2>3, <3>1, <3>2, <3>3
  <2>5. NamesAreUnique'
    <3>1. NamesAreUnique
      BY DEF RequestInv
    <3>2. Inserting(r) => ~Taken("development", q.call.name)
      BY <1>1 DEF RequestInv
    <3> QED BY <1>5, <3>1, <3>2 DEF NamesAreUnique, Taken
  <2>6. /\ DOMAIN requests' # {} => /\ Accepts(settings)'
                                    /\ settings'.AUTH_MODE = "disabled" => rows' = PrincipalRows
        /\ \A l \in lines' : l.event # "unhandled.exception" => l.request_id = l.request
    BY <1>3, <1>4 DEF RequestInv, Accepts, HasKey
  <2> QED BY <2>1, <2>2, <2>4, <2>5, <2>6 DEF RequestInv
<1> QED BY <1>6, <1>7, <1>8
-----------------------------------------------------------------------------
(* Processes: what they do before they serve, and their deaths.            *)

\* A process that starts touches no request; the rows it commits are complete.
LEMMA StartKeeps ==
  ASSUME Typed, Bounded, ProcessInv, RequestInv, NEW a \in Processes, Launch(a) \/ StartStep(a)
  PROVE  Typed' /\ Bounded' /\ ProcessInv' /\ RequestInv'
<1>1. /\ UNCHANGED <<settings, lateExit, projects, requests, bound, lines, kills>>
      /\ rows' = rows \/ rows' = PrincipalRows
  BY DEF Launch, StartStep, FindOrganization, InsertOrganization, FindUser, CommitRows
<1>2. PICK pc \in Points : Moves(a, pc)
  BY DEF Launch, StartStep, FindOrganization, InsertOrganization, FindUser, CommitRows, Points
<1>3. process' = [process EXCEPT ![a] = pc] /\ process \in [Processes -> Points]
  BY <1>2 DEF Moves, Typed
<1>4. Typed'
  BY <1>1, <1>3 DEF Typed, PrincipalRows
<1>5. Bounded'
  BY <1>1 DEF Bounded, PoolIsBounded, Connections
<1>6. ProcessInv'
  <2>1. /\ rows \in {{}, {"organization"}, PrincipalRows}
        /\ \A b \in Processes :
             /\ process[b] \in Up => Accepts(settings)
             /\ process[b] \in {"unseeded", "inserting"} => rows # {"organization"}
             /\ In(b, "beaten") => rows = PrincipalRows
             /\ In(b, "serving") /\ settings.AUTH_MODE = "disabled" => rows = PrincipalRows
    BY DEF ProcessInv
  <2>2. {} # {"organization"} /\ PrincipalRows # {} /\ PrincipalRows # {"organization"}
          /\ "user" \notin {"organization"} /\ "organization" \in PrincipalRows
          /\ "user" \in PrincipalRows
    BY DEF PrincipalRows
  <2>3. /\ process'[a] \in Up => Accepts(settings)
        /\ process'[a] \in {"unseeded", "inserting"} => rows' # {"organization"}
        /\ process'[a] = "beaten" => rows' = PrincipalRows
        /\ process'[a] = "serving" /\ settings.AUTH_MODE = "disabled" => rows' = PrincipalRows
    <3>1. CASE Launch(a)
      BY <1>3, <2>1, <2>2, <3>1 DEF Launch, Moves, Up, In
    <3>2. CASE FindOrganization(a)
      BY <1>3, <2>1, <2>2, <3>2 DEF FindOrganization, Moves, Up, In
    <3>3. CASE InsertOrganization(a)
      BY <1>3, <2>1, <2>2, <3>3 DEF InsertOrganization, Moves, Up, In
    <3>4. CASE FindUser(a)
      BY <1>3, <2>1, <2>2, <3>4 DEF FindUser, Moves, Up, In
    <3>5. CASE CommitRows(a)
      BY <1>3, <2>1, <2>2, <3>5 DEF CommitRows, Moves, Up, In
    <3> QED BY <3>1, <3>2, <3>3, <3>4, <3>5 DEF StartStep
  <2>4. \A b \in Processes \ {a} : process'[b] = process[b]
    BY <1>3
  <2>5. rows' \in {{}, {"organization"}, PrincipalRows}
    BY <1>1, <2>1
  <2>6. Accepts(settings)' <=> Accepts(settings)
    BY <1>1 DEF Accepts, HasKey
  <2> QED BY <1>1, <2>1, <2>2, <2>3, <2>4, <2>5, <2>6 DEF ProcessInv, In
<1>7. RequestInv'
  BY <1>1 DEF RequestInv, RecordOK, Taken, Arrived, Settled, Inserting, Holding, NamesAreUnique,
              Accepts, HasKey
<1> QED BY <1>4, <1>5, <1>6, <1>7

\* A request arrives at a process that has been accepted and has the rows.
LEMMA ArriveKeeps ==
  ASSUME Typed, Bounded, ProcessInv, RequestInv, NEW r \in Requests, NEW a \in Processes,
         Arrive(r, a)
  PROVE  Typed' /\ Bounded' /\ RequestInv'
<1>1. PICK c \in Calls : requests' =
        [q \in DOMAIN requests \cup {r} |-> IF q # r THEN requests[q] ELSE
          [process |-> a, call |-> c, pc |-> "routed", connection |-> FALSE,
           caller |-> "nobody", status |-> 0, envelope |-> NoId, header |-> NoId]]
  BY DEF Arrive
<1>2. /\ r \notin DOMAIN requests /\ DOMAIN requests' = DOMAIN requests \cup {r}
      /\ \A q \in DOMAIN requests : requests'[q] = requests[q]
      /\ bound' = [bound EXCEPT ![r] = r] /\ bound \in [Requests -> Requests \cup {NoId}]
      /\ UNCHANGED <<settings, lateExit, rows, projects, process, lines, kills>>
  BY <1>1 DEF Arrive, Arrived, BindContext, Typed
<1>3. LET rec == requests'[r] IN
      /\ rec \in Request /\ rec.pc = "routed" /\ rec.connection = FALSE
      /\ rec.caller = "nobody" /\ rec.status = 0
  BY <1>1 DEF Request, RequestPoints
<1>4. bound'[r] = r /\ \A q \in DOMAIN requests : bound'[q] = bound[q]
  BY <1>2 DEF Typed
<1>5. Typed'
  <2>1. \A q \in DOMAIN requests' : requests'[q] \in Request
    BY <1>2, <1>3 DEF Typed
  <2>2. bound' \in [Requests -> Requests \cup {NoId}] /\ DOMAIN requests' \subseteq Requests
    BY <1>2 DEF Typed
  <2> QED BY <1>2, <2>1, <2>2 DEF Typed
<1>6. Bounded'
  <2>1. \A b : Connections(b)' = Connections(b)
    BY <1>2, <1>3 DEF Connections
  <2>2. IsFiniteSet(DOMAIN requests')
    BY <1>2, FS_AddElement DEF Bounded
  <2> QED BY <2>1, <2>2 DEF Bounded, PoolIsBounded
<1>7. RequestInv'
  <2>1. Accepts(settings) /\ (settings.AUTH_MODE = "disabled" => rows = PrincipalRows)
    <3>1. process[a] = "serving" /\ "serving" \in Up
      BY DEF Arrive, In, Up
    <3> QED BY <3>1 DEF ProcessInv, In
  <2>2. ASSUME NEW q \in DOMAIN requests'
        PROVE  RecordOK(q, requests[q], bound[q])'
    <3>1. CASE q = r
      BY <1>2, <1>3, <1>4, <3>1 DEF RecordOK
    <3>2. CASE q # r
      <4>1. RecordOK(q, requests[q], bound[q])
        BY <1>2, <3>2 DEF RequestInv
      <4> QED BY <1>2, <1>4, <3>2, <4>1 DEF RecordOK, Taken
    <3> QED BY <3>1, <3>2
  <2>3. \A q \in DOMAIN projects' \cap Requests : Arrived(q)' /\ Settled(requests[q])'
    BY <1>2 DEF RequestInv, Arrived, Settled
  <2>4. ~Inserting(r)' /\ \A q \in DOMAIN requests : Inserting(q)' = Inserting(q)
    BY <1>2, <1>3 DEF Inserting, Arrived, Holding
  <2>5. \A q \in DOMAIN requests' : Inserting(q)' =>
          /\ ~Taken("development", requests[q].call.name)'
          /\ \A p \in DOMAIN requests' \ {q} :
               Inserting(p)' => requests'[p].call.name # requests'[q].call.name
    BY <1>2, <2>4 DEF RequestInv, Taken
  <2> QED BY <1>2, <2>1, <2>2, <2>3, <2>5 DEF RequestInv, NamesAreUnique, Accepts, HasKey
<1> QED BY <1>5, <1>6, <1>7

\* A request whose process has died.
Ended(q, status, id) ==
  [q EXCEPT !.pc = "lost", !.connection = FALSE, !.status = status, !.envelope = id]

\* Dying changes nothing else of a request.
LEMMA EndedIsRequest ==
  ASSUME NEW q \in Request, NEW status \in Nat, NEW id \in Requests \cup {NoId}
  PROVE  LET rec == Ended(q, status, id) IN
         /\ rec \in Request
         /\ rec.pc = "lost" /\ rec.connection = FALSE /\ rec.caller = q.caller
         /\ rec.process = q.process /\ rec.call = q.call
         /\ rec.status = status /\ rec.envelope = id
  BY DEF Request, RequestPoints, Ended

\* A death only takes away: connections, what is not committed, what is not told.
LEMMA KillKeeps ==
  ASSUME Typed, Bounded, ProcessInv, RequestInv, NEW a \in Processes, Kill(a)
  PROVE  Typed' /\ Bounded' /\ ProcessInv' /\ RequestInv'
<1> DEFINE Dead == {r \in DOMAIN requests : requests[r].process = a /\ requests[r].pc # "done"}
<1>1. /\ requests' = [r \in DOMAIN requests |-> IF r \notin Dead THEN requests[r] ELSE Cut(r)]
      /\ bound' = [r \in Requests |-> IF r \in Dead THEN NoId ELSE bound[r]]
      /\ process' = [process EXCEPT ![a] = "off"] /\ kills < MaxKills /\ kills' = kills + 1
      /\ UNCHANGED <<settings, lateExit, rows, projects, lines>>
  BY DEF Kill, Moves
<1>2. ASSUME NEW r \in Dead
      PROVE  LET q == requests[r] IN
             /\ Cut(r) \in Request
             /\ Cut(r).pc = "lost" /\ Cut(r).connection = FALSE /\ Cut(r).caller = q.caller
             /\ Cut(r).process = q.process /\ Cut(r).call = q.call
             /\ \/ Cut(r).status = 0
                \/ Cut(r).status = q.status /\ Cut(r).envelope = q.envelope
  <2> DEFINE q == requests[r]
  <2>1. q \in Request
    BY DEF Typed
  <2>2. q.status \in Nat /\ q.envelope \in Requests \cup {NoId}
    BY <2>1 DEF Request
  <2>3. PICK zero \in Nat : zero = 0
    OBVIOUS
  <2>4. CASE q.pc = "sent"
    <3>1. Cut(r) = Ended(q, q.status, q.envelope)
      BY <2>1, <2>4 DEF Cut, Ended, Request
    <3>2. PICK status \in Nat : status = q.status
      BY ONLY <2>2
    <3>3. PICK id \in Requests \cup {NoId} : id = q.envelope
      BY ONLY <2>2
    <3>4. LET rec == Ended(q, status, id) IN
          /\ rec \in Request
          /\ rec.pc = "lost" /\ rec.connection = FALSE /\ rec.caller = q.caller
          /\ rec.process = q.process /\ rec.call = q.call
          /\ rec.status = status /\ rec.envelope = id
      BY ONLY <2>1, status \in Nat, id \in Requests \cup {NoId}, EndedIsRequest
    <3>5. Cut(r) = Ended(q, status, id)
      BY ONLY <3>1, <3>2, <3>3
    <3> QED BY ONLY <3>2, <3>3, <3>4, <3>5
  <2>5. CASE q.pc # "sent"
    <3>1. Cut(r) = Ended(q, zero, NoId)
      BY <2>1, <2>3, <2>5 DEF Cut, Ended, Request
    <3>2. NoId \in Requests \cup {NoId}
      OBVIOUS
    <3>3. LET rec == Ended(q, zero, NoId) IN
          /\ rec \in Request
          /\ rec.pc = "lost" /\ rec.connection = FALSE /\ rec.caller = q.caller
          /\ rec.process = q.process /\ rec.call = q.call
          /\ rec.status = zero /\ rec.envelope = NoId
      BY ONLY <2>1, <3>2, zero \in Nat, EndedIsRequest
    <3> QED BY <2>3, <3>1, <3>3
  <2> QED BY <2>4, <2>5
<1>3. /\ DOMAIN requests' = DOMAIN requests /\ DOMAIN requests \subseteq Requests
      /\ \A r \in DOMAIN requests \ Dead : requests'[r] = requests[r] /\ bound'[r] = bound[r]
      /\ \A r \in Dead : requests'[r] = Cut(r)
  BY <1>1 DEF Typed
<1> HIDE DEF Dead
<1>3a. Dead \subseteq DOMAIN requests
  BY DEF Dead
<1>4. Typed'
  <2>1. \A r \in DOMAIN requests' : requests'[r] \in Request
    BY <1>2, <1>3 DEF Typed
  <2>2. bound' \in [Requests -> Requests \cup {NoId}]
    BY <1>1 DEF Typed
  <2>3. process' \in [Processes -> Points] /\ kills' \in 0..MaxKills
    BY <1>1, ServiceAssumption DEF Typed, Points
  <2> QED BY <1>1, <1>3, <2>1, <2>2, <2>3 DEF Typed
<1>5. Bounded'
  <2> DEFINE Of(b) == {q \in DOMAIN requests : requests[q].process = b /\ requests[q].connection}
  <2>1. ASSUME NEW b \in Processes
        PROVE  Connections(b)' <= PoolSize
    <3>1. IsFiniteSet(Of(b)) /\ Cardinality(Of(b)) \in Nat /\ PoolSize \in Nat
      BY FS_Subset, FS_CardinalityType, ServiceAssumption DEF Bounded
    <3>2. Cardinality(Of(b)) <= PoolSize
      BY DEF Bounded, PoolIsBounded, Connections
    <3>3. Of(b)' \subseteq Of(b)
      BY <1>2, <1>3
    <3>4. Cardinality(Of(b)') <= Cardinality(Of(b)) /\ Cardinality(Of(b)') \in Nat
      BY <3>1, <3>3, FS_Subset, FS_CardinalityType
    <3> QED BY <3>1, <3>2, <3>4 DEF Connections
  <2> QED BY <1>3, <2>1 DEF Bounded, PoolIsBounded
<1>6. ProcessInv'
  <2>1. process' \in [Processes -> Points] /\ process'[a] = "off"
        /\ \A b \in Processes \ {a} : process'[b] = process[b]
    BY <1>1 DEF Typed, Points
  <2>2. Accepts(settings)' <=> Accepts(settings)
    BY <1>1 DEF Accepts, HasKey
  <2> QED BY <1>1, <2>1, <2>2 DEF ProcessInv, In, Up
<1>7. RequestInv'
  <2>1. ASSUME NEW r \in DOMAIN requests'
        PROVE  RecordOK(r, requests[r], bound[r])'
    <3>1. RecordOK(r, requests[r], bound[r])
      BY <1>3 DEF RequestInv
    <3>2. CASE r \in Dead
      <4>1. /\ Cut(r).pc = "lost" /\ Cut(r).connection = FALSE
            /\ Cut(r).caller = requests[r].caller /\ Cut(r).call = requests[r].call
            /\ \/ Cut(r).status = 0
               \/ Cut(r).status = requests[r].status /\ Cut(r).envelope = requests[r].envelope
        BY <1>2, <3>2
      <4>2. requests'[r] = Cut(r)
        BY <1>3, <3>2
      <4> QED BY <1>1, <3>1, <4>1, <4>2 DEF RecordOK, Taken, Named
    <3>3. CASE r \notin Dead
      BY <1>1, <1>3, <3>1, <3>3 DEF RecordOK, Taken
    <3> QED BY <3>2, <3>3
  <2>2. \A r \in DOMAIN projects' \cap Requests : Arrived(r)' /\ Settled(requests[r])'
    BY <1>1, <1>2, <1>3 DEF RequestInv, Arrived, Settled
  <2>3. ASSUME NEW r \in DOMAIN requests
        PROVE  /\ Inserting(r)' => Inserting(r)
               /\ requests'[r].call = requests[r].call
    <3>1. CASE r \in Dead
      <4>1. requests'[r] = Cut(r) /\ Cut(r).pc = "lost" /\ Cut(r).call = requests[r].call
        BY <1>2, <1>3, <3>1
      <4> QED BY ONLY <4>1 DEF Inserting, Arrived, Holding
    <3>2. CASE r \notin Dead
      <4>1. requests'[r] = requests[r]
        BY <1>3, <3>2
      <4> QED BY ONLY <1>3, <4>1, r \in DOMAIN requests DEF Inserting, Arrived, Holding
    <3> QED BY ONLY <3>1, <3>2
  <2>4. ASSUME NEW r \in DOMAIN requests', Inserting(r)'
        PROVE  /\ ~Taken("development", requests[r].call.name)'
               /\ \A q \in DOMAIN requests' \ {r} :
                    Inserting(q)' => requests'[q].call.name # requests'[r].call.name
    <3>1. r \in DOMAIN requests /\ Inserting(r) /\ requests'[r].call = requests[r].call
      BY ONLY <1>3, <2>3, <2>4
    <3>2. /\ ~Taken("development", requests[r].call.name)
          /\ \A q \in DOMAIN requests \ {r} :
               Inserting(q) => requests[q].call.name # requests[r].call.name
      BY ONLY RequestInv, <3>1 DEF RequestInv
    <3>3. projects' = projects
      BY ONLY <1>1
    <3>4. ~Taken("development", requests[r].call.name)'
      BY ONLY <3>1, <3>2, <3>3 DEF Taken
    <3>5. ASSUME NEW q \in DOMAIN requests' \ {r}, Inserting(q)'
          PROVE  requests'[q].call.name # requests'[r].call.name
      <4>1. q \in DOMAIN requests \ {r} /\ Inserting(q) /\ requests'[q].call = requests[q].call
        BY ONLY <1>3, <2>3, <3>5
      <4> QED BY ONLY <3>1, <3>2, <4>1
    <3> QED BY ONLY <3>4, <3>5
  <2>5. /\ DOMAIN requests' # {} =>
             /\ Accepts(settings)'
             /\ settings'.AUTH_MODE = "disabled" => rows' = PrincipalRows
        /\ \A l \in lines' : l.event # "unhandled.exception" => l.request_id = l.request
        /\ NamesAreUnique'
    BY <1>1, <1>3 DEF RequestInv, NamesAreUnique, Accepts, HasKey
  <2> QED BY ONLY <2>1, <2>2, <2>4, <2>5 DEF RequestInv
<1> QED BY <1>4, <1>5, <1>6, <1>7
-----------------------------------------------------------------------------
(* The theorems.                                                           *)

\* The inductive invariant.
Sound == Typed /\ Bounded /\ ProcessInv /\ RequestInv

\* It holds before anything has started.
LEMMA SoundAtFirst ==
  ASSUME Init
  PROVE  Sound
<1>1. (CHOOSE n \in Names : TRUE) \in Names
  BY ServiceAssumption
<1>2. DOMAIN requests = {} /\ lines = {} /\ bound = [r \in Requests |-> NoId] /\ kills = 0
        /\ process = [a \in Processes |-> "off"] /\ Foreign \notin Requests
  BY ServiceAssumption DEF Init
<1>3. DOMAIN projects = {Foreign} /\ projects[Foreign] \in Project
  BY <1>1 DEF Init, Project, Organizations
<1>4. Typed
  <2>1. rows \subseteq PrincipalRows /\ settings \in Deployments /\ lateExit \in BOOLEAN
    BY DEF Init, PrincipalRows
  <2>2. /\ process \in [Processes -> Points] /\ kills \in 0..MaxKills
        /\ bound \in [Requests -> Requests \cup {NoId}]
    BY <1>2, ServiceAssumption DEF Points
  <2> QED BY <1>2, <1>3, <2>1, <2>2 DEF Typed
<1>5. Bounded
  <2>1. \A a : Connections(a) = 0
    BY <1>2, FS_EmptySet DEF Connections
  <2> QED BY <1>2, <2>1, FS_EmptySet, ServiceAssumption DEF Bounded, PoolIsBounded
<1>6. ProcessInv
  BY <1>2 DEF ProcessInv, Init, Up, In
<1>7. RequestInv
  BY <1>2, <1>3 DEF RequestInv, NamesAreUnique
<1> QED BY <1>4, <1>5, <1>6, <1>7 DEF Sound

\* Every step keeps it.
LEMMA SoundKept ==
  ASSUME Sound, [Next]_vars
  PROVE  Sound'
<1> USE DEF Sound
<1>1. CASE \E a \in Processes : Launch(a) \/ StartStep(a)
  BY <1>1, StartKeeps
<1>2. CASE \E a \in Processes : Kill(a)
  BY <1>2, KillKeeps
<1>3. ASSUME NEW r \in Requests,
             (\E a \in Processes : Arrive(r, a)) \/ RequestStep(r) \/ RequestFault(r)
      PROVE  Sound'
  <2>1. CASE \E a \in Processes : Arrive(r, a)
    <3>1. Typed' /\ Bounded' /\ RequestInv'
      BY <2>1, ArriveKeeps
    <3>2. UNCHANGED <<settings, rows, process>>
      BY <2>1 DEF Arrive
    <3> QED BY <3>1, <3>2 DEF ProcessInv, In, Accepts, HasKey
  <2>2. CASE \E rec : Move(r, rec)
    <3>1. PICK rec : Move(r, rec)
      BY <2>2
    <3>2. Typed' /\ Bounded' /\ RequestInv'
      BY <3>1, MoveTyped, MoveBounded, MoveInv
    <3>3. UNCHANGED <<settings, rows, process>>
      BY <3>1 DEF Move
    <3> QED BY <3>2, <3>3 DEF ProcessInv, In, Accepts, HasKey
  <2>3. CASE Inserts(r)
    <3>1. Typed' /\ Bounded' /\ RequestInv'
      BY <2>3, InsertKeeps
    <3>2. UNCHANGED <<settings, rows, process>>
      BY <2>3 DEF Inserts, Reply
    <3> QED BY <3>1, <3>2 DEF ProcessInv, In, Accepts, HasKey
  <2>4. CASE CommitSession(r) \/ CommitLate(r)
    <3>1. PICK pc, status : Commits(r, pc, status)
      BY <2>4, CommitsEither
    <3>2. Typed' /\ Bounded' /\ RequestInv'
      BY <3>1, CommitKeeps
    <3>3. UNCHANGED <<settings, rows, process>>
      BY <3>1 DEF Commits
    <3> QED BY <3>2, <3>3 DEF ProcessInv, In, Accepts, HasKey
  <2>5. CASE RequestStep(r) \/ RequestFault(r)
    BY <2>2, <2>3, <2>4, <2>5, StepMoves
  <2> QED BY <1>3, <2>1, <2>5
<1>4. CASE UNCHANGED vars
  BY <1>4 DEF vars, Typed, Bounded, PoolIsBounded, Connections, ProcessInv, In, RequestInv,
              RecordOK, Taken, Arrived, Settled, Inserting, Holding, NamesAreUnique, Accepts,
              HasKey
<1> QED BY <1>1, <1>2, <1>3, <1>4 DEF Next

\* What all the others follow from: types and pool, the processes, the requests.
THEOREM ServiceIsSound == Spec => []Sound
<1>1. Init => Sound
  BY SoundAtFirst
<1>2. Sound /\ [Next]_vars => Sound'
  BY SoundKept
<1> QED BY <1>1, <1>2, PTL DEF Spec

\* The state has its types, and a process never more connections than its pool
\* (db/session.py:26-33).
THEOREM TypeCorrect == Spec => []TypeOK
<1>1. Sound => TypeOK
  BY DEF Sound, Bounded, TypeOK
<1> QED BY <1>1, ServiceIsSound, PTL

\* Whoever is told 409 asked for a name that the organization has: no other
\* constraint is mistaken for it (project_service.py:34-37).
THEOREM ConflictsAreDuplicates == Spec => []ConflictMeansDuplicate
<1>1. Sound => ConflictMeansDuplicate
  BY DEF Sound, RequestInv, RecordOK, ConflictMeansDuplicate
<1> QED BY <1>1, ServiceIsSound, PTL

\* However many create a project of one name at once, one is committed
\* (models/project.py:21-23).
THEOREM NamesStayUnique == Spec => []NamesAreUnique
<1>1. Sound => NamesAreUnique
  BY DEF Sound, RequestInv
<1> QED BY <1>1, ServiceIsSound, PTL

\* A process that lost the race to seed the principal found it seeded
\* (bootstrap.py:26-61).
THEOREM LosersFound == Spec => []LosersFindTheRows
<1>1. Sound => LosersFindTheRows
  BY DEF Sound, ProcessInv, LosersFindTheRows
<1> QED BY <1>1, ServiceIsSound, PTL

\* Lines and envelopes carry the id of the request they are about, however
\* requests interleave (request_context.py:19-36, context.py:38-50).
THEOREM LinesAreNamed == Spec => []LinesNameTheirRequest
<1>1. Sound => LinesNameTheirRequest
  BY DEF Sound, RequestInv, RecordOK, LinesNameTheirRequest
<1> QED BY <1>1, ServiceIsSound, PTL

\* A project a client was told is created is committed, unless the session is
\* left after the response (deps.py:30-39).
THEOREM CreatedStays == Spec => []CreatedIsStored
<1>1. Sound => CreatedIsStored
  BY DEF Sound, RequestInv, RecordOK, CreatedIsStored
<1> QED BY <1>1, ServiceIsSound, PTL

\* Production serves nobody as the development principal (deps.py:49-50,
\* config.py:165-213).
THEOREM DeveloperStays == Spec => []DeveloperStaysHome
<1>1. Sound => DeveloperStaysHome
  <2> SUFFICES ASSUME Sound, settings.ENVIRONMENT = "production", NEW r \in DOMAIN requests
               PROVE  requests[r].caller # "developer"
    BY DEF DeveloperStaysHome
  <2>1. Accepts(settings) /\ RecordOK(r, requests[r], bound[r])
    BY DEF Sound, RequestInv
  <2>2. settings.AUTH_MODE # "disabled"
    BY <2>1 DEF Accepts
  <2> QED BY <2>1, <2>2 DEF RecordOK
<1> QED BY <1>1, ServiceIsSound, PTL
-----------------------------------------------------------------------------
(* What EveryRequestIsAnswered rests on besides fairness.  How many points *)
(* a request can at most still go through before it is done.               *)
PointsLeft(pc) ==
  CASE pc = "routed" -> 7
    [] pc = "opening" -> 6
    [] pc = "connected" -> 5
    [] pc = "calling" -> 4
    [] pc = "returned" -> 3
    [] pc \in {"replied", "raising"} -> 2
    [] pc \in {"sent", "escaped"} -> 1
    [] pc \in {"done", "lost"} -> 0

Served(r) == RequestStep(r) \/ RequestFault(r)

(* Whatever a request does or suffers, its own errors and lost connections *)
(* included, takes it on; and nothing others do, nor the death of its      *)
(* process, takes it back: no request is served twice.                     *)
RequestsWindDown ==
  [][\A r \in DOMAIN requests :
       /\ r \in DOMAIN requests'
       /\ PointsLeft(requests'[r].pc) <= PointsLeft(requests[r].pc)
       /\ Served(r) => PointsLeft(requests'[r].pc) < PointsLeft(requests[r].pc)]_vars

(* What a client has been told is not changed by what comes after it: the  *)
(* commit that follows the response, its failure, or the process's death.  *)
Told == {"sent", "done"}

WhatIsToldStands ==
  [][\A r \in DOMAIN requests : requests[r].pc \in Told =>
       /\ r \in DOMAIN requests'
       /\ requests'[r].status = requests[r].status
       /\ requests'[r].envelope = requests[r].envelope
       /\ requests'[r].header = requests[r].header]_vars

\* Whom a request waits for: who has a connection of a full pool, or has inserted the name.
WaitsForConnection(r, q) ==
  /\ At(r, "opening")
  /\ Connections(requests[r].process) >= PoolSize
  /\ Arrived(q) /\ requests[q].process = requests[r].process /\ requests[q].connection

WaitsForName(r, q) ==
  /\ Works(r, "create")
  /\ q # r /\ Inserting(q)
  /\ requests[q].call.name = requests[r].call.name

WaitsFor(r, q) == WaitsForConnection(r, q) \/ WaitsForName(r, q)

(* Nobody waits in a circle: a request has one connection, so that who has *)
(* one waits for no other, and inserts one row, so that who has inserted a *)
(* name waits for nobody.  And a pool is only full of requests at work.    *)
WaitsAreShort ==
  /\ \A r, q, p \in DOMAIN requests :
       WaitsFor(r, q) /\ WaitsFor(q, p) =>
         WaitsForName(q, p) /\ \A o \in DOMAIN requests : ~WaitsFor(p, o)
  /\ \A r \in DOMAIN requests :
       At(r, "opening") /\ Connections(requests[r].process) >= PoolSize =>
         \E q \in DOMAIN requests : WaitsForConnection(r, q)

\* The points at which a request may have a connection: those after the pool gave it one.
Working == {"connected", "calling", "returned", "replied", "sent"}

HoldersWork == \A r \in DOMAIN requests : requests[r].connection => requests[r].pc \in Working

\* A step of a request, in what the properties above tell apart.
Onward(q, rec) ==
  /\ PointsLeft(rec.pc) < PointsLeft(q.pc)
  /\ rec.connection => rec.pc \in Working
  /\ q.pc \in Told => rec.status = q.status /\ rec.envelope = q.envelope /\ rec.header = q.header

\* The points in order.
LEMMA PointsInOrder ==
  /\ PointsLeft("routed") = 7 /\ PointsLeft("opening") = 6 /\ PointsLeft("connected") = 5
  /\ PointsLeft("calling") = 4 /\ PointsLeft("returned") = 3
  /\ PointsLeft("replied") = 2 /\ PointsLeft("raising") = 2
  /\ PointsLeft("sent") = 1 /\ PointsLeft("escaped") = 1
  /\ PointsLeft("done") = 0 /\ PointsLeft("lost") = 0
  BY DEF PointsLeft

\* Giving the connection back at a later point is a step on, before anything is told.
LEMMA ReleaseGoesOn ==
  ASSUME NEW q, NEW rec, ~rec.connection,
         \/ /\ rec.pc \in {"replied", "raising"}
            /\ q.pc \in {"routed", "opening", "connected", "calling", "returned"}
         \/ /\ rec.pc = "done" /\ q.pc \in {"sent", "escaped", "replied"}
            /\ q.pc = "sent" =>
                 rec.status = q.status /\ rec.envelope = q.envelope /\ rec.header = q.header
         \/ rec.pc = "escaped" /\ q.pc = "raising"
  PROVE  Onward(q, rec)
  BY PointsInOrder DEF Onward, Told

\* Going on inside the middlewares is one too.
LEMMA WorkGoesOn ==
  ASSUME NEW q, NEW rec,
         \/ rec.pc = "opening" /\ q.pc = "routed" /\ ~rec.connection
         \/ rec.pc = "connected" /\ q.pc = "opening"
         \/ rec.pc \in {"calling", "returned"} /\ q.pc = "connected"
         \/ rec.pc = "replied" /\ q.pc = "returned"
         \/ rec.pc = "sent" /\ q.pc = "replied"
  PROVE  Onward(q, rec)
  BY PointsInOrder DEF Onward, Told, Working

\* Every action of a request takes it on.
GoesOn(r) ==
  /\ r \in DOMAIN requests
  /\ \E rec : requests' = [requests EXCEPT ![r] = rec] /\ Onward(requests[r], rec)

LEMMA RejectGoesOn ==
  ASSUME Typed, NEW r \in DOMAIN requests, NEW code,
         requests[r].pc \in {"routed", "opening", "connected", "calling", "returned"},
         Becomes(r, Enveloped(r, code))
  PROVE  GoesOn(r)
<1> DEFINE rec == Enveloped(r, code)
<1>1. rec.pc = "replied" /\ ~rec.connection
  BY DEF Enveloped, Typed, Request
<1>2. requests' = [requests EXCEPT ![r] = rec]
  BY DEF Becomes
<1> HIDE DEF rec
<1> QED BY <1>1, <1>2, ReleaseGoesOn DEF GoesOn

LEMMA RepliedGoesOn ==
  ASSUME Typed, NEW r \in DOMAIN requests, NEW status,
         requests[r].pc \in {"routed", "opening", "connected", "calling", "returned"},
         Becomes(r, Replied(r, status))
  PROVE  GoesOn(r)
<1> DEFINE rec == Replied(r, status)
<1>1. rec.pc = "replied" /\ ~rec.connection
  BY DEF Replied, Typed, Request
<1>2. requests' = [requests EXCEPT ![r] = rec]
  BY DEF Becomes
<1> HIDE DEF rec
<1> QED BY <1>1, <1>2, ReleaseGoesOn DEF GoesOn

LEMMA RaiseGoesOn ==
  ASSUME Typed, NEW r \in DOMAIN requests, Raise(r),
         requests[r].pc \in {"routed", "opening", "connected", "calling", "returned"}
  PROVE  GoesOn(r)
<1> DEFINE rec == [requests[r] EXCEPT !.pc = "raising", !.connection = FALSE]
<1>1. rec.pc = "raising" /\ ~rec.connection
  BY DEF Typed, Request
<1>2. requests' = [requests EXCEPT ![r] = rec]
  BY DEF Raise, Reply, Becomes
<1> HIDE DEF rec
<1> QED BY <1>1, <1>2, ReleaseGoesOn DEF GoesOn

LEMMA StepsGoOn ==
  ASSUME Typed, HoldersWork, NEW r \in Requests, Served(r)
  PROVE  GoesOn(r)
<1>1. r \in DOMAIN requests
  BY DEF Served, RequestStep, RequestFault, ScopeStep, RouteStep, Authenticate, Decode,
         OpenSession, AnswerAtOnce, CallStub, Connect, CommitSession, RespondFirst, CommitLate,
         Depart, Escape, HandleEscaped, InsertProject, ListProjects, ReadProject, StartQuery,
         EndQuery, Probe, LoseDatabase, LoseCommit, Works, At, Arrived
<1> DEFINE q == requests[r]
<1>2. q \in Request /\ (q.connection => q.pc \in Working)
  BY <1>1 DEF Typed, HoldersWork
<1>go. ASSUME NEW rec, Becomes(r, rec), Onward(q, rec)
       PROVE  GoesOn(r)
  BY <1>1, <1>go DEF GoesOn, Becomes
<1> USE DEF At, Works
<1>3. CASE Authenticate(r) \/ Decode(r) \/ AnswerAtOnce(r) \/ CallStub(r)
  BY <1>1, <1>3, RejectGoesOn, RepliedGoesOn, RaiseGoesOn
     DEF Authenticate, Decode, AnswerAtOnce, CallStub, Reject, Reply
<1>4. CASE OpenSession(r)
  <2> DEFINE rec == [q EXCEPT !.pc = "opening", !.caller = Caller(r)]
  <2>1. rec.pc = "opening" /\ rec.connection = q.connection
    BY <1>2 DEF Request
  <2>2. Becomes(r, rec) /\ q.pc = "routed"
    BY <1>4 DEF OpenSession, Reply
  <2> HIDE DEF rec
  <2> QED BY <1>2, <1>go, <2>1, <2>2, WorkGoesOn DEF Working
<1>5. CASE Connect(r)
  <2> DEFINE rec == [q EXCEPT !.pc = "connected", !.connection = TRUE]
  <2>1. rec.pc = "connected"
    BY <1>2 DEF Request
  <2>2. Becomes(r, rec) /\ q.pc = "opening"
    BY <1>5 DEF Connect, Reply
  <2> HIDE DEF rec
  <2> QED BY <1>go, <2>1, <2>2, WorkGoesOn
<1>6. CASE LoseDatabase(r)
  BY <1>1, <1>6, RepliedGoesOn, RaiseGoesOn DEF LoseDatabase, Reply
<1>7. CASE CommitSession(r)
  BY <1>1, <1>7, RepliedGoesOn DEF CommitSession
<1>8. CASE RespondFirst(r)
  <2> DEFINE rec == [Replied(r, Success(r)) EXCEPT !.connection = requests[r].connection]
  <2>1. rec.pc = "replied"
    BY <1>2 DEF Request, Replied
  <2>2. Becomes(r, rec) /\ q.pc = "returned"
    BY <1>8 DEF RespondFirst, Reply
  <2> HIDE DEF rec
  <2> QED BY <1>go, <2>1, <2>2, WorkGoesOn
<1>9. ASSUME Becomes(r, [q EXCEPT !.pc = "done", !.connection = FALSE]), q.pc = "sent"
      PROVE  GoesOn(r)
  <2> DEFINE rec == [q EXCEPT !.pc = "done", !.connection = FALSE]
  <2>1. /\ rec.pc = "done" /\ ~rec.connection
        /\ rec.status = q.status /\ rec.envelope = q.envelope /\ rec.header = q.header
    BY <1>2 DEF Request
  <2>2. Becomes(r, rec)
    BY <1>9
  <2> HIDE DEF rec
  <2> QED BY <1>9, <1>go, <2>1, <2>2, ReleaseGoesOn
<1>10. CASE CommitLate(r)
  BY <1>9, <1>10 DEF CommitLate
<1>11. CASE LoseCommit(r)
  BY <1>1, <1>9, <1>11, RaiseGoesOn DEF LoseCommit
<1>12. CASE Depart(r)
  <2> DEFINE pc == IF q.connection THEN "sent" ELSE "done"
             rec == [q EXCEPT !.header = r, !.pc = pc]
  <2>1. rec.pc = pc /\ rec.connection = q.connection
    BY <1>2 DEF Request
  <2>2. Becomes(r, rec) /\ q.pc = "replied"
    BY <1>12 DEF Depart
  <2> HIDE DEF rec
  <2>3. CASE q.connection
    BY <1>go, <2>1, <2>2, <2>3, WorkGoesOn
  <2>4. CASE ~q.connection
    BY <1>go, <2>1, <2>2, <2>4, ReleaseGoesOn
  <2> QED BY <2>3, <2>4
<1>13. CASE Escape(r)
  <2> DEFINE rec == [q EXCEPT !.pc = "escaped"]
  <2>1. rec.pc = "escaped" /\ rec.connection = q.connection
    BY <1>2 DEF Request
  <2>2. Becomes(r, rec) /\ q.pc = "raising"
    BY <1>13 DEF Escape
  <2> HIDE DEF rec
  <2> QED BY <1>2, <1>go, <2>1, <2>2, ReleaseGoesOn DEF Working
<1>14. CASE HandleEscaped(r)
  <2> DEFINE rec == [q EXCEPT !.pc = "done", !.status = 500, !.envelope = bound[r]]
  <2>1. rec.pc = "done" /\ rec.connection = q.connection
    BY <1>2 DEF Request
  <2>2. Becomes(r, rec) /\ q.pc = "escaped"
    BY <1>14 DEF HandleEscaped
  <2> HIDE DEF rec
  <2> QED BY <1>2, <1>go, <2>1, <2>2, ReleaseGoesOn DEF Working
<1>15. ASSUME NEW pc \in {"returned", "calling"}, Reply(r, [q EXCEPT !.pc = pc]),
              q.pc = "connected"
       PROVE  GoesOn(r)
  <2> DEFINE rec == [q EXCEPT !.pc = pc]
  <2>1. rec.pc = pc
    BY <1>2 DEF Request
  <2>2. Becomes(r, rec)
    BY <1>15 DEF Reply
  <2> HIDE DEF rec
  <2> QED BY <1>15, <1>go, <2>1, <2>2, WorkGoesOn
<1>16. CASE InsertProject(r) \/ ListProjects(r) \/ ReadProject(r) \/ StartQuery(r)
  <2>1. q.pc = "connected"
    BY <1>16 DEF InsertProject, ListProjects, ReadProject, StartQuery
  <2>2. \/ \E code : Reject(r, code)
        \/ \E pc \in {"returned", "calling"} : Reply(r, [q EXCEPT !.pc = pc])
    BY <1>16 DEF InsertProject, ListProjects, ReadProject, StartQuery
  <2> QED BY <1>1, <1>15, <2>1, <2>2, RejectGoesOn DEF Reject
<1>17. CASE EndQuery(r) \/ Probe(r)
  BY <1>1, <1>17, RejectGoesOn, RepliedGoesOn DEF EndQuery, Probe, Reject, Reply
<1> QED BY <1>3, <1>4, <1>5, <1>6, <1>7, <1>8, <1>10, <1>11, <1>12, <1>13, <1>14, <1>16, <1>17
        DEF Served, RequestStep, RequestFault, ScopeStep, RouteStep

\* The points left are numbers.
LEMMA PointsAreNumbers ==
  ASSUME NEW q \in Request
  PROVE  PointsLeft(q.pc) \in Nat
<1>1. q.pc \in RequestPoints
  BY DEF Request
<1> QED BY <1>1, PointsInOrder DEF RequestPoints

\* What is cut off has nothing left, keeps what was told, and holds nothing.
LEMMA CutIsLast ==
  ASSUME NEW r, requests[r] \in Request
  PROVE  LET rec == Cut(r) IN
         /\ rec.pc = "lost" /\ ~rec.connection /\ rec.header = requests[r].header
         /\ requests[r].pc = "sent" =>
              rec.status = requests[r].status /\ rec.envelope = requests[r].envelope
  BY DEF Cut, Request

\* What every step does to every request.
Carried(q, rec) ==
  /\ PointsLeft(rec.pc) <= PointsLeft(q.pc)
  /\ (q.connection => q.pc \in Working) => (rec.connection => rec.pc \in Working)
  /\ q.pc \in Told => rec.status = q.status /\ rec.envelope = q.envelope /\ rec.header = q.header

\* The requests there were, each carried on, and new ones without a connection.
LEMMA NextCarries ==
  ASSUME Typed, Typed', HoldersWork, [Next]_vars
  PROVE  /\ DOMAIN requests \subseteq DOMAIN requests'
         /\ \A q \in DOMAIN requests : Carried(requests[q], requests'[q])
         /\ \A q \in DOMAIN requests' \ DOMAIN requests : ~requests'[q].connection
<1>same. \A q \in DOMAIN requests : Carried(requests[q], requests[q])
  <2> SUFFICES ASSUME NEW q \in DOMAIN requests PROVE Carried(requests[q], requests[q])
    OBVIOUS
  <2>1. PointsLeft(requests[q].pc) \in Nat
    BY PointsAreNumbers DEF Typed
  <2> QED BY <2>1 DEF Carried
<1>1. CASE UNCHANGED requests
  BY <1>same, <1>1
<1>2. CASE UNCHANGED vars \/ \E a \in Processes : Launch(a) \/ StartStep(a)
  BY <1>1, <1>2 DEF vars, Launch, StartStep, FindOrganization, InsertOrganization, FindUser,
                    CommitRows
<1>3. ASSUME NEW a \in Processes, Kill(a)
      PROVE  /\ DOMAIN requests' = DOMAIN requests
             /\ \A q \in DOMAIN requests : Carried(requests[q], requests'[q])
  <2> DEFINE Dead == {r \in DOMAIN requests : requests[r].process = a /\ requests[r].pc # "done"}
  <2>1. requests' = [r \in DOMAIN requests |-> IF r \notin Dead THEN requests[r] ELSE Cut(r)]
    BY <1>3 DEF Kill
  <2>2. ASSUME NEW q \in Dead
        PROVE  Carried(requests[q], Cut(q))
    <3>1. requests[q] \in Request /\ requests[q].pc # "done"
      BY DEF Typed
    <3>2. PICK rec : rec = Cut(q)
      OBVIOUS
    <3>3. /\ rec.pc = "lost" /\ ~rec.connection /\ rec.header = requests[q].header
          /\ requests[q].pc = "sent" =>
               rec.status = requests[q].status /\ rec.envelope = requests[q].envelope
      BY ONLY <3>1, <3>2, CutIsLast
    <3>4. PointsLeft(rec.pc) <= PointsLeft(requests[q].pc)
      <4>1. PICK n \in Nat : n = PointsLeft(requests[q].pc)
        BY <3>1, PointsAreNumbers
      <4> QED BY ONLY <3>3, <4>1, PointsInOrder
    <3> QED BY ONLY <3>1, <3>2, <3>3, <3>4 DEF Carried, Told
  <2> HIDE DEF Dead
  <2>3. \A q \in DOMAIN requests : q \in Dead => q \in Dead /\ requests'[q] = Cut(q)
    BY <2>1
  <2>4. \A q \in DOMAIN requests : q \notin Dead => requests'[q] = requests[q]
    BY <2>1
  <2>5. DOMAIN requests' = DOMAIN requests
    BY <2>1
  <2> QED BY ONLY <1>same, <2>2, <2>3, <2>4, <2>5
<1>4. ASSUME NEW r \in Requests, NEW a \in Processes, Arrive(r, a)
      PROVE  /\ DOMAIN requests \subseteq DOMAIN requests'
             /\ \A q \in DOMAIN requests : Carried(requests[q], requests'[q])
             /\ \A q \in DOMAIN requests' \ DOMAIN requests : ~requests'[q].connection
  <2>1. /\ DOMAIN requests' = DOMAIN requests \cup {r} /\ r \notin DOMAIN requests
        /\ \A q \in DOMAIN requests : requests'[q] = requests[q]
        /\ ~requests'[r].connection
    BY <1>4 DEF Arrive, Arrived
  <2> QED BY <1>same, <2>1
<1>5. ASSUME NEW r \in Requests, Served(r)
      PROVE  /\ DOMAIN requests' = DOMAIN requests
             /\ \A q \in DOMAIN requests : Carried(requests[q], requests'[q])
  <2>1. GoesOn(r)
    BY <1>5, StepsGoOn
  <2>2. PICK rec : requests' = [requests EXCEPT ![r] = rec] /\ Onward(requests[r], rec)
    BY <2>1 DEF GoesOn
  <2>3. r \in DOMAIN requests /\ requests'[r] = rec /\ DOMAIN requests' = DOMAIN requests
    BY <2>1, <2>2 DEF GoesOn
  <2>4. PointsLeft(rec.pc) <= PointsLeft(requests[r].pc)
    <3>1. requests[r] \in Request /\ rec \in Request
      BY <2>3 DEF Typed
    <3>2. PointsLeft(rec.pc) \in Nat /\ PointsLeft(requests[r].pc) \in Nat
      BY <3>1, PointsAreNumbers
    <3> QED BY ONLY <2>2, <3>2 DEF Onward
  <2>5. Carried(requests[r], requests'[r])
    BY ONLY <2>2, <2>3, <2>4 DEF Carried, Onward
  <2>6. \A q \in DOMAIN requests \ {r} : requests'[q] = requests[q]
    BY <2>2
  <2> QED BY ONLY <1>same, <2>3, <2>5, <2>6
<1> QED BY <1>2, <1>3, <1>4, <1>5 DEF Next, Served

\* A connection is only held at the points where one is at work.
LEMMA HoldersStayAtWork ==
  ASSUME Typed, Typed', HoldersWork, [Next]_vars
  PROVE  HoldersWork'
<1>1. \A q \in DOMAIN requests : Carried(requests[q], requests'[q])
  BY NextCarries
<1>2. \A q \in DOMAIN requests' \ DOMAIN requests : ~requests'[q].connection
  BY NextCarries
<1> QED BY <1>1, <1>2 DEF Carried, HoldersWork

\* Holders at work: what all three of the following theorems rest on.
LEMMA HoldersAlwaysWork == Spec => [](Typed /\ HoldersWork)
<1>1. Init => HoldersWork
  BY DEF Init, HoldersWork
<1>2. Sound => Typed
  BY DEF Sound
<1>3. Typed /\ Typed' /\ HoldersWork /\ [Next]_vars => HoldersWork'
  BY HoldersStayAtWork
<1> QED BY <1>1, <1>2, <1>3, ServiceIsSound, PTL DEF Spec

\* A request is through after seven steps of its own at most, whatever fails and
\* whoever dies: with fairness and waits that end, EveryRequestIsAnswered.
THEOREM RequestsAreDriven == Spec => RequestsWindDown
<1>1. Typed /\ Typed' /\ HoldersWork /\ [Next]_vars =>
        [\A r \in DOMAIN requests :
           /\ r \in DOMAIN requests'
           /\ PointsLeft(requests'[r].pc) <= PointsLeft(requests[r].pc)
           /\ Served(r) => PointsLeft(requests'[r].pc) < PointsLeft(requests[r].pc)]_vars
  <2> SUFFICES ASSUME Typed, Typed', HoldersWork, [Next]_vars, NEW r \in DOMAIN requests
               PROVE  /\ r \in DOMAIN requests'
                      /\ PointsLeft(requests'[r].pc) <= PointsLeft(requests[r].pc)
                      /\ Served(r) => PointsLeft(requests'[r].pc) < PointsLeft(requests[r].pc)
    OBVIOUS
  <2>1. r \in DOMAIN requests' /\ Carried(requests[r], requests'[r])
    BY NextCarries
  <2>2. ASSUME Served(r)
        PROVE  PointsLeft(requests'[r].pc) < PointsLeft(requests[r].pc)
    <3>1. r \in Requests
      BY DEF Typed
    <3>2. GoesOn(r)
      BY <2>2, <3>1, StepsGoOn
    <3>3. Onward(requests[r], requests'[r])
      BY <3>2 DEF GoesOn
    <3> QED BY <3>3 DEF Onward
  <2> QED BY <2>1, <2>2 DEF Carried
<1> QED BY <1>1, HoldersAlwaysWork, PTL DEF Spec, RequestsWindDown

\* A client's answer is final: neither a commit that follows it nor its failure, nor
\* the death of the process, changes what it was told (deps.py:30-39).
THEOREM AnswersAreFinal == Spec => WhatIsToldStands
<1>1. Typed /\ Typed' /\ HoldersWork /\ [Next]_vars =>
        [\A r \in DOMAIN requests : requests[r].pc \in Told =>
           /\ r \in DOMAIN requests'
           /\ requests'[r].status = requests[r].status
           /\ requests'[r].envelope = requests[r].envelope
           /\ requests'[r].header = requests[r].header]_vars
  BY NextCarries DEF Carried
<1> QED BY <1>1, HoldersAlwaysWork, PTL DEF Spec, WhatIsToldStands

\* No request waits, directly or through others, for itself, however small the pools and
\* however many create the same project (session.py:26-33, project_service.py:29-37).
THEOREM NobodyWaitsInACircle == Spec => []WaitsAreShort
<1>1. HoldersWork => WaitsAreShort
  <2> SUFFICES ASSUME HoldersWork PROVE WaitsAreShort
    OBVIOUS
  <2>1. ASSUME NEW q \in DOMAIN requests, requests[q].connection
        PROVE  ~At(q, "opening")
    BY <2>1 DEF HoldersWork, Working, At
  <2>2. ASSUME NEW q \in DOMAIN requests, Inserting(q)
        PROVE  \A o \in DOMAIN requests : ~WaitsFor(q, o)
    BY <2>2 DEF Inserting, Holding, WaitsFor, WaitsForConnection, WaitsForName, At, Works
  <2>3. ASSUME NEW r \in DOMAIN requests, NEW q \in DOMAIN requests, NEW p \in DOMAIN requests,
               WaitsFor(r, q), WaitsFor(q, p)
        PROVE  WaitsForName(q, p) /\ \A o \in DOMAIN requests : ~WaitsFor(p, o)
    <3>1. ~Inserting(q)
      BY <2>2, <2>3
    <3>2. requests[q].connection
      BY <2>3, <3>1 DEF WaitsFor, WaitsForConnection, WaitsForName
    <3>3. WaitsForName(q, p)
      BY <2>1, <2>3, <3>2 DEF WaitsFor, WaitsForConnection
    <3>4. Inserting(p)
      BY <3>3 DEF WaitsForName
    <3> QED BY <2>2, <3>3, <3>4
  <2>4. ASSUME NEW r \in DOMAIN requests, At(r, "opening"),
               Connections(requests[r].process) >= PoolSize
        PROVE  \E q \in DOMAIN requests : WaitsForConnection(r, q)
    <3> DEFINE Holders == {q \in DOMAIN requests :
                             requests[q].process = requests[r].process /\ requests[q].connection}
    <3>1. Cardinality(Holders) >= PoolSize
      BY <2>4 DEF Connections
    <3>2. Holders # {}
      <4>1. PoolSize \in Nat \ {0} /\ Cardinality({}) = 0
        BY ServiceAssumption, FS_EmptySet
      <4> HIDE DEF Holders
      <4> QED BY ONLY <3>1, <4>1
    <3>3. PICK q \in Holders : TRUE
      BY <3>2
    <3> QED BY <2>4, <3>3 DEF WaitsForConnection, Arrived
  <2> QED BY <2>3, <2>4 DEF WaitsAreShort
<1> QED BY <1>1, HoldersAlwaysWork, PTL
=============================================================================
