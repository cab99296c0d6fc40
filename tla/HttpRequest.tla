---------------------------- MODULE HttpRequest ----------------------------
(***************************************************************************)
(* What every request goes through around its route: the two middlewares,  *)
(* the dependencies, the database session and its connection, and the      *)
(* handlers that turn an exception into an envelope.  A step is what       *)
(* happens between two awaits.                                             *)
(***************************************************************************)
EXTENDS ApiProcess

CONSTANT Calls   \* what clients may ask for

\* Of a stub nothing is written yet; "invalid" is a body its schema refuses.
Endpoints == {"create", "list", "read", "query", "ready", "health", "stub", "invalid", "unknown"}

\* Routes that ask for no principal.
Open == {"ready", "health", "unknown"}

\* Routes that reach for the database.
Stored == {"create", "list", "read", "query", "ready"}

\* A call, with or without a bearer token, for the project of a name or of an id.
Call == [endpoint : Endpoints, bearer : BOOLEAN, name : Names, project : Requests \cup {Foreign}]

ASSUME CallAssumption == Calls \subseteq Call

RequestPoints == {"routed", "opening", "connected", "calling", "returned", "replied",
                  "sent", "raising", "escaped", "done", "lost"}

Arrived(r) == r \in DOMAIN requests

At(r, pc) == Arrived(r) /\ requests[r].pc = pc

Becomes(r, record) == requests' = [requests EXCEPT ![r] = record]

Line(r, event) == [request |-> r, event |-> event, request_id |-> bound[r]]

\* Variant: the id is kept where every task of the process sees it.
BindProcess(r, a) ==
  [q \in Requests |-> IF q = r \/ (Arrived(q) /\ requests[q].process = a) THEN r ELSE bound[q]]

\* request_id_var.set: a context variable, seen by this request's task alone.
BindContext(r, a) == [bound EXCEPT ![r] = r]

\* The request's own id, inbound or drawn, is bound for as long as it is served.
Arrive(r, a) ==
  /\ In(a, "serving")
  /\ ~Arrived(r)
  /\ \E c \in Calls :
       requests' = [q \in DOMAIN requests \cup {r} |-> IF q # r THEN requests[q] ELSE
         [process |-> a, call |-> c, pc |-> "routed", connection |-> FALSE,
          caller |-> "nobody", status |-> 0, envelope |-> NoId, header |-> NoId]]
  /\ bound' = BindContext(r, a)
  /\ UNCHANGED <<installed, database, process, lines, kills>>
-----------------------------------------------------------------------------
(* Errors.  Codes with an HTTP meaning have a status, others are a fault of*)
(* the server; an error that names its own status keeps it.                *)

ExplicitStatus ==
  [NOT_FOUND |-> 404, CONFLICT |-> 409, VALIDATION_ERROR |-> 422, UNAUTHENTICATED |-> 401,
   FORBIDDEN |-> 403, RATE_LIMITED |-> 429, UNSUPPORTED_MEDIA_TYPE |-> 415,
   PAYLOAD_TOO_LARGE |-> 413]

StatusByCode ==
  [MODEL_RATE_LIMIT |-> 429, MODEL_TIMEOUT |-> 504, MODEL_UNAVAILABLE |-> 502,
   MODEL_CONTEXT_EXCEEDED |-> 422, PROVIDER_NOT_CONFIGURED |-> 503]

StatusFor(code) ==
  IF code \in DOMAIN ExplicitStatus THEN ExplicitStatus[code]
  ELSE IF code \in DOMAIN StatusByCode THEN StatusByCode[code] ELSE 500

\* The envelope is filled in inside the middlewares, while the id is bound.
Enveloped(r, code) ==
  [requests[r] EXCEPT !.pc = "replied", !.connection = FALSE,
                      !.status = StatusFor(code), !.envelope = bound[r]]

\* A DomainError: the session rolls back and returns its connection, then the error is
\* logged and enveloped.
Reject(r, code) ==
  /\ Becomes(r, Enveloped(r, code))
  /\ lines' = lines \cup {Line(r, "app.error")}
  /\ UNCHANGED <<installed, database, process, bound, kills>>

\* A reply the framework or the route makes without raising a DomainError.
Reply(r, record) ==
  /\ Becomes(r, record)
  /\ UNCHANGED <<installed, database, process, bound, lines, kills>>

Replied(r, status) ==
  [requests[r] EXCEPT !.pc = "replied", !.connection = FALSE, !.status = status]

\* Variant: the session of a request that failed is never closed.
RaiseUnclosed(r) ==
  Reply(r, [requests[r] EXCEPT !.pc = "raising"])

\* Any other exception rolls back too, and passes every handler inside the middlewares.
Raise(r) ==
  Reply(r, [requests[r] EXCEPT !.pc = "raising", !.connection = FALSE])
-----------------------------------------------------------------------------
(* get_current_principal, and the routes that need nothing else.           *)

\* Phase 1 cannot decode a token: NotImplementedError.
Caller(r) ==
  IF requests[r].call.endpoint \in Open THEN "anyone"
  ELSE IF settings.AUTH_MODE = "disabled" THEN "developer"
  ELSE IF requests[r].call.bearer THEN "undecodable" ELSE "unauthenticated"

Authenticate(r) ==
  /\ At(r, "routed")
  /\ Caller(r) = "unauthenticated"
  /\ Reject(r, "UNAUTHENTICATED")

Decode(r) ==
  /\ At(r, "routed")
  /\ Caller(r) = "undecodable"
  /\ Raise(r)

\* The session is opened without a connection: the first statement asks the pool for one.
OpenSession(r) ==
  /\ At(r, "routed")
  /\ Caller(r) \in {"anyone", "developer"}
  /\ requests[r].call.endpoint \in Stored
  /\ Reply(r, [requests[r] EXCEPT !.pc = "opening", !.caller = Caller(r)])

\* No such route, a body that does not validate (both enveloped), or a healthy process.
AnswerAtOnce(r) ==
  /\ At(r, "routed")
  /\ Caller(r) \in {"anyone", "developer"}
  /\ \/ requests[r].call.endpoint = "unknown" /\ Reply(r, Enveloped(r, "NOT_FOUND"))
     \/ requests[r].call.endpoint = "invalid" /\ Reply(r, Enveloped(r, "VALIDATION_ERROR"))
     \/ requests[r].call.endpoint = "health" /\ Reply(r, Replied(r, 200))

\* An endpoint that is not written yet: NotImplementedError.
CallStub(r) ==
  /\ At(r, "routed")
  /\ Caller(r) = "developer"
  /\ requests[r].call.endpoint = "stub"
  /\ Raise(r)
-----------------------------------------------------------------------------
(* The pool of a process, and the commit get_db_session makes on the way   *)
(* out.                                                                    *)

Connections(a) ==
  Cardinality({q \in DOMAIN requests : requests[q].process = a /\ requests[q].connection})

\* Variant: there is always one more connection.
ConnectAnyway(r) ==
  /\ At(r, "opening")
  /\ Reply(r, [requests[r] EXCEPT !.pc = "connected", !.connection = TRUE])

Connect(r) ==
  /\ At(r, "opening")
  /\ Connections(requests[r].process) < PoolSize
  /\ Reply(r, [requests[r] EXCEPT !.pc = "connected", !.connection = TRUE])

\* No connection is returned within pool_timeout, or the database does not answer.
LoseDatabase(r) ==
  /\ \/ At(r, "opening") /\ Connections(requests[r].process) >= PoolSize
     \/ At(r, "connected") \/ At(r, "calling")
  /\ IF requests[r].call.endpoint = "ready" THEN Reply(r, Replied(r, 503)) ELSE Raise(r)

\* A project inserted by a transaction that has not committed.
Holding(q) ==
  q.call.endpoint = "create" /\ q.connection /\ q.pc \in {"returned", "replied", "sent"}

Inserting(r) == Arrived(r) /\ Holding(requests[r])

Success(r) == IF requests[r].call.endpoint = "create" THEN 201 ELSE 200

Insert(r) ==
  IF ~Inserting(r) THEN projects
  ELSE [p \in DOMAIN projects \cup {r} |-> IF p # r THEN projects[p]
          ELSE [organization |-> "development", name |-> requests[r].call.name]]

\* Variant: the session is closed and nothing is committed.
CloseSession(r) ==
  /\ At(r, "returned") /\ ~lateExit
  /\ Reply(r, Replied(r, Success(r)))

\* The route has returned: commit, close, respond.
CommitSession(r) ==
  /\ At(r, "returned") /\ ~lateExit
  /\ projects' = Insert(r)
  /\ Becomes(r, Replied(r, Success(r)))
  /\ UNCHANGED <<installed, rows, process, bound, lines, kills>>

\* Or respond, and commit once the response is sent.
RespondFirst(r) ==
  /\ At(r, "returned") /\ lateExit
  /\ Reply(r, [Replied(r, Success(r)) EXCEPT !.connection = requests[r].connection])

CommitLate(r) ==
  /\ At(r, "sent")
  /\ projects' = Insert(r)
  /\ Becomes(r, [requests[r] EXCEPT !.pc = "done", !.connection = FALSE])
  /\ UNCHANGED <<installed, rows, process, bound, lines, kills>>

\* The commit fails: nothing is stored, and of a response already sent it is only logged
\* that it should not have been.
LoseCommit(r) ==
  \/ At(r, "returned") /\ ~lateExit /\ Raise(r)
  \/ /\ At(r, "sent")
     /\ lines' = lines \cup {Line(r, "unhandled.exception")}
     /\ Becomes(r, [requests[r] EXCEPT !.pc = "done", !.connection = FALSE])
     /\ UNCHANGED <<installed, database, process, bound, kills>>
-----------------------------------------------------------------------------
(* The way out through the middlewares.                                    *)

\* The access log, then the id is unbound and echoed.
Depart(r) ==
  /\ At(r, "replied")
  /\ lines' = lines \cup {Line(r, "request.completed")}
  /\ bound' = [bound EXCEPT ![r] = NoId]
  /\ Becomes(r, [requests[r] EXCEPT !.header = r,
                   !.pc = IF requests[r].connection THEN "sent" ELSE "done"])
  /\ UNCHANGED <<installed, database, process, kills>>

\* An exception nobody handled leaves them, and with them the id is unbound.
Escape(r) ==
  /\ At(r, "raising")
  /\ lines' = lines \cup {Line(r, "request.failed")}
  /\ bound' = [bound EXCEPT ![r] = NoId]
  /\ Becomes(r, [requests[r] EXCEPT !.pc = "escaped"])
  /\ UNCHANGED <<installed, database, process, kills>>

\* The handler of last resort runs outside the middlewares.
HandleEscaped(r) ==
  /\ At(r, "escaped")
  /\ lines' = lines \cup {Line(r, "unhandled.exception")}
  /\ Becomes(r, [requests[r] EXCEPT !.pc = "done", !.status = 500, !.envelope = bound[r]])
  /\ UNCHANGED <<installed, database, process, bound, kills>>

ScopeStep(r) ==
  \/ Authenticate(r) \/ Decode(r) \/ OpenSession(r) \/ AnswerAtOnce(r) \/ CallStub(r)
  \/ Connect(r) \/ CommitSession(r) \/ RespondFirst(r) \/ CommitLate(r)
  \/ Depart(r) \/ Escape(r) \/ HandleEscaped(r)
=============================================================================
