----------------------------- MODULE ApiService -----------------------------
(***************************************************************************)
(* The API as its clients see it: processes that start on one database and *)
(* die, and requests for projects that compete for a pool of connections   *)
(* and for the names.                                                      *)
(***************************************************************************)
EXTENDS HttpRequest

Init ==
  /\ settings \in Deployments /\ lateExit \in BOOLEAN
  /\ rows \in {{}, {"organization"}}
  /\ projects = [p \in {Foreign} |->
       [organization |-> "other", name |-> CHOOSE n \in Names : TRUE]]
  /\ process = [a \in Processes |-> "off"]
  /\ requests = <<>> /\ bound = [r \in Requests |-> NoId] /\ lines = {}
  /\ kills = 0
-----------------------------------------------------------------------------
(* The routes.                                                             *)

Works(r, e) == At(r, "connected") /\ requests[r].call.endpoint = e

\* The INSERT waits for another of the name that is not committed.  Whatever constraint it
\* violates, the name or a foreign key, it is reported as a conflict.
InsertProject(r) ==
  /\ Works(r, "create")
  /\ \A q \in DOMAIN requests \ {r} : Inserting(q) => requests[q].call.name # requests[r].call.name
  /\ IF Taken("development", requests[r].call.name) \/ rows # PrincipalRows
     THEN Reject(r, "CONFLICT")
     ELSE Reply(r, [requests[r] EXCEPT !.pc = "returned"])

ListProjects(r) ==
  /\ Works(r, "list")
  /\ Reply(r, [requests[r] EXCEPT !.pc = "returned"])

\* A project of another organization is not found either.
Visible(p) == p \in DOMAIN projects /\ projects[p].organization = "development"

ReadProject(r) ==
  /\ Works(r, "read")
  /\ IF Visible(requests[r].call.project)
     THEN Reply(r, [requests[r] EXCEPT !.pc = "returned"])
     ELSE Reject(r, "NOT_FOUND")

\* The project is looked up, and the transaction stays open while the provider is called.
StartQuery(r) ==
  /\ Works(r, "query")
  /\ IF ~Visible(requests[r].call.project) THEN Reject(r, "NOT_FOUND")
     ELSE IF ~HasKey(settings) THEN Reject(r, "PROVIDER_NOT_CONFIGURED")
     ELSE Reply(r, [requests[r] EXCEPT !.pc = "calling"])

\* Saving the trace commits, and returns the connection before the route does.
EndQuery(r) ==
  /\ At(r, "calling")
  /\ \/ Reply(r, Replied(r, 200))
     \/ Reject(r, "MODEL_UNAVAILABLE")

\* Readiness: a connection of the pool answers, and Redis does or does not.
Probe(r) ==
  /\ Works(r, "ready")
  /\ \E redis \in BOOLEAN : Reply(r, Replied(r, IF redis THEN 200 ELSE 503))

RouteStep(r) ==
  InsertProject(r) \/ ListProjects(r) \/ ReadProject(r) \/ StartQuery(r) \/ EndQuery(r) \/ Probe(r)
-----------------------------------------------------------------------------
RequestStep(r) == ScopeStep(r) \/ RouteStep(r)

RequestFault(r) == LoseDatabase(r) \/ LoseCommit(r)

\* What has not been sent is never told.
Cut(r) ==
  [requests[r] EXCEPT !.pc = "lost", !.connection = FALSE,
     !.status = IF requests[r].pc = "sent" THEN @ ELSE 0,
     !.envelope = IF requests[r].pc = "sent" THEN @ ELSE NoId]

\* A process dies: its transactions are rolled back and its clients hear nothing.
Kill(a) ==
  /\ process[a] \notin {"off", "refused", "beaten"}
  /\ kills < MaxKills
  /\ kills' = kills + 1
  /\ Moves(a, "off")
  /\ LET Dead == {r \in DOMAIN requests : requests[r].process = a /\ requests[r].pc # "done"}
     IN /\ requests' = [r \in DOMAIN requests |-> IF r \notin Dead THEN requests[r]
                          ELSE Cut(r)]
        /\ bound' = [r \in Requests |-> IF r \in Dead THEN NoId ELSE bound[r]]
  /\ UNCHANGED <<installed, database, lines>>

Next ==
  \/ \E a \in Processes : Launch(a) \/ StartStep(a) \/ Kill(a)
  \/ \E r \in Requests : \/ \E a \in Processes : Arrive(r, a)
                         \/ RequestStep(r) \/ RequestFault(r)

Spec == Init /\ [][Next]_vars

(* The event loop drives what has begun, PostgreSQL ends waits for a lock  *)
(* that is released, and the provider answers within its timeout; nobody   *)
(* has to start a process or send a request, and nothing has to fail.      *)
Fairness ==
  /\ \A a \in Processes : WF_vars(StartStep(a))
  /\ \A r \in Requests : WF_vars(RequestStep(r))

FairSpec == Spec /\ Fairness
-----------------------------------------------------------------------------
Request ==
  [process : Processes, call : Calls, pc : RequestPoints, connection : BOOLEAN,
   caller : {"nobody", "anyone", "developer"}, status : Nat,
   envelope : Requests \cup {NoId}, header : Requests \cup {NoId}]

Events == {"app.error", "request.completed", "request.failed", "unhandled.exception"}

Typed ==
  /\ settings \in Deployments /\ lateExit \in BOOLEAN /\ kills \in 0..MaxKills
  /\ rows \subseteq PrincipalRows
  /\ DOMAIN projects \subseteq Requests \cup {Foreign}
  /\ \A p \in DOMAIN projects : projects[p] \in Project
  /\ process \in [Processes -> Points]
  /\ DOMAIN requests \subseteq Requests
  /\ \A r \in DOMAIN requests : requests[r] \in Request
  /\ bound \in [Requests -> Requests \cup {NoId}]
  /\ lines \subseteq [request : Requests, event : Events, request_id : Requests \cup {NoId}]

PoolIsBounded == \A a \in Processes : Connections(a) <= PoolSize

\* The type invariant; no process has more connections than its pool.
TypeOK == Typed /\ PoolIsBounded

(* "A project named ... already exists" (project_service.py:34-37) is only *)
(* said when one is committed, though it is what ANY violated constraint   *)
(* is reported as: the rows a project refers to are there before the first *)
(* request is served (main.py:36-37), and PostgreSQL makes the second of   *)
(* two inserts of a name wait for the first to commit or roll back.        *)
ConflictMeansDuplicate ==
  \A r \in DOMAIN requests :
    requests[r].status = 409 => Taken("development", requests[r].call.name)

(* However many clients create a project of a name at once, through as many*)
(* processes as there are, an organization has it once                     *)
(* (models/project.py:21-23).                                              *)
NamesAreUnique ==
  \A p, q \in DOMAIN projects : projects[p] = projects[q] => p = q

(* A process that loses the race to seed the principal ends, and nothing   *)
(* starts it again; then the winner has committed both rows, so that it    *)
(* serves, and whoever is started later finds them                         *)
(* ("idempotently", bootstrap.py:26).                                      *)
LosersFindTheRows ==
  (\E a \in Processes : In(a, "beaten")) => rows = PrincipalRows

(* "so every log line and trace span carries it" (request_context.py:19-20)*)
(* : between its arrival and its response a request logs and reports its   *)
(* own id, whatever other requests the process is serving.  What is beyond *)
(* the middlewares has no id: the handler of last resort alone.            *)
LinesNameTheirRequest ==
  /\ \A l \in lines : l.event # "unhandled.exception" => l.request_id = l.request
  /\ \A r \in DOMAIN requests :
       requests[r].status \notin {0, 200, 201, 500, 503} => requests[r].envelope = r

(* A client told 201 can rely on the project, if the session is left before*)
(* the response is sent (deps.py:30-39): a failed commit and a process that*)
(* dies are told as an error, or not at all.                               *)
CreatedIsStored ==
  \A r \in DOMAIN requests :
    requests[r].status = 201 => r \in DOMAIN projects \/ lateExit

(* "validate_runtime_settings() refuses to boot production in that mode, so*)
(* this cannot ship by accident" (deps.py:49-50): no request to a process  *)
(* in production is served as the development principal.                   *)
DeveloperStaysHome ==
  settings.ENVIRONMENT = "production" =>
    \A r \in DOMAIN requests : requests[r].caller # "developer"

(* Why it is so: who serves has passed validation and found or seeded the  *)
(* rows; a request keeps its id until it leaves the middlewares and its    *)
(* connection while it works; and what a transaction has inserted, nobody  *)
(* has committed or is inserting besides.                                  *)
Up == {"starting", "unseeded", "inserting", "found", "adding", "serving"}

ProcessInv ==
  /\ rows \in {{}, {"organization"}, PrincipalRows}
  /\ \A a \in Processes :
       /\ process[a] \in Up => Accepts(settings)
       /\ process[a] \in {"unseeded", "inserting"} => rows # {"organization"}
       /\ In(a, "beaten") => rows = PrincipalRows
       /\ In(a, "serving") /\ settings.AUTH_MODE = "disabled" => rows = PrincipalRows

Named == {"routed", "opening", "connected", "calling", "returned", "replied", "raising"}

RecordOK(r, q, id) ==
  /\ q.caller = "developer" => settings.AUTH_MODE = "disabled"
  /\ q.pc \in {"opening", "connected"} /\ q.call.endpoint \notin Open =>
       settings.AUTH_MODE = "disabled"
  /\ q.pc \in {"connected", "calling", "returned"} => q.connection
  /\ q.pc \in Named => id = r
  /\ q.status = 409 => Taken("development", q.call.name)
  /\ q.status = 201 => r \in DOMAIN projects \/ lateExit
  /\ q.status \notin {0, 200, 201, 500, 503} => q.envelope = r

Settled(q) == ~q.connection /\ q.pc \in {"replied", "done", "lost"}

RequestInv ==
  /\ DOMAIN requests # {} =>
       /\ Accepts(settings)
       /\ settings.AUTH_MODE = "disabled" => rows = PrincipalRows
  /\ \A r \in DOMAIN requests : RecordOK(r, requests[r], bound[r])
  /\ \A r \in DOMAIN projects \cap Requests : Arrived(r) /\ Settled(requests[r])
  /\ \A r \in DOMAIN requests : Inserting(r) =>
       /\ ~Taken("development", requests[r].call.name)
       /\ \A q \in DOMAIN requests \ {r} :
            Inserting(q) => requests[q].call.name # requests[r].call.name
  /\ \A l \in lines : l.event # "unhandled.exception" => l.request_id = l.request
  /\ NamesAreUnique

(* Every request is answered, or cut off by the death of its process: no   *)
(* route keeps a connection another waits for, nor a name locked.          *)
EveryRequestIsAnswered ==
  \A r \in Requests : Arrived(r) ~> Arrived(r) /\ requests[r].pc \in {"done", "lost"}
=============================================================================
