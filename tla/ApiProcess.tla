----------------------------- MODULE ApiProcess -----------------------------
(***************************************************************************)
(* The state the API keeps while it serves projects, and how one of its    *)
(* processes starts and dies:                                              *)
(*                                                                         *)
(*   settings   what the environment says; every process reads the same    *)
(*   lateExit   whether the installed FastAPI leaves a request's           *)
(*              dependencies after the response (0.118 and later) or       *)
(*              before it; pyproject.toml allows both (fastapi>=0.115)     *)
(*   rows       the committed rows of the development principal            *)
(*   projects   the committed projects, by id                              *)
(*   process    where each process is                                      *)
(*   requests   the requests that have reached a process                   *)
(*   bound      the request id bound in the context of a request's task    *)
(*   lines      the log lines written                                      *)
(*   kills      how many processes have died so far                        *)
(*                                                                         *)
(* A project takes the id of the request that creates it: uuid4 draws none *)
(* twice.                                                                  *)
(***************************************************************************)
EXTENDS Integers, FiniteSets

CONSTANTS
  Processes,    \* API processes that share the database
  Requests,     \* requests, and their request ids
  Deployments,  \* the settings considered
  Names,        \* project names
  Foreign,      \* the id of a project of another organization
  NoId,         \* no request id
  PoolSize,     \* connections a process may have: DATABASE_POOL_SIZE + _MAX_OVERFLOW
  ColumnWidth,  \* EMBEDDING_DIMENSIONS of the chunks table
  MaxKills      \* bound: processes that die

VARIABLES settings, lateExit, rows, projects, process, requests, bound, lines, kills

installed == <<settings, lateExit>>
database == <<rows, projects>>
serving == <<requests, bound, lines>>
vars == <<installed, database, process, serving, kills>>
-----------------------------------------------------------------------------
\* The settings that are validated, and the one that decides who the caller is.
Settings ==
  [ENVIRONMENT : {"development", "staging", "production"},
   AUTH_MODE : {"disabled", "jwt"},
   SECRET_KEY : {"change-me", "secret"},
   DEBUG : BOOLEAN,
   LOG_FORMAT : {"console", "json"},
   MISTRAL_API_KEY : {"absent", "blank", "key"},
   EMBEDDING_DIMENSIONS : Nat]

\* An empty variable is an absent one.
HasKey(s) == s.MISTRAL_API_KEY \notin {"absent", "blank"}

\* Variant: production is not asked how it authenticates.
AcceptsAnyAuth(s) ==
  /\ s.EMBEDDING_DIMENSIONS = ColumnWidth
  /\ s.ENVIRONMENT = "production" =>
       s.SECRET_KEY # "change-me" /\ ~s.DEBUG /\ s.LOG_FORMAT = "json" /\ HasKey(s)

\* validate_runtime_settings does not raise.
Accepts(s) ==
  /\ s.EMBEDDING_DIMENSIONS = ColumnWidth
  /\ s.ENVIRONMENT = "production" =>
       /\ s.SECRET_KEY # "change-me"
       /\ ~s.DEBUG
       /\ s.LOG_FORMAT = "json"
       /\ s.AUTH_MODE # "disabled"
       /\ HasKey(s)

ASSUME DeploymentAssumption ==
  Deployments \subseteq Settings /\ Deployments # {} /\ ColumnWidth \in Nat

ASSUME ServiceAssumption ==
  /\ PoolSize \in Nat \ {0} /\ MaxKills \in Nat /\ Names # {}
  /\ Foreign \notin Requests /\ NoId \notin Requests
-----------------------------------------------------------------------------
(* Tables.  Of the organizations only the development one matters, and one *)
(* other; a project belongs to an organization and names are unique in it. *)

Organizations == {"development", "other"}

PrincipalRows == {"organization", "user"}

Project == [organization : Organizations, name : Names]

Taken(o, n) == \E p \in DOMAIN projects : projects[p] = [organization |-> o, name |-> n]
-----------------------------------------------------------------------------
(* The lifespan of a process.  ensure_dev_principal is one transaction: the*)
(* select of the user flushes the organization added before it, and what   *)
(* another process is inserting is waited for.                             *)

Points == {"off", "starting", "unseeded", "inserting", "found", "adding",
           "serving", "refused", "beaten"}

In(a, pc) == process[a] = pc

Moves(a, pc) == process' = [process EXCEPT ![a] = pc]

\* create_app and the pools; what is unsound ends it, and without authentication
\* the principal is seeded before anything is served.
Launch(a) ==
  /\ process[a] \in {"off", "beaten"}
  /\ Moves(a, IF ~Accepts(settings) THEN "refused"
              ELSE IF settings.AUTH_MODE = "disabled" THEN "starting" ELSE "serving")
  /\ UNCHANGED <<installed, database, serving, kills>>

\* Variant: requests are served without waiting for the rows.
ServeUnseeded(a) ==
  /\ In(a, "starting")
  /\ Moves(a, "serving")
  /\ UNCHANGED <<installed, database, serving, kills>>

FindOrganization(a) ==
  /\ In(a, "starting")
  /\ Moves(a, IF "organization" \in rows THEN "found" ELSE "unseeded")
  /\ UNCHANGED <<installed, database, serving, kills>>

\* Variant: the organization is committed before the user is looked for.
CommitOrganization(a) ==
  /\ In(a, "unseeded")
  /\ rows' = rows \cup {"organization"}
  /\ Moves(a, IF "organization" \in rows THEN "beaten" ELSE "found")
  /\ UNCHANGED <<installed, projects, serving, kills>>

\* Beaten to it: the primary key is violated, and the process ends.
InsertOrganization(a) ==
  /\ In(a, "unseeded")
  /\ \A b \in Processes : ~In(b, "inserting")
  /\ Moves(a, IF "organization" \in rows THEN "beaten" ELSE "inserting")
  /\ UNCHANGED <<installed, database, serving, kills>>

FindUser(a) ==
  /\ In(a, "found")
  /\ Moves(a, IF "user" \in rows THEN "serving" ELSE "adding")
  /\ UNCHANGED <<installed, database, serving, kills>>

\* Whatever is missing in one commit.
CommitRows(a) ==
  /\ process[a] \in {"inserting", "adding"}
  /\ IF "user" \in rows
     THEN Moves(a, "beaten") /\ UNCHANGED rows
     ELSE Moves(a, "serving") /\ rows' = PrincipalRows
  /\ UNCHANGED <<installed, projects, serving, kills>>

StartStep(a) ==
  FindOrganization(a) \/ InsertOrganization(a) \/ FindUser(a) \/ CommitRows(a)
=============================================================================
