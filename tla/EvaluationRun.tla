---------------------------- MODULE EvaluationRun ----------------------------
(***************************************************************************)
(* Evaluation runs: registered or requested over HTTP, executed by the arq *)
(* worker item by item in ONE database transaction, and settled by a last  *)
(* commit.  A job is identified by its run here, since POST /run is the    *)
(* only place that queues one.                                             *)
(*                                                                         *)
(*   datasets    the names that have a dataset row                         *)
(*   runs        the evaluation_runs table, a function on the ids in it    *)
(*   results     the evaluation_results table: per run, how many rows it   *)
(*               holds for an item with an outcome                         *)
(*   drawn       the run ids uuid4 has drawn so far: none is drawn twice    *)
(*   calls       runs committed by POST /run that are not queued yet       *)
(*   jobs        the queued and running jobs, by run                       *)
(*   configured  whether the provider key is set                           *)
(*   interrupts  how often the worker died or restarted so far             *)
(*   calm        fixed at the start: Redis answers, no job meets an        *)
(*               exception nobody expects, nor its time limit, nor is any  *)
(*               cut short so often that arq gives it up                   *)
(***************************************************************************)
EXTENDS Integers, FiniteSets

CONSTANTS
  RunIds,        \* ids uuid4 may draw for runs
  Names,         \* (project, name) pairs a dataset may have
  Items,         \* evaluation items
  ItemsOf,       \* the items of the dataset of each name
  MaxTries,      \* arq max_tries
  MaxInterrupts  \* bound: crashes, shutdowns and redeployments of the worker

ASSUME DatasetAssumption ==
  /\ IsFiniteSet(Items)
  /\ ItemsOf \in [Names -> (SUBSET Items) \ {{}}]

ASSUME TriesAssumption == MaxTries \in Nat \ {0} /\ MaxInterrupts \in Nat

VARIABLES datasets, runs, results, drawn, calls, jobs, configured, interrupts, calm

tables == <<datasets, runs, results>>
api == <<drawn, calls>>
world == <<configured, interrupts, calm>>
vars == <<datasets, runs, results, drawn, calls, jobs, configured, interrupts, calm>>

Statuses == {"pending", "running", "completed", "failed"}
Outcomes == {"ok", "error"}
Codes == {"none", "PROVIDER_NOT_CONFIGURED", "PROVIDER_FAILED"}

\* `needs` abstracts the frozen config: a strategy that embeds, or generation.
Run == [dataset : Names, needs : BOOLEAN, status : Statuses, error : Codes,
        items : Nat, completed : Nat, failed : Nat]

NewRun(n, needs) ==
  [dataset |-> n, needs |-> needs, status |-> "pending", error |-> "none",
   items |-> Cardinality(ItemsOf[n]), completed |-> 0, failed |-> 0]

NoResults == [x \in Items \X Outcomes |-> 0]

Exists(r) == r \in DOMAIN runs

Queued(tries) ==
  [tries |-> tries, pc |-> "queued",
   needs |-> FALSE,     \* of the config it loaded
   left |-> {},         \* the items it has not run yet
   done |-> <<>>,       \* the results its session holds, by item
   flushed |-> FALSE,   \* whether its transaction has inserted any of them
   code |-> "none"]     \* the error it records

At(job, pc) == [Queued(job.tries) EXCEPT !.pc = pc]

In(r, pc) == r \in DOMAIN jobs /\ jobs[r].pc = pc

Works(r) == r \in DOMAIN jobs /\ jobs[r].pc # "queued"

Drop(r) == jobs' = [q \in DOMAIN jobs \ {r} |-> jobs[q]]

(* Adding a result does not send it: the next item's first query flushes   *)
(* it, and an inserted result locks the row of the run it refers to.       *)
Locked(r) == r \in DOMAIN jobs /\ jobs[r].flushed

Init ==
  /\ datasets = {} /\ runs = <<>> /\ drawn = {} /\ calls = {} /\ jobs = <<>>
  /\ results = [r \in RunIds |-> NoResults]
  /\ configured \in BOOLEAN /\ calm \in BOOLEAN
  /\ interrupts = 0
-----------------------------------------------------------------------------
(* The API.                                                                *)

\* A name already taken violates the constraint and is a conflict.
CreateDataset(n) ==
  /\ n \notin datasets
  /\ datasets' = datasets \cup {n}
  /\ UNCHANGED <<runs, results, api, jobs, world>>

\* POST "" commits a run and leaves it at that; POST /run goes on to queue it.
CreateRun(r, n, needs, queued) ==
  /\ n \in datasets
  /\ r \notin drawn
  /\ drawn' = drawn \cup {r}
  /\ runs' = [q \in DOMAIN runs \cup {r} |-> IF q = r THEN NewRun(n, needs) ELSE runs[q]]
  /\ calls' = IF queued THEN calls \cup {r} ELSE calls
  /\ UNCHANGED <<datasets, results, jobs, world>>

EnqueueRun(r) ==
  /\ r \in calls
  /\ calls' = calls \ {r}
  /\ jobs' = [q \in DOMAIN jobs \cup {r} |-> IF q = r THEN Queued(0) ELSE jobs[q]]
  /\ UNCHANGED <<tables, drawn, world>>

\* The API dies, or Redis does not answer, after the commit.
LoseCall(r) ==
  /\ r \in calls
  /\ ~calm
  /\ calls' = calls \ {r}
  /\ UNCHANGED <<tables, drawn, jobs, world>>

\* A dataset deleted with its project: ON DELETE CASCADE takes runs and results.
DeleteDataset(n) ==
  LET Gone == {r \in DOMAIN runs : runs[r].dataset = n}
  IN /\ n \in datasets
     /\ \A r \in Gone : ~Locked(r)
     /\ datasets' = datasets \ {n}
     /\ runs' = [r \in DOMAIN runs \ Gone |-> runs[r]]
     /\ results' = [r \in RunIds |-> IF r \in Gone THEN NoResults ELSE results[r]]
     /\ UNCHANGED <<api, jobs, world>>
-----------------------------------------------------------------------------
(* The job: EvaluationService.execute.                                     *)

\* Variant: nobody counts the tries.
StartUncounted(r) ==
  /\ In(r, "queued")
  /\ Exists(r)
  /\ jobs' = [jobs EXCEPT ![r].pc = "loaded", ![r].tries = @ + 1,
                          ![r].needs = runs[r].needs]
  /\ UNCHANGED <<tables, api, world>>

\* A run deleted while queued is over without an error.
StartJob(r) ==
  /\ In(r, "queued")
  /\ jobs[r].tries < MaxTries
  /\ IF Exists(r)
     THEN jobs' = [jobs EXCEPT ![r].pc = "loaded", ![r].tries = @ + 1,
                               ![r].needs = runs[r].needs]
     ELSE Drop(r)
  /\ UNCHANGED <<tables, api, world>>

Abandon(r) ==
  /\ In(r, "queued")
  /\ jobs[r].tries = MaxTries
  /\ Drop(r)
  /\ UNCHANGED <<tables, api, world>>

\* RUNNING and started_at are committed before anything is measured.
MarkRunning(r) ==
  /\ In(r, "loaded")
  /\ IF Exists(r)
     THEN /\ runs' = [runs EXCEPT ![r].status = "running"]
          /\ jobs' = [jobs EXCEPT ![r].pc = "running", ![r].left = ItemsOf[runs[r].dataset]]
     ELSE /\ jobs' = [jobs EXCEPT ![r] = At(@, "raising")]
          /\ UNCHANGED runs
  /\ UNCHANGED <<datasets, results, api, world>>

\* Without a key the providers cannot even be built, and nothing is measured.
MissProvider(r) ==
  /\ In(r, "running") /\ jobs[r].done = <<>>
  /\ jobs[r].needs /\ ~configured
  /\ jobs' = [jobs EXCEPT ![r] = [At(@, "failing") EXCEPT !.code = "PROVIDER_NOT_CONFIGURED"]]
  /\ UNCHANGED <<tables, api, world>>

Observed(job, i, outcome, flushes) ==
  [job EXCEPT !.left = @ \ {i},
              !.done = [k \in DOMAIN @ \cup {i} |-> IF k = i THEN outcome ELSE @[k]],
              !.flushed = @ \/ flushes]

\* An item fails when a provider does, before its first query or after it.
Attempted(r, i, outcome, queried) ==
  /\ In(r, "running") /\ i \in jobs[r].left
  /\ jobs[r].needs => configured
  /\ outcome = "error" => jobs[r].needs
  /\ outcome = "ok" => queried
  /\ UNCHANGED <<tables, api, world>>

\* Variant: an item that fails ends the run.
RunItemOrAbort(r, i, outcome, queried) ==
  /\ Attempted(r, i, outcome, queried)
  /\ jobs' = IF outcome = "error"
             THEN [jobs EXCEPT ![r] = [At(@, "failing") EXCEPT !.code = "PROVIDER_FAILED"]]
             ELSE [jobs EXCEPT ![r] = Observed(@, i, outcome, queried)]

\* Variant: every item's result is committed as soon as it is known.
RunItemAndSave(r, i, outcome, queried) ==
  /\ In(r, "running") /\ i \in jobs[r].left
  /\ jobs[r].needs => configured
  /\ Exists(r)
  /\ results' = [results EXCEPT ![r][<<i, outcome>>] = @ + 1]
  /\ jobs' = [jobs EXCEPT ![r] = Observed(@, i, outcome, FALSE)]
  /\ UNCHANGED <<datasets, runs, api, world>>

(* One item.  Its own errors become an observation; its first query inserts*)
(* the results added before it, which fails if their run is gone.          *)
RunItem(r, i, outcome, queried) ==
  LET flushes == queried /\ jobs[r].done # <<>>
  IN /\ Attempted(r, i, outcome, queried)
     /\ jobs' = IF flushes /\ ~Exists(r)
                THEN [jobs EXCEPT ![r] = At(@, "raising")]
                ELSE [jobs EXCEPT ![r] = Observed(@, i, outcome, flushes)]

Rated(done, outcome) == {i \in DOMAIN done : done[i] = outcome}

\* The rows of a transaction's results, added to those of earlier executions.
Added(r) ==
  LET done == jobs[r].done
  IN [x \in Items \X Outcomes |->
       results[r][x] + IF x[1] \in Rated(done, x[2]) THEN 1 ELSE 0]

\* One commit for the results, the counts and COMPLETED; error_code stays.
Complete(r) ==
  /\ In(r, "running") /\ jobs[r].left = {}
  /\ IF Exists(r)
     THEN LET done == jobs[r].done
              completed == Cardinality(Rated(done, "ok"))
          IN /\ results' = [results EXCEPT ![r] = Added(r)]
             /\ runs' = [runs EXCEPT ![r].status = "completed",
                                     ![r].completed = completed,
                                     ![r].failed = Cardinality(DOMAIN done) - completed]
             /\ jobs' = [jobs EXCEPT ![r] = At(@, "ending")]
     ELSE /\ jobs' = [jobs EXCEPT ![r] = At(@, "raising")]
          /\ UNCHANGED <<results, runs>>
  /\ UNCHANGED <<datasets, api, world>>

\* Variant: the error code is recorded and the status is forgotten.
FailQuietly(r) ==
  /\ In(r, "failing")
  /\ runs' = IF Exists(r) THEN [runs EXCEPT ![r].error = jobs[r].code] ELSE runs
  /\ jobs' = [jobs EXCEPT ![r] = At(@, "raising")]
  /\ UNCHANGED <<datasets, results, api, world>>

\* A DomainError: rolled back, the run read again, FAILED committed, raised on.
FailRun(r) ==
  /\ In(r, "failing")
  /\ runs' = IF Exists(r)
             THEN [runs EXCEPT ![r].status = "failed", ![r].error = jobs[r].code]
             ELSE runs
  /\ jobs' = [jobs EXCEPT ![r] = At(@, "raising")]
  /\ UNCHANGED <<datasets, results, api, world>>
-----------------------------------------------------------------------------
(* How a run of the job ends, and what may cut it short.                   *)

Finish(r) ==
  /\ Works(r) /\ jobs[r].pc \in {"ending", "raising"}
  /\ Drop(r)
  /\ UNCHANGED <<tables, api, world>>

\* Any other exception leaves the task as it is; the session rolls back.
Surprise(r) ==
  /\ ~calm
  /\ Works(r) /\ jobs[r].pc \in {"loaded", "running", "failing"}
  /\ jobs' = [jobs EXCEPT ![r] = At(@, "raising")]
  /\ UNCHANGED <<tables, api, world>>

TimeOut(r) ==
  /\ ~calm
  /\ Works(r)
  /\ Drop(r)
  /\ UNCHANGED <<tables, api, world>>

\* The worker dies or restarts: every job it ran is delivered again.
Restart(key) ==
  /\ interrupts < MaxInterrupts
  /\ calm => interrupts + 1 < MaxTries
  /\ interrupts' = interrupts + 1
  /\ configured' = key
  /\ jobs' = [r \in DOMAIN jobs |-> At(jobs[r], "queued")]
  /\ UNCHANGED <<tables, api, calm>>
-----------------------------------------------------------------------------
JobStep(r) ==
  \/ StartJob(r)
  \/ Abandon(r)
  \/ MarkRunning(r)
  \/ MissProvider(r)
  \/ \E i \in Items, outcome \in Outcomes, queried \in BOOLEAN :
       RunItem(r, i, outcome, queried)
  \/ Complete(r)
  \/ FailRun(r)
  \/ Finish(r)

ApiStep(r) ==
  \/ EnqueueRun(r)
  \/ LoseCall(r)
  \/ \E n \in Names, needs, queued \in BOOLEAN : CreateRun(r, n, needs, queued)

Next ==
  \/ \E n \in Names : CreateDataset(n) \/ DeleteDataset(n)
  \/ \E r \in RunIds : ApiStep(r) \/ JobStep(r) \/ Surprise(r) \/ TimeOut(r)
  \/ \E key \in BOOLEAN : Restart(key)

Spec == Init /\ [][Next]_vars

\* The API answers what it accepted and arq drives its jobs; nobody else has to act.
Fairness ==
  \A r \in RunIds : WF_vars(EnqueueRun(r) \/ LoseCall(r)) /\ WF_vars(JobStep(r))

FairSpec == Spec /\ Fairness
-----------------------------------------------------------------------------
Points == {"queued", "loaded", "running", "failing", "raising", "ending"}

Observations == UNION {[S -> Outcomes] : S \in SUBSET Items}

Job == [tries : 0..MaxTries, pc : Points, needs : BOOLEAN, left : SUBSET Items,
        done : Observations, flushed : BOOLEAN, code : Codes]

\* The type invariant; a job is never tried more often than arq allows.
TypeOK ==
  /\ datasets \subseteq Names
  /\ DOMAIN runs \subseteq RunIds /\ \A r \in DOMAIN runs : runs[r] \in Run
  /\ results \in [RunIds -> [Items \X Outcomes -> Nat]]
  /\ drawn \subseteq RunIds /\ calls \subseteq drawn
  /\ DOMAIN jobs \subseteq RunIds /\ \A r \in DOMAIN jobs : jobs[r] \in Job
  /\ configured \in BOOLEAN /\ calm \in BOOLEAN
  /\ interrupts \in 0..MaxInterrupts

(* The stored results of a run are whole executions of its dataset: every  *)
(* item was measured equally often, and no more often than the job may be  *)
(* tried, whatever cut executions short; a run is COMPLETED only with      *)
(* results; and its two counts, which aggregates are read next to, cover   *)
(* every item exactly when there are any results.                          *)
Measured(r, i) == results[r][<<i, "ok">>] + results[r][<<i, "error">>]

Whole(r, n) ==
  LET run == runs[r]
  IN /\ \A i \in Items : Measured(r, i) = IF i \in ItemsOf[run.dataset] THEN n ELSE 0
     /\ run.status = "completed" => n > 0
     /\ run.completed + run.failed = IF n = 0 THEN 0 ELSE run.items
     /\ n = 1 => run.failed = Cardinality({i \in Items : results[r][<<i, "error">>] = 1})

ResultsAreWhole == \A r \in DOMAIN runs : \E n \in 0..MaxTries : Whole(r, n)

(* Why it is so: each try of the job adds one measurement or none, what a  *)
(* running job has done and has left is its dataset, and a run that is gone*)
(* has left nothing behind.                                                *)
InProgress == {"loaded", "running", "failing"}

Spent(r, n) ==
  /\ r \in calls => n = 0
  /\ r \in DOMAIN jobs =>
       /\ n <= jobs[r].tries
       /\ jobs[r].pc \in InProgress => n < jobs[r].tries

JobFollowsDataset(r) ==
  /\ In(r, "queued") \/ In(r, "loaded") => jobs[r].done = <<>>
  /\ In(r, "running") =>
       /\ jobs[r].left \cup DOMAIN jobs[r].done = ItemsOf[runs[r].dataset]
       /\ jobs[r].left \cap DOMAIN jobs[r].done = {}

RunOK(r) ==
  /\ runs[r].items = Cardinality(ItemsOf[runs[r].dataset])
  /\ JobFollowsDataset(r)
  /\ \E n \in 0..MaxTries : Whole(r, n) /\ Spent(r, n)

RunInv ==
  /\ DOMAIN jobs \subseteq drawn /\ DOMAIN runs \subseteq drawn
  /\ calls \cap DOMAIN jobs = {}
  /\ \A r \in RunIds \ DOMAIN runs : results[r] = NoResults
  /\ \A r \in DOMAIN runs : RunOK(r)

(* One item failing never aborts a run: what fails a run is that its       *)
(* configuration needs a provider nobody configured, and nothing else.     *)
OnlyConfigurationFails ==
  \A r \in DOMAIN runs :
    /\ runs[r].status = "failed" => runs[r].error # "none"
    /\ runs[r].error # "none" => runs[r].error = "PROVIDER_NOT_CONFIGURED" /\ runs[r].needs

(* A run POST /run accepted is in the end completed, failed or deleted for *)
(* good, although the worker dies or restarts under it, provider or none,  *)
(* as long as nothing unforeseen is raised and arq does not give up.       *)
Over(r) == Exists(r) => runs[r].status \in {"completed", "failed"}

RequestedRunIsOver == \A r \in RunIds : (calm /\ r \in calls) ~> []Over(r)
=============================================================================
