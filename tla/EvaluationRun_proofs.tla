------------------------ MODULE EvaluationRun_proofs ------------------------
(***************************************************************************)
(* The safety of evaluation runs, for any number of runs, datasets, items, *)
(* tries and restarts: TypeOK is inductive, RunInv is inductive relative to*)
(* it and gives ResultsAreWhole, and a third invariant, of what a job is   *)
(* about to record, gives OnlyConfigurationFails.  The last part is what   *)
(* RequestedRunIsOver rests on besides fairness: a run winds down, is never*)
(* stuck, and is decided when it is done.                                  *)
(***************************************************************************)
EXTENDS EvaluationRun, FiniteSetTheorems, TLAPS

USE DEF tables, api, world

\* A freshly queued job is well typed.
LEMMA QueuedIsJob ==
  ASSUME NEW n \in 0..MaxTries
  PROVE  Queued(n) \in Job
<1>1. <<>> \in [{} -> Outcomes]
  OBVIOUS
<1>2. <<>> \in Observations
  BY <1>1 DEF Observations
<1> QED BY <1>2 DEF Queued, Job, Points, Codes

\* Moving a job to another point, its locals spent, keeps its type.
LEMMA AtIsJob ==
  ASSUME NEW job \in Job, NEW pc \in Points
  PROVE  At(job, pc) \in Job
<1>1. Queued(job.tries) \in Job
  BY QueuedIsJob DEF Job
<1> QED BY <1>1 DEF At, Job

\* So is a job that sets out to record an error.
LEMMA FailingIsJob ==
  ASSUME NEW job \in Job, NEW code \in Codes
  PROVE  [At(job, "failing") EXCEPT !.code = code] \in Job
<1>1. At(job, "failing") \in Job
  BY AtIsJob DEF Points
<1> QED BY <1>1 DEF Job

\* An observation is one more entry of what a job has done.
LEMMA ObservedIsJob ==
  ASSUME NEW job \in Job, NEW i \in Items, NEW outcome \in Outcomes, NEW b \in BOOLEAN
  PROVE  Observed(job, i, outcome, b) \in Job
<1> DEFINE S == DOMAIN job.done
           new == [k \in S \cup {i} |-> IF k = i THEN outcome ELSE job.done[k]]
<1>1. PICK T \in SUBSET Items : job.done \in [T -> Outcomes]
  BY DEF Job, Observations
<1>2. new \in [S \cup {i} -> Outcomes] /\ S \cup {i} \in SUBSET Items
  BY <1>1
<1>3. new \in Observations
  BY <1>2 DEF Observations
<1>4. Observed(job, i, outcome, b) =
        [job EXCEPT !.left = @ \ {i}, !.done = new, !.flushed = @ \/ b]
  BY DEF Observed
<1> QED BY <1>3, <1>4 DEF Job

\* A run that is completed, or failed, is still one.
LEMMA CompletedIsRun ==
  ASSUME NEW run \in Run, NEW completed \in Nat, NEW failed \in Nat
  PROVE  [run EXCEPT !.status = "completed", !.completed = completed, !.failed = failed] \in Run
  BY DEF Run, Statuses

LEMMA FailedIsRun ==
  ASSUME NEW run \in Run, NEW code \in Codes
  PROVE  [run EXCEPT !.status = "failed", !.error = code] \in Run
  BY DEF Run, Statuses

\* A dataset is finite, and so is every part of it.
LEMMA ItemsFinite ==
  ASSUME NEW S, S \subseteq Items
  PROVE  IsFiniteSet(S) /\ Cardinality(S) \in Nat
  BY DatasetAssumption, FS_Subset, FS_CardinalityType

\* A new row counts the items of its dataset.
LEMMA NewRunIsRun ==
  ASSUME NEW n \in Names, NEW needs \in BOOLEAN
  PROVE  NewRun(n, needs) \in Run
<1>1. Cardinality(ItemsOf[n]) \in Nat
  BY DatasetAssumption, ItemsFinite
<1> QED BY <1>1 DEF NewRun, Run, Statuses, Codes
-----------------------------------------------------------------------------
\* The initial state is well typed.
LEMMA InitTypeOK == Init => TypeOK
  BY TriesAssumption DEF Init, TypeOK, NoResults

\* What is left to show of an action that changes one job, or drops it.
LEMMA JobsAloneTypeOK ==
  ASSUME TypeOK, NEW r, UNCHANGED <<tables, api, world>>,
         \/ Drop(r)
         \/ \E job \in Job : jobs' = [jobs EXCEPT ![r] = job]
  PROVE  TypeOK'
  BY DEF TypeOK, Drop

\* Counting the rows of a transaction keeps the results table well typed.
LEMMA AddedIsTyped ==
  ASSUME TypeOK, NEW r \in RunIds
  PROVE  Added(r) \in [Items \X Outcomes -> Nat]
  BY DEF TypeOK, Added

\* Every action keeps every variable in its type.
LEMMA NextTypeOK == TypeOK /\ [Next]_vars => TypeOK'
<1> SUFFICES ASSUME TypeOK, [Next]_vars PROVE TypeOK'
  OBVIOUS
<1>job. \A r \in DOMAIN jobs : jobs[r] \in Job
  BY DEF TypeOK
<1>1. CASE UNCHANGED vars
  BY <1>1 DEF vars, TypeOK
<1>2. ASSUME NEW n \in Names, CreateDataset(n)
      PROVE  TypeOK'
  BY <1>2 DEF CreateDataset, TypeOK
<1>3. ASSUME NEW n \in Names, DeleteDataset(n)
      PROVE  TypeOK'
  BY <1>3 DEF DeleteDataset, TypeOK, NoResults
<1>4. ASSUME NEW r \in RunIds, ApiStep(r)
      PROVE  TypeOK'
  <2>1. CASE EnqueueRun(r)
    <3>1. Queued(0) \in Job
      BY QueuedIsJob, TriesAssumption
    <3> QED BY <2>1, <3>1 DEF EnqueueRun, TypeOK
  <2>2. CASE LoseCall(r)
    BY <2>2 DEF LoseCall, TypeOK
  <2>3. ASSUME NEW n \in Names, NEW needs \in BOOLEAN, NEW queued \in BOOLEAN,
               CreateRun(r, n, needs, queued)
        PROVE  TypeOK'
    BY <2>3, NewRunIsRun DEF CreateRun, TypeOK
  <2> QED BY <1>4, <2>1, <2>2, <2>3 DEF ApiStep
<1>5. ASSUME NEW r \in RunIds, JobStep(r)
      PROVE  TypeOK'
  <2> USE JobsAloneTypeOK
  <2>1. CASE StartJob(r)
    <3>1. CASE Exists(r)
      <4> DEFINE job == [jobs[r] EXCEPT !.pc = "loaded", !.tries = @ + 1,
                                        !.needs = runs[r].needs]
      <4>1. jobs[r] \in Job /\ jobs[r].tries < MaxTries /\ runs[r] \in Run
        BY <2>1, <3>1, <1>job DEF StartJob, In, Exists, TypeOK
      <4>2. jobs[r].tries + 1 \in 0..MaxTries /\ runs[r].needs \in BOOLEAN
        BY <4>1, TriesAssumption DEF Job, Run
      <4>2a. job \in Job
        BY <4>1, <4>2 DEF Job, Points
      <4>3. jobs' = [jobs EXCEPT ![r] = job]
        BY <2>1, <3>1 DEF StartJob
      <4> QED BY <2>1, <4>2a, <4>3 DEF StartJob
    <3> QED BY <2>1, <3>1 DEF StartJob
  <2>2. CASE Abandon(r)
    BY <2>2 DEF Abandon
  <2>3. CASE MarkRunning(r)
    <3>1. CASE Exists(r)
      <4> DEFINE job == [jobs[r] EXCEPT !.pc = "running", !.left = ItemsOf[runs[r].dataset]]
      <4>1. jobs[r] \in Job /\ runs[r] \in Run
        BY <2>3, <3>1, <1>job DEF MarkRunning, In, Exists, TypeOK
      <4>2. ItemsOf[runs[r].dataset] \subseteq Items
        BY <4>1, DatasetAssumption DEF Run
      <4>3. job \in Job
        BY <4>1, <4>2 DEF Job, Points
      <4>4. jobs' = [jobs EXCEPT ![r] = job]
        BY <2>3, <3>1 DEF MarkRunning
      <4>5. [runs[r] EXCEPT !.status = "running"] \in Run
        BY <4>1 DEF Run, Statuses
      <4> QED BY <2>3, <3>1, <4>3, <4>4, <4>5 DEF MarkRunning, TypeOK
    <3>2. CASE ~Exists(r)
      <4>1. At(jobs[r], "raising") \in Job
        BY <2>3, <1>job, AtIsJob DEF MarkRunning, In, Points
      <4> QED BY <2>3, <3>2, <4>1 DEF MarkRunning
    <3> QED BY <3>1, <3>2
  <2>4. CASE MissProvider(r)
    <3>1. [At(jobs[r], "failing") EXCEPT !.code = "PROVIDER_NOT_CONFIGURED"] \in Job
      BY <2>4, <1>job, FailingIsJob DEF MissProvider, In, Codes
    <3> QED BY <2>4, <3>1 DEF MissProvider
  <2>5. ASSUME NEW i \in Items, NEW outcome \in Outcomes, NEW queried \in BOOLEAN,
               RunItem(r, i, outcome, queried)
        PROVE  TypeOK'
    <3>1. jobs[r] \in Job
      BY <2>5, <1>job DEF RunItem, Attempted, In
    <3>2. At(jobs[r], "raising") \in Job
      BY <3>1, AtIsJob DEF Points
    <3> DEFINE flushes == queried /\ jobs[r].done # <<>>
    <3>3. flushes \in BOOLEAN
      BY Zenon
    <3>4. Observed(jobs[r], i, outcome, flushes) \in Job
      BY <3>1, <3>3, ObservedIsJob
    <3> QED BY <2>5, <3>2, <3>4 DEF RunItem, Attempted
  <2>6. CASE Complete(r)
    <3>1. jobs[r] \in Job
      BY <2>6, <1>job DEF Complete, In
    <3>2. At(jobs[r], "ending") \in Job /\ At(jobs[r], "raising") \in Job
      BY <3>1, AtIsJob DEF Points
    <3>3. CASE Exists(r)
      <4> DEFINE done == jobs[r].done
                 ok == Rated(done, "ok")
      <4>1. PICK T \in SUBSET Items : done \in [T -> Outcomes]
        BY <3>1 DEF Job, Observations
      <4>2. ok \subseteq DOMAIN done /\ IsFiniteSet(DOMAIN done)
        BY <4>1, ItemsFinite DEF Rated
      <4>3. /\ Cardinality(ok) \in Nat /\ Cardinality(DOMAIN done) \in Nat
            /\ Cardinality(ok) <= Cardinality(DOMAIN done)
        BY <4>2, FS_Subset, FS_CardinalityType
      <4>4. Cardinality(DOMAIN done) - Cardinality(ok) \in Nat
        BY <4>3
      <4>5. runs[r] \in Run
        BY <3>3 DEF Exists, TypeOK
      <4>6. [runs[r] EXCEPT !.status = "completed", !.completed = Cardinality(ok),
                            !.failed = Cardinality(DOMAIN done) - Cardinality(ok)] \in Run
        BY ONLY <4>3, <4>4, <4>5, CompletedIsRun
      <4> DEFINE run == [runs[r] EXCEPT !.status = "completed", !.completed = Cardinality(ok),
                                        !.failed = Cardinality(DOMAIN done) - Cardinality(ok)]
      <4>7. /\ runs' = [runs EXCEPT ![r] = run]
            /\ results' = [results EXCEPT ![r] = Added(r)]
            /\ jobs' = [jobs EXCEPT ![r] = At(jobs[r], "ending")]
            /\ UNCHANGED <<datasets, api, world>>
        BY ONLY <2>6, <3>3 DEF Complete
      <4>8. Added(r) \in [Items \X Outcomes -> Nat]
        BY ONLY TypeOK, r \in RunIds, AddedIsTyped
      <4>9. run \in Run
        BY ONLY <4>6
      <4> HIDE DEF run
      <4>10. results' \in [RunIds -> [Items \X Outcomes -> Nat]]
        BY ONLY TypeOK, <4>7, <4>8 DEF TypeOK
      <4>11. DOMAIN runs' \subseteq RunIds /\ \A q \in DOMAIN runs' : runs'[q] \in Run
        BY ONLY TypeOK, <4>7, <4>9 DEF TypeOK
      <4>12. DOMAIN jobs' \subseteq RunIds /\ \A q \in DOMAIN jobs' : jobs'[q] \in Job
        BY ONLY TypeOK, <3>2, <4>7 DEF TypeOK
      <4> QED BY ONLY TypeOK, <4>7, <4>10, <4>11, <4>12 DEF TypeOK, api, world
    <3>4. CASE ~Exists(r)
      BY <2>6, <3>2, <3>4 DEF Complete
    <3> QED BY <3>3, <3>4
  <2>7. CASE FailRun(r)
    <3>1. jobs[r] \in Job
      BY <2>7, <1>job DEF FailRun, In
    <3>2. At(jobs[r], "raising") \in Job /\ jobs[r].code \in Codes
      BY <3>1, AtIsJob DEF Points, Job
    <3>3. Exists(r) => [runs[r] EXCEPT !.status = "failed", !.error = jobs[r].code] \in Run
      BY ONLY <3>2, TypeOK, FailedIsRun DEF Exists, TypeOK
    <3> QED BY <2>7, <3>2, <3>3 DEF FailRun, TypeOK
  <2>8. CASE Finish(r)
    BY <2>8 DEF Finish
  <2> QED BY <1>5, <2>1, <2>2, <2>3, <2>4, <2>5, <2>6, <2>7, <2>8 DEF JobStep
<1>6. ASSUME NEW r \in RunIds, Surprise(r) \/ TimeOut(r)
      PROVE  TypeOK'
  <2>1. CASE Surprise(r)
    <3>1. At(jobs[r], "raising") \in Job
      BY <2>1, <1>job, AtIsJob DEF Surprise, Works, Points
    <3> QED BY <2>1, <3>1, JobsAloneTypeOK DEF Surprise
  <2>2. CASE TimeOut(r)
    BY <2>2, JobsAloneTypeOK DEF TimeOut
  <2> QED BY <1>6, <2>1, <2>2
<1>7. ASSUME NEW key \in BOOLEAN, Restart(key)
      PROVE  TypeOK'
  <2>1. \A r \in DOMAIN jobs : At(jobs[r], "queued") \in Job
    BY <1>job, AtIsJob DEF Points
  <2>2. \A r \in DOMAIN jobs' : jobs'[r] \in Job
    BY <1>7, <2>1 DEF Restart
  <2>3. interrupts' \in 0..MaxInterrupts
    BY <1>7, TriesAssumption DEF Restart, TypeOK
  <2> QED BY <1>7, <2>2, <2>3 DEF Restart, TypeOK
<1> QED BY <1>1, <1>2, <1>3, <1>4, <1>5, <1>6, <1>7 DEF Next

(* Every reachable state is well typed: in particular no job is tried more *)
(* often than arq allows, whatever is delivered again.                     *)
THEOREM TypeCorrect == Spec => []TypeOK
  BY InitTypeOK, NextTypeOK, PTL DEF Spec
-----------------------------------------------------------------------------
\* A run whose row, results and job are as before, in what RunOK says of them.
SameRow(r) ==
  /\ r \in DOMAIN runs /\ results'[r] = results[r]
  /\ runs'[r].dataset = runs[r].dataset /\ runs'[r].items = runs[r].items
  /\ runs'[r].completed = runs[r].completed /\ runs'[r].failed = runs[r].failed
  /\ runs'[r].status = "completed" => runs[r].status = "completed"

SameTry(r) ==
  r \in DOMAIN jobs' =>
    /\ r \in DOMAIN jobs
    /\ jobs'[r].tries = jobs[r].tries
    /\ jobs'[r].pc \in InProgress => jobs[r].pc \in InProgress

\* Then RunOK still holds of it.
LEMMA SameRunOK ==
  ASSUME NEW r, RunOK(r), SameRow(r), SameTry(r), JobFollowsDataset(r)',
         calls' \subseteq calls
  PROVE  RunOK(r)'
<1>1. PICK n \in 0..MaxTries : Whole(r, n) /\ Spent(r, n)
  BY DEF RunOK
<1>2. Whole(r, n)'
  BY <1>1 DEF SameRow, Whole, Measured
<1>3. Spent(r, n)'
  BY <1>1 DEF SameTry, Spent
<1> QED BY <1>2, <1>3 DEF RunOK, SameRow

\* The runs other than that of the job that takes a step.
LEMMA OtherRunOK ==
  ASSUME NEW r, r \in DOMAIN runs, RunOK(r),
         r \in DOMAIN jobs' <=> r \in DOMAIN jobs,
         r \in DOMAIN jobs => jobs'[r] = jobs[r],
         runs'[r] = runs[r], results'[r] = results[r], calls' \subseteq calls
  PROVE  RunOK(r)'
<1>1. SameRow(r) /\ SameTry(r)
  BY DEF SameRow, SameTry
<1>2. JobFollowsDataset(r)'
  BY DEF RunOK, JobFollowsDataset, In
<1> QED BY <1>1, <1>2, SameRunOK

\* A step that drops a job, or moves it to a point where it holds no item.
LEMMA LeavingKeepsRunInv ==
  ASSUME TypeOK, RunInv, NEW r, UNCHANGED <<tables, api, world>>,
         \/ Drop(r)
         \/ /\ r \in DOMAIN jobs
            /\ \E job \in Job : /\ jobs' = [jobs EXCEPT ![r] = job]
                                /\ job.tries = jobs[r].tries
                                /\ job.pc \in InProgress => jobs[r].pc \in InProgress
                                /\ job.pc # "running" /\ job.done = <<>>
  PROVE  RunInv'
<1>1. ASSUME NEW q \in DOMAIN runs
      PROVE  RunOK(q)'
  <2>1. RunOK(q)
    BY DEF RunInv
  <2>2. CASE q = r
    <3>1. SameRow(q) /\ SameTry(q) /\ JobFollowsDataset(q)'
      BY <2>2 DEF SameRow, SameTry, Drop, JobFollowsDataset, In, TypeOK
    <3> QED BY <2>1, <3>1, SameRunOK
  <2>3. CASE q # r
    BY <2>1, <2>3, OtherRunOK DEF Drop
  <2> QED BY <2>2, <2>3
<1>2. DOMAIN jobs' \subseteq DOMAIN jobs
  BY DEF Drop
<1> QED BY <1>1, <1>2 DEF RunInv

\* Nothing has been measured at the start.
LEMMA InitRunInv == Init => RunInv
  BY DEF Init, RunInv

\* What a completed transaction adds: one measurement of every item.
LEMMA CompleteKeepsRunOK ==
  ASSUME TypeOK, RunInv, NEW r \in RunIds, Complete(r), Exists(r)
  PROVE  RunOK(r)'
<1> DEFINE done == jobs[r].done
           ok == Rated(done, "ok")
           err == Rated(done, "error")
           items == ItemsOf[runs[r].dataset]
<1>1. jobs[r] \in Job /\ runs[r] \in Run /\ r \in DOMAIN runs
  BY DEF Complete, In, Exists, TypeOK
<1>2. PICK T \in SUBSET Items : done \in [T -> Outcomes]
  BY <1>1 DEF Job, Observations
<1>3. DOMAIN done = items /\ jobs[r].pc = "running" /\ r \in DOMAIN jobs
  BY <1>1 DEF Complete, In, RunInv, RunOK, JobFollowsDataset
<1>4. items \subseteq Items /\ items # {} /\ IsFiniteSet(items)
  BY <1>2, <1>3, <1>1, DatasetAssumption, ItemsFinite DEF Run
<1>5. /\ ok \cup err = items /\ ok \cap err = {}
      /\ ok \subseteq items /\ err \subseteq items
  BY <1>2, <1>3 DEF Rated, Outcomes
<1>6. /\ IsFiniteSet(ok) /\ IsFiniteSet(err)
      /\ Cardinality(ok) \in Nat /\ Cardinality(err) \in Nat
      /\ Cardinality(items) = Cardinality(ok) + Cardinality(err)
  <2>1. IsFiniteSet(ok) /\ IsFiniteSet(err)
    BY <1>4, <1>5, FS_Subset
  <2>2. Cardinality(ok \cup err) = Cardinality(ok) + Cardinality(err) - Cardinality(ok \cap err)
    BY <2>1, FS_Union
  <2>3. Cardinality(ok \cap err) = 0
    BY <1>5, FS_EmptySet
  <2>4. Cardinality(ok) \in Nat /\ Cardinality(err) \in Nat
    BY <2>1, FS_CardinalityType
  <2> HIDE DEF ok, err, items
  <2>5. Cardinality(items) = Cardinality(ok) + Cardinality(err)
    <3>1. ok \cup err = items
      BY <1>5
    <3>2. Cardinality(items) = Cardinality(ok) + Cardinality(err) - Cardinality(ok \cap err)
      BY <2>2, <3>1, Zenon
    <3> QED BY <2>3, <2>4, <3>2
  <2> QED BY <2>1, <2>4, <2>5
<1>7. /\ runs'[r].dataset = runs[r].dataset /\ runs'[r].items = runs[r].items
      /\ runs'[r].completed = Cardinality(ok)
      /\ runs'[r].failed = Cardinality(items) - Cardinality(ok)
  <2>1. runs' = [runs EXCEPT ![r].status = "completed",
                             ![r].completed = Cardinality(ok),
                             ![r].failed = Cardinality(DOMAIN done) - Cardinality(ok)]
    BY DEF Complete
  <2>2. DOMAIN done = items
    BY <1>3
  <2> HIDE DEF ok, items, done
  <2> QED BY <2>1, <2>2, <1>1 DEF Run
<1>8. /\ jobs'[r] = At(jobs[r], "ending") /\ DOMAIN jobs' = DOMAIN jobs
      /\ jobs'[r].pc = "ending" /\ jobs'[r].tries = jobs[r].tries
  BY <1>3 DEF Complete, At, Queued
<1>9. \A i \in Items, o \in Outcomes :
        results'[r][<<i, o>>] = results[r][<<i, o>>] + IF i \in Rated(done, o) THEN 1 ELSE 0
  BY <1>1 DEF Complete, Added, TypeOK
<1>10. \A i \in Items, o \in Outcomes : results[r][<<i, o>>] \in Nat
  BY DEF TypeOK
<1>11. PICK n \in 0..MaxTries : Whole(r, n) /\ Spent(r, n)
  BY <1>1 DEF RunInv, RunOK
<1>12. n + 1 \in 0..MaxTries /\ n + 1 <= jobs[r].tries
  BY <1>1, <1>3, <1>11, TriesAssumption DEF Spent, InProgress, Job
<1>13. Spent(r, n + 1)'
  BY <1>3, <1>8, <1>12 DEF Spent, InProgress, Complete, RunInv
<1>14. \A i \in Items : Measured(r, i)' = IF i \in items THEN n + 1 ELSE 0
  <2> TAKE i \in Items
  <2>1. Measured(r, i) = IF i \in items THEN n ELSE 0
    BY <1>11 DEF Whole
  <2> QED BY <2>1, <1>5, <1>9, <1>10 DEF Measured, Outcomes
<1>15. n + 1 = 1 => {i \in Items : results'[r][<<i, "error">>] = 1} = err
  <2> SUFFICES ASSUME n = 0
               PROVE  {i \in Items : results'[r][<<i, "error">>] = 1} = err
    BY <1>11
  <2>1. \A i \in Items : Measured(r, i) = 0
    BY <1>11 DEF Whole
  <2>2. ASSUME NEW i \in Items
        PROVE  results'[r][<<i, "error">>] = IF i \in err THEN 1 ELSE 0
    <3>1. results[r][<<i, "ok">>] \in Nat /\ results[r][<<i, "error">>] \in Nat
      BY <1>10 DEF Outcomes
    <3>2. results[r][<<i, "ok">>] + results[r][<<i, "error">>] = 0
      BY <2>1 DEF Measured
    <3>3. results[r][<<i, "error">>] = 0
      BY <3>1, <3>2
    <3>4. results'[r][<<i, "error">>] = results[r][<<i, "error">>] + IF i \in err THEN 1 ELSE 0
      BY <1>9 DEF Outcomes
    <3> HIDE DEF err
    <3> QED BY <3>3, <3>4
  <2> HIDE DEF err
  <2> QED BY <2>2, <1>4, <1>5
<1>16. Whole(r, n + 1)'
  <2>1. runs'[r].items = Cardinality(items)
    BY <1>1, <1>7 DEF RunInv, RunOK
  <2>2. n + 1 > 0 /\ n + 1 # 0
    BY <1>11
  <2>3. \A i \in Items : Measured(r, i)' =
                          IF i \in ItemsOf[runs'[r].dataset] THEN n + 1 ELSE 0
    BY <1>7, <1>14
  <2> HIDE DEF ok, err, items
  <2>4. runs'[r].completed + runs'[r].failed = runs'[r].items
    BY <2>1, <1>6, <1>7
  <2>5. n + 1 = 1 => runs'[r].failed = Cardinality({i \in Items : results'[r][<<i, "error">>] = 1})
    <3>1. runs'[r].failed = Cardinality(err)
      BY <1>6, <1>7
    <3> QED BY <3>1, <1>15
  <2> QED BY <2>2, <2>3, <2>4, <2>5 DEF Whole
<1>17. JobFollowsDataset(r)'
  BY <1>8 DEF JobFollowsDataset, In
<1> QED BY <1>1, <1>7, <1>12, <1>13, <1>16, <1>17 DEF RunInv, RunOK

\* Every action keeps the measurements whole.
LEMMA NextRunInv == TypeOK /\ RunInv /\ [Next]_vars => RunInv'
<1> SUFFICES ASSUME TypeOK, RunInv, [Next]_vars PROVE RunInv'
  OBVIOUS
<1>job. \A r \in DOMAIN jobs : jobs[r] \in Job /\ r \in drawn
  BY DEF TypeOK, RunInv
<1>row. \A r \in DOMAIN runs : runs[r] \in Run /\ RunOK(r) /\ r \in drawn /\ r \in RunIds
  BY DEF TypeOK, RunInv
<1>1. CASE UNCHANGED vars
  <2>1. \A r \in DOMAIN runs : RunOK(r)'
    BY <1>1, <1>row, OtherRunOK DEF vars
  <2> QED BY <1>1, <2>1 DEF vars, RunInv
<1>2. ASSUME NEW n \in Names, CreateDataset(n)
      PROVE  RunInv'
  <2>1. \A r \in DOMAIN runs : RunOK(r)'
    BY <1>2, <1>row, OtherRunOK DEF CreateDataset
  <2> QED BY <1>2, <2>1 DEF CreateDataset, RunInv
<1>3. ASSUME NEW n \in Names, DeleteDataset(n)
      PROVE  RunInv'
  <2>1. \A r \in DOMAIN runs' : RunOK(r)'
    BY <1>3, <1>row, OtherRunOK DEF DeleteDataset
  <2>2. \A r \in RunIds \ DOMAIN runs' : results'[r] = NoResults
    BY <1>3 DEF DeleteDataset, RunInv
  <2> QED BY <1>3, <2>1, <2>2 DEF DeleteDataset, RunInv
<1>4. ASSUME NEW r \in RunIds, ApiStep(r)
      PROVE  RunInv'
  <2>1. CASE EnqueueRun(r)
    <3>1. ASSUME NEW q \in DOMAIN runs
          PROVE  RunOK(q)'
      <4>1. CASE q # r
        BY <1>row, <2>1, <4>1, OtherRunOK DEF EnqueueRun
      <4>2. CASE q = r
        <5>1. PICK n \in 0..MaxTries : Whole(q, n) /\ Spent(q, n)
          BY <1>row DEF RunOK
        <5>2. Whole(q, n)'
          BY <2>1, <5>1 DEF EnqueueRun, Whole, Measured
        <5>3. Spent(q, n)' /\ JobFollowsDataset(q)'
          BY <2>1, <4>2, <5>1 DEF EnqueueRun, Spent, Queued, InProgress, JobFollowsDataset, In
        <5> QED BY <1>row, <2>1, <5>2, <5>3 DEF RunOK, EnqueueRun
      <4> QED BY <4>1, <4>2
    <3> QED BY <2>1, <3>1 DEF EnqueueRun, RunInv, TypeOK
  <2>2. CASE LoseCall(r)
    <3>1. \A q \in DOMAIN runs : RunOK(q)'
      BY <1>row, <2>2, OtherRunOK DEF LoseCall
    <3> QED BY <2>2, <3>1 DEF LoseCall, RunInv
  <2>3. ASSUME NEW n \in Names, NEW needs \in BOOLEAN, NEW queued \in BOOLEAN,
               CreateRun(r, n, needs, queued)
        PROVE  RunInv'
    <3>1. r \notin DOMAIN runs /\ r \notin DOMAIN jobs
      BY <2>3 DEF CreateRun, RunInv
    <3>2. DOMAIN runs' = DOMAIN runs \cup {r} /\ runs'[r] = NewRun(n, needs)
      BY <2>3 DEF CreateRun
    <3>3. ASSUME NEW q \in DOMAIN runs, q # r
          PROVE  RunOK(q)'
      <4>1. PICK k \in 0..MaxTries : Whole(q, k) /\ Spent(q, k)
        BY <1>row DEF RunOK
      <4>2. runs'[q] = runs[q]
        BY <2>3, <3>3 DEF CreateRun
      <4>3. Whole(q, k)'
        BY <2>3, <4>1, <4>2 DEF CreateRun, Whole, Measured
      <4>4. Spent(q, k)' /\ JobFollowsDataset(q)'
        BY <1>row, <2>3, <3>3, <4>1, <4>2 DEF CreateRun, Spent, RunOK, JobFollowsDataset, In
      <4> QED BY <1>row, <4>2, <4>3, <4>4 DEF RunOK
    <3>4. RunOK(r)'
      <4>1. results'[r] = NoResults
        BY <2>3, <3>1 DEF CreateRun, RunInv
      <4>2. Whole(r, 0)'
        BY <3>2, <4>1 DEF Whole, Measured, NoResults, NewRun, Outcomes
      <4>3. Spent(r, 0)' /\ JobFollowsDataset(r)'
        BY <2>3, <3>1 DEF CreateRun, Spent, JobFollowsDataset, In
      <4> QED BY <3>2, <4>2, <4>3, TriesAssumption DEF RunOK, NewRun
    <3>5. calls' \cap DOMAIN jobs' = {}
      BY <2>3, <3>1 DEF CreateRun, RunInv
    <3> QED BY <2>3, <3>1, <3>2, <3>3, <3>4, <3>5 DEF CreateRun, RunInv
  <2> QED BY <1>4, <2>1, <2>2, <2>3 DEF ApiStep
<1>5. ASSUME NEW r \in RunIds, JobStep(r)
      PROVE  RunInv'
  <2>1. CASE StartJob(r)
    <3>1. CASE ~Exists(r)
      BY <2>1, <3>1, LeavingKeepsRunInv DEF StartJob
    <3>2. CASE Exists(r)
      <4>1. /\ DOMAIN jobs' = DOMAIN jobs /\ r \in DOMAIN jobs
            /\ jobs'[r].pc = "loaded" /\ jobs'[r].tries = jobs[r].tries + 1
            /\ jobs'[r].done = jobs[r].done /\ jobs[r].pc = "queued"
            /\ jobs[r].tries \in Nat
        <5> DEFINE job == [jobs[r] EXCEPT !.pc = "loaded", !.tries = @ + 1,
                                          !.needs = runs[r].needs]
        <5>1. jobs[r] \in Job /\ r \in DOMAIN jobs /\ jobs[r].pc = "queued"
          BY <1>job, <2>1 DEF StartJob, In
        <5>2. jobs' = [jobs EXCEPT ![r] = job]
          BY <2>1, <3>2 DEF StartJob
        <5>3. /\ job.pc = "loaded" /\ job.tries = jobs[r].tries + 1
              /\ job.done = jobs[r].done /\ jobs[r].tries \in Nat
          BY <5>1 DEF Job
        <5> QED BY <5>1, <5>2, <5>3
      <4>2. RunOK(r)'
        <5>1. PICK n \in 0..MaxTries : Whole(r, n) /\ Spent(r, n)
          BY <1>row, <3>2 DEF RunOK, Exists
        <5>2. Whole(r, n)'
          BY <2>1, <5>1 DEF StartJob, Whole, Measured
        <5>3. Spent(r, n)' /\ JobFollowsDataset(r)'
          BY <1>row, <2>1, <3>2, <4>1, <5>1 DEF StartJob, Spent, JobFollowsDataset, In, RunOK, Exists
        <5> QED BY <1>row, <2>1, <3>2, <5>2, <5>3 DEF RunOK, StartJob, Exists
      <4>3. \A q \in DOMAIN runs \ {r} : RunOK(q)'
        BY <1>row, <2>1, <3>2, OtherRunOK DEF StartJob
      <4> QED BY <2>1, <4>1, <4>2, <4>3 DEF StartJob, RunInv
    <3> QED BY <3>1, <3>2
  <2>2. CASE Abandon(r)
    BY <2>2, LeavingKeepsRunInv DEF Abandon
  <2>3. CASE MarkRunning(r)
    <3>1. CASE ~Exists(r)
      <4>1. At(jobs[r], "raising") \in Job
        BY <1>job, <2>3, AtIsJob DEF MarkRunning, In, Points
      <4> QED BY <2>3, <3>1, <4>1, LeavingKeepsRunInv DEF MarkRunning, In, At, Queued, InProgress
    <3>2. CASE Exists(r)
      <4> DEFINE job == [jobs[r] EXCEPT !.pc = "running", !.left = ItemsOf[runs[r].dataset]]
      <4>1. /\ DOMAIN jobs' = DOMAIN jobs /\ r \in DOMAIN jobs /\ jobs'[r] = job
            /\ jobs[r].pc = "loaded" /\ jobs[r] \in Job
        BY <1>job, <2>3, <3>2 DEF MarkRunning, In
      <4>2. /\ job.done = <<>> /\ job.left = ItemsOf[runs[r].dataset]
            /\ job.pc = "running" /\ job.tries = jobs[r].tries
        BY <1>row, <3>2, <4>1 DEF Job, RunOK, JobFollowsDataset, In, Exists
      <4>3. /\ runs' = [runs EXCEPT ![r].status = "running"]
            /\ UNCHANGED <<datasets, results, api, world>>
        BY <2>3, <3>2 DEF MarkRunning
      <4>4. RunOK(r)'
        <5>1. SameRow(r)
          BY <1>row, <3>2, <4>3 DEF SameRow, Exists, Run
        <5>2. SameTry(r)
          BY <4>1, <4>2 DEF SameTry, InProgress
        <5>3. JobFollowsDataset(r)'
          BY <4>1, <4>2, <5>1 DEF JobFollowsDataset, In, SameRow
        <5> QED BY <1>row, <3>2, <4>3, <5>1, <5>2, <5>3, SameRunOK DEF Exists
      <4>5. \A q \in DOMAIN runs \ {r} : RunOK(q)'
        BY <1>row, <2>3, <4>1, <4>3, OtherRunOK DEF MarkRunning
      <4> QED BY <4>1, <4>3, <4>4, <4>5 DEF RunInv
    <3> QED BY <3>1, <3>2
  <2>4. CASE MissProvider(r)
    <3>1. /\ r \in DOMAIN jobs /\ jobs[r].pc = "running"
          /\ [At(jobs[r], "failing") EXCEPT !.code = "PROVIDER_NOT_CONFIGURED"] \in Job
      BY <2>4, <1>job, FailingIsJob DEF MissProvider, In, Codes
    <3> QED BY <2>4, <3>1, LeavingKeepsRunInv DEF MissProvider, At, Queued, InProgress
  <2>5. ASSUME NEW i \in Items, NEW outcome \in Outcomes, NEW queried \in BOOLEAN,
               RunItem(r, i, outcome, queried)
        PROVE  RunInv'
    <3> DEFINE flushes == queried /\ jobs[r].done # <<>>
               new == Observed(jobs[r], i, outcome, flushes)
    <3>1. /\ jobs[r] \in Job /\ r \in DOMAIN jobs /\ jobs[r].pc = "running"
          /\ i \in jobs[r].left
      BY <1>job, <2>5 DEF RunItem, Attempted, In
    <3>2. UNCHANGED <<tables, api, world>>
      BY <2>5 DEF RunItem, Attempted
    <3>3. CASE jobs' = [jobs EXCEPT ![r] = At(jobs[r], "raising")]
      <4>1. At(jobs[r], "raising") \in Job
        BY <3>1, AtIsJob DEF Points
      <4> QED BY <3>1, <3>2, <3>3, <4>1, LeavingKeepsRunInv DEF At, Queued, InProgress
    <3>4. CASE jobs' = [jobs EXCEPT ![r] = new]
      <4>1. /\ new.left = jobs[r].left \ {i}
            /\ DOMAIN new.done = DOMAIN jobs[r].done \cup {i}
            /\ new.pc = "running" /\ new.tries = jobs[r].tries
        BY <3>1 DEF Observed, Job
      <4> HIDE DEF new
      <4>2. DOMAIN jobs' = DOMAIN jobs /\ jobs'[r] = new
        BY <3>1, <3>4
      <4>3. ASSUME r \in DOMAIN runs
            PROVE  RunOK(r)'
        <5>1. SameRow(r) /\ SameTry(r)
          BY <3>1, <3>2, <4>1, <4>2, <4>3 DEF SameRow, SameTry, InProgress
        <5>2. JobFollowsDataset(r)'
          BY <1>row, <3>1, <3>2, <4>1, <4>2, <4>3 DEF RunOK, JobFollowsDataset, In
        <5> QED BY <1>row, <3>2, <4>3, <5>1, <5>2, SameRunOK
      <4>4. \A q \in DOMAIN runs \ {r} : RunOK(q)'
        BY <1>row, <3>2, <3>4, OtherRunOK
      <4> QED BY <3>2, <4>2, <4>3, <4>4 DEF RunInv
    <3> QED BY <2>5, <3>3, <3>4 DEF RunItem
  <2>6. CASE Complete(r)
    <3>1. /\ r \in DOMAIN jobs /\ jobs[r].pc = "running"
          /\ At(jobs[r], "raising") \in Job
      BY <1>job, <2>6, AtIsJob DEF Complete, In, Points
    <3>2. CASE ~Exists(r)
      <4>1. UNCHANGED <<tables, api, world>> /\ jobs' = [jobs EXCEPT ![r] = At(jobs[r], "raising")]
        BY <2>6, <3>2 DEF Complete
      <4> QED BY <3>1, <4>1, LeavingKeepsRunInv DEF At, Queued, InProgress
    <3>3. CASE Exists(r)
      <4>1. /\ DOMAIN jobs' = DOMAIN jobs /\ DOMAIN runs' = DOMAIN runs
            /\ UNCHANGED <<datasets, api, world>>
            /\ \A q \in DOMAIN runs \ {r} :
                 /\ runs'[q] = runs[q] /\ results'[q] = results[q]
                 /\ q \in DOMAIN jobs => jobs'[q] = jobs[q]
            /\ \A q \in RunIds \ {r} : results'[q] = results[q]
        BY <1>row, <2>6, <3>3 DEF Complete, TypeOK
      <4>2. \A q \in DOMAIN runs \ {r} : RunOK(q)'
        BY <1>row, <4>1, OtherRunOK
      <4>3. RunOK(r)'
        BY <2>6, <3>3, CompleteKeepsRunOK
      <4> QED BY <3>3, <4>1, <4>2, <4>3 DEF RunInv, Exists
    <3> QED BY <3>2, <3>3
  <2>7. CASE FailRun(r)
    <3>1. /\ r \in DOMAIN jobs /\ jobs' = [jobs EXCEPT ![r] = At(jobs[r], "raising")]
          /\ UNCHANGED <<datasets, results, api, world>>
      BY <2>7 DEF FailRun, In
    <3>2. At(jobs[r], "raising").pc = "raising" /\ At(jobs[r], "raising").tries = jobs[r].tries
      BY DEF At, Queued
    <3>3. /\ DOMAIN runs' = DOMAIN runs
          /\ \A q \in DOMAIN runs \ {r} : runs'[q] = runs[q]
      BY <2>7 DEF FailRun
    <3>4. \A q \in DOMAIN runs \ {r} : RunOK(q)'
      BY <1>row, <3>1, <3>3, OtherRunOK
    <3>5. ASSUME r \in DOMAIN runs
          PROVE  RunOK(r)'
      <4>1. SameRow(r)
        BY <1>row, <2>7, <3>1, <3>5 DEF FailRun, SameRow, Run, Exists
      <4>2. SameTry(r) /\ JobFollowsDataset(r)'
        BY <3>1, <3>2 DEF SameTry, InProgress, JobFollowsDataset, In
      <4> QED BY <1>row, <3>1, <3>5, <4>1, <4>2, SameRunOK
    <3> QED BY <3>1, <3>3, <3>4, <3>5 DEF RunInv
  <2>8. CASE Finish(r)
    BY <2>8, LeavingKeepsRunInv DEF Finish
  <2> QED BY <1>5, <2>1, <2>2, <2>3, <2>4, <2>5, <2>6, <2>7, <2>8 DEF JobStep
<1>6. ASSUME NEW r \in RunIds, Surprise(r) \/ TimeOut(r)
      PROVE  RunInv'
  <2>1. CASE Surprise(r)
    <3>1. r \in DOMAIN jobs /\ At(jobs[r], "raising") \in Job
      BY <2>1, <1>job, AtIsJob DEF Surprise, Works, Points
    <3> QED BY <2>1, <3>1, LeavingKeepsRunInv DEF Surprise, At, Queued, InProgress
  <2>2. CASE TimeOut(r)
    BY <2>2, LeavingKeepsRunInv DEF TimeOut
  <2> QED BY <1>6, <2>1, <2>2
<1>7. ASSUME NEW key \in BOOLEAN, Restart(key)
      PROVE  RunInv'
  <2>1. UNCHANGED <<tables, api>> /\ DOMAIN jobs' = DOMAIN jobs
    BY <1>7 DEF Restart
  <2>2. \A r \in DOMAIN jobs : /\ jobs'[r].pc = "queued" /\ jobs'[r].tries = jobs[r].tries
                              /\ jobs'[r].done = <<>>
    BY <1>7 DEF Restart, At, Queued
  <2>3. ASSUME NEW r \in DOMAIN runs
        PROVE  RunOK(r)'
    <3>1. SameRow(r) /\ SameTry(r) /\ JobFollowsDataset(r)'
      BY <2>1, <2>2 DEF SameRow, SameTry, InProgress, JobFollowsDataset, In
    <3> QED BY <1>row, <2>1, <3>1, SameRunOK
  <2> QED BY <2>1, <2>3 DEF RunInv
<1> QED BY <1>1, <1>2, <1>3, <1>4, <1>5, <1>6, <1>7 DEF Next

(* A run's stored results are whole measurements of its dataset, no more of*)
(* them than the job may be tried, and its counts cover every item.        *)
THEOREM MeasurementsStayWhole == Spec => []ResultsAreWhole
<1>1. RunInv => ResultsAreWhole
  BY DEF RunInv, RunOK, ResultsAreWhole
<1> QED BY <1>1, TypeCorrect, InitRunInv, NextRunInv, PTL DEF Spec
-----------------------------------------------------------------------------
(* What a job is about to record of its run: while it runs it knows whether*)
(* the run needs a provider, and what it fails with is that there is none. *)
AboutToFail(r) ==
  LET job == jobs[r]
  IN /\ job.pc \in {"loaded", "running"} => job.needs = runs[r].needs
     /\ job.pc = "failing" => job.code = "PROVIDER_NOT_CONFIGURED" /\ runs[r].needs

FailInv ==
  /\ OnlyConfigurationFails
  /\ \A r \in DOMAIN runs \cap DOMAIN jobs : AboutToFail(r)

\* It is enough to look at the rows and the jobs a step changes.
LEMMA UnchangedFailInv ==
  ASSUME FailInv,
         \A r \in DOMAIN runs' : r \in DOMAIN runs /\ runs'[r] = runs[r],
         \A r \in DOMAIN runs' \cap DOMAIN jobs' :
           \/ r \in DOMAIN jobs /\ jobs'[r] = jobs[r]
           \/ AboutToFail(r)'
  PROVE  FailInv'
  BY DEF FailInv, OnlyConfigurationFails, AboutToFail

\* No action but FailRun fails a run, and only for want of a provider.
LEMMA NextFailInv == TypeOK /\ RunInv /\ FailInv /\ [Next]_vars => FailInv'
<1> SUFFICES ASSUME TypeOK, RunInv, FailInv, [Next]_vars PROVE FailInv'
  OBVIOUS
<1> USE UnchangedFailInv
<1>job. \A r \in DOMAIN jobs : jobs[r] \in Job
  BY DEF TypeOK
<1>1. CASE UNCHANGED vars
  BY <1>1 DEF vars
<1>2. ASSUME NEW n \in Names, CreateDataset(n) \/ DeleteDataset(n)
      PROVE  FailInv'
  BY <1>2 DEF CreateDataset, DeleteDataset
<1>3. ASSUME NEW r \in RunIds, ApiStep(r)
      PROVE  FailInv'
  <2>1. CASE EnqueueRun(r)
    BY <2>1 DEF EnqueueRun, AboutToFail, Queued
  <2>2. CASE LoseCall(r)
    BY <2>2 DEF LoseCall
  <2>3. ASSUME NEW n \in Names, NEW needs \in BOOLEAN, NEW queued \in BOOLEAN,
               CreateRun(r, n, needs, queued)
        PROVE  FailInv'
    BY <2>3 DEF CreateRun, RunInv, FailInv, OnlyConfigurationFails, AboutToFail, NewRun
  <2> QED BY <1>3, <2>1, <2>2, <2>3 DEF ApiStep
<1>4. ASSUME NEW r \in RunIds, JobStep(r)
      PROVE  FailInv'
  <2>1. CASE StartJob(r) \/ Abandon(r) \/ Finish(r)
    BY <2>1, <1>job DEF StartJob, Abandon, Finish, Drop, AboutToFail, In, Exists, Job
  <2>2. CASE MarkRunning(r)
    <3>1. r \in DOMAIN jobs /\ jobs[r].pc = "loaded" /\ jobs[r] \in Job
      BY <2>2, <1>job DEF MarkRunning, In
    <3>2. CASE ~Exists(r)
      BY <2>2, <3>1, <3>2 DEF MarkRunning, AboutToFail, Exists, At, Queued
    <3>3. CASE Exists(r)
      <4>1. /\ runs' = [runs EXCEPT ![r].status = "running"] /\ DOMAIN jobs' = DOMAIN jobs
            /\ \A q \in DOMAIN jobs \ {r} : jobs'[q] = jobs[q]
            /\ jobs'[r].pc = "running" /\ jobs'[r].needs = jobs[r].needs
        BY <2>2, <3>1, <3>3 DEF MarkRunning, Job
      <4>2. /\ runs[r] \in Run /\ DOMAIN runs' = DOMAIN runs
            /\ \A q \in DOMAIN runs \ {r} : runs'[q] = runs[q]
            /\ runs'[r].error = runs[r].error /\ runs'[r].needs = runs[r].needs
            /\ runs'[r].status = "running"
        BY <3>3, <4>1 DEF Exists, TypeOK, Run
      <4>3. jobs[r].needs = runs[r].needs
        BY <3>1, <3>3 DEF FailInv, AboutToFail, Exists
      <4> QED BY <4>1, <4>2, <4>3 DEF FailInv, OnlyConfigurationFails, AboutToFail
    <3> QED BY <3>2, <3>3
  <2>3. CASE MissProvider(r)
    BY <2>3, <1>job DEF MissProvider, FailInv, AboutToFail, In, At, Queued, Job
  <2>4. ASSUME NEW i \in Items, NEW outcome \in Outcomes, NEW queried \in BOOLEAN,
               RunItem(r, i, outcome, queried)
        PROVE  FailInv'
    <3> DEFINE flushes == queried /\ jobs[r].done # <<>>
               new == Observed(jobs[r], i, outcome, flushes)
    <3>1. /\ jobs[r] \in Job /\ r \in DOMAIN jobs /\ jobs[r].pc = "running"
          /\ UNCHANGED <<tables, api, world>>
      BY <1>job, <2>4 DEF RunItem, Attempted, In
    <3>2. CASE jobs' = [jobs EXCEPT ![r] = At(jobs[r], "raising")]
      BY <3>1, <3>2 DEF AboutToFail, At, Queued
    <3>3. CASE jobs' = [jobs EXCEPT ![r] = new]
      <4>1. new.pc = "running" /\ new.needs = jobs[r].needs
        BY <3>1 DEF Observed, Job
      <4> HIDE DEF new
      <4> QED BY <3>1, <3>3, <4>1 DEF FailInv, AboutToFail
    <3> QED BY <2>4, <3>2, <3>3 DEF RunItem
  <2>5. CASE Complete(r)
    <3>1. /\ r \in DOMAIN jobs /\ DOMAIN jobs' = DOMAIN jobs
          /\ \A q \in DOMAIN jobs \ {r} : jobs'[q] = jobs[q]
          /\ jobs'[r].pc \in {"ending", "raising"}
      BY <2>5 DEF Complete, In, At, Queued
    <3>2. ASSUME NEW q \in DOMAIN runs'
          PROVE  /\ q \in DOMAIN runs
                 /\ runs'[q].error = runs[q].error /\ runs'[q].needs = runs[q].needs
                 /\ runs'[q].status = "failed" => runs[q].status = "failed"
      <4>1. CASE q # r \/ ~Exists(r)
        BY <2>5, <4>1 DEF Complete, Exists
      <4>2. CASE q = r /\ Exists(r)
        BY <2>5, <4>2 DEF Complete, Exists, TypeOK, Run
      <4> QED BY <4>1, <4>2
    <3> QED BY <3>1, <3>2 DEF FailInv, OnlyConfigurationFails, AboutToFail
  <2>6. CASE FailRun(r)
    <3>1. r \in DOMAIN jobs /\ jobs[r].pc = "failing" /\ jobs[r] \in Job
      BY <2>6, <1>job DEF FailRun, In
    <3>2. /\ DOMAIN jobs' = DOMAIN jobs /\ jobs'[r].pc = "raising"
          /\ \A q \in DOMAIN jobs \ {r} : jobs'[q] = jobs[q]
      BY <2>6, <3>1 DEF FailRun, At, Queued
    <3>3. CASE ~Exists(r)
      BY <2>6, <3>2, <3>3 DEF FailRun, FailInv, OnlyConfigurationFails, AboutToFail
    <3>4. CASE Exists(r)
      <4>1. DOMAIN runs' = DOMAIN runs /\ \A q \in DOMAIN runs \ {r} : runs'[q] = runs[q]
        BY <2>6, <3>4 DEF FailRun
      <4>2. /\ runs'[r].status = "failed" /\ runs'[r].error = jobs[r].code
            /\ runs'[r].needs = runs[r].needs
        <5>1. runs[r] \in Run /\ r \in DOMAIN runs
          BY ONLY TypeOK, <3>4 DEF TypeOK, Exists
        <5>2. runs' = [runs EXCEPT ![r] = [runs[r] EXCEPT !.status = "failed", !.error = jobs[r].code]]
          BY ONLY <2>6, <3>4 DEF FailRun
        <5> QED BY ONLY <5>1, <5>2 DEF Run
      <4> QED BY ONLY FailInv, <3>1, <3>2, <3>4, <4>1, <4>2
              DEF FailInv, OnlyConfigurationFails, AboutToFail, Exists
    <3> QED BY ONLY <3>3, <3>4
  <2> QED BY <1>4, <2>1, <2>2, <2>3, <2>4, <2>5, <2>6 DEF JobStep
<1>5. ASSUME NEW r \in RunIds, Surprise(r) \/ TimeOut(r)
      PROVE  FailInv'
  BY <1>5 DEF Surprise, TimeOut, Drop, AboutToFail, At, Queued, Works
<1>6. ASSUME NEW key \in BOOLEAN, Restart(key)
      PROVE  FailInv'
  BY <1>6 DEF Restart, AboutToFail, At, Queued
<1> QED BY <1>1, <1>2, <1>3, <1>4, <1>5, <1>6 DEF Next

(* However items, providers and jobs fail, the only way for a run to be    *)
(* FAILED is a configuration nobody gave a provider for.                   *)
THEOREM ItemsNeverFailRuns == Spec => []OnlyConfigurationFails
<1>1. Init => FailInv
  BY DEF Init, FailInv, OnlyConfigurationFails
<1>2. FailInv => OnlyConfigurationFails
  BY DEF FailInv
<1> QED BY <1>1, <1>2, TypeCorrect, InitRunInv, NextRunInv, NextFailInv, PTL DEF Spec
-----------------------------------------------------------------------------
(* What RequestedRunIsOver rests on besides fairness.  How far a run is    *)
(* from the end of its job: the tries arq has for it, each a stretch of    *)
(* points with the items still to measure, and where in one of them it is. *)
Stretch == Cardinality(Items) + 5

Rank(job) ==
  CASE job.pc = "queued" -> 0
    [] job.pc \in {"raising", "ending"} -> 1
    [] job.pc = "failing" -> 2
    [] job.pc = "running" -> 3 + Cardinality(job.left)
    [] job.pc = "loaded" -> Cardinality(Items) + 4

JobToGo(job) == (MaxTries - job.tries) * Stretch + Rank(job) + 1

ToGo(r) ==
  IF r \in calls THEN MaxTries * Stretch + 2
  ELSE IF r \in DOMAIN jobs THEN JobToGo(jobs[r]) ELSE 0

Steps(r) == EnqueueRun(r) \/ LoseCall(r) \/ JobStep(r)

(* Every step of a run brings its job nearer to its end, and nothing that  *)
(* happens to it, nor a crash or a restart of the worker, takes it back.   *)
RunsWindDown ==
  [][\A r \in drawn : ToGo(r)' <= ToGo(r) /\ (Steps(r) => ToGo(r)' < ToGo(r))]_vars

(* In a calm behaviour a job ends, and a call is lost, only with its run   *)
(* completed, failed or deleted; and what is over without one stays over.  *)
CalmRunsAreDecided ==
  [][calm => \A r \in drawn :
       ToGo(r)' = 0 /\ (ToGo(r) # 0 \/ Over(r)) => Over(r)']_vars

(* A running job can always take its next step, measure an item, complete  *)
(* or fail: a key can only be lost with the worker, so one whose provider  *)
(* is missing has measured nothing yet.  Elsewhere its steps have no guard.*)
NeverStuck ==
  \A r \in DOMAIN jobs :
    jobs[r].pc = "running" =>
      jobs[r].left = {} \/ (jobs[r].needs => configured) \/ jobs[r].done = <<>>

\* The points of one try are fewer than a stretch.
LEMMA RankIsInStretch ==
  ASSUME NEW job \in Job
  PROVE  Stretch \in Nat /\ Rank(job) \in Nat /\ Rank(job) < Stretch
<1>1. PICK n \in Nat : n = Cardinality(Items)
  BY ItemsFinite
<1>2. PICK k \in Nat : k = Cardinality(job.left) /\ k <= n
  <2>1. job.left \subseteq Items /\ IsFiniteSet(Items)
    BY DatasetAssumption DEF Job
  <2> QED BY ONLY <1>1, <2>1, FS_Subset, FS_CardinalityType
<1>3. Stretch = n + 5
  BY <1>1 DEF Stretch
<1>4. job.pc \in Points
  BY DEF Job
<1>5. Rank(job) \in {0, 1, 2, 3 + k, n + 4}
  BY ONLY <1>1, <1>2, <1>4 DEF Rank, Points
<1> QED BY ONLY <1>2, <1>3, <1>5

\* A try that is spent outweighs every point of it.
LEMMA OneTryLess ==
  ASSUME NEW t \in Nat, NEW s \in Nat, NEW k \in Nat, NEW l \in Nat,
         NEW m \in Nat, t + 1 <= m, k < s
  PROVE  (m - (t + 1)) * s + k + 1 < (m - t) * s + l + 1
<1>1. PICK n \in Nat : n = m - (t + 1)
  OBVIOUS
<1>2. (n + 1) * s = n * s + s /\ n * s \in Nat
  OBVIOUS
<1>3. m - t = n + 1
  BY <1>1
<1> QED BY ONLY <1>1, <1>2, <1>3, k < s, k \in Nat, l \in Nat, s \in Nat

\* How far a job is from its end, in the same try or the next.
LEMMA JobComesNearer ==
  ASSUME NEW job \in Job, NEW new \in Job,
         \/ new.tries = job.tries + 1
         \/ new.tries = job.tries /\ Rank(new) < Rank(job)
  PROVE  JobToGo(new) \in Nat /\ JobToGo(job) \in Nat /\ JobToGo(new) < JobToGo(job)
<1>1. PICK s \in Nat, k \in Nat, l \in Nat :
        s = Stretch /\ k = Rank(new) /\ l = Rank(job) /\ k < s
  BY RankIsInStretch
<1>2. PICK t \in Nat, u \in Nat, m \in Nat :
        t = job.tries /\ u = new.tries /\ m = MaxTries /\ t <= m /\ u <= m
  BY TriesAssumption DEF Job
<1>3. /\ JobToGo(job) = (m - t) * s + l + 1
      /\ JobToGo(new) = (m - u) * s + k + 1
  BY <1>1, <1>2 DEF JobToGo
<1>4. (m - t) * s \in Nat /\ (m - u) * s \in Nat
  <2>1. m - t \in Nat /\ m - u \in Nat
    BY <1>2
  <2> QED BY ONLY <2>1, <1>1
<1>5. CASE u = t + 1
  <2>1. (m - (t + 1)) * s + k + 1 < (m - t) * s + l + 1
    BY ONLY <1>1, <1>2, <1>5, OneTryLess
  <2> QED BY ONLY <1>1, <1>3, <1>4, <1>5, <2>1
<1>6. CASE u = t /\ k < l
  BY ONLY <1>1, <1>3, <1>4, <1>6
<1> QED BY <1>1, <1>2, <1>5, <1>6

\* The ranks of the points, one by one.
LEMMA RankOf ==
  ASSUME NEW job
  PROVE  /\ job.pc = "queued" => Rank(job) = 0
         /\ job.pc \in {"raising", "ending"} => Rank(job) = 1
         /\ job.pc = "failing" => Rank(job) = 2
         /\ job.pc = "running" => Rank(job) = 3 + Cardinality(job.left)
         /\ job.pc = "loaded" => Rank(job) = Cardinality(Items) + 4
  BY DEF Rank

\* A step of a job leaves the other jobs alone, and ends this one or brings it nearer.
StepsNearer(r) ==
  /\ UNCHANGED api /\ r \in DOMAIN jobs
  /\ DOMAIN jobs' \subseteq DOMAIN jobs
  /\ \A q \in DOMAIN jobs' \ {r} : jobs'[q] = jobs[q]
  /\ r \in DOMAIN jobs' =>
       \/ jobs'[r].tries = jobs[r].tries + 1
       \/ jobs'[r].tries = jobs[r].tries /\ Rank(jobs'[r]) < Rank(jobs[r])

\* Leaving for one of the last points does so.
LEMMA LastPointsAreNear ==
  ASSUME NEW r, r \in DOMAIN jobs, UNCHANGED api, jobs[r] \in Job,
         NEW code,
         \/ /\ jobs' = [jobs EXCEPT ![r] = At(jobs[r], "raising")]
            /\ jobs[r].pc \in {"loaded", "running", "failing"}
         \/ /\ jobs' = [jobs EXCEPT ![r] = At(jobs[r], "ending")]
            /\ jobs[r].pc \in {"loaded", "running", "failing"}
         \/ /\ jobs' = [jobs EXCEPT ![r] = [At(jobs[r], "failing") EXCEPT !.code = code]]
            /\ jobs[r].pc \in {"loaded", "running"}
  PROVE  StepsNearer(r)
<1>1. PICK n \in Nat, k \in Nat : n = Cardinality(Items) /\ k = Cardinality(jobs[r].left)
  BY ItemsFinite DEF Job
<1>2. /\ jobs'[r].tries = jobs[r].tries
      /\ jobs'[r].pc \in {"raising", "ending", "failing"}
      /\ jobs'[r].pc = "failing" => jobs[r].pc \in {"loaded", "running"}
      /\ jobs[r].pc \in {"loaded", "running", "failing"}
  <2> DEFINE raising == At(jobs[r], "raising")
             ending == At(jobs[r], "ending")
             failing == [At(jobs[r], "failing") EXCEPT !.code = code]
  <2>1. /\ raising.pc = "raising" /\ raising.tries = jobs[r].tries
        /\ ending.pc = "ending" /\ ending.tries = jobs[r].tries
    BY DEF At, Queued
  <2>2. failing.pc = "failing" /\ failing.tries = jobs[r].tries
    BY DEF At, Queued
  <2> HIDE DEF raising, ending, failing
  <2>3. \/ jobs' = [jobs EXCEPT ![r] = raising] /\ jobs[r].pc \in {"loaded", "running", "failing"}
        \/ jobs' = [jobs EXCEPT ![r] = ending] /\ jobs[r].pc \in {"loaded", "running", "failing"}
        \/ jobs' = [jobs EXCEPT ![r] = failing] /\ jobs[r].pc \in {"loaded", "running"}
    BY DEF raising, ending, failing
  <2>4. \A job : jobs' = [jobs EXCEPT ![r] = job] => jobs'[r] = job
    OBVIOUS
  <2> QED BY ONLY <2>1, <2>2, <2>3, <2>4
<1>3. (jobs'[r].pc = "failing" /\ Rank(jobs'[r]) = 2) \/ Rank(jobs'[r]) = 1
  BY ONLY <1>2, RankOf
<1>4. Rank(jobs[r]) \in {2, 3 + k, n + 4} /\ (Rank(jobs[r]) = 2 => jobs[r].pc = "failing")
  <2>1. CASE jobs[r].pc = "failing"
    BY ONLY <2>1, RankOf
  <2>2. CASE jobs[r].pc = "running"
    BY ONLY <1>1, <2>2, RankOf
  <2>3. CASE jobs[r].pc = "loaded"
    BY ONLY <1>1, <2>3, RankOf
  <2> QED BY ONLY <1>2, <2>1, <2>2, <2>3
<1>5. Rank(jobs'[r]) < Rank(jobs[r])
  BY ONLY <1>1, <1>2, <1>3, <1>4
<1> QED BY <1>2, <1>5 DEF StepsNearer

\* Every action of a job is such a step.
LEMMA JobStepsNearer ==
  ASSUME TypeOK, NEW r \in RunIds, JobStep(r)
  PROVE  StepsNearer(r)
<1>job. \A q \in DOMAIN jobs : jobs[q] \in Job
  BY DEF TypeOK
<1>1. PICK n \in Nat : n = Cardinality(Items)
  BY ItemsFinite
<1>2. CASE StartJob(r)
  <2>1. CASE Exists(r)
    <3>1. r \in DOMAIN jobs /\ jobs[r] \in Job /\ UNCHANGED api
      BY <1>2, <1>job DEF StartJob, In
    <3>2. jobs' = [jobs EXCEPT ![r].pc = "loaded", ![r].tries = @ + 1,
                              ![r].needs = runs[r].needs]
      BY <1>2, <2>1 DEF StartJob
    <3> QED BY ONLY <3>1, <3>2 DEF StepsNearer, Job
  <2>2. CASE ~Exists(r)
    BY <1>2, <2>2 DEF StartJob, Drop, StepsNearer, In
  <2> QED BY <2>1, <2>2
<1>3. CASE Abandon(r) \/ Finish(r)
  BY <1>3 DEF Abandon, Finish, Drop, StepsNearer, In, Works
<1>4. CASE MarkRunning(r)
  <2>1. r \in DOMAIN jobs /\ jobs[r] \in Job /\ jobs[r].pc = "loaded" /\ UNCHANGED api
    BY <1>4, <1>job DEF MarkRunning, In
  <2>2. CASE Exists(r)
    <3> DEFINE S == ItemsOf[runs[r].dataset]
    <3>1. jobs' = [jobs EXCEPT ![r].pc = "running", ![r].left = S]
      BY <1>4, <2>2 DEF MarkRunning
    <3>2. S \subseteq Items
      BY <2>2, DatasetAssumption DEF Exists, TypeOK, Run
    <3>3. PICK k \in Nat : k = Cardinality(S) /\ k <= n
      <4>1. IsFiniteSet(Items)
        BY DatasetAssumption
      <4> QED BY ONLY <1>1, <3>2, <4>1, FS_Subset, FS_CardinalityType
    <3>4. jobs'[r].pc = "running" /\ jobs'[r].left = S /\ jobs'[r].tries = jobs[r].tries
      BY ONLY <2>1, <3>1 DEF Job
    <3>5. Rank(jobs'[r]) = 3 + k /\ Rank(jobs[r]) = n + 4
      BY ONLY <1>1, <2>1, <3>3, <3>4, RankOf
    <3>6. Rank(jobs'[r]) < Rank(jobs[r])
      BY ONLY <3>3, <3>5, n \in Nat
    <3> QED BY ONLY <2>1, <3>1, <3>4, <3>6 DEF StepsNearer
  <2>3. CASE ~Exists(r)
    BY <1>4, <2>1, <2>3, LastPointsAreNear DEF MarkRunning
  <2> QED BY <2>2, <2>3
<1>5. CASE MissProvider(r)
  BY <1>5, <1>job, LastPointsAreNear DEF MissProvider, In
<1>6. ASSUME NEW i \in Items, NEW outcome \in Outcomes, NEW queried \in BOOLEAN,
             RunItem(r, i, outcome, queried)
      PROVE  StepsNearer(r)
  <2> DEFINE flushes == queried /\ jobs[r].done # <<>>
             new == Observed(jobs[r], i, outcome, flushes)
  <2>1. /\ r \in DOMAIN jobs /\ jobs[r] \in Job /\ jobs[r].pc = "running"
        /\ i \in jobs[r].left /\ UNCHANGED api
    BY <1>6, <1>job DEF RunItem, Attempted, In
  <2>2. CASE jobs' = [jobs EXCEPT ![r] = At(jobs[r], "raising")]
    BY <2>1, <2>2, LastPointsAreNear
  <2>3. CASE jobs' = [jobs EXCEPT ![r] = new]
    <3>1. /\ new.left = jobs[r].left \ {i} /\ new.pc = "running"
          /\ new.tries = jobs[r].tries
      BY <2>1 DEF Observed, Job
    <3> HIDE DEF new
    <3>2. jobs[r].left \subseteq Items
      BY <2>1 DEF Job
    <3>3. PICK k \in Nat :
            Cardinality(jobs[r].left) = k /\ Cardinality(jobs[r].left \ {i}) = k - 1
      BY <2>1, <3>2, ItemsFinite, FS_RemoveElement
    <3>4. Rank(new) = 3 + (k - 1) /\ Rank(jobs[r]) = 3 + k
      BY ONLY <2>1, <3>1, <3>3, RankOf
    <3>5. Rank(new) < Rank(jobs[r])
      BY ONLY <3>4, k \in Nat
    <3>6. jobs'[r] = new
      BY <2>1, <2>3
    <3> QED BY ONLY <2>1, <2>3, <3>1, <3>5, <3>6 DEF StepsNearer
  <2> QED BY <1>6, <2>2, <2>3 DEF RunItem
<1>7. CASE Complete(r) \/ FailRun(r)
  BY <1>7, <1>job, LastPointsAreNear DEF Complete, FailRun, In
<1> QED BY <1>2, <1>3, <1>4, <1>5, <1>6, <1>7 DEF JobStep

\* A job is at some distance from its end, more than none, and a try lost takes it no farther.
LEMMA RestartsTakeNothingBack ==
  ASSUME NEW job \in Job
  PROVE  /\ JobToGo(job) \in Nat \ {0}
         /\ JobToGo(At(job, "queued")) <= JobToGo(job)
<1>1. PICK s \in Nat, l \in Nat : s = Stretch /\ l = Rank(job)
  BY RankIsInStretch
<1>2. PICK n \in Nat : n = MaxTries - job.tries
  BY TriesAssumption DEF Job
<1>3. At(job, "queued").tries = job.tries /\ At(job, "queued").pc = "queued"
  BY DEF At, Queued
<1>4. Rank(At(job, "queued")) = 0
  BY ONLY <1>3, RankOf
<1>5. JobToGo(job) = n * s + l + 1 /\ JobToGo(At(job, "queued")) = n * s + 0 + 1
  BY ONLY <1>1, <1>2, <1>3, <1>4 DEF JobToGo
<1>6. n * s \in Nat
  BY ONLY n \in Nat, s \in Nat
<1> QED BY ONLY <1>5, <1>6, l \in Nat

\* A call is farther from the end than the job it becomes.
LEMMA CallsAreFarthest ==
  /\ MaxTries * Stretch + 2 \in Nat
  /\ JobToGo(Queued(0)) < MaxTries * Stretch + 2
<1>1. PICK s \in Nat, m \in Nat : s = Stretch /\ m = MaxTries
  BY TriesAssumption, ItemsFinite DEF Stretch
<1>2. Queued(0).tries = 0 /\ Queued(0).pc = "queued"
  BY DEF Queued
<1>3. Rank(Queued(0)) = 0
  BY ONLY <1>2, RankOf
<1>4. JobToGo(Queued(0)) = (m - 0) * s + 0 + 1
  BY ONLY <1>1, <1>2, <1>3 DEF JobToGo
<1>5. m * s \in Nat /\ (m - 0) * s = m * s
  BY ONLY m \in Nat, s \in Nat
<1> QED BY ONLY <1>1, <1>4, <1>5

\* Where a run is, by what is known of its call and its job.
LEMMA ToGoIs ==
  ASSUME TypeOK, NEW r
  PROVE  /\ r \in calls => ToGo(r) = MaxTries * Stretch + 2
         /\ r \notin calls /\ r \in DOMAIN jobs => ToGo(r) = JobToGo(jobs[r])
         /\ r \notin calls /\ r \notin DOMAIN jobs => ToGo(r) = 0
         /\ ToGo(r) \in Nat
<1>1. r \in DOMAIN jobs => JobToGo(jobs[r]) \in Nat
  BY RestartsTakeNothingBack DEF TypeOK
<1> QED BY <1>1, CallsAreFarthest DEF ToGo

\* The same of the next state.
LEMMA ToGoAfter ==
  ASSUME NEW r
  PROVE  ToGo(r)' = IF r \in calls' THEN MaxTries * Stretch + 2
                    ELSE IF r \in DOMAIN jobs' THEN JobToGo(jobs'[r]) ELSE 0
  BY DEF ToGo

\* A job that steps nearer brings its run nearer, and the other runs no farther.
LEMMA NearerRuns ==
  ASSUME TypeOK, TypeOK', RunInv, NEW q, StepsNearer(q)
  PROVE  ToGo(q)' < ToGo(q) /\ \A r \in drawn : ToGo(r)' <= ToGo(r)
<1>1. q \in DOMAIN jobs /\ q \notin calls /\ q \notin calls' /\ calls' = calls
  BY DEF StepsNearer, RunInv
<1>2. ToGo(q) = JobToGo(jobs[q]) /\ jobs[q] \in Job /\ JobToGo(jobs[q]) \in Nat \ {0}
  BY <1>1, ToGoIs, RestartsTakeNothingBack DEF TypeOK
<1> DEFINE Nearer == ToGo(q)' < ToGo(q) /\ ToGo(q)' <= ToGo(q)
<1>3. ASSUME q \in DOMAIN jobs'
      PROVE  Nearer
  <2>1. ToGo(q)' = JobToGo(jobs'[q])
    BY ONLY <1>1, <1>3, ToGoAfter
  <2>2. jobs'[q] \in Job
    BY <1>3 DEF TypeOK
  <2>3. /\ JobToGo(jobs'[q]) \in Nat /\ JobToGo(jobs[q]) \in Nat
        /\ JobToGo(jobs'[q]) < JobToGo(jobs[q])
    BY <1>2, <1>3, <2>2, JobComesNearer DEF StepsNearer
  <2> QED BY ONLY <1>2, <2>1, <2>3
<1>4. ASSUME q \notin DOMAIN jobs'
      PROVE  Nearer
  <2>1. ToGo(q)' = 0
    BY ONLY <1>1, <1>4, ToGoAfter
  <2> QED BY ONLY <1>2, <2>1
<1>5. ToGo(q)' < ToGo(q) /\ ToGo(q)' <= ToGo(q)
  BY <1>3, <1>4
<1>6. ASSUME NEW r \in drawn, r # q
      PROVE  ToGo(r)' <= ToGo(r)
  <2>1. ToGo(r) \in Nat
    BY ToGoIs
  <2>2. ToGo(r)' = ToGo(r) \/ ToGo(r)' = 0
    BY <1>1, <1>6, ToGoAfter DEF StepsNearer, ToGo
  <2> QED BY ONLY <2>1, <2>2
<1> QED BY <1>5, <1>6

\* What happens to a run by chance is a step nearer too.
LEMMA ChanceStepsNearer ==
  ASSUME TypeOK, NEW r \in RunIds, Surprise(r) \/ TimeOut(r)
  PROVE  StepsNearer(r)
<1>1. CASE Surprise(r)
  BY <1>1, LastPointsAreNear DEF Surprise, Works, TypeOK
<1>2. CASE TimeOut(r)
  BY <1>2 DEF TimeOut, Works, Drop, StepsNearer
<1> QED BY <1>1, <1>2

\* A step of a run brings it nearer to its end.
LEMMA StepsWindDown ==
  ASSUME TypeOK, TypeOK', RunInv, NEW r \in RunIds, Steps(r)
  PROVE  ToGo(r)' < ToGo(r)
<1>1. CASE EnqueueRun(r)
  <2>1. r \in calls /\ r \notin calls' /\ r \in DOMAIN jobs' /\ jobs'[r] = Queued(0)
    BY <1>1 DEF EnqueueRun
  <2>2. ToGo(r)' = JobToGo(Queued(0)) /\ ToGo(r) = MaxTries * Stretch + 2
    BY <2>1, ToGoAfter DEF ToGo
  <2> QED BY ONLY <2>2, CallsAreFarthest
<1>2. CASE LoseCall(r)
  <2>1. r \in calls /\ r \notin calls' /\ r \notin DOMAIN jobs'
    BY <1>2 DEF LoseCall, RunInv
  <2>2. ToGo(r)' = 0 /\ ToGo(r) = MaxTries * Stretch + 2
    BY <2>1 DEF ToGo
  <2>3. PICK n \in Nat : n = MaxTries * Stretch
    <3>1. Stretch \in Nat /\ MaxTries \in Nat
      BY TriesAssumption, ItemsFinite DEF Stretch
    <3> QED BY ONLY <3>1
  <2> QED BY ONLY <2>2, <2>3
<1>3. CASE JobStep(r)
  BY <1>3, JobStepsNearer, NearerRuns
<1> QED BY <1>1, <1>2, <1>3 DEF Steps

\* No step of anybody takes a run farther from its end.
LEMMA NothingTakesBack ==
  ASSUME TypeOK, TypeOK', RunInv, [Next]_vars, NEW r \in drawn
  PROVE  ToGo(r)' <= ToGo(r)
<1>1. ToGo(r) \in Nat
  BY ToGoIs
<1>2. CASE /\ r \in calls' <=> r \in calls
           /\ r \in DOMAIN jobs' <=> r \in DOMAIN jobs
           /\ r \in DOMAIN jobs => jobs'[r] = jobs[r]
  <2>1. ToGo(r)' = ToGo(r)
    BY <1>2, ToGoAfter DEF ToGo
  <2> QED BY ONLY <1>1, <2>1
<1>3. CASE UNCHANGED vars \/ \E n \in Names : CreateDataset(n) \/ DeleteDataset(n)
  BY <1>2, <1>3 DEF vars, CreateDataset, DeleteDataset
<1>4. ASSUME NEW q \in RunIds, ApiStep(q)
      PROVE  ToGo(r)' <= ToGo(r)
  <2>1. ASSUME NEW n \in Names, NEW needs \in BOOLEAN, NEW queued \in BOOLEAN,
               CreateRun(q, n, needs, queued)
        PROVE  ToGo(r)' <= ToGo(r)
    BY <1>2, <2>1 DEF CreateRun
  <2>2. CASE EnqueueRun(q) \/ LoseCall(q)
    <3>1. CASE q = r
      <4>1. ToGo(r)' < ToGo(r) /\ ToGo(r)' \in Nat
        <5>1. ToGo(r)' < ToGo(r)
          BY <2>2, <3>1, StepsWindDown DEF Steps
        <5>2. r \in DOMAIN jobs' => JobToGo(jobs'[r]) \in Nat
          BY RestartsTakeNothingBack DEF TypeOK
        <5>3. ToGo(r)' \in Nat
          BY <2>2, <3>1, <5>2, ToGoAfter DEF EnqueueRun, LoseCall
        <5> QED BY ONLY <5>1, <5>3
      <4> QED BY ONLY <1>1, <4>1
    <3>2. CASE q # r
      BY <1>2, <2>2, <3>2 DEF EnqueueRun, LoseCall
    <3> QED BY <3>1, <3>2
  <2> QED BY <1>4, <2>1, <2>2 DEF ApiStep
<1>5. ASSUME NEW q \in RunIds, JobStep(q) \/ Surprise(q) \/ TimeOut(q)
      PROVE  ToGo(r)' <= ToGo(r)
  BY <1>5, JobStepsNearer, ChanceStepsNearer, NearerRuns
<1>6. ASSUME NEW key \in BOOLEAN, Restart(key)
      PROVE  ToGo(r)' <= ToGo(r)
  <2>1. /\ UNCHANGED api /\ DOMAIN jobs' = DOMAIN jobs
        /\ r \in DOMAIN jobs => jobs'[r] = At(jobs[r], "queued")
    BY <1>6 DEF Restart
  <2>2. CASE r \in calls \/ r \notin DOMAIN jobs
    <3>1. ToGo(r)' = ToGo(r)
      BY <2>1, <2>2 DEF ToGo
    <3> QED BY ONLY <1>1, <3>1
  <2>3. CASE r \notin calls /\ r \in DOMAIN jobs
    <3>1. ToGo(r)' = JobToGo(At(jobs[r], "queued")) /\ ToGo(r) = JobToGo(jobs[r])
      BY <2>1, <2>3, ToGoAfter DEF ToGo
    <3>2. jobs[r] \in Job
      BY <2>3 DEF TypeOK
    <3> QED BY ONLY <3>1, <3>2, RestartsTakeNothingBack
  <2> QED BY <2>2, <2>3
<1> QED BY <1>3, <1>4, <1>5, <1>6 DEF Next

(* However often it is cut short and run again, a requested run comes to   *)
(* its end: each step of its job lessens one measure of what is left of it,*)
(* and nothing in the world adds to it.                                    *)
THEOREM ExecutionsWindDown == Spec => RunsWindDown
<1>1. TypeOK /\ TypeOK' /\ RunInv /\ [Next]_vars =>
        [\A r \in drawn : ToGo(r)' <= ToGo(r) /\ (Steps(r) => ToGo(r)' < ToGo(r))]_vars
  <2> SUFFICES ASSUME TypeOK, TypeOK', RunInv, [Next]_vars, NEW r \in drawn
               PROVE  ToGo(r)' <= ToGo(r) /\ (Steps(r) => ToGo(r)' < ToGo(r))
    OBVIOUS
  <2>1. r \in RunIds
    BY DEF TypeOK
  <2> QED BY <2>1, StepsWindDown, NothingTakesBack
<1> QED BY <1>1, TypeCorrect, InitRunInv, NextRunInv, PTL DEF Spec, RunsWindDown
-----------------------------------------------------------------------------
(* In a calm behaviour arq has a try left for every restart, and a job that*)
(* is about to end has recorded what became of its run, or the run is gone.*)
Tried(r) ==
  /\ jobs[r].tries <= interrupts + 1
  /\ jobs[r].pc = "queued" => jobs[r].tries <= interrupts
  /\ jobs[r].pc \in {"raising", "ending"} => Over(r)

CalmInv == calm => interrupts < MaxTries /\ \A r \in DOMAIN jobs : Tried(r)

\* A job a step moves elsewhere in the same try, and what its step does to other rows.
LEMMA OneJobKeepsCalm ==
  ASSUME CalmInv, interrupts' = interrupts, calm' = calm, NEW r,
         calm => \A q \in DOMAIN jobs' \ {r} :
                   q \in DOMAIN jobs /\ jobs'[q] = jobs[q] /\ (Over(q) => Over(q)'),
         calm /\ r \in DOMAIN jobs' => Tried(r)'
  PROVE  CalmInv'
<1> SUFFICES ASSUME calm
             PROVE  interrupts' < MaxTries /\ \A q \in DOMAIN jobs' : Tried(q)'
  BY DEF CalmInv
<1>1. ASSUME NEW q \in DOMAIN jobs', q # r
      PROVE  Tried(q)'
  <2>1. q \in DOMAIN jobs /\ jobs'[q] = jobs[q] /\ (Over(q) => Over(q)') /\ Tried(q)
    BY <1>1 DEF CalmInv
  <2> QED BY <2>1 DEF Tried
<1> QED BY <1>1 DEF CalmInv

\* A run is over as it was, where its row is as it was or gone.
LEMMA SameRowIsOver ==
  ASSUME NEW q, Over(q), q \in DOMAIN runs' => q \in DOMAIN runs /\ runs'[q] = runs[q]
  PROVE  Over(q)'
  BY DEF Over, Exists

\* Every action keeps what is known of a calm behaviour.
LEMMA NextCalmInv == TypeOK /\ RunInv /\ CalmInv /\ [Next]_vars => CalmInv'
<1> SUFFICES ASSUME TypeOK, RunInv, CalmInv, [Next]_vars PROVE CalmInv'
  OBVIOUS
<1>job. /\ \A r \in DOMAIN jobs : jobs[r] \in Job
        /\ interrupts \in Nat /\ MaxTries \in Nat
  BY TriesAssumption DEF TypeOK
<1>tried. calm => \A r \in DOMAIN jobs : Tried(r)
  BY DEF CalmInv
<1>1. CASE UNCHANGED vars
  BY <1>1 DEF vars, CalmInv, Tried, Over, Exists
<1>2. ASSUME NEW n \in Names, CreateDataset(n) \/ DeleteDataset(n)
      PROVE  CalmInv'
  <2>1. /\ UNCHANGED <<jobs, world>>
        /\ \A q \in DOMAIN runs' : q \in DOMAIN runs /\ runs'[q] = runs[q]
    BY <1>2 DEF CreateDataset, DeleteDataset
  <2>2. \A q : Over(q) => Over(q)'
    BY <2>1, SameRowIsOver
  <2>3. ASSUME calm, NEW q \in DOMAIN jobs
        PROVE  Tried(q)'
    BY <1>tried, <2>1, <2>2, <2>3 DEF Tried
  <2> QED BY <2>1, <2>3 DEF CalmInv
<1>3. ASSUME NEW r \in RunIds, ApiStep(r)
      PROVE  CalmInv'
  <2>1. CASE EnqueueRun(r)
    <3>1. /\ UNCHANGED <<tables, world>> /\ r \in DOMAIN jobs' /\ jobs'[r] = Queued(0)
          /\ \A q \in DOMAIN jobs' \ {r} : q \in DOMAIN jobs /\ jobs'[q] = jobs[q]
      BY <2>1 DEF EnqueueRun
    <3>2. Tried(r)'
      <4>1. jobs'[r].tries = 0 /\ jobs'[r].pc = "queued"
        BY <3>1 DEF Queued
      <4> QED BY <1>job, <3>1, <4>1 DEF Tried
    <3>3. \A q : Over(q) => Over(q)'
      BY <3>1, SameRowIsOver
    <3> QED BY <3>1, <3>2, <3>3, OneJobKeepsCalm
  <2>2. CASE LoseCall(r)
    BY <2>2 DEF LoseCall, CalmInv
  <2>3. ASSUME NEW n \in Names, NEW needs \in BOOLEAN, NEW queued \in BOOLEAN,
               CreateRun(r, n, needs, queued)
        PROVE  CalmInv'
    <3>1. /\ UNCHANGED <<jobs, world>> /\ r \notin drawn
          /\ \A q \in DOMAIN runs' \ {r} : q \in DOMAIN runs /\ runs'[q] = runs[q]
      BY <2>3 DEF CreateRun
    <3>2. \A q \in DOMAIN jobs : Over(q) => Over(q)'
      BY <3>1, SameRowIsOver DEF RunInv
    <3>3. ASSUME calm, NEW q \in DOMAIN jobs
          PROVE  Tried(q)'
      BY <1>tried, <3>1, <3>2, <3>3 DEF Tried
    <3> QED BY <3>1, <3>3 DEF CalmInv
  <2> QED BY <1>3, <2>1, <2>2, <2>3 DEF ApiStep
<1>4. ASSUME NEW r \in RunIds, JobStep(r)
      PROVE  CalmInv'
  <2>1. /\ UNCHANGED world /\ r \in DOMAIN jobs /\ jobs[r] \in Job
        /\ \A q \in DOMAIN jobs' \ {r} : q \in DOMAIN jobs /\ jobs'[q] = jobs[q]
    <3>1. StepsNearer(r)
      BY <1>4, JobStepsNearer
    <3>2. UNCHANGED world
      BY <1>4 DEF JobStep, StartJob, Abandon, MarkRunning, MissProvider, RunItem, Attempted,
                  Complete, FailRun, Finish
    <3> QED BY <1>job, <3>1, <3>2 DEF StepsNearer
  <2>2. \A q \in DOMAIN runs' \ {r} : q \in DOMAIN runs /\ runs'[q] = runs[q]
    BY <1>4 DEF JobStep, StartJob, Abandon, MarkRunning, MissProvider, RunItem, Attempted,
                Complete, FailRun, Finish
  <2>3. \A q \in DOMAIN jobs' \ {r} : Over(q) => Over(q)'
    BY <2>2, SameRowIsOver
  <2>4. calm => /\ jobs[r].tries <= interrupts + 1
                /\ jobs[r].pc = "queued" => jobs[r].tries <= interrupts
                /\ jobs[r].pc \in {"raising", "ending"} => Over(r)
    BY <1>tried, <2>1 DEF Tried
  <2>5. SUFFICES ASSUME calm, r \in DOMAIN jobs'
                 PROVE  Tried(r)'
    BY <2>1, <2>3, OneJobKeepsCalm
  <2>6. CASE StartJob(r)
    <3>1. /\ jobs[r].pc = "queued" /\ jobs[r].tries \in Nat
          /\ jobs'[r].pc = "loaded" /\ jobs'[r].tries = jobs[r].tries + 1
      <4>1. /\ jobs[r].pc = "queued" /\ jobs[r].tries \in Nat
            /\ jobs' = [jobs EXCEPT ![r].pc = "loaded", ![r].tries = @ + 1,
                                   ![r].needs = runs[r].needs]
        BY <2>1, <2>5, <2>6 DEF StartJob, In, Drop, Job
      <4> QED BY ONLY <2>1, <4>1 DEF Job
    <3> QED BY ONLY <1>job, <2>1, <2>4, <2>5, <3>1 DEF Tried
  <2>7. CASE Abandon(r) \/ Finish(r)
    BY <2>5, <2>7 DEF Abandon, Finish, Drop
  <2>8. ASSUME jobs'[r].tries = jobs[r].tries, jobs'[r].pc # "queued",
               jobs'[r].pc \in {"raising", "ending"} => Over(r)'
        PROVE  Tried(r)'
    BY ONLY <2>1, <2>4, <2>5, <2>8 DEF Tried
  <2>9. CASE MarkRunning(r) \/ MissProvider(r) \/ Complete(r) \/ FailRun(r)
    <3>1. CASE MarkRunning(r) /\ Exists(r)
      <4>1. jobs'[r].tries = jobs[r].tries /\ jobs'[r].pc = "running"
        BY <2>1, <3>1 DEF MarkRunning, Job
      <4> QED BY ONLY <2>8, <4>1
    <3>2. CASE MissProvider(r)
      <4>1. jobs'[r].tries = jobs[r].tries /\ jobs'[r].pc = "failing"
        BY <2>1, <3>2 DEF MissProvider, At, Queued
      <4> QED BY ONLY <2>8, <4>1
    <3>3. CASE ~Exists(r) /\ (MarkRunning(r) \/ Complete(r) \/ FailRun(r))
      <4>1. /\ jobs'[r].tries = jobs[r].tries /\ jobs'[r].pc = "raising"
            /\ UNCHANGED runs
        BY <2>1, <3>3 DEF MarkRunning, Complete, FailRun, At, Queued
      <4>2. Over(r)'
        BY <3>3, <4>1 DEF Over, Exists
      <4> QED BY ONLY <2>8, <4>1, <4>2
    <3>4. CASE Exists(r) /\ (Complete(r) \/ FailRun(r))
      <4>1. /\ jobs'[r].tries = jobs[r].tries /\ jobs'[r].pc \in {"raising", "ending"}
        BY <2>1, <3>4 DEF Complete, FailRun, At, Queued
      <4>2. r \in DOMAIN runs /\ runs[r] \in Run
        BY <3>4 DEF Exists, TypeOK
      <4>3. runs'[r].status \in {"completed", "failed"}
        BY <3>4, <4>2 DEF Complete, FailRun, Run
      <4>4. Over(r)'
        BY <4>3 DEF Over
      <4> QED BY ONLY <2>8, <4>1, <4>4
    <3> QED BY <2>9, <3>1, <3>2, <3>3, <3>4
  <2>10. ASSUME NEW i \in Items, NEW outcome \in Outcomes, NEW queried \in BOOLEAN,
                RunItem(r, i, outcome, queried)
         PROVE  Tried(r)'
    <3> DEFINE flushes == queried /\ jobs[r].done # <<>>
               new == Observed(jobs[r], i, outcome, flushes)
    <3>1. CASE jobs' = [jobs EXCEPT ![r] = At(jobs[r], "raising")] /\ ~Exists(r)
      <4>1. jobs'[r].tries = jobs[r].tries /\ jobs'[r].pc = "raising"
        BY <2>1, <3>1 DEF At, Queued
      <4>2. Over(r)'
        BY <2>10, <3>1 DEF RunItem, Attempted, Over, Exists
      <4> QED BY ONLY <2>8, <4>1, <4>2
    <3>2. CASE jobs' = [jobs EXCEPT ![r] = new]
      <4>1. new.tries = jobs[r].tries /\ new.pc = jobs[r].pc
        BY <2>1 DEF Observed, Job
      <4> HIDE DEF new
      <4>2. jobs[r].pc = "running"
        BY <2>10 DEF RunItem, Attempted, In
      <4>3. jobs'[r].tries = jobs[r].tries /\ jobs'[r].pc = "running"
        BY <2>1, <3>2, <4>1, <4>2
      <4> QED BY ONLY <2>8, <4>3
    <3> QED BY <2>10, <3>1, <3>2 DEF RunItem
  <2> QED BY <1>4, <2>6, <2>7, <2>9, <2>10 DEF JobStep
<1>5. ASSUME NEW r \in RunIds, Surprise(r) \/ TimeOut(r)
      PROVE  CalmInv'
  BY <1>5 DEF Surprise, TimeOut, CalmInv
<1>6. ASSUME NEW key \in BOOLEAN, Restart(key)
      PROVE  CalmInv'
  <2>1. /\ calm => interrupts + 1 < MaxTries
        /\ interrupts' = interrupts + 1 /\ calm' = calm
        /\ DOMAIN jobs' = DOMAIN jobs
        /\ \A r \in DOMAIN jobs : jobs'[r] = At(jobs[r], "queued")
    BY <1>6 DEF Restart
  <2>2. ASSUME calm, NEW r \in DOMAIN jobs
        PROVE  Tried(r)'
    <3>1. jobs'[r].pc = "queued" /\ jobs'[r].tries = jobs[r].tries /\ jobs[r].tries \in Nat
      <4>1. jobs[r].tries \in Nat
        BY ONLY <1>job, <2>2 DEF Job
      <4>2. jobs'[r] = At(jobs[r], "queued")
        BY ONLY <2>1, <2>2
      <4> QED BY ONLY <4>1, <4>2 DEF At, Queued
    <3>2. jobs[r].tries <= interrupts + 1
      BY <1>tried, <2>2 DEF Tried
    <3> QED BY ONLY <1>job, <2>1, <3>1, <3>2 DEF Tried
  <2> QED BY <2>1, <2>2 DEF CalmInv
<1> QED BY <1>1, <1>2, <1>3, <1>4, <1>5, <1>6 DEF Next

\* What is over stays so, unless its job marks it as running again.
LEMMA OverStays ==
  ASSUME TypeOK, RunInv, [Next]_vars, NEW r \in drawn, Over(r)
  PROVE  Over(r)' \/ r \in DOMAIN jobs'
<1>1. CASE r \in DOMAIN runs' => r \in DOMAIN runs /\ runs'[r] = runs[r]
  BY <1>1, SameRowIsOver
<1>2. CASE UNCHANGED vars \/ \E n \in Names : CreateDataset(n) \/ DeleteDataset(n)
  BY <1>1, <1>2 DEF vars, CreateDataset, DeleteDataset
<1>3. ASSUME NEW q \in RunIds, ApiStep(q)
      PROVE  Over(r)' \/ r \in DOMAIN jobs'
  BY <1>1, <1>3 DEF ApiStep, CreateRun, EnqueueRun, LoseCall
<1>4. ASSUME NEW q \in RunIds, JobStep(q)
      PROVE  Over(r)' \/ r \in DOMAIN jobs'
  <2>1. CASE q # r
    BY <1>1, <1>4, <2>1 DEF JobStep, StartJob, Abandon, MarkRunning, MissProvider, RunItem,
                            Attempted, Complete, FailRun, Finish
  <2>2. CASE q = r
    <3>1. CASE StartJob(r) \/ Abandon(r) \/ Finish(r)
      BY <1>1, <3>1 DEF StartJob, Abandon, Finish
    <3>2. CASE \/ MarkRunning(r) \/ MissProvider(r) \/ Complete(r) \/ FailRun(r)
               \/ \E i \in Items, outcome \in Outcomes, queried \in BOOLEAN :
                    RunItem(r, i, outcome, queried)
      BY <3>2 DEF MarkRunning, MissProvider, RunItem, Attempted, Complete, FailRun, In
    <3> QED BY <1>4, <2>2, <3>1, <3>2 DEF JobStep
  <2> QED BY <2>1, <2>2
<1>5. ASSUME NEW q \in RunIds, Surprise(q) \/ TimeOut(q)
      PROVE  Over(r)' \/ r \in DOMAIN jobs'
  BY <1>1, <1>5 DEF Surprise, TimeOut
<1>6. ASSUME NEW key \in BOOLEAN, Restart(key)
      PROVE  Over(r)' \/ r \in DOMAIN jobs'
  BY <1>1, <1>6 DEF Restart
<1> QED BY <1>2, <1>3, <1>4, <1>5, <1>6 DEF Next

\* In a calm behaviour a job leaves the queue only when its run is over.
LEMMA JobsLeaveDecided ==
  ASSUME TypeOK, CalmInv, calm, [Next]_vars, NEW r,
         r \in calls \/ r \in DOMAIN jobs, r \notin calls', r \notin DOMAIN jobs'
  PROVE  Over(r)
<1>1. CASE UNCHANGED vars \/ \E n \in Names : CreateDataset(n) \/ DeleteDataset(n)
  BY <1>1 DEF vars, CreateDataset, DeleteDataset
<1>2. ASSUME NEW q \in RunIds, ApiStep(q)
      PROVE  Over(r)
  BY <1>2 DEF ApiStep, CreateRun, EnqueueRun, LoseCall
<1>3. ASSUME NEW q \in RunIds, JobStep(q)
      PROVE  Over(r)
  <2>1. r = q /\ r \in DOMAIN jobs
    <3>1. StepsNearer(q)
      BY <1>3, JobStepsNearer
    <3>2. CASE r # q
      BY <1>3, <3>2 DEF JobStep, StartJob, Abandon, MarkRunning, MissProvider, RunItem,
                        Attempted, Complete, FailRun, Finish, Drop
    <3> QED BY <3>1, <3>2 DEF StepsNearer
  <2>2. /\ interrupts < MaxTries /\ interrupts \in Nat /\ MaxTries \in Nat
        /\ jobs[r].tries \in Nat
        /\ jobs[r].pc = "queued" => jobs[r].tries <= interrupts
        /\ jobs[r].pc \in {"raising", "ending"} => Over(r)
    BY <2>1, TriesAssumption DEF CalmInv, Tried, TypeOK, Job
  <2>3. CASE StartJob(r)
    BY <2>1, <2>3 DEF StartJob, Over
  <2>4. CASE Abandon(r)
    <3>1. jobs[r].pc = "queued" /\ jobs[r].tries = MaxTries
      BY <2>4 DEF Abandon, In
    <3> QED BY ONLY <2>2, <3>1
  <2>5. CASE Finish(r)
    BY <2>2, <2>5 DEF Finish
  <2>6. CASE \/ MarkRunning(r) \/ MissProvider(r) \/ Complete(r) \/ FailRun(r)
             \/ \E i \in Items, outcome \in Outcomes, queried \in BOOLEAN :
                  RunItem(r, i, outcome, queried)
    BY <2>6 DEF MarkRunning, MissProvider, RunItem, Attempted, Complete, FailRun, In
  <2> QED BY <1>3, <2>1, <2>3, <2>4, <2>5, <2>6 DEF JobStep
<1>4. ASSUME NEW q \in RunIds, Surprise(q) \/ TimeOut(q)
      PROVE  Over(r)
  BY <1>4 DEF Surprise, TimeOut
<1>5. ASSUME NEW key \in BOOLEAN, Restart(key)
      PROVE  Over(r)
  BY <1>5 DEF Restart
<1> QED BY <1>1, <1>2, <1>3, <1>4, <1>5 DEF Next

(* Where nothing unforeseen is raised and arq does not give up, a run that *)
(* was requested is completed, failed or deleted when its job is done, and *)
(* stays so: with ExecutionsWindDown and fairness, RequestedRunIsOver.     *)
THEOREM DecidedWhenDone == Spec => CalmRunsAreDecided
<1>1. Init => CalmInv
  BY TriesAssumption DEF Init, CalmInv
<1>2. TypeOK /\ TypeOK' /\ RunInv /\ CalmInv /\ [Next]_vars =>
        [calm => \A r \in drawn :
           ToGo(r)' = 0 /\ (ToGo(r) # 0 \/ Over(r)) => Over(r)']_vars
  <2> SUFFICES ASSUME TypeOK, TypeOK', RunInv, CalmInv, [Next]_vars, calm, NEW r \in drawn,
                      ToGo(r)' = 0, ToGo(r) # 0 \/ Over(r)
               PROVE  Over(r)'
    OBVIOUS
  <2>1. r \notin calls' /\ r \notin DOMAIN jobs'
    <3>1. r \in DOMAIN jobs' => JobToGo(jobs'[r]) \in Nat \ {0}
      BY RestartsTakeNothingBack DEF TypeOK
    <3>2. MaxTries * Stretch + 2 # 0
      <4>1. PICK n \in Nat : n = MaxTries * Stretch
        <5>1. Stretch \in Nat /\ MaxTries \in Nat
          BY TriesAssumption, ItemsFinite DEF Stretch
        <5> QED BY ONLY <5>1
      <4> QED BY ONLY <4>1
    <3> QED BY ONLY <3>1, <3>2, ToGo(r)' = 0, ToGoAfter
  <2>2. Over(r)
    <3>1. CASE r \in calls \/ r \in DOMAIN jobs
      BY <2>1, <3>1, JobsLeaveDecided
    <3>2. CASE r \notin calls /\ r \notin DOMAIN jobs
      BY <3>2, ToGoIs
    <3> QED BY <3>1, <3>2
  <2> QED BY <2>1, <2>2, OverStays
<1> QED BY <1>1, <1>2, TypeCorrect, InitRunInv, NextRunInv, NextCalmInv, PTL
        DEF Spec, CalmRunsAreDecided
-----------------------------------------------------------------------------
\* A job that is not running, or has what it needs, is not stuck.
LEMMA OthersAreNotStuck ==
  ASSUME NeverStuck, configured' = configured, NEW r,
         \A q \in DOMAIN jobs' \ {r} : q \in DOMAIN jobs /\ jobs'[q] = jobs[q],
         r \in DOMAIN jobs' => \/ jobs'[r].pc # "running"
                               \/ jobs'[r].needs => configured
                               \/ jobs'[r].done = <<>>
  PROVE  NeverStuck'
  BY DEF NeverStuck

\* Only a restart takes the key away, and it queues every job again.
LEMMA NextNeverStuck == TypeOK /\ RunInv /\ NeverStuck /\ [Next]_vars => NeverStuck'
<1> SUFFICES ASSUME TypeOK, RunInv, NeverStuck, [Next]_vars PROVE NeverStuck'
  OBVIOUS
<1>job. \A r \in DOMAIN jobs : jobs[r] \in Job
  BY DEF TypeOK
<1>1. CASE UNCHANGED vars \/ \E n \in Names : CreateDataset(n) \/ DeleteDataset(n)
  <2>1. jobs' = jobs /\ configured' = configured
    BY <1>1 DEF vars, CreateDataset, DeleteDataset
  <2> QED BY <2>1 DEF NeverStuck
<1>2. ASSUME NEW r \in RunIds, ApiStep(r)
      PROVE  NeverStuck'
  <2>1. /\ configured' = configured
        /\ \A q \in DOMAIN jobs' \ {r} : q \in DOMAIN jobs /\ jobs'[q] = jobs[q]
        /\ r \in DOMAIN jobs' => (r \in DOMAIN jobs /\ jobs'[r] = jobs[r])
                                 \/ jobs'[r] = Queued(0)
    BY <1>2 DEF ApiStep, CreateRun, EnqueueRun, LoseCall
  <2>2. Queued(0).pc # "running"
    BY DEF Queued
  <2>3. ASSUME NEW q \in DOMAIN jobs', jobs'[q].pc = "running"
        PROVE  \/ jobs'[q].left = {} \/ jobs'[q].done = <<>>
               \/ jobs'[q].needs => configured'
    <3>1. q \in DOMAIN jobs /\ jobs'[q] = jobs[q]
      BY ONLY <2>1, <2>2, <2>3
    <3> QED BY <2>1, <2>3, <3>1 DEF NeverStuck
  <2> QED BY <2>3 DEF NeverStuck
<1>3. ASSUME NEW r \in RunIds, JobStep(r)
      PROVE  NeverStuck'
  <2>1. /\ configured' = configured
        /\ \A q \in DOMAIN jobs' \ {r} : q \in DOMAIN jobs /\ jobs'[q] = jobs[q]
        /\ r \in DOMAIN jobs /\ jobs[r] \in Job
    <3>1. StepsNearer(r)
      BY <1>3, JobStepsNearer
    <3>2. UNCHANGED world
      BY <1>3 DEF JobStep, StartJob, Abandon, MarkRunning, MissProvider, RunItem, Attempted,
                  Complete, FailRun, Finish
    <3> QED BY <1>job, <3>1, <3>2 DEF StepsNearer
  <2>2. SUFFICES ASSUME r \in DOMAIN jobs'
                 PROVE  \/ jobs'[r].pc # "running"
                        \/ jobs'[r].needs => configured
                        \/ jobs'[r].done = <<>>
    BY <2>1, OthersAreNotStuck
  <2>3. CASE StartJob(r)
    <3>1. jobs'[r].pc = "loaded"
      BY <2>1, <2>2, <2>3 DEF StartJob, Drop, Job
    <3> QED BY <3>1
  <2>4. CASE Abandon(r) \/ Finish(r)
    BY <2>2, <2>4 DEF Abandon, Finish, Drop
  <2>5. CASE MarkRunning(r)
    <3>1. CASE Exists(r)
      <4>1. jobs[r].done = <<>>
        BY <2>5, <3>1 DEF MarkRunning, Exists, RunInv, RunOK, JobFollowsDataset
      <4>2. jobs'[r].done = jobs[r].done
        BY <2>1, <2>5, <3>1 DEF MarkRunning, Job
      <4> QED BY <4>1, <4>2
    <3>2. CASE ~Exists(r)
      BY <2>1, <2>5, <3>2 DEF MarkRunning, At, Queued
    <3> QED BY <3>1, <3>2
  <2>6. CASE MissProvider(r)
    BY <2>1, <2>6 DEF MissProvider, At, Queued
  <2>7. ASSUME NEW i \in Items, NEW outcome \in Outcomes, NEW queried \in BOOLEAN,
               RunItem(r, i, outcome, queried)
        PROVE  \/ jobs'[r].pc # "running"
               \/ jobs'[r].needs => configured
    <3> DEFINE flushes == queried /\ jobs[r].done # <<>>
               new == Observed(jobs[r], i, outcome, flushes)
    <3>1. CASE jobs' = [jobs EXCEPT ![r] = At(jobs[r], "raising")]
      BY <2>1, <3>1 DEF At, Queued
    <3>2. CASE jobs' = [jobs EXCEPT ![r] = new]
      <4>1. new.needs = jobs[r].needs
        BY <2>1 DEF Observed, Job
      <4> HIDE DEF new
      <4> QED BY <2>1, <2>7, <3>2, <4>1 DEF RunItem, Attempted
    <3> QED BY <2>7, <3>1, <3>2 DEF RunItem
  <2>8. CASE Complete(r) \/ FailRun(r)
    BY <2>1, <2>8 DEF Complete, FailRun, At, Queued
  <2> QED BY <1>3, <2>3, <2>4, <2>5, <2>6, <2>7, <2>8 DEF JobStep
<1>4. ASSUME NEW r \in RunIds, Surprise(r) \/ TimeOut(r)
      PROVE  NeverStuck'
  <2>1. CASE Surprise(r)
    <3>1. At(jobs[r], "raising").pc # "running"
      BY DEF At, Queued
    <3> QED BY <2>1, <3>1, OthersAreNotStuck DEF Surprise, Works
  <2>2. CASE TimeOut(r)
    BY <2>2, OthersAreNotStuck DEF TimeOut, Drop
  <2> QED BY <1>4, <2>1, <2>2
<1>5. ASSUME NEW key \in BOOLEAN, Restart(key)
      PROVE  NeverStuck'
  BY <1>5 DEF Restart, NeverStuck, At, Queued
<1> QED BY <1>1, <1>2, <1>3, <1>4, <1>5 DEF Next

(* A job never waits for anything but its turn, although the key may be    *)
(* taken away between two of its tries.                                    *)
THEOREM JobsAreNeverStuck == Spec => []NeverStuck
<1>1. Init => NeverStuck
  BY DEF Init, NeverStuck
<1> QED BY <1>1, TypeCorrect, InitRunInv, NextRunInv, NextNeverStuck, PTL DEF Spec
=============================================================================
