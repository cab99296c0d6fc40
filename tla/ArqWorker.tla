----------------------------- MODULE ArqWorker -----------------------------
(***************************************************************************)
(* What happens to a job around the two task bodies: the run arq starts,   *)
(* the failure both services record before they give up, and the ways a    *)
(* run ends.  arq delivers a job at least once: a run that is cut short is *)
(* run again from the start, up to MaxTries times in all.                  *)
(***************************************************************************)
EXTENDS DocumentStore

Runs(j) == j \in DOMAIN jobs /\ jobs[j].pc # "queued"

\* Variant: nobody counts the tries.
StartAgain(j) ==
  /\ j \in DOMAIN jobs /\ jobs[j].pc = "queued"
  /\ Exists(jobs[j].doc)
  /\ jobs' = [jobs EXCEPT ![j].pc = "loaded", ![j].seen = docs[jobs[j].doc],
                          ![j].tries = @ + 1]
  /\ UNCHANGED <<tables, objects, requests, bounds>>

\* session.get at the head of either task; without a row the job is over.
StartRun(j) ==
  /\ j \in DOMAIN jobs /\ jobs[j].pc = "queued"
  /\ jobs[j].tries < MaxTries
  /\ LET d == jobs[j].doc
     IN jobs' = IF Exists(d)
                THEN [jobs EXCEPT ![j].pc = "loaded", ![j].seen = docs[d],
                                  ![j].tries = @ + 1]
                ELSE Ended(jobs, j)
  /\ UNCHANGED <<tables, objects, requests, bounds>>

\* Its tries are used up: arq drops the job.
Abandon(j) ==
  /\ j \in DOMAIN jobs /\ jobs[j].pc = "queued"
  /\ jobs[j].tries = MaxTries
  /\ jobs' = Ended(jobs, j)
  /\ UNCHANGED <<tables, objects, requests, bounds>>

(* _record_failure, after a rollback has expired what the session held:    *)
(* the row is read again ...                                               *)
ReadForFailure(j) ==
  /\ j \in DOMAIN jobs /\ jobs[j].pc = "failing"
  /\ LET job == jobs[j]
     IN jobs' = IF Exists(job.doc)
                THEN [jobs EXCEPT ![j].pc = "marking", ![j].seen = docs[job.doc]]
                ELSE IF job.fatal THEN [jobs EXCEPT ![j] = At(job, "raising")]
                ELSE Ended(jobs, j)
  /\ UNCHANGED <<tables, objects, requests, bounds>>

\* Variant: the error code is recorded and the status is forgotten.
MarkErrorOnly(j) ==
  /\ j \in DOMAIN jobs /\ jobs[j].pc = "marking"
  /\ LET job == jobs[j]
         want == [job.seen EXCEPT !.error = job.code]
     IN /\ docs' = Flush(job.doc, job.seen, want)
        /\ jobs' = [jobs EXCEPT ![j] = At(job, IF job.fatal THEN "raising" ELSE "ending")]
  /\ UNCHANGED <<chunks, objects, requests, bounds>>

(* ... and FAILED with the error code is written.  A row deleted in between*)
(* makes the UPDATE stale, which raises whatever the error was.            *)
MarkFailed(j) ==
  /\ j \in DOMAIN jobs /\ jobs[j].pc = "marking"
  /\ LET job == jobs[j]
         want == [job.seen EXCEPT !.status = "failed", !.error = job.code]
         stale == ~Exists(job.doc) /\ want # job.seen
     IN /\ docs' = Flush(job.doc, job.seen, want)
        /\ jobs' = [jobs EXCEPT ![j] = At(job, IF job.fatal \/ stale THEN "raising"
                                                                      ELSE "ending")]
  /\ UNCHANGED <<chunks, objects, requests, bounds>>

Finish(j) ==
  /\ j \in DOMAIN jobs /\ jobs[j].pc = "ending"
  /\ jobs' = Ended(jobs, j)
  /\ UNCHANGED <<tables, objects, requests, bounds>>

\* An exception that leaves the task: the job is dropped, or run again.
EndRaised(j) ==
  /\ j \in DOMAIN jobs /\ jobs[j].pc = "raising"
  /\ jobs' = IF RetryRaised THEN [jobs EXCEPT ![j] = At(jobs[j], "queued")]
             ELSE Ended(jobs, j)
  /\ UNCHANGED <<tables, objects, requests, bounds>>

(* The worker dies or shuts down under the job: its transaction and its    *)
(* locals are gone, and the job is delivered again.                        *)
Interrupt(j) ==
  /\ Runs(j)
  /\ interrupts < MaxInterrupts
  /\ interrupts' = interrupts + 1
  /\ jobs' = [jobs EXCEPT ![j] = At(jobs[j], "queued")]
  /\ UNCHANGED <<tables, objects, requests, parser, reruns, configured>>

\* job_timeout cancels the run; arq counts it as failed for good.
TimeOut(j) ==
  /\ "timeout" \in Faults
  /\ Runs(j)
  /\ jobs' = Ended(jobs, j)
  /\ UNCHANGED <<tables, objects, requests, bounds>>

(* A release with an improved parser: the one worker process restarts, so  *)
(* every run is cut short, and what is parsed from now on may differ.      *)
Redeploy ==
  /\ parser < MaxParser
  /\ parser' = parser + 1
  /\ jobs' = [i \in DOMAIN jobs |-> At(jobs[i], "queued")]
  /\ UNCHANGED <<tables, objects, requests, reruns, interrupts,
                 configured>>

WorkerStep(j) ==
  \/ StartRun(j)
  \/ Abandon(j)
  \/ ReadForFailure(j)
  \/ MarkFailed(j)
  \/ Finish(j)
  \/ EndRaised(j)
=============================================================================
