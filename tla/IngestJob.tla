----------------------------- MODULE IngestJob -----------------------------
(***************************************************************************)
(* The ingest_document job: IngestionService.run_ingestion and the task    *)
(* around it, one action per await.  PostgreSQL runs at READ COMMITTED.    *)
(***************************************************************************)
EXTENDS DocumentStore

(* Every exception that is not a DomainError, a StaleDataError for a row   *)
(* deleted meanwhile and an IntegrityError for a clashing chunk among them,*)
(* is recorded as INGESTION_FAILED and raised again.                       *)
Crashed(j) == Becomes(j, Failing(jobs[j], "INGESTION_FAILED", TRUE))

\* Variant: a document already completed is not ingested again.
SkipCompleted(j) ==
  /\ Running(j, "ingest", "loaded")
  /\ LET job == jobs[j]
         want == [job.seen EXCEPT !.status = "parsing"]
     IN /\ docs' = IF job.seen.status = "completed" THEN docs
                   ELSE Flush(job.doc, job.seen, want)
        /\ Becomes(j, IF job.seen.status = "completed" THEN At(job, "ending")
                     ELSE [job EXCEPT !.pc = "parsing", !.seen = want])
  /\ UNCHANGED <<chunks, objects, requests, bounds>>

(* PARSING, committed before the file is read.  A status that was PARSING  *)
(* already is not written, so that a row deleted meanwhile is not missed.  *)
StartParsing(j) ==
  /\ Running(j, "ingest", "loaded")
  /\ LET job == jobs[j]
         want == [job.seen EXCEPT !.status = "parsing"]
     IN IF Exists(job.doc) \/ want = job.seen
        THEN /\ docs' = Flush(job.doc, job.seen, want)
             /\ Becomes(j, [job EXCEPT !.pc = "parsing", !.seen = want])
        ELSE Crashed(j) /\ UNCHANGED docs
  /\ UNCHANGED <<chunks, objects, requests, bounds>>

\* The file is gone from the storage, or the parser cannot read it.
FailParsing(j) ==
  /\ Running(j, "ingest", "parsing")
  /\ LET job == jobs[j]
     IN \/ /\ job.doc \notin objects
           /\ Becomes(j, Failing(job, "STORAGE_FAILED", FALSE))
        \/ /\ job.doc \in objects /\ job.seen.content \in Unreadable
           /\ Becomes(j, Failing(job, "PARSING_FAILED", FALSE))
  /\ UNCHANGED <<tables, objects, requests, bounds>>

(* The file is read and parsed, CHUNKING is committed, and the text is cut:*)
(* nothing of it is visible yet.                                           *)
StartChunking(j) ==
  /\ Running(j, "ingest", "parsing")
  /\ jobs[j].doc \in objects /\ jobs[j].seen.content \notin Unreadable
  /\ LET job == jobs[j]
         want == [job.seen EXCEPT !.status = "chunking"]
     IN IF Exists(job.doc)
        THEN /\ docs' = Flush(job.doc, job.seen, want)
             /\ Becomes(j, [job EXCEPT !.pc = "chunking", !.seen = want])
        ELSE Crashed(j) /\ UNCHANGED docs
  /\ UNCHANGED <<chunks, objects, requests, bounds>>

\* Variant: the DELETE commits by itself.
DeleteAtOnce(j) ==
  /\ Running(j, "ingest", "chunking")
  /\ ~Locked(jobs[j].doc)
  /\ Becomes(j, [jobs[j] EXCEPT !.pc = "replacing",
                               !.cleared = DOMAIN chunks[jobs[j].doc]])
  /\ chunks' = [chunks EXCEPT ![jobs[j].doc] = <<>>]
  /\ UNCHANGED <<docs, objects, requests, bounds>>

\* Variant: there is no DELETE.
DeleteNothing(j) ==
  /\ Running(j, "ingest", "chunking")
  /\ Becomes(j, [jobs[j] EXCEPT !.pc = "replacing"])
  /\ UNCHANGED <<tables, objects, requests, bounds>>

(* DELETE FROM chunks: the rows stay visible to others until the commit,   *)
(* and locked.                                                             *)
DeleteChunks(j) ==
  /\ Running(j, "ingest", "chunking")
  /\ ~Locked(jobs[j].doc)
  /\ Becomes(j, [jobs[j] EXCEPT !.pc = "replacing",
                               !.cleared = DOMAIN chunks[jobs[j].doc]])
  /\ UNCHANGED <<tables, objects, requests, bounds>>

\* The rows the transaction has not deleted clash with those it inserts.
Survivors(j) == DOMAIN chunks[jobs[j].doc] \ jobs[j].cleared
Clash(j) ==
  Survivors(j) \cap Ordinals(parser, jobs[j].seen.content) # {}

(* Statements that were waiting for this job's row locks when it commits.  *)
(* A waiting DELETE finds its rows gone and deletes nothing, the inserted  *)
(* ones being newer than its snapshot; a waiting UPDATE matches no row.    *)
Waiters(j) ==
  {i \in DOMAIN jobs \ {j} :
     /\ Holds(j, jobs[i].doc)
     /\ Running(i, "ingest", "chunking") \/ Running(i, "embed", "calling")}

Overtake(queue, W) ==
  [i \in DOMAIN queue |->
     IF i \notin W THEN queue[i]
     ELSE [queue[i] EXCEPT
             !.pc = IF queue[i].task = "ingest" THEN "replacing" ELSE "overtaken"]]

(* INSERT of every chunk, the counts and COMPLETED, in the one commit that *)
(* makes the DELETE visible too.                                           *)
CommitChunks(j) ==
  /\ Running(j, "ingest", "replacing")
  /\ LET job == jobs[j]
         d == job.doc
         cut == FreshChunks(parser, job.seen.content)
         want == [job.seen EXCEPT !.status = "completed", !.error = "none",
                                  !.count = Pieces[parser][job.seen.content]]
     IN /\ Exists(d) /\ ~Clash(j)
        /\ chunks' = [chunks EXCEPT ![d] =
                        [o \in DOMAIN cut \cup Survivors(j) |->
                           IF o \in DOMAIN cut THEN cut[o] ELSE @[o]]]
        /\ docs' = Flush(d, job.seen, want)
        /\ \E W \in SUBSET Waiters(j) :
             jobs' = Overtake([jobs EXCEPT ![j] = At(job, "committed")], W)
  /\ UNCHANGED <<objects, requests, bounds>>

RejectChunks(j) ==
  /\ Running(j, "ingest", "replacing")
  /\ ~Exists(jobs[j].doc) \/ Clash(j)
  /\ Crashed(j)
  /\ UNCHANGED <<tables, objects, requests, bounds>>

\* Anything unforeseen at an await of the try block: the disk, the driver, a deadlock.
SurpriseIngest(j) ==
  /\ "surprise" \in Faults
  /\ j \in DOMAIN jobs /\ jobs[j].task = "ingest"
  /\ jobs[j].pc \in {"loaded", "parsing", "chunking", "replacing"}
  /\ Crashed(j)
  /\ UNCHANGED <<tables, objects, requests, bounds>>

\* Variant: the task ends where it should queue the embedding job.
ForgetEmbedding(j) ==
  /\ Running(j, "ingest", "committed")
  /\ configured
  /\ Becomes(j, At(jobs[j], "ending"))
  /\ UNCHANGED <<tables, objects, requests, bounds>>

\* The task goes on to queue the embedding job.
EnqueueEmbedding(j) ==
  /\ Running(j, "ingest", "committed")
  /\ configured
  /\ \E k \in FreeJobs :
       jobs' = Enqueue([jobs EXCEPT ![j] = At(jobs[j], "ending")], k, "embed", jobs[j].doc)
  /\ UNCHANGED <<tables, objects, requests, bounds>>

\* Redis refuses the job: the exception leaves the task.
LoseEmbedding(j) ==
  /\ "queue" \in Faults
  /\ Running(j, "ingest", "committed")
  /\ configured
  /\ Becomes(j, At(jobs[j], "raising"))
  /\ UNCHANGED <<tables, objects, requests, bounds>>

\* Without a provider there is nothing to queue.
SkipEmbedding(j) ==
  /\ Running(j, "ingest", "committed")
  /\ ~configured
  /\ Becomes(j, At(jobs[j], "ending"))
  /\ UNCHANGED <<tables, objects, requests, bounds>>

IngestStep(j) ==
  \/ StartParsing(j)
  \/ FailParsing(j)
  \/ StartChunking(j)
  \/ DeleteChunks(j)
  \/ CommitChunks(j)
  \/ RejectChunks(j)
  \/ EnqueueEmbedding(j)
  \/ SkipEmbedding(j)
=============================================================================
