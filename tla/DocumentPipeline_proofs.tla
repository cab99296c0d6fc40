----------------------- MODULE DocumentPipeline_proofs -----------------------
(***************************************************************************)
(* The safety of the document pipeline, for any number of documents, jobs, *)
(* uploads, interruptions and parser versions.  The inductive invariants   *)
(* are proved each from those before it: TypeOK; UploadInv, what keeps     *)
(* concurrent uploads apart; PipelineInv, that chunks are replaced whole;  *)
(* and, for the faults the worker is written for, TriesInv and OwedInv,    *)
(* that what is unfinished is always somebody's to finish; ParseInv, that  *)
(* a readable document gets parsed whichever of its runs fail; and that    *)
(* none fails while nobody queues one (SucceedInv).  That the pipeline     *)
(* implements RetrievalIndex follows from the first three.  The last part  *)
(* is what liveness rests on besides fairness and OwedInv: jobs wind down, *)
(* are never stuck, and wait for locks of one that waits for nobody.       *)
(***************************************************************************)
EXTENDS DocumentPipeline, TLAPS

USE DEF tables, bounds

\* The placeholder of a job that has read no row is a row.
LEMMA NothingIsRow == Nothing \in Row
  BY ParseAssumption DEF Nothing, NewRow, Row, Statuses, ErrorCodes

\* A freshly queued job is well typed.
LEMMA QueuedIsJob ==
  ASSUME NEW task \in Tasks, NEW d \in Docs, NEW n \in 0..MaxTries
  PROVE  Queued(task, d, n) \in Job
  BY NothingIsRow DEF Queued, Job, Points, ErrorCodes

\* Moving a job to another point, its locals spent, keeps its type ...
LEMMA AtIsJob ==
  ASSUME NEW job \in Job, NEW pc \in Points
  PROVE  At(job, pc) \in Job
<1>1. Queued(job.task, job.doc, job.tries) \in Job
  BY QueuedIsJob DEF Job
<1> QED BY <1>1 DEF At, Job

\* ... and so does setting out to record a failure.
LEMMA FailingIsJob ==
  ASSUME NEW job \in Job, NEW code \in ErrorCodes, NEW fatal \in BOOLEAN
  PROVE  Failing(job, code, fatal) \in Job
<1>1. At(job, "failing") \in Job
  BY AtIsJob DEF Points
<1> QED BY <1>1 DEF Failing, Job

\* A flush adds and removes no row, and leaves every row well typed.
LEMMA FlushKeepsDocsOK ==
  ASSUME DocsOK, NEW d, NEW seen \in Row, NEW want \in Row
  PROVE  LET new == Flush(d, seen, want)
         IN DOMAIN new = DOMAIN docs /\ \A e \in DOMAIN new : new[e] \in Row
  BY DEF DocsOK, Flush, Exists, Row

\* Replacing, adding and dropping a job keep the queue well typed.
LEMMA BecomesKeepsJobsOK ==
  ASSUME JobsOK, NEW j, NEW job \in Job, Becomes(j, job)
  PROVE  JobsOK'
  BY DEF JobsOK, Becomes

LEMMA EnqueueKeepsJobsOK ==
  ASSUME NEW queue, DOMAIN queue \subseteq JobIds, \A i \in DOMAIN queue : queue[i] \in Job,
         NEW j \in JobIds, NEW task \in Tasks, NEW d \in Docs, jobs' = Enqueue(queue, j, task, d)
  PROVE  JobsOK'
<1>1. Queued(task, d, 0) \in Job
  BY QueuedIsJob, BoundsAssumption
<1>2. DOMAIN jobs' = DOMAIN queue \cup {j}
  BY DEF Enqueue, With
<1>3. \A i \in DOMAIN jobs' : jobs'[i] = IF i = j THEN Queued(task, d, 0) ELSE queue[i]
  BY DEF Enqueue, With
<1> QED BY <1>1, <1>2, <1>3 DEF JobsOK

LEMMA EndedKeepsJobsOK ==
  ASSUME JobsOK, NEW j, jobs' = Ended(jobs, j)
  PROVE  JobsOK'
  BY DEF JobsOK, Ended
-----------------------------------------------------------------------------
\* The initial state is well typed.
LEMMA InitTypeOK == Init => TypeOK
  BY BoundsAssumption, SwitchAssumption
  DEF Init, TypeOK, DocsOK, ChunksOK, JobsOK, RequestsOK, BoundsOK

\* What is left to show of an action that changes the jobs alone, or a row too.
LEMMA JobsAloneTypeOK ==
  ASSUME TypeOK, UNCHANGED <<tables, objects, requests, bounds>>, JobsOK'
  PROVE  TypeOK'
  BY DEF TypeOK, DocsOK, ChunksOK, RequestsOK, BoundsOK

\* The same for an action that flushes a row as well.
LEMMA JobsAndRowTypeOK ==
  ASSUME TypeOK, NEW d, NEW seen \in Row, NEW want \in Row, docs' = Flush(d, seen, want),
         UNCHANGED <<chunks, objects, requests, bounds>>, JobsOK'
  PROVE  TypeOK'
<1>1. DocsOK'
  BY FlushKeepsDocsOK DEF TypeOK, DocsOK
<1> QED BY <1>1 DEF TypeOK, ChunksOK, RequestsOK, BoundsOK

\* Every action keeps every variable in its type.
LEMMA NextTypeOK == TypeOK /\ [Next]_vars => TypeOK'
<1> USE DEF TypeOK
<1> SUFFICES ASSUME TypeOK, [Next]_vars PROVE TypeOK'
  OBVIOUS
<1>jobs. \A j \in DOMAIN jobs : jobs[j] \in Job /\ jobs[j].doc \in Docs /\ jobs[j].seen \in Row
                               /\ jobs[j].tries \in 0..MaxTries
  BY DEF JobsOK, Job
<1>1. CASE UNCHANGED vars
  BY <1>1 DEF vars, DocsOK, ChunksOK, JobsOK, RequestsOK, BoundsOK
<1>2. CASE UploadNext
  <2> PICK r \in Requests : \/ \E c \in Contents, d \in Docs : CheckUpload(r, c, d) \/ RejectDuplicate(r, c, d)
                            \/ UploadStep(r)
                            \/ LoseRequest(r)
    BY <1>2 DEF UploadNext
  <2> USE DEF DocsOK, ChunksOK, JobsOK, BoundsOK
  <2>1. ASSUME NEW c \in Contents, NEW d \in Docs, CheckUpload(r, c, d)
        PROVE  TypeOK'
    BY <2>1 DEF CheckUpload, RequestsOK, Request, RequestPoints, With
  <2>2. ASSUME NEW c \in Contents, NEW d \in Docs, RejectDuplicate(r, c, d)
        PROVE  TypeOK'
    BY <2>2 DEF RejectDuplicate, RequestsOK, Request, RequestPoints, With
  <2>3. CASE StoreObject(r)
    BY <2>3 DEF StoreObject, Answer, RequestsOK, Request, RequestPoints
  <2>4. CASE InsertDocument(r)
    BY <2>4 DEF InsertDocument, Answer, RequestsOK, Request, RequestPoints, With, NewRow, Row,
                Statuses, ErrorCodes
  <2>5. CASE ViolateConstraint(r)
    BY <2>5 DEF ViolateConstraint, Answer, RequestsOK, Request, RequestPoints
  <2>6. CASE EnqueueIngestion(r)
    <3>1. JobsOK'
      BY <2>6, EnqueueKeepsJobsOK DEF EnqueueIngestion, FreeJobs, Tasks, RequestsOK, Request
    <3> QED BY <2>6, <3>1 DEF EnqueueIngestion, Answer, RequestsOK, Request, RequestPoints
  <2>7. CASE LoseRequest(r)
    BY <2>7 DEF LoseRequest, Answer, RequestsOK, Request, RequestPoints
  <2> QED BY <2>1, <2>2, <2>3, <2>4, <2>5, <2>6, <2>7 DEF UploadStep
<1>3. ASSUME NEW j \in JobIds, JobStep(j) \/ JobFault(j)
      PROVE  TypeOK'
  <2> DEFINE job == jobs[j]
  <2> USE JobsAloneTypeOK, BecomesKeepsJobsOK, EndedKeepsJobsOK
  <2>1. CASE StartParsing(j)
    <3> DEFINE want == [job.seen EXCEPT !.status = "parsing"]
    <3>1. job \in Job /\ want \in Row
      BY <2>1, <1>jobs DEF StartParsing, Running, Row, Statuses
    <3>2. CASE Exists(job.doc) \/ want = job.seen
      <4>1. [job EXCEPT !.pc = "parsing", !.seen = want] \in Job
        BY <3>1 DEF Job, Points
      <4>2. JobsOK'
        BY <2>1, <3>2, <4>1 DEF StartParsing
      <4> QED BY <2>1, <3>1, <3>2, <4>2, JobsAndRowTypeOK, <1>jobs DEF StartParsing, Running
    <3>3. CASE ~(Exists(job.doc) \/ want = job.seen)
      <4>1. Failing(job, "INGESTION_FAILED", TRUE) \in Job
        BY <3>1, FailingIsJob DEF ErrorCodes
      <4> QED BY <2>1, <3>3, <4>1 DEF StartParsing, Crashed
    <3> QED BY <3>2, <3>3
  <2>2. CASE FailParsing(j)
    <3>1. /\ Failing(job, "STORAGE_FAILED", FALSE) \in Job
          /\ Failing(job, "PARSING_FAILED", FALSE) \in Job
      BY <2>2, <1>jobs, FailingIsJob DEF FailParsing, Running, ErrorCodes
    <3> QED BY <2>2, <3>1 DEF FailParsing
  <2>3. CASE StartChunking(j)
    <3> DEFINE want == [job.seen EXCEPT !.status = "chunking"]
    <3>1. job \in Job /\ want \in Row
      BY <2>3, <1>jobs DEF StartChunking, Running, Row, Statuses
    <3>2. CASE Exists(job.doc)
      <4>1. [job EXCEPT !.pc = "chunking", !.seen = want] \in Job
        BY <3>1 DEF Job, Points
      <4>2. JobsOK'
        BY <2>3, <3>2, <4>1 DEF StartChunking
      <4> QED BY <2>3, <3>1, <3>2, <4>2, JobsAndRowTypeOK, <1>jobs DEF StartChunking, Running
    <3>3. CASE ~Exists(job.doc)
      <4>1. Failing(job, "INGESTION_FAILED", TRUE) \in Job
        BY <3>1, FailingIsJob DEF ErrorCodes
      <4> QED BY <2>3, <3>3, <4>1 DEF StartChunking, Crashed
    <3> QED BY <3>2, <3>3
  <2>4. CASE DeleteChunks(j)
    <3>1. [job EXCEPT !.pc = "replacing", !.cleared = DOMAIN chunks[job.doc]] \in Job
      <4>1. job \in Job /\ job.doc \in Docs
        BY ONLY <2>4, <1>jobs DEF DeleteChunks, Running
      <4>2. DOMAIN chunks[job.doc] \in SUBSET Nat
        BY ONLY <4>1, ChunksOK DEF ChunksOK
      <4> QED BY ONLY <4>1, <4>2 DEF Job, Points
    <3> QED BY <2>4, <3>1 DEF DeleteChunks
  <2>5. CASE CommitChunks(j)
    <3> DEFINE c == job.seen.content
               cut == FreshChunks(parser, c)
               want == [job.seen EXCEPT !.status = "completed", !.error = "none",
                                        !.count = Pieces[parser][c]]
    <3>1. job \in Job /\ job.doc \in Docs /\ job.seen \in Row /\ c \in Contents
          /\ Pieces[parser][c] \in Nat
      BY <2>5, <1>jobs, ParseAssumption DEF CommitChunks, Running, Row, BoundsOK
    <3>2. want \in Row
      BY <3>1 DEF Row, Statuses, ErrorCodes
    <3>3. DocsOK'
      BY <2>5, <3>1, <3>2, FlushKeepsDocsOK DEF CommitChunks, DocsOK
    <3>4. /\ DOMAIN cut \subseteq Nat
          /\ \A o \in DOMAIN cut : cut[o] \in ChunkRow
      BY <3>1, BoundsAssumption DEF FreshChunks, Ordinals, ChunkRow, BoundsOK
    <3>5. ChunksOK'
      BY <2>5, <3>1, <3>4 DEF CommitChunks, ChunksOK, Survivors
    <3>6. JobsOK'
      <4>1. PICK W \in SUBSET Waiters(j) :
              jobs' = Overtake([jobs EXCEPT ![j] = At(job, "committed")], W)
        BY <2>5 DEF CommitChunks
      <4>2. At(job, "committed") \in Job
        BY <3>1, AtIsJob DEF Points
      <4>3. \A i \in JobIds : \A q \in Job :
              [q EXCEPT !.pc = IF q.task = "ingest" THEN "replacing" ELSE "overtaken"] \in Job
        BY DEF Job, Points
      <4> QED BY <4>1, <4>2, <4>3, <1>jobs DEF JobsOK, Overtake
    <3> QED BY <2>5, <3>3, <3>5, <3>6 DEF CommitChunks, RequestsOK, BoundsOK
  <2>6. CASE RejectChunks(j)
    <3>1. Failing(job, "INGESTION_FAILED", TRUE) \in Job
      BY <2>6, <1>jobs, FailingIsJob DEF RejectChunks, Running, ErrorCodes
    <3> QED BY <2>6, <3>1 DEF RejectChunks, Crashed
  <2>7. CASE EnqueueEmbedding(j)
    <3>1. PICK k \in FreeJobs :
            jobs' = Enqueue([jobs EXCEPT ![j] = At(job, "ending")], k, "embed", job.doc)
      BY <2>7 DEF EnqueueEmbedding
    <3>2. job \in Job /\ job.doc \in Docs /\ At(job, "ending") \in Job
      BY <2>7, <1>jobs, AtIsJob DEF EnqueueEmbedding, Running, Points
    <3>3. JobsOK'
      BY <3>1, <3>2, <1>jobs, EnqueueKeepsJobsOK DEF FreeJobs, Tasks, JobsOK
    <3> QED BY <2>7, <3>3 DEF EnqueueEmbedding
  <2>8. CASE SkipEmbedding(j) \/ LoseEmbedding(j)
    <3>1. At(job, "ending") \in Job /\ At(job, "raising") \in Job
      BY <2>8, <1>jobs, AtIsJob DEF SkipEmbedding, LoseEmbedding, Running, Points
    <3> QED BY <2>8, <3>1 DEF SkipEmbedding, LoseEmbedding
  <2>9. CASE SurpriseIngest(j)
    <3>1. Failing(job, "INGESTION_FAILED", TRUE) \in Job
      BY <2>9, <1>jobs, FailingIsJob DEF SurpriseIngest, ErrorCodes
    <3> QED BY <2>9, <3>1 DEF SurpriseIngest, Crashed
  <2>10. CASE SelectPending(j)
    <3>1. job \in Job /\ job.doc \in Docs /\ At(job, "ending") \in Job
      BY <2>10, <1>jobs, AtIsJob DEF SelectPending, Running, Points
    <3>2. {Read(job.doc, o) : o \in Unembedded(job.doc)}
            \in SUBSET [ordinal : Nat, text : 1..MaxParser]
      BY <3>1 DEF Read, Unembedded, ChunksOK, ChunkRow
    <3>3. [job EXCEPT !.pc = "calling",
                      !.pending = {Read(job.doc, o) : o \in Unembedded(job.doc)}] \in Job
      BY <3>1, <3>2 DEF Job, Points
    <3> QED BY <2>10, <3>1, <3>3 DEF SelectPending
  <2>11. CASE MissProvider(j) \/ FailEmbedding(j)
    <3>1. /\ Failing(job, "EMBEDDING_FAILED", TRUE) \in Job
          /\ Failing(job, "PROVIDER_NOT_CONFIGURED", TRUE) \in Job
      BY <2>11, <1>jobs, FailingIsJob DEF MissProvider, FailEmbedding, Running, ErrorCodes
    <3> QED BY <2>11, <3>1 DEF MissProvider, FailEmbedding
  <2>12. ASSUME NEW lost, SaveVectors(j, lost), j \in DOMAIN jobs
         PROVE  TypeOK'
    <3> DEFINE want == [job.seen EXCEPT !.error = "none"]
    <3>1. job \in Job /\ job.doc \in Docs /\ job.seen \in Row /\ At(job, "ending") \in Job
      BY <2>12, <1>jobs, AtIsJob DEF Points
    <3>2. want \in Row
      BY <3>1 DEF Row, ErrorCodes
    <3>3. DocsOK'
      BY <2>12, <3>1, <3>2, FlushKeepsDocsOK DEF SaveVectors, DocsOK
    <3>4. \A o \in Reached(j, lost) : TextRead(job.pending, o) \in 1..MaxParser
      BY <3>1 DEF Reached, Wanted, TextRead, Job
    <3>5. ChunksOK'
      BY <2>12, <3>1, <3>4 DEF SaveVectors, Vectorised, ChunksOK, ChunkRow
    <3>6. JobsOK'
      BY <2>12, <3>1 DEF SaveVectors
    <3> QED BY <2>12, <3>3, <3>5, <3>6 DEF SaveVectors, RequestsOK, BoundsOK
  <2>13. ASSUME NEW lost, RaiseStale(j, lost), j \in DOMAIN jobs
         PROVE  TypeOK'
    <3>1. At(job, "raising") \in Job
      BY <2>13, <1>jobs, AtIsJob DEF Points
    <3> QED BY <2>13, <3>1 DEF RaiseStale
  <2>14. CASE CompleteEmbedding(j) \/ CompleteOvertaken(j)
    BY <2>12, <2>13, <2>14 DEF CompleteEmbedding, CompleteOvertaken, Running
  <2>15. CASE SurpriseEmbed(j)
    <3>1. At(job, "raising") \in Job
      BY <2>15, <1>jobs, AtIsJob DEF SurpriseEmbed, Points
    <3> QED BY <2>15, <3>1 DEF SurpriseEmbed
  <2>16. CASE StartRun(j)
    <3>1. CASE Exists(job.doc)
      <4>1. [job EXCEPT !.pc = "loaded", !.seen = docs[job.doc], !.tries = @ + 1] \in Job
        BY <2>16, <3>1, <1>jobs, BoundsAssumption DEF StartRun, Exists, DocsOK, Job, Points
      <4>2. jobs' = [jobs EXCEPT ![j] =
                      [job EXCEPT !.pc = "loaded", !.seen = docs[job.doc], !.tries = @ + 1]]
        BY <2>16, <3>1 DEF StartRun
      <4>3. JobsOK'
        BY <4>1, <4>2 DEF JobsOK
      <4> QED BY <2>16, <4>3 DEF StartRun
    <3>2. CASE ~Exists(job.doc)
      BY <2>16, <3>2 DEF StartRun
    <3> QED BY <3>1, <3>2
  <2>17. CASE Abandon(j) \/ Finish(j) \/ TimeOut(j)
    BY <2>17 DEF Abandon, Finish, TimeOut
  <2>18. CASE ReadForFailure(j)
    <3>1. job \in Job /\ At(job, "raising") \in Job
      BY <2>18, <1>jobs, AtIsJob DEF ReadForFailure, Points
    <3>2. CASE Exists(job.doc)
      <4>1. [job EXCEPT !.pc = "marking", !.seen = docs[job.doc]] \in Job
        BY <3>1, <3>2 DEF Exists, DocsOK, Job, Points
      <4>2. jobs' = [jobs EXCEPT ![j] = [job EXCEPT !.pc = "marking", !.seen = docs[job.doc]]]
        BY <2>18, <3>2 DEF ReadForFailure
      <4>3. JobsOK'
        BY <4>1, <4>2 DEF JobsOK
      <4> QED BY <2>18, <4>3 DEF ReadForFailure
    <3>3. CASE ~Exists(job.doc)
      BY <2>18, <3>1, <3>3 DEF ReadForFailure, Becomes
    <3> QED BY <3>2, <3>3
  <2>19. CASE MarkFailed(j)
    <3> DEFINE want == [job.seen EXCEPT !.status = "failed", !.error = job.code]
    <3>1. job \in Job /\ job.seen \in Row /\ job.code \in ErrorCodes
      BY <2>19, <1>jobs DEF MarkFailed, Job
    <3>2. want \in Row
      BY <3>1 DEF Row, Statuses
    <3>3. At(job, "raising") \in Job /\ At(job, "ending") \in Job
      BY <3>1, AtIsJob DEF Points
    <3>4. JobsOK'
      BY <2>19, <3>3 DEF MarkFailed, JobsOK
    <3> QED BY <2>19, <3>1, <3>2, <3>4, JobsAndRowTypeOK DEF MarkFailed
  <2>20. CASE EndRaised(j)
    <3>1. At(job, "queued") \in Job
      BY <2>20, <1>jobs, AtIsJob DEF EndRaised, Points
    <3> QED BY <2>20, <3>1 DEF EndRaised, Becomes
  <2>21. CASE Interrupt(j)
    <3>1. At(job, "queued") \in Job
      BY <2>21, <1>jobs, AtIsJob DEF Interrupt, Runs, Points
    <3>2. JobsOK'
      BY <2>21, <3>1 DEF Interrupt, JobsOK
    <3> QED BY <2>21, <3>2, BoundsAssumption DEF Interrupt, DocsOK, ChunksOK, RequestsOK, BoundsOK
  <2> QED BY <1>3, <2>1, <2>2, <2>3, <2>4, <2>5, <2>6, <2>7, <2>8, <2>9, <2>10, <2>11, <2>14,
             <2>15, <2>16, <2>17, <2>18, <2>19, <2>20, <2>21
          DEF JobStep, JobFault, IngestStep, EmbedStep, WorkerStep
<1>4. CASE Outside
  <2>1. CASE Redeploy
    <3>1. \A i \in DOMAIN jobs : At(jobs[i], "queued") \in Job
      BY <1>jobs, AtIsJob DEF Points
    <3>2. JobsOK'
      BY <2>1, <3>1 DEF Redeploy, JobsOK
    <3> QED BY <2>1, <3>2, BoundsAssumption DEF Redeploy, DocsOK, ChunksOK, RequestsOK, BoundsOK
  <2>2. ASSUME NEW d \in Docs, DeleteDocument(d)
        PROVE  TypeOK'
    BY <2>2 DEF DeleteDocument, DocsOK, ChunksOK, JobsOK, RequestsOK, BoundsOK
  <2>3. ASSUME NEW d \in Docs, NEW t \in Tasks, Rerun(d, t)
        PROVE  TypeOK'
    <3>1. JobsOK'
      BY <2>3, EnqueueKeepsJobsOK DEF Rerun, FreeJobs, JobsOK
    <3> QED BY <2>3, <3>1, BoundsAssumption DEF Rerun, DocsOK, ChunksOK, RequestsOK, BoundsOK
  <2> QED BY <1>4, <2>1, <2>2, <2>3 DEF Outside
<1> QED BY <1>1, <1>2, <1>3, <1>4 DEF Next

(* In every behaviour, whatever the constants, the variables have their    *)
(* types; in particular no job is run more often than arq's max_tries.     *)
THEOREM TypeCorrect == Spec => []TypeOK
<1> QED BY InitTypeOK, NextTypeOK, PTL DEF Spec
-----------------------------------------------------------------------------
(* The worker leaves uploads alone: no job touches the objects, the requests*)
(* or the content of a row, makes or removes a row, or turns to a document *)
(* no job was about.                                                       *)
Untouched ==
  /\ objects' = objects /\ requests' = requests
  /\ DOMAIN docs' = DOMAIN docs
  /\ \A d \in DOMAIN docs : docs'[d].content = docs[d].content
  /\ \A i \in DOMAIN jobs' : \E k \in DOMAIN jobs : jobs'[i].doc = jobs[k].doc

\* A flush never changes which file a row is about.
LEMMA FlushKeepsContent ==
  ASSUME NEW d, NEW seen, NEW want, docs' = docs \/ docs' = Flush(d, seen, want)
  PROVE  DOMAIN docs' = DOMAIN docs /\ \A e \in DOMAIN docs : docs'[e].content = docs[e].content
  BY DEF Flush, Exists

\* No job turns to another document ...
LEMMA JobKeepsDoc ==
  ASSUME NEW job
  PROVE  /\ \A pc : At(job, pc).doc = job.doc
         /\ \A code, fatal : Failing(job, code, fatal).doc = job.doc
  BY DEF At, Failing, Queued

\* ... so one that moves on leaves the documents jobs are about as they were.
LEMMA BecomesKeepsDocs ==
  ASSUME NEW j, NEW job, Becomes(j, job), j \in DOMAIN jobs => job.doc = jobs[j].doc
  PROVE  \A i \in DOMAIN jobs' : \E k \in DOMAIN jobs : jobs'[i].doc = jobs[k].doc
  BY DEF Becomes

\* No step and no fault of a job touches what uploads rely on.
LEMMA JobsLeaveUploadsAlone ==
  ASSUME TypeOK, NEW j \in JobIds, JobStep(j) \/ JobFault(j)
  PROVE  Untouched
<1> DEFINE job == jobs[j]
<1>doc. /\ \A pc : At(job, pc).doc = job.doc
       /\ \A code, fatal : Failing(job, code, fatal).doc = job.doc
  BY JobKeepsDoc
<1>job. j \in DOMAIN jobs => job \in Job
  BY DEF TypeOK, JobsOK
<1> USE FlushKeepsContent, BecomesKeepsDocs, <1>doc
<1>1. CASE StartParsing(j)
  <2>1. \A seen : [job EXCEPT !.pc = "parsing", !.seen = seen].doc = job.doc
    BY <1>1, <1>job DEF StartParsing, Running, Job
  <2>2. DOMAIN docs' = DOMAIN docs /\ \A d \in DOMAIN docs : docs'[d].content = docs[d].content
    BY <1>1 DEF StartParsing
  <2>3. \A i \in DOMAIN jobs' : \E k \in DOMAIN jobs : jobs'[i].doc = jobs[k].doc
    BY <1>1, <2>1 DEF StartParsing, Crashed
  <2> QED BY <1>1, <2>2, <2>3 DEF StartParsing, Untouched
<1>2. CASE FailParsing(j)
  BY <1>2 DEF FailParsing, Untouched
<1>3. CASE StartChunking(j)
  <2>1. \A seen : [job EXCEPT !.pc = "chunking", !.seen = seen].doc = job.doc
    BY <1>3, <1>job DEF StartChunking, Running, Job
  <2>2. DOMAIN docs' = DOMAIN docs /\ \A d \in DOMAIN docs : docs'[d].content = docs[d].content
    BY <1>3 DEF StartChunking
  <2>3. \A i \in DOMAIN jobs' : \E k \in DOMAIN jobs : jobs'[i].doc = jobs[k].doc
    BY <1>3, <2>1 DEF StartChunking, Crashed
  <2> QED BY <1>3, <2>2, <2>3 DEF StartChunking, Untouched
<1>4. CASE DeleteChunks(j)
  <2>1. \A ords : [job EXCEPT !.pc = "replacing", !.cleared = ords].doc = job.doc
    BY <1>4, <1>job DEF DeleteChunks, Running, Job
  <2> QED BY <1>4, <2>1 DEF DeleteChunks, Untouched
<1>5. CASE CommitChunks(j)
  <2>1. PICK W \in SUBSET Waiters(j) :
          jobs' = Overtake([jobs EXCEPT ![j] = At(job, "committed")], W)
    BY <1>5 DEF CommitChunks
  <2>2. \A i \in DOMAIN jobs' : jobs'[i].doc = jobs[i].doc
    BY <2>1 DEF Overtake, TypeOK, JobsOK, Job
  <2>3. DOMAIN jobs' = DOMAIN jobs
    BY <2>1 DEF Overtake
  <2>4. DOMAIN docs' = DOMAIN docs /\ \A d \in DOMAIN docs : docs'[d].content = docs[d].content
    BY <1>5 DEF CommitChunks
  <2> QED BY <1>5, <2>2, <2>3, <2>4 DEF CommitChunks, Untouched
<1>6. CASE RejectChunks(j) \/ SurpriseIngest(j)
  BY <1>6 DEF RejectChunks, SurpriseIngest, Crashed, Untouched
<1>7. CASE EnqueueEmbedding(j)
  <2>1. PICK k \in FreeJobs :
          jobs' = Enqueue([jobs EXCEPT ![j] = At(job, "ending")], k, "embed", job.doc)
    BY <1>7 DEF EnqueueEmbedding
  <2>2. \A i \in DOMAIN jobs' : \E h \in DOMAIN jobs : jobs'[i].doc = jobs[h].doc
    BY <1>7, <2>1 DEF EnqueueEmbedding, Running, Enqueue, With, Queued
  <2> QED BY <1>7, <2>2 DEF EnqueueEmbedding, Untouched
<1>8. CASE SkipEmbedding(j) \/ LoseEmbedding(j)
  BY <1>8 DEF SkipEmbedding, LoseEmbedding, Untouched
<1>9. CASE SelectPending(j)
  <2>1. \A todo : [job EXCEPT !.pc = "calling", !.pending = todo].doc = job.doc
    BY <1>9, <1>job DEF SelectPending, Running, Job
  <2> QED BY <1>9, <2>1 DEF SelectPending, Untouched
<1>10. CASE MissProvider(j) \/ FailEmbedding(j) \/ SurpriseEmbed(j)
  BY <1>10 DEF MissProvider, FailEmbedding, SurpriseEmbed, Untouched
<1>11. CASE CompleteEmbedding(j) \/ CompleteOvertaken(j)
  <2>1. ASSUME NEW lost, SaveVectors(j, lost) \/ RaiseStale(j, lost)
        PROVE  Untouched
    <3>1. DOMAIN docs' = DOMAIN docs /\ \A d \in DOMAIN docs : docs'[d].content = docs[d].content
      BY <2>1 DEF SaveVectors, RaiseStale
    <3>2. \A i \in DOMAIN jobs' : \E k \in DOMAIN jobs : jobs'[i].doc = jobs[k].doc
      BY <2>1 DEF SaveVectors, RaiseStale
    <3> QED BY <2>1, <3>1, <3>2 DEF SaveVectors, RaiseStale, Untouched
  <2> QED BY <1>11, <2>1 DEF CompleteEmbedding, CompleteOvertaken
<1>12. CASE StartRun(j)
  BY <1>12 DEF StartRun, Ended, Untouched, TypeOK, JobsOK, Job
<1>13. CASE Abandon(j) \/ Finish(j) \/ TimeOut(j)
  BY <1>13 DEF Abandon, Finish, TimeOut, Ended, Untouched
<1>14. CASE ReadForFailure(j)
  BY <1>14 DEF ReadForFailure, Ended, Untouched, TypeOK, JobsOK, Job
<1>15. CASE MarkFailed(j)
  BY <1>15 DEF MarkFailed, Untouched
<1>16. CASE EndRaised(j) \/ Interrupt(j)
  BY <1>16 DEF EndRaised, Interrupt, Ended, Untouched
<1> QED BY <1>1, <1>2, <1>3, <1>4, <1>5, <1>6, <1>7, <1>8, <1>9, <1>10, <1>11, <1>12, <1>13,
           <1>14, <1>15, <1>16
        DEF JobStep, JobFault, IngestStep, EmbedStep, WorkerStep
-----------------------------------------------------------------------------
\* The inductive invariant of the upload: files before rows, ids and hashes unique.
UploadInv == ObjectBeforeRow /\ OneRowPerContent /\ UploadsOwnIds

\* The upload invariant holds of empty tables ...
LEMMA InitUploadInv == Init => UploadInv
  BY DEF Init, UploadInv, ObjectBeforeRow, OneRowPerContent, UploadsOwnIds

\* ... and is kept by every step.
LEMMA NextUploadInv == TypeOK /\ UploadInv /\ [Next]_vars => UploadInv'
<1> SUFFICES ASSUME TypeOK, UploadInv, [Next]_vars PROVE UploadInv'
  OBVIOUS
<1> USE DEF UploadInv, ObjectBeforeRow, OneRowPerContent, UploadsOwnIds, Exists
<1>1. CASE UNCHANGED vars
  BY <1>1 DEF vars
<1>2. ASSUME NEW r \in Requests, NEW c \in Contents, NEW d \in Docs, CheckUpload(r, c, d)
      PROVE  UploadInv'
  BY <1>2 DEF CheckUpload, With, FreshIds
<1>3. ASSUME NEW r \in Requests, NEW c \in Contents, NEW d \in Docs, RejectDuplicate(r, c, d)
      PROVE  UploadInv'
  BY <1>3 DEF RejectDuplicate, SameContent, With
<1>4. ASSUME NEW r \in Requests, UploadStep(r) \/ LoseRequest(r)
      PROVE  UploadInv'
  <2> USE DEF TypeOK, RequestsOK, Request, Answer
  <2>1. CASE StoreObject(r)
    BY <2>1 DEF StoreObject
  <2>2. CASE InsertDocument(r)
    <3> DEFINE d == requests[r].doc
               row == NewRow(requests[r].content)
    <3>1. /\ DOMAIN docs' = DOMAIN docs \cup {d}
          /\ docs'[d] = row
          /\ \A e \in DOMAIN docs : docs'[e] = docs[e]
          /\ d \in objects
      BY <2>2 DEF InsertDocument, With
    <3>2. row.content = requests[r].content
      BY DEF NewRow
    <3>3. OneRowPerContent'
      BY <2>2, <3>1, <3>2 DEF InsertDocument, SameContent
    <3>4. UploadsOwnIds'
      BY <2>2, <3>1 DEF InsertDocument
    <3> QED BY <2>2, <3>1, <3>3, <3>4 DEF InsertDocument
  <2>3. CASE ViolateConstraint(r)
    BY <2>3 DEF ViolateConstraint
  <2>4. CASE EnqueueIngestion(r)
    <3>1. PICK j \in FreeJobs : jobs' = Enqueue(jobs, j, "ingest", requests[r].doc)
      BY <2>4 DEF EnqueueIngestion
    <3>2. \A i \in DOMAIN jobs' : jobs'[i].doc = requests[r].doc
                                 \/ \E k \in DOMAIN jobs : jobs'[i].doc = jobs[k].doc
      BY <3>1 DEF Enqueue, With, Queued
    <3> QED BY <2>4, <3>2 DEF EnqueueIngestion
  <2>5. CASE LoseRequest(r)
    BY <2>5 DEF LoseRequest
  <2> QED BY <1>4, <2>1, <2>2, <2>3, <2>4, <2>5 DEF UploadStep
<1>5. ASSUME NEW j \in JobIds, JobStep(j) \/ JobFault(j)
      PROVE  UploadInv'
  <2>1. Untouched
    BY <1>5, JobsLeaveUploadsAlone
  <2> QED BY <2>1 DEF Untouched
<1>6. CASE Redeploy
  BY <1>6, JobKeepsDoc DEF Redeploy
<1>7. ASSUME NEW d \in Docs, DeleteDocument(d)
      PROVE  UploadInv'
  BY <1>7 DEF DeleteDocument
<1>8. ASSUME NEW d \in Docs, NEW t \in Tasks, Rerun(d, t)
      PROVE  UploadInv'
  <2>1. \A i \in DOMAIN jobs' : jobs'[i].doc = d \/ \E k \in DOMAIN jobs : jobs'[i].doc = jobs[k].doc
    BY <1>8 DEF Rerun, Enqueue, With, Queued
  <2> QED BY <1>8, <2>1 DEF Rerun
<1> QED BY <1>1, <1>2, <1>3, <1>4, <1>5, <1>6, <1>7, <1>8 DEF Next, UploadNext, Outside

(* In every behaviour an id drawn by an upload is nobody else's, files come *)
(* before rows, and hashes are unique.                                     *)
THEOREM UploadInvariance == Spec => []UploadInv
<1> QED BY InitUploadInv, NextUploadInv, TypeCorrect, PTL DEF Spec

(* A document's row never exists without its file in the storage, for any  *)
(* number of uploads, whatever process is lost between the put and the     *)
(* commit.                                                                 *)
THEOREM FilesComeFirst == Spec => []ObjectBeforeRow
<1>1. UploadInv => ObjectBeforeRow
  BY DEF UploadInv
<1> QED BY <1>1, UploadInvariance, PTL

(* Two rows of a project never hold the same file, for any number of       *)
(* concurrent uploads of it.                                               *)
THEOREM ContentIsUnique == Spec => []OneRowPerContent
<1>1. UploadInv => OneRowPerContent
  BY DEF UploadInv
<1> QED BY <1>1, UploadInvariance, PTL
-----------------------------------------------------------------------------
(* Steps that leave every parse as it is: no row changes its content or its*)
(* count, no chunk comes, goes or changes its text, and a status only moves*)
(* to one that promises nothing.                                           *)
SameParse ==
  /\ DOMAIN docs' = DOMAIN docs
  /\ \A d \in DOMAIN docs :
       /\ docs'[d].content = docs[d].content /\ docs'[d].count = docs[d].count
       /\ docs'[d].status \in {docs[d].status, "parsing", "chunking", "failed"}
  /\ \A d \in Docs :
       /\ DOMAIN chunks'[d] = DOMAIN chunks[d]
       /\ \A o \in DOMAIN chunks[d] : chunks'[d][o].text = chunks[d][o].text
  /\ parser' = parser

\* A job that is not on its way to replace chunks, and holds no lock.
Harmless(job) ==
  job.cleared = {} /\ ~Ingests(job, {"loaded", "parsing", "chunking", "replacing"})

\* One that comes a step nearer to it.
Advances(old, new) ==
  /\ Ingests(old, {"loaded", "parsing"}) /\ Ingests(new, {"parsing", "chunking"})
  /\ new.doc = old.doc /\ new.cleared = old.cleared
  /\ new.seen.content = old.seen.content /\ new.seen.count = old.seen.count
  /\ new.pc = "chunking" => new.seen.status = "chunking"

\* Such a step neither makes nor breaks a whole parse.
LEMMA OneParseStays ==
  ASSUME TypeOK, SameParse, NEW d \in DOMAIN docs, NEW v
  PROVE  OneParse(d, v)' <=> OneParse(d, v)
<1>1. d \in Docs
  BY DEF TypeOK, DocsOK
<1>2. docs'[d].content = docs[d].content /\ docs'[d].count = docs[d].count
  BY ONLY SameParse, d \in DOMAIN docs DEF SameParse
<1>3. /\ DOMAIN chunks'[d] = DOMAIN chunks[d]
      /\ \A o \in DOMAIN chunks[d] : chunks'[d][o].text = chunks[d][o].text
  BY ONLY <1>1, SameParse DEF SameParse
<1> QED BY ONLY <1>2, <1>3 DEF OneParse, Ordinals

\* Such a step keeps what is visible of every document a whole parse ...
LEMMA SameParseKeepsParses ==
  ASSUME TypeOK, ChunksAreOneParse, SameParse
  PROVE  ChunksAreOneParse'
<1>1. \A d \in DOMAIN docs : d \in Docs
  BY DEF TypeOK, DocsOK
<1>2. \A d \in DOMAIN docs : NoParse(d) <=> NoParse(d)'
  BY <1>1 DEF NoParse, SameParse
<1>3. \A d \in DOMAIN docs : \A v : OneParse(d, v) <=> OneParse(d, v)'
  BY OneParseStays
<1> QED BY <1>1, <1>2, <1>3 DEF ChunksAreOneParse, Exists, SameParse

\* ... and every job safe that stands still, comes nearer, or gives up.
LEMMA SameParseKeepsJobsSafe ==
  ASSUME TypeOK, ReplacementIsSafe, SameParse,
         \A i \in DOMAIN jobs' :
           \/ Harmless(jobs'[i])
           \/ i \in DOMAIN jobs /\ (jobs'[i] = jobs[i] \/ Advances(jobs[i], jobs'[i]))
           \/ SafeJob(jobs[i])'
  PROVE  ReplacementIsSafe'
<1> SUFFICES ASSUME NEW i \in DOMAIN jobs' PROVE SafeJob(jobs[i])'
  BY DEF ReplacementIsSafe
<1>1. CASE Harmless(jobs'[i])
  BY <1>1 DEF Harmless, SafeJob, Ingests
<1>2. ASSUME i \in DOMAIN jobs, jobs'[i] = jobs[i] \/ Advances(jobs[i], jobs'[i])
      PROVE  SafeJob(jobs[i])'
  <2>1. SafeJob(jobs[i]) /\ jobs[i].doc \in Docs
    BY <1>2 DEF ReplacementIsSafe, TypeOK, JobsOK, Job
  <2>2. ASSUME NEW d \in DOMAIN docs, OneParse(d, parser)
        PROVE  OneParse(d, parser)'
    <3>1. PICK v : v = parser
      OBVIOUS
    <3>2. v = parser'
      BY ONLY <3>1, SameParse DEF SameParse
    <3>3. OneParse(d, v)'
      BY <2>2, <3>1, OneParseStays
    <3> QED BY ONLY <3>2, <3>3 DEF OneParse
  <2>3. CASE jobs'[i] = jobs[i]
    BY <2>1, <2>2, <2>3 DEF SafeJob, SameParse, Exists, Ingests
  <2>4. CASE Advances(jobs[i], jobs'[i])
    BY <2>1, <2>2, <2>4 DEF SafeJob, SameParse, Exists, Ingests, Advances
  <2> QED BY <1>2, <2>3, <2>4
<1> QED BY <1>1, <1>2

\* What a flush that leaves the count alone, and writes such a status, amounts to.
LEMMA FlushIsSameParse ==
  ASSUME TypeOK, NEW d, NEW seen, NEW want,
         docs' = docs \/ docs' = Flush(d, seen, want),
         want.count = seen.count,
         want.status = seen.status \/ want.status \in {"parsing", "chunking", "failed"},
         parser' = parser,
         \A e \in Docs : /\ DOMAIN chunks'[e] = DOMAIN chunks[e]
                         /\ \A o \in DOMAIN chunks[e] : chunks'[e][o].text = chunks[e][o].text
  PROVE  SameParse
<1>1. /\ DOMAIN docs' = DOMAIN docs
      /\ \A e \in DOMAIN docs :
           /\ docs'[e].content = docs[e].content /\ docs'[e].count = docs[e].count
           /\ docs'[e].status \in {docs[e].status, "parsing", "chunking", "failed"}
  BY DEF Flush, Exists, TypeOK, DocsOK, Row
<1> QED BY <1>1 DEF SameParse

\* A job between runs, or done with its chunks, is harmless ...
LEMMA SpentJobIsHarmless ==
  ASSUME NEW job, NEW pc \in {"queued", "committed", "raising", "ending"}
  PROVE  Harmless(At(job, pc))
  BY DEF Harmless, At, Queued, Ingests

\* ... and so is one that gives up.
LEMMA FailingJobIsHarmless ==
  ASSUME NEW job, NEW code, NEW fatal
  PROVE  Harmless(Failing(job, code, fatal))
  BY DEF Harmless, Failing, At, Queued, Ingests

\* The inductive invariant of the pipeline.
PipelineInv == ChunksAreOneParse /\ ReplacementIsSafe

\* A step that keeps every parse and moves jobs harmlessly keeps the invariant.
LEMMA QuietStep ==
  ASSUME TypeOK, PipelineInv, SameParse,
         \A i \in DOMAIN jobs' :
           \/ Harmless(jobs'[i])
           \/ i \in DOMAIN jobs /\ (jobs'[i] = jobs[i] \/ Advances(jobs[i], jobs'[i]))
           \/ SafeJob(jobs[i])'
  PROVE  PipelineInv'
  BY SameParseKeepsParses, SameParseKeepsJobsSafe DEF PipelineInv

\* A step that touches no table, and ends or resets what a job holds.
LEMMA TablesAlone ==
  ASSUME UNCHANGED <<tables, parser>>
  PROVE  SameParse
  BY DEF SameParse

\* Queueing a job disturbs none of the others.
LEMMA EnqueuedIsQuiet ==
  ASSUME NEW queue, NEW k, NEW task, NEW d, jobs' = Enqueue(queue, k, task, d)
  PROVE  \A i \in DOMAIN jobs' :
           \/ Harmless(jobs'[i])
           \/ i \in DOMAIN queue /\ jobs'[i] = queue[i]
<1>1. Harmless(Queued(task, d, 0))
  BY DEF Harmless, Queued, Ingests
<1>2. DOMAIN jobs' = DOMAIN queue \cup {k} /\ jobs'[k] = Queued(task, d, 0)
  BY DEF Enqueue, With
<1>3. \A i \in DOMAIN queue : i # k => jobs'[i] = queue[i]
  BY DEF Enqueue, With
<1>4. Harmless(jobs'[k])
  BY <1>1, <1>2
<1> QED BY <1>2, <1>3, <1>4

\* The pipeline invariant holds of empty tables.
LEMMA InitPipelineInv == Init => PipelineInv
  BY DEF Init, PipelineInv, ChunksAreOneParse, ReplacementIsSafe, Exists

(* The heart of it: an ingestion commits one whole parse, and the run it  *)
(* overtakes may insert that same parse again without mixing anything.     *)
LEMMA CommitKeepsPipelineInv ==
  ASSUME TypeOK, PipelineInv, NEW j \in JobIds, CommitChunks(j)
  PROVE  PipelineInv'
<1>0. j \in DOMAIN jobs /\ Ingests(jobs[j], {"replacing"}) /\ jobs[j] \in Job
  BY DEF CommitChunks, Running, Ingests, TypeOK, JobsOK
<1> PICK d \in Docs : d = jobs[j].doc
  BY <1>0 DEF Job
<1> PICK c \in Contents : c = jobs[j].seen.content
  BY <1>0 DEF Job, Row
<1> DEFINE job == jobs[j]
           want == [job.seen EXCEPT !.status = "completed", !.error = "none",
                                    !.count = Pieces[parser][c]]
<1>1. /\ Exists(d)
      /\ job.seen \in Row /\ docs[d] \in Row /\ parser \in 1..MaxParser
      /\ DOMAIN chunks = Docs
  BY <1>0 DEF CommitChunks, TypeOK, DocsOK, BoundsOK, ChunksOK, Job, Exists
<1>2. /\ job.seen.status = "chunking"
      /\ c = docs[d].content
      /\ job.seen.count = docs[d].count \/ OneParse(d, parser)
      /\ job.cleared = DOMAIN chunks[d] \/ OneParse(d, parser)
  BY <1>0, <1>1 DEF PipelineInv, ReplacementIsSafe, SafeJob, Ingests
<1>3. Survivors(j) = {}
  BY <1>2 DEF CommitChunks, Clash, Survivors, OneParse
<1>4. chunks' = [chunks EXCEPT ![d] = FreshChunks(parser, c)]
  BY <1>3 DEF CommitChunks, FreshChunks
<1>5. docs' = Flush(d, job.seen, want)
  BY DEF CommitChunks
<1>6. /\ DOMAIN docs' = DOMAIN docs
      /\ \A e \in DOMAIN docs : e # d => docs'[e] = docs[e]
      /\ docs'[d].content = c
      /\ docs'[d].status = "completed"
      /\ docs'[d].count = Pieces[parser][c]
  BY <1>1, <1>2, <1>5 DEF Flush, Exists, Row, OneParse
<1>7. parser' = parser
  BY DEF CommitChunks
<1>8. OneParse(d, parser)'
  <2>1. DOMAIN chunks'[d] = Ordinals(parser, c) /\ \A o \in DOMAIN chunks'[d] : chunks'[d][o].text = parser
    BY <1>1, <1>4 DEF FreshChunks
  <2> QED BY <2>1, <1>6, <1>7 DEF OneParse, Ordinals
<1>9. \A e \in Docs : e # d =>
        /\ Exists(e)' = Exists(e) /\ (Exists(e) => docs'[e] = docs[e])
        /\ chunks'[e] = chunks[e]
  BY <1>1, <1>4, <1>6 DEF Exists
<1>10. ASSUME NEW e \in Docs, e # d, Exists(e)
       PROVE  /\ NoParse(e)' <=> NoParse(e)
              /\ \A v : OneParse(e, v)' <=> OneParse(e, v)
  <2>1. docs'[e] = docs[e] /\ chunks'[e] = chunks[e]
    BY <1>9, <1>10
  <2> QED BY <2>1 DEF NoParse, OneParse, Ordinals
<1>11. ChunksAreOneParse'
  <2> SUFFICES ASSUME NEW e \in Docs
               PROVE  IF ~Exists(e)' THEN DOMAIN chunks'[e] = {}
                      ELSE /\ NoParse(e)' \/ \E v \in 1..MaxParser : OneParse(e, v)'
                           /\ docs'[e].status = "completed" => \E v \in 1..MaxParser : OneParse(e, v)'
                           /\ docs'[e].status = "pending" => NoParse(e)'
    BY DEF ChunksAreOneParse
  <2>1. CASE e = d
    <3>1. Exists(d)'
      BY <1>1, <1>6 DEF Exists
    <3>2. \E v \in 1..MaxParser : OneParse(d, v)'
      BY <1>1, <1>7, <1>8
    <3> QED BY <2>1, <3>1, <3>2, <1>6
  <2>2. CASE e # d
    <3>1. IF ~Exists(e) THEN DOMAIN chunks[e] = {}
          ELSE /\ NoParse(e) \/ \E v \in 1..MaxParser : OneParse(e, v)
               /\ docs[e].status = "completed" => \E v \in 1..MaxParser : OneParse(e, v)
               /\ docs[e].status = "pending" => NoParse(e)
      BY DEF PipelineInv, ChunksAreOneParse
    <3>2. CASE Exists(e)
      <4>1. \A v : OneParse(e, v)' <=> OneParse(e, v)
        BY <2>2, <3>2, <1>10
      <4>2. docs'[e] = docs[e] /\ Exists(e)' /\ (NoParse(e)' <=> NoParse(e))
        BY <2>2, <3>2, <1>9, <1>10
      <4> QED BY <3>1, <3>2, <4>1, <4>2
    <3>3. CASE ~Exists(e)
      BY <2>2, <3>1, <3>3, <1>9
    <3> QED BY <3>2, <3>3
  <2> QED BY <2>1, <2>2
<1>12. ReplacementIsSafe'
  <2> SUFFICES ASSUME NEW i \in DOMAIN jobs' PROVE SafeJob(jobs[i])'
    BY DEF ReplacementIsSafe
  <2>1. PICK W \in SUBSET Waiters(j) :
          jobs' = Overtake([jobs EXCEPT ![j] = At(job, "committed")], W)
    BY DEF CommitChunks
  <2>2. i \in DOMAIN jobs /\ j \notin W
    BY <2>1 DEF Overtake, Waiters
  <2>3. CASE i = j
    <3>1. jobs'[i] = At(job, "committed")
      BY <2>1, <2>2, <2>3 DEF Overtake
    <3> QED BY <3>1, SpentJobIsHarmless DEF Harmless, SafeJob, Ingests
  <2>4. CASE i # j
    <3>1. jobs[i] \in Job /\ SafeJob(jobs[i])
      BY <2>2 DEF TypeOK, JobsOK, PipelineInv, ReplacementIsSafe
    <3>2. CASE i \notin W
      <4>1. jobs'[i] = jobs[i]
        BY <2>1, <2>2, <2>4, <3>2 DEF Overtake
      <4> PICK e \in Docs : e = jobs[i].doc
        BY <3>1 DEF Job
      <4>2. jobs'[i].doc = e
        BY <4>1
      <4>3. CASE e = d
        <5>1. Ingests(jobs[i], {"loaded", "parsing", "chunking", "replacing"}) =>
                jobs[i].seen.content = c
          BY <4>3, <3>1, <1>1, <1>2 DEF SafeJob, Ingests
        <5>2. Exists(d)'
          BY <1>1, <1>6 DEF Exists
        <5> QED BY <4>1, <4>2, <4>3, <5>1, <5>2, <3>1, <1>6, <1>8 DEF SafeJob, Ingests
      <4>4. CASE e # d
        <5>1. Exists(e) => (OneParse(e, parser) => OneParse(e, parser)')
          BY <1>7, <1>9, <4>4 DEF OneParse, Ordinals
        <5>2. /\ Exists(e)' = Exists(e) /\ (Exists(e) => docs'[e] = docs[e])
              /\ chunks'[e] = chunks[e]
          BY <1>9, <4>4
        <5> QED BY <4>1, <4>2, <5>1, <5>2, <3>1 DEF SafeJob, Ingests
      <4> QED BY <4>3, <4>4
    <3>3. CASE i \in W
      <4>1. /\ jobs[i].doc = d
            /\ Running(i, "ingest", "chunking") \/ Running(i, "embed", "calling")
            /\ jobs'[i] = [jobs[i] EXCEPT
                            !.pc = IF jobs[i].task = "ingest" THEN "replacing" ELSE "overtaken"]
        BY <2>1, <2>2, <2>4, <3>3 DEF Overtake, Waiters, Holds
      <4>2. /\ jobs'[i].doc = d /\ jobs'[i].task = jobs[i].task
            /\ jobs'[i].seen = jobs[i].seen /\ jobs'[i].cleared = jobs[i].cleared
            /\ jobs'[i].pc = IF jobs[i].task = "ingest" THEN "replacing" ELSE "overtaken"
        BY <4>1, <3>1 DEF Job
      <4>3. Exists(d)'
        BY <1>1, <1>6 DEF Exists
      <4>4. CASE jobs[i].task = "ingest"
        <5>1. jobs[i].seen.status = "chunking" /\ jobs[i].seen.content = c
          BY <4>1, <4>4, <3>1, <1>1, <1>2 DEF SafeJob, Ingests, Running
        <5> QED BY <4>2, <4>3, <4>4, <5>1, <1>6, <1>8 DEF SafeJob, Ingests
      <4>5. CASE jobs[i].task # "ingest"
        <5>1. jobs[i].cleared = {}
          BY <4>5, <3>1 DEF SafeJob, Ingests
        <5> QED BY <4>2, <4>5, <5>1 DEF SafeJob, Ingests
      <4> QED BY <4>4, <4>5
    <3> QED BY <3>2, <3>3
  <2> QED BY <2>3, <2>4
<1> QED BY <1>11, <1>12 DEF PipelineInv

\* One job moves on, the tables keeping their parses.
LEMMA OneJobMoves ==
  ASSUME TypeOK, PipelineInv, SameParse, NEW j, NEW job, Becomes(j, job),
         \/ Harmless(job)
         \/ j \in DOMAIN jobs /\ Advances(jobs[j], job)
         \/ SafeJob(jobs[j])'
  PROVE  PipelineInv'
<1>1. \A i \in DOMAIN jobs' :
        i \in DOMAIN jobs /\ (IF i = j THEN jobs'[i] = job ELSE jobs'[i] = jobs[i])
  BY DEF Becomes
<1> QED BY <1>1, QuietStep

\* One job is over.
LEMMA OneJobEnds ==
  ASSUME TypeOK, PipelineInv, SameParse, NEW j, jobs' = Ended(jobs, j)
  PROVE  PipelineInv'
<1>1. \A i \in DOMAIN jobs' : i \in DOMAIN jobs /\ jobs'[i] = jobs[i]
  BY DEF Ended
<1> QED BY <1>1, QuietStep

\* Neither the steps of a job nor its faults break the invariant.
LEMMA JobKeepsPipelineInv ==
  ASSUME TypeOK, PipelineInv, NEW j \in JobIds, JobStep(j) \/ JobFault(j)
  PROVE  PipelineInv'
<1> DEFINE job == jobs[j]
<1> USE TablesAlone, OneJobMoves, OneJobEnds, SpentJobIsHarmless, FailingJobIsHarmless
<1>job. j \in DOMAIN jobs => job \in Job /\ job.doc \in Docs /\ job.seen \in Row /\ SafeJob(job)
  BY DEF TypeOK, JobsOK, Job, PipelineInv, ReplacementIsSafe
<1>1. CASE StartParsing(j)
  <2> DEFINE want == [job.seen EXCEPT !.status = "parsing"]
  <2>1. CASE Exists(job.doc) \/ want = job.seen
    <3>1. SameParse
      <4>1. want.status = "parsing" /\ want.count = job.seen.count
        BY <1>1, <1>job DEF StartParsing, Running, Row
      <4> HIDE DEF want
      <4>2. docs' = Flush(job.doc, job.seen, want)
        BY <1>1, <2>1 DEF StartParsing, want
      <4> QED BY <1>1, <4>1, <4>2, FlushIsSameParse DEF StartParsing
    <3>2. Advances(job, [job EXCEPT !.pc = "parsing", !.seen = want])
      BY <1>1, <1>job DEF StartParsing, Running, Advances, Ingests, Job, Row
    <3> QED BY <1>1, <2>1, <3>1, <3>2 DEF StartParsing, Running
  <2>2. CASE ~(Exists(job.doc) \/ want = job.seen)
    BY <1>1, <2>2 DEF StartParsing, Crashed
  <2> QED BY <2>1, <2>2
<1>2. CASE StartChunking(j)
  <2> DEFINE want == [job.seen EXCEPT !.status = "chunking"]
  <2>1. CASE Exists(job.doc)
    <3>1. SameParse
      <4>1. want.status = "chunking" /\ want.count = job.seen.count
        BY <1>2, <1>job DEF StartChunking, Running, Row
      <4> HIDE DEF want
      <4>2. docs' = Flush(job.doc, job.seen, want)
        BY <1>2, <2>1 DEF StartChunking, want
      <4> QED BY <1>2, <4>1, <4>2, FlushIsSameParse DEF StartChunking
    <3>2. Advances(job, [job EXCEPT !.pc = "chunking", !.seen = want])
      BY <1>2, <1>job DEF StartChunking, Running, Advances, Ingests, Job, Row
    <3> QED BY <1>2, <2>1, <3>1, <3>2 DEF StartChunking, Running
  <2>2. CASE ~Exists(job.doc)
    BY <1>2, <2>2 DEF StartChunking, Crashed
  <2> QED BY <2>1, <2>2
<1>3. CASE FailParsing(j)
  BY <1>3 DEF FailParsing
<1>4. CASE DeleteChunks(j)
  <2> DEFINE new == [job EXCEPT !.pc = "replacing", !.cleared = DOMAIN chunks[job.doc]]
  <2>1. jobs' = [jobs EXCEPT ![j] = new] /\ j \in DOMAIN jobs
    BY <1>4 DEF DeleteChunks, Becomes, Running
  <2>2. /\ jobs'[j].doc = job.doc /\ jobs'[j].task = "ingest" /\ jobs'[j].pc = "replacing"
        /\ jobs'[j].seen = job.seen /\ jobs'[j].cleared = DOMAIN chunks[job.doc]
    BY <1>4, <1>job, <2>1 DEF DeleteChunks, Running, Job
  <2>3. UNCHANGED <<docs, chunks, parser>> /\ Ingests(job, {"chunking"})
    BY <1>4 DEF DeleteChunks, Running, Ingests
  <2>4. SafeJob(jobs[j])'
    BY <1>job, <2>1, <2>2, <2>3 DEF SafeJob, Ingests, Exists, OneParse
  <2> QED BY <1>4, <2>4 DEF DeleteChunks
<1>5. CASE CommitChunks(j)
  BY <1>5, CommitKeepsPipelineInv
<1>6. CASE RejectChunks(j) \/ SurpriseIngest(j)
  BY <1>6 DEF RejectChunks, SurpriseIngest, Crashed
<1>7. CASE EnqueueEmbedding(j)
  <2>1. PICK k \in FreeJobs :
          jobs' = Enqueue([jobs EXCEPT ![j] = At(job, "ending")], k, "embed", job.doc)
    BY <1>7 DEF EnqueueEmbedding
  <2> DEFINE queue == [jobs EXCEPT ![j] = At(job, "ending")]
  <2>2. \A i \in DOMAIN jobs' :
          \/ Harmless(jobs'[i])
          \/ i \in DOMAIN queue /\ jobs'[i] = queue[i]
    BY <2>1, EnqueuedIsQuiet
  <2>3. \A i \in DOMAIN queue :
          i \in DOMAIN jobs /\ (Harmless(queue[i]) \/ queue[i] = jobs[i])
    OBVIOUS
  <2>4. SameParse
    BY <1>7 DEF EnqueueEmbedding
  <2> HIDE DEF queue
  <2>5. \A i \in DOMAIN jobs' :
          \/ Harmless(jobs'[i])
          \/ i \in DOMAIN jobs /\ jobs'[i] = jobs[i]
    BY <2>2, <2>3
  <2> QED BY <2>4, <2>5, QuietStep
<1>8. CASE SkipEmbedding(j) \/ LoseEmbedding(j) \/ SurpriseEmbed(j)
  BY <1>8 DEF SkipEmbedding, LoseEmbedding, SurpriseEmbed
<1>9. CASE MissProvider(j) \/ FailEmbedding(j)
  BY <1>9 DEF MissProvider, FailEmbedding
<1>10. CASE SelectPending(j)
  <2>1. \A todo : Harmless([job EXCEPT !.pc = "calling", !.pending = todo])
    BY <1>10, <1>job DEF SelectPending, Running, Job, Harmless, SafeJob, Ingests
  <2> QED BY <1>10, <2>1 DEF SelectPending
<1>11. CASE CompleteEmbedding(j) \/ CompleteOvertaken(j)
  <2>1. ASSUME NEW lost, j \in DOMAIN jobs, SaveVectors(j, lost)
        PROVE  PipelineInv'
    <3> DEFINE want == [job.seen EXCEPT !.error = "none"]
    <3>1. want.status = job.seen.status /\ want.count = job.seen.count
      BY <2>1, <1>job DEF Row
    <3>2. docs' = Flush(job.doc, job.seen, want) /\ parser' = parser
      BY <2>1 DEF SaveVectors
    <3>3. \A e \in Docs : /\ DOMAIN chunks'[e] = DOMAIN chunks[e]
                          /\ \A o \in DOMAIN chunks[e] : chunks'[e][o].text = chunks[e][o].text
      BY <2>1 DEF SaveVectors, Vectorised, TypeOK, ChunksOK, ChunkRow
    <3> HIDE DEF want
    <3>4. SameParse
      BY <3>1, <3>2, <3>3, FlushIsSameParse
    <3> QED BY <2>1, <3>4 DEF SaveVectors
  <2>2. ASSUME NEW lost, RaiseStale(j, lost)
        PROVE  PipelineInv'
    BY <2>2 DEF RaiseStale
  <2> QED BY <1>11, <2>1, <2>2 DEF CompleteEmbedding, CompleteOvertaken, Running
<1>12. CASE StartRun(j)
  <2>1. CASE Exists(job.doc)
    <3>1. /\ Becomes(j, [job EXCEPT !.pc = "loaded", !.seen = docs[job.doc], !.tries = @ + 1])
          /\ j \in DOMAIN jobs /\ job.pc = "queued"
      BY <1>12, <2>1 DEF StartRun, Becomes
    <3>2. /\ jobs'[j].doc = job.doc /\ jobs'[j].task = job.task /\ jobs'[j].pc = "loaded"
          /\ jobs'[j].seen = docs[job.doc] /\ jobs'[j].cleared = job.cleared
      BY <3>1, <1>job DEF Becomes, Job
    <3>3. job.cleared = {}
      BY <3>1, <1>job DEF SafeJob, Ingests
    <3>4. UNCHANGED <<docs, chunks, parser>>
      BY <1>12 DEF StartRun
    <3>5. SafeJob(jobs[j])'
      BY <3>2, <3>3, <3>4 DEF SafeJob, Ingests, Exists
    <3> QED BY <3>1, <3>4, <3>5
  <2>2. CASE ~Exists(job.doc)
    BY <1>12, <2>2 DEF StartRun
  <2> QED BY <2>1, <2>2
<1>13. CASE Abandon(j) \/ Finish(j) \/ TimeOut(j)
  BY <1>13 DEF Abandon, Finish, TimeOut
<1>14. CASE ReadForFailure(j)
  <2>1. CASE Exists(job.doc)
    <3>1. Becomes(j, [job EXCEPT !.pc = "marking", !.seen = docs[job.doc]])
      BY <1>14, <2>1 DEF ReadForFailure, Becomes
    <3>2. Harmless([job EXCEPT !.pc = "marking", !.seen = docs[job.doc]])
      BY <1>14, <1>job DEF ReadForFailure, Harmless, SafeJob, Ingests, Job
    <3> QED BY <1>14, <3>1, <3>2 DEF ReadForFailure
  <2>2. CASE ~Exists(job.doc)
    BY <1>14, <2>2 DEF ReadForFailure, Becomes
  <2> QED BY <2>1, <2>2
<1>15. CASE MarkFailed(j)
  <2> DEFINE want == [job.seen EXCEPT !.status = "failed", !.error = job.code]
  <2>1. want.status = "failed" /\ want.count = job.seen.count
    BY <1>15, <1>job DEF MarkFailed, Row
  <2>2. docs' = Flush(job.doc, job.seen, want) /\ UNCHANGED <<chunks, parser>>
    BY <1>15 DEF MarkFailed
  <2>3. \E pc \in {"raising", "ending"} : Becomes(j, At(job, pc))
    BY <1>15 DEF MarkFailed, Becomes
  <2> HIDE DEF want
  <2>4. SameParse
    BY <2>1, <2>2, FlushIsSameParse
  <2> QED BY <2>3, <2>4
<1>16. CASE EndRaised(j) \/ Interrupt(j)
  BY <1>16 DEF EndRaised, Interrupt, Becomes
<1> QED BY <1>1, <1>2, <1>3, <1>4, <1>5, <1>6, <1>7, <1>8, <1>9, <1>10, <1>11, <1>12, <1>13,
           <1>14, <1>15, <1>16
        DEF JobStep, JobFault, IngestStep, EmbedStep, WorkerStep

\* Every other job: what it is about has not changed.
LEMMA OtherDocument ==
  ASSUME NEW i, jobs'[i] = jobs[i], SafeJob(jobs[i]), NEW e, e = jobs[i].doc,
         Exists(e)' = Exists(e), Exists(e) => docs'[e] = docs[e], chunks'[e] = chunks[e],
         parser' = parser
  PROVE  SafeJob(jobs[i])'
<1>1. jobs'[i].doc = e
  OBVIOUS
<1>2. Exists(e) => (OneParse(e, parser) => OneParse(e, parser)')
  BY DEF OneParse, Ordinals
<1> QED BY <1>1, <1>2 DEF SafeJob, Ingests

\* A new row has no chunks, and no job knows it yet.
LEMMA InsertKeepsPipelineInv ==
  ASSUME TypeOK, UploadInv, PipelineInv, NEW r \in Requests, InsertDocument(r)
  PROVE  PipelineInv'
<1> PICK d \in Docs : d = requests[r].doc
  BY DEF InsertDocument, TypeOK, RequestsOK, Request
<1> PICK c \in Contents : c = requests[r].content
  BY DEF InsertDocument, TypeOK, RequestsOK, Request
<1>1. ~Exists(d) /\ \A i \in DOMAIN jobs : jobs[i].doc # d
  BY DEF InsertDocument, UploadInv, UploadsOwnIds
<1>2. /\ DOMAIN docs' = DOMAIN docs \cup {d} /\ docs'[d] = NewRow(c)
      /\ \A e \in DOMAIN docs : docs'[e] = docs[e]
      /\ UNCHANGED <<chunks, jobs, parser>>
  BY <1>1 DEF InsertDocument, With, Exists
<1>3. NoParse(d)' /\ docs'[d].status = "pending"
  BY <1>1, <1>2 DEF PipelineInv, ChunksAreOneParse, NoParse, NewRow
<1>4. \A e \in Docs : e # d =>
        Exists(e)' = Exists(e) /\ (Exists(e) => docs'[e] = docs[e]) /\ chunks'[e] = chunks[e]
  BY <1>2 DEF Exists
<1>5. ChunksAreOneParse'
  <2>1. Exists(d)'
    BY <1>2 DEF Exists
  <2>2. \A e \in Docs : e # d /\ Exists(e) =>
          /\ NoParse(e)' <=> NoParse(e)
          /\ \A v : OneParse(e, v)' <=> OneParse(e, v)
    BY <1>4 DEF NoParse, OneParse, Ordinals
  <2> QED BY <1>3, <1>4, <2>1, <2>2 DEF PipelineInv, ChunksAreOneParse
<1>6. ReplacementIsSafe'
  <2> SUFFICES ASSUME NEW i \in DOMAIN jobs PROVE SafeJob(jobs[i])'
    BY <1>2 DEF ReplacementIsSafe
  <2> PICK e \in Docs : e = jobs[i].doc
    BY DEF TypeOK, JobsOK, Job
  <2>1. SafeJob(jobs[i]) /\ e # d /\ jobs'[i] = jobs[i]
    BY <1>1, <1>2 DEF PipelineInv, ReplacementIsSafe
  <2> QED BY <1>2, <1>4, <2>1, OtherDocument
<1> QED BY <1>5, <1>6 DEF PipelineInv

\* A deletion waits for the locks, so it never empties a replacement under way.
LEMMA DeleteKeepsPipelineInv ==
  ASSUME TypeOK, PipelineInv, NEW d \in Docs, DeleteDocument(d)
  PROVE  PipelineInv'
<1>1. /\ ~Exists(d)' /\ chunks'[d] = <<>> /\ UNCHANGED <<jobs, parser>>
      /\ \A i \in DOMAIN jobs : jobs[i].doc = d => jobs[i].cleared = {}
  BY DEF DeleteDocument, Exists, Locked, Holds, TypeOK, ChunksOK
<1>2. \A e \in Docs : e # d =>
        Exists(e)' = Exists(e) /\ (Exists(e) => docs'[e] = docs[e]) /\ chunks'[e] = chunks[e]
  BY DEF DeleteDocument, Exists, TypeOK, ChunksOK
<1>3. ChunksAreOneParse'
  <2>1. \A e \in Docs : e # d /\ Exists(e) =>
          /\ NoParse(e)' <=> NoParse(e)
          /\ \A v : OneParse(e, v)' <=> OneParse(e, v)
    BY <1>2 DEF NoParse, OneParse, Ordinals
  <2> QED BY <1>1, <1>2, <2>1 DEF PipelineInv, ChunksAreOneParse
<1>4. ReplacementIsSafe'
  <2> SUFFICES ASSUME NEW i \in DOMAIN jobs PROVE SafeJob(jobs[i])'
    BY <1>1 DEF ReplacementIsSafe
  <2> PICK e \in Docs : e = jobs[i].doc
    BY DEF TypeOK, JobsOK, Job
  <2>1. SafeJob(jobs[i]) /\ jobs'[i] = jobs[i]
    BY <1>1 DEF PipelineInv, ReplacementIsSafe
  <2>2. CASE e = d
    <3>1. jobs[i].doc = d /\ jobs[i].cleared = {}
      BY <1>1, <2>2
    <3>2. jobs'[i].doc = d /\ jobs'[i].cleared = {}
      BY <2>1, <3>1
    <3>3. DOMAIN chunks'[d] = {}
      BY <1>1
    <3> QED BY <1>1, <2>1, <3>2, <3>3 DEF SafeJob, Ingests
  <2>3. CASE e # d
    BY <1>1, <1>2, <2>1, <2>3, OtherDocument
  <2> QED BY <2>2, <2>3
<1> QED BY <1>3, <1>4 DEF PipelineInv

\* A new parser finds no run in flight: the worker restarted.
LEMMA RedeployKeepsPipelineInv ==
  ASSUME TypeOK, PipelineInv, Redeploy
  PROVE  PipelineInv'
<1>1. UNCHANGED <<docs, chunks>> /\ \A i \in DOMAIN jobs' : Harmless(jobs'[i])
  BY SpentJobIsHarmless DEF Redeploy
<1>2. \A d \in DOMAIN docs : NoParse(d)' = NoParse(d) /\ \A v : OneParse(d, v)' = OneParse(d, v)
  BY <1>1 DEF NoParse, OneParse, Ordinals
<1>3. ChunksAreOneParse'
  BY <1>1, <1>2 DEF PipelineInv, ChunksAreOneParse, Exists
<1>4. ReplacementIsSafe'
  BY <1>1 DEF ReplacementIsSafe, SafeJob, Harmless, Ingests
<1> QED BY <1>3, <1>4 DEF PipelineInv

\* Every step keeps the pipeline invariant.
LEMMA NextPipelineInv == TypeOK /\ UploadInv /\ PipelineInv /\ [Next]_vars => PipelineInv'
<1> SUFFICES ASSUME TypeOK, UploadInv, PipelineInv, [Next]_vars PROVE PipelineInv'
  OBVIOUS
<1>1. ASSUME UNCHANGED <<tables, jobs, parser>>
      PROVE  PipelineInv'
  BY <1>1, TablesAlone, QuietStep
<1>2. ASSUME NEW queue, queue = jobs, UNCHANGED <<tables, parser>>,
             NEW k, NEW task, NEW d, jobs' = Enqueue(queue, k, task, d)
      PROVE  PipelineInv'
  <2>1. \A i \in DOMAIN jobs' :
          \/ Harmless(jobs'[i])
          \/ i \in DOMAIN jobs /\ jobs'[i] = jobs[i]
    BY <1>2, EnqueuedIsQuiet
  <2> QED BY <1>2, <2>1, TablesAlone, QuietStep
<1>3. CASE UNCHANGED vars
  BY <1>1, <1>3 DEF vars
<1>4. CASE UploadNext
  <2>1. ASSUME NEW r \in Requests, NEW c \in Contents, NEW d \in Docs,
               CheckUpload(r, c, d) \/ RejectDuplicate(r, c, d)
        PROVE  PipelineInv'
    BY <1>1, <2>1 DEF CheckUpload, RejectDuplicate
  <2>2. ASSUME NEW r \in Requests, StoreObject(r) \/ ViolateConstraint(r) \/ LoseRequest(r)
        PROVE  PipelineInv'
    BY <1>1, <2>2 DEF StoreObject, ViolateConstraint, LoseRequest
  <2>3. ASSUME NEW r \in Requests, EnqueueIngestion(r)
        PROVE  PipelineInv'
    BY <1>2, <2>3 DEF EnqueueIngestion
  <2> QED BY <1>4, <2>1, <2>2, <2>3, InsertKeepsPipelineInv DEF UploadNext, UploadStep
<1>5. CASE \E j \in JobIds : JobStep(j) \/ JobFault(j)
  BY <1>5, JobKeepsPipelineInv
<1>6. CASE Outside
  <2>1. ASSUME NEW d \in Docs, NEW t \in Tasks, Rerun(d, t)
        PROVE  PipelineInv'
    BY <1>2, <2>1 DEF Rerun
  <2> QED BY <1>6, <2>1, RedeployKeepsPipelineInv, DeleteKeepsPipelineInv DEF Outside
<1> QED BY <1>3, <1>4, <1>5, <1>6 DEF Next

(* In every behaviour visible chunks are one parse and replacements are    *)
(* safe: the two are only inductive together.                              *)
THEOREM PipelineInvariance == Spec => []PipelineInv
<1> QED BY InitPipelineInv, NextPipelineInv, TypeCorrect, UploadInvariance, PTL DEF Spec

(* Whatever jobs run on a document at once, are overtaken, interrupted or  *)
(* repeated, its visible chunks are nothing or one whole parse of it, with *)
(* chunk_count their number.                                               *)
THEOREM ParsesStayWhole == Spec => []ChunksAreOneParse
<1>1. PipelineInv => ChunksAreOneParse
  BY DEF PipelineInv
<1> QED BY <1>1, PipelineInvariance, PTL

(* And why: a run about to commit has deleted all there is, or finds what  *)
(* another run of the same parser put there.                               *)
THEOREM ReplacementsStaySafe == Spec => []ReplacementIsSafe
<1>1. PipelineInv => ReplacementIsSafe
  BY DEF PipelineInv
<1> QED BY <1>1, PipelineInvariance, PTL
-----------------------------------------------------------------------------
\* Of what the abstract index shows, only four kinds of step change anything.
LEMMA InsertRegisters ==
  ASSUME TypeOK, UploadInv, NEW r \in Requests, InsertDocument(r)
  PROVE  Index!Next
<1> PICK d \in Docs : d = requests[r].doc
  BY DEF InsertDocument, TypeOK, RequestsOK, Request
<1>1. d \notin DOMAIN docs
  BY DEF InsertDocument, UploadInv, UploadsOwnIds, Exists
<1>2. DOMAIN docs' = DOMAIN docs \cup {d} /\ UNCHANGED Published
  BY DEF InsertDocument, With, Published
<1>3. Index!Register(d)
  BY <1>1, <1>2 DEF Index!Register
<1> QED BY <1>3 DEF Index!Next

\* A commit of chunks is a publication of one whole parse.
LEMMA CommitPublishes ==
  ASSUME TypeOK, PipelineInv, NEW j \in JobIds, CommitChunks(j)
  PROVE  Index!Next
<1>0. j \in DOMAIN jobs /\ jobs[j] \in Job /\ Ingests(jobs[j], {"replacing"})
  BY DEF CommitChunks, Running, Ingests, TypeOK, JobsOK
<1> PICK d \in Docs : d = jobs[j].doc
  BY <1>0 DEF Job
<1> PICK c \in Contents : c = jobs[j].seen.content
  BY <1>0 DEF Job, Row
<1>1. Exists(d) /\ parser \in 1..MaxParser /\ DOMAIN chunks = Docs
  BY DEF CommitChunks, TypeOK, BoundsOK, ChunksOK
<1>2. Survivors(j) = {}
  BY <1>0, <1>1 DEF CommitChunks, Clash, Survivors, PipelineInv, ReplacementIsSafe, SafeJob,
                    Ingests, OneParse
<1>3. chunks' = [chunks EXCEPT ![d] = FreshChunks(parser, c)]
  BY <1>2 DEF CommitChunks, FreshChunks
<1>4. DOMAIN docs' = DOMAIN docs
  BY DEF CommitChunks, Flush
<1>5. Published' = [Published EXCEPT
        ![d] = [o \in 1..Pieces[parser][c] |-> [text |-> parser, dense |-> FALSE]]]
  BY <1>1, <1>3 DEF Published, FreshChunks, Ordinals
<1>6. Index!Publish(d, parser, Pieces[parser][c])
  BY <1>1, <1>4, <1>5 DEF Index!Publish, Exists
<1> QED BY <1>1, <1>6 DEF Index!Next

\* A commit of vectors only adds vectors, or finds the document gone.
LEMMA SaveVectorises ==
  ASSUME TypeOK, PipelineInv, NEW j \in DOMAIN jobs, NEW lost, SaveVectors(j, lost)
  PROVE  [Index!Next]_<<DOMAIN docs, Published>>
<1>0. jobs[j] \in Job
  BY DEF TypeOK, JobsOK
<1> PICK d \in Docs : d = jobs[j].doc
  BY <1>0 DEF Job
<1> DEFINE rows == Reached(j, lost)
<1>1. rows \subseteq DOMAIN chunks[d]
  BY DEF Reached
<1>2. \A o \in rows : TextRead(jobs[j].pending, o) \in 1..MaxParser
  BY <1>0 DEF Reached, Wanted, TextRead, Job
<1>3. DOMAIN docs' = DOMAIN docs /\ chunks' = Vectorised(d, jobs[j].pending, rows)
  BY DEF SaveVectors, Flush
<1> HIDE DEF rows
<1>4. /\ DOMAIN chunks = Docs /\ DOMAIN chunks' = Docs
      /\ DOMAIN chunks'[d] = DOMAIN chunks[d]
      /\ \A e \in Docs : e # d => chunks'[e] = chunks[e]
      /\ \A o \in DOMAIN chunks[d] :
           /\ chunks'[d][o].text = chunks[d][o].text
           /\ chunks'[d][o].vec # 0 <=> (chunks[d][o].vec # 0 \/ o \in rows)
  BY <1>2, <1>3 DEF Vectorised, TypeOK, ChunksOK, ChunkRow
<1>5. CASE Exists(d)
  <2> DEFINE new == [o \in DOMAIN Published[d] |->
                      [text |-> Published[d][o].text, dense |-> Published[d][o].dense \/ o \in rows]]
  <2>1. Published' = [Published EXCEPT ![d] = new]
    <3>1. \A e \in Docs : e # d => Published'[e] = Published[e]
      BY <1>4 DEF Published
    <3>2. \A o \in DOMAIN chunks[d] :
            (chunks'[d][o].vec # 0) = (chunks[d][o].vec # 0 \/ o \in rows)
      BY <1>4
    <3>3. Published'[d] = [o \in DOMAIN chunks[d] |->
            [text |-> chunks[d][o].text, dense |-> chunks[d][o].vec # 0 \/ o \in rows]]
      BY <1>4, <3>2 DEF Published
    <3>4. new = [o \in DOMAIN chunks[d] |->
            [text |-> chunks[d][o].text, dense |-> chunks[d][o].vec # 0 \/ o \in rows]]
      BY DEF Published
    <3>5. Published'[d] = new
      BY <3>3, <3>4
    <3>6. DOMAIN Published = Docs /\ Published' = [e \in Docs |-> Published'[e]]
      BY DEF Published
    <3> HIDE DEF new
    <3> QED BY <3>1, <3>5, <3>6
  <2>2. DOMAIN Published[d] = DOMAIN chunks[d]
    BY DEF Published
  <2>3. Index!Vectorise(d, rows)
    BY <1>3, <1>5, <2>1 DEF Index!Vectorise, Exists
  <2> QED BY <1>1, <2>2, <2>3 DEF Index!Next
<1>6. CASE ~Exists(d)
  <2>1. DOMAIN chunks[d] = {}
    BY <1>6 DEF PipelineInv, ChunksAreOneParse
  <2>2. Published' = Published
    BY <1>4, <2>1 DEF Published
  <2> QED BY <1>3, <2>2
<1> QED BY <1>5, <1>6

\* A deletion forgets the document and all it had published.
LEMMA DeleteForgets ==
  ASSUME TypeOK, NEW d \in Docs, DeleteDocument(d)
  PROVE  Index!Next
<1>1. d \in DOMAIN docs /\ DOMAIN docs' = DOMAIN docs \ {d}
  BY DEF DeleteDocument, Exists
<1>2. Published' = [Published EXCEPT ![d] = <<>>]
  <2>1. /\ chunks'[d] = <<>>
        /\ \A e \in Docs : e # d => chunks'[e] = chunks[e]
    BY DEF DeleteDocument, TypeOK, ChunksOK
  <2>2. Published'[d] = <<>>
    BY <2>1 DEF Published
  <2>3. \A e \in Docs : e # d => Published'[e] = Published[e]
    BY <2>1 DEF Published
  <2> QED BY <2>2, <2>3 DEF Published
<1>3. Index!Forget(d)
  BY <1>1, <1>2 DEF Index!Forget
<1> QED BY <1>3 DEF Index!Next

\* Every other step of a job leaves the chunks table as it is.
LEMMA JobImplementsIndex ==
  ASSUME TypeOK, PipelineInv, NEW j \in JobIds, JobStep(j) \/ JobFault(j)
  PROVE  [Index!Next]_<<DOMAIN docs, Published>>
<1>1. DOMAIN docs' = DOMAIN docs
  BY JobsLeaveUploadsAlone DEF Untouched
<1>2. CASE UNCHANGED chunks
  BY <1>1, <1>2 DEF Published
<1>3. CASE CommitChunks(j)
  BY <1>3, CommitPublishes
<1>4. CASE CompleteEmbedding(j) \/ CompleteOvertaken(j)
  <2>1. ASSUME NEW lost, RaiseStale(j, lost)
        PROVE  UNCHANGED chunks
    BY <2>1 DEF RaiseStale
  <2> QED BY <1>2, <1>4, <2>1, SaveVectorises DEF CompleteEmbedding, CompleteOvertaken, Running
<1>5. CASE IngestStep(j) /\ ~CommitChunks(j)
  BY <1>2, <1>5 DEF IngestStep, StartParsing, FailParsing, StartChunking, DeleteChunks,
                    RejectChunks, EnqueueEmbedding, SkipEmbedding
<1>6. CASE SelectPending(j) \/ MissProvider(j)
  BY <1>2, <1>6 DEF SelectPending, MissProvider
<1>7. CASE WorkerStep(j)
  BY <1>2, <1>7 DEF WorkerStep, StartRun, Abandon, ReadForFailure, MarkFailed, Finish, EndRaised
<1>8. CASE JobFault(j)
  BY <1>2, <1>8 DEF JobFault, SurpriseIngest, LoseEmbedding, FailEmbedding, SurpriseEmbed,
                    Interrupt, TimeOut
<1> QED BY <1>3, <1>4, <1>5, <1>6, <1>7, <1>8 DEF JobStep, EmbedStep

\* Every step of the pipeline is a step of the index, or none.
LEMMA NextImplementsIndex ==
  TypeOK /\ UploadInv /\ PipelineInv /\ [Next]_vars =>
    [Index!Next]_<<DOMAIN docs, Published>>
<1> SUFFICES ASSUME TypeOK, UploadInv, PipelineInv, [Next]_vars
             PROVE  [Index!Next]_<<DOMAIN docs, Published>>
  OBVIOUS
<1>1. ASSUME UNCHANGED tables
      PROVE  UNCHANGED <<DOMAIN docs, Published>>
  BY <1>1 DEF Published
<1>2. CASE UNCHANGED vars
  BY <1>1, <1>2 DEF vars
<1>3. CASE UploadNext
  BY <1>1, <1>3, InsertRegisters
     DEF UploadNext, UploadStep, CheckUpload, RejectDuplicate, StoreObject, ViolateConstraint,
         EnqueueIngestion, LoseRequest
<1>4. CASE \E j \in JobIds : JobStep(j) \/ JobFault(j)
  BY <1>4, JobImplementsIndex
<1>5. CASE Outside
  BY <1>1, <1>5, DeleteForgets DEF Outside, Redeploy, Rerun
<1> QED BY <1>2, <1>3, <1>4, <1>5 DEF Next

(* The pipeline, its faults included, implements the index retrieval relies*)
(* on: whole parses, each published in one step, with lasting vectors.     *)
THEOREM PipelineImplementsIndex == Spec => ImplementsIndex
<1>1. Init => Index!Init
  BY DEF Init, Index!Init, Published
<1> QED BY <1>1, NextImplementsIndex, TypeCorrect, UploadInvariance, PipelineInvariance, PTL
        DEF Spec, ImplementsIndex, Index!Spec
-----------------------------------------------------------------------------
(* What becomes of a document when everybody is done with it.              *)

(* The deployment the worker is written for: arq runs again what was cut   *)
(* short but not what raised, allows a run for every interruption and      *)
(* every release there may be, and nothing fails that nobody records.      *)
Dependable ==
  /\ Faults \subseteq {"provider", "delete"}
  /\ ~RetryRaised
  /\ MaxInterrupts + MaxParser <= MaxTries

\* Each run but the first of a job follows an interruption or a release.
TriesInv ==
  \A j \in DOMAIN jobs :
    jobs[j].tries + (IF jobs[j].pc = "queued" THEN 1 ELSE 0) <= interrupts + parser

\* On its way to record a failure, on a row that is not marked already.
Fails(job) == job.pc = "failing" \/ (job.pc = "marking" /\ job.seen.status # "failed")

\* Calling the provider for every chunk that lacks a vector, all of which are there.
Covers(job) ==
  /\ job.pc = "calling"
  /\ Unembedded(job.doc) \subseteq Wanted(job.pending)
  /\ Wanted(job.pending) \subseteq DOMAIN chunks[job.doc]

\* Whoever ends the run of an ingestion settles the document.
Settles(job) ==
  /\ job.task = "ingest"
  /\ job.pc \in {"queued", "loaded", "parsing", "chunking", "replacing"} \/ Fails(job)

\* A completed document is embedded by an embedding job, or by the one to be queued.
Embeds(job) ==
  \/ Ingests(job, {"committed"})
  \/ job.task = "embed" /\ (job.pc \in {"queued", "loaded"} \/ Fails(job) \/ Covers(job))

Serves(job) == Settles(job) \/ (docs[job.doc].status = "completed" /\ Embeds(job))

Unfinished(d) ==
  \/ docs[d].status \in {"pending", "parsing", "chunking"}
  \/ docs[d].status = "completed" /\ configured /\ Unembedded(d) # {}

Requested(d) == \E r \in DOMAIN requests : requests[r].doc = d /\ requests[r].pc = "committed"

\* What is not finished is somebody's to finish.
OwedInv ==
  \A d \in DOMAIN docs : Unfinished(d) =>
    Requested(d) \/ \E j \in DOMAIN jobs : jobs[j].doc = d /\ Serves(jobs[j])
-----------------------------------------------------------------------------
\* A job that moves on within its run, or is over, spends no try.
LEMMA MoveKeepsTries ==
  ASSUME TypeOK, TriesInv, UNCHANGED <<interrupts, parser>>, NEW j,
         \A i \in DOMAIN jobs' :
           \/ jobs'[i].tries = 0
           \/ /\ i \in DOMAIN jobs /\ jobs'[i].tries = jobs[i].tries
              /\ jobs'[i].pc = "queued" => jobs[i].pc = "queued"
  PROVE  TriesInv'
<1>1. interrupts \in Nat /\ parser \in Nat \ {0} /\ \A i \in DOMAIN jobs : jobs[i].tries \in Nat
  BY BoundsAssumption DEF TypeOK, BoundsOK, JobsOK, Job
<1> SUFFICES ASSUME NEW i \in DOMAIN jobs'
             PROVE  jobs'[i].tries + (IF jobs'[i].pc = "queued" THEN 1 ELSE 0) <= interrupts + parser
  BY DEF TriesInv
<1>2. CASE jobs'[i].tries = 0
  BY <1>1, <1>2
<1>3. CASE /\ i \in DOMAIN jobs /\ jobs'[i].tries = jobs[i].tries
           /\ jobs'[i].pc = "queued" => jobs[i].pc = "queued"
  BY <1>1, <1>3 DEF TriesInv
<1> QED BY <1>2, <1>3

\* Within a run no step of a job counts a try.
LEMMA JobKeepsTries ==
  ASSUME Dependable, TypeOK, NEW j \in DOMAIN jobs,
         IngestStep(j) \/ EmbedStep(j) \/ Abandon(j) \/ ReadForFailure(j) \/ MarkFailed(j)
           \/ Finish(j) \/ EndRaised(j) \/ SurpriseIngest(j) \/ LoseEmbedding(j)
           \/ FailEmbedding(j) \/ SurpriseEmbed(j) \/ TimeOut(j)
  PROVE  /\ UNCHANGED <<interrupts, parser>>
         /\ \A i \in DOMAIN jobs' :
              \/ jobs'[i].tries = 0
              \/ /\ i \in DOMAIN jobs /\ jobs'[i].tries = jobs[i].tries
                 /\ jobs'[i].pc = "queued" => jobs[i].pc = "queued"
<1> DEFINE job == jobs[j]
           Kept == \A i \in DOMAIN jobs' :
                     \/ jobs'[i].tries = 0
                     \/ /\ i \in DOMAIN jobs /\ jobs'[i].tries = jobs[i].tries
                        /\ jobs'[i].pc = "queued" => jobs[i].pc = "queued"
<1>job. job \in Job
  BY DEF TypeOK, JobsOK
<1>1. ASSUME NEW new, Becomes(j, new), new.tries = job.tries, new.pc # "queued" PROVE Kept
  BY <1>1 DEF Becomes
<1>2. ASSUME jobs' = Ended(jobs, j) PROVE Kept
  BY <1>2 DEF Ended
<1>3. /\ \A pc : At(job, pc).tries = job.tries /\ At(job, pc).pc = pc
      /\ \A code, fatal : /\ Failing(job, code, fatal).tries = job.tries
                          /\ Failing(job, code, fatal).pc = "failing"
  BY DEF At, Failing, Queued
<1>4. CASE \/ FailParsing(j) \/ RejectChunks(j) \/ SurpriseIngest(j) \/ SkipEmbedding(j) \/ LoseEmbedding(j)
           \/ MissProvider(j) \/ FailEmbedding(j) \/ SurpriseEmbed(j)
  <2>1. \E new : Becomes(j, new) /\ new.tries = job.tries /\ new.pc # "queued"
    <3>1. (\E pc \in {"ending", "raising"} : Becomes(j, At(job, pc)))
            \/ \E code, fatal : Becomes(j, Failing(job, code, fatal))
      BY <1>4, Zenon DEF FailParsing, RejectChunks, SurpriseIngest, SkipEmbedding, LoseEmbedding,
                  MissProvider, FailEmbedding, SurpriseEmbed, Crashed
    <3>2. CASE \E pc \in {"ending", "raising"} : Becomes(j, At(job, pc))
      BY <1>3, <3>2
    <3>3. CASE \E code, fatal : Becomes(j, Failing(job, code, fatal))
      BY <1>3, <3>3
    <3> QED BY <3>1, <3>2, <3>3
  <2>2. UNCHANGED <<interrupts, parser>>
    BY <1>4 DEF FailParsing, RejectChunks, SurpriseIngest, SkipEmbedding, LoseEmbedding,
                MissProvider, FailEmbedding, SurpriseEmbed
  <2> QED BY <1>1, <2>1, <2>2
<1>5. CASE StartParsing(j) \/ StartChunking(j)
  <2>1. ASSUME Crashed(j)
        PROVE  Kept
    <3>1. PICK new : new = Failing(job, "INGESTION_FAILED", TRUE)
      OBVIOUS
    <3>2. Becomes(j, new) /\ new.tries = job.tries /\ new.pc # "queued"
      BY <1>3, <2>1, <3>1 DEF Crashed
    <3> QED BY <1>1, <3>2
  <2>2. CASE StartParsing(j)
    <3> DEFINE want == [job.seen EXCEPT !.status = "parsing"]
               new == [job EXCEPT !.pc = "parsing", !.seen = want]
    <3>1. Becomes(j, new) \/ Crashed(j)
      BY <2>2 DEF StartParsing
    <3>2. UNCHANGED <<interrupts, parser>>
      BY <2>2 DEF StartParsing
    <3> HIDE DEF want
    <3>3. new.tries = job.tries /\ new.pc # "queued"
      BY <1>job DEF Job
    <3> HIDE DEF new
    <3> QED BY <1>1, <2>1, <3>1, <3>2, <3>3
  <2>3. CASE StartChunking(j)
    <3> DEFINE want == [job.seen EXCEPT !.status = "chunking"]
               new == [job EXCEPT !.pc = "chunking", !.seen = want]
    <3>1. Becomes(j, new) \/ Crashed(j)
      BY <2>3 DEF StartChunking
    <3>2. UNCHANGED <<interrupts, parser>>
      BY <2>3 DEF StartChunking
    <3> HIDE DEF want
    <3>3. new.tries = job.tries /\ new.pc # "queued"
      BY <1>job DEF Job
    <3> HIDE DEF new
    <3> QED BY <1>1, <2>1, <3>1, <3>2, <3>3
  <2> QED BY <1>5, <2>2, <2>3
<1>6. CASE DeleteChunks(j)
  <2>1. \A ords : /\ [job EXCEPT !.pc = "replacing", !.cleared = ords].tries = job.tries
                  /\ [job EXCEPT !.pc = "replacing", !.cleared = ords].pc # "queued"
    BY <1>job DEF Job
  <2> QED BY <1>1, <1>6, <2>1 DEF DeleteChunks
<1>7. CASE CommitChunks(j)
  <2>1. PICK W \in SUBSET Waiters(j) :
          jobs' = Overtake([jobs EXCEPT ![j] = At(job, "committed")], W)
    BY <1>7 DEF CommitChunks
  <2>2. \A i \in DOMAIN jobs : jobs[i] \in Job
    BY DEF TypeOK, JobsOK
  <2>3. \A i \in DOMAIN jobs' :
          i \in DOMAIN jobs /\ jobs'[i].tries = jobs[i].tries /\ (jobs'[i].pc = "queued" => i # j /\ jobs[i].pc = "queued")
    BY <1>3, <2>1, <2>2 DEF Overtake, Job
  <2> QED BY <1>7, <2>3 DEF CommitChunks
<1>8. CASE EnqueueEmbedding(j)
  <2>1. PICK k \in FreeJobs :
          jobs' = Enqueue([jobs EXCEPT ![j] = At(job, "ending")], k, "embed", job.doc)
    BY <1>8 DEF EnqueueEmbedding
  <2>2. Queued("embed", job.doc, 0).tries = 0
    BY DEF Queued
  <2>3. Kept
    BY <1>3, <2>1, <2>2 DEF Enqueue, With
  <2> QED BY <1>8, <2>3 DEF EnqueueEmbedding
<1>9. CASE SelectPending(j)
  <2>1. \A todo : /\ [job EXCEPT !.pc = "calling", !.pending = todo].tries = job.tries
                  /\ [job EXCEPT !.pc = "calling", !.pending = todo].pc # "queued"
    BY <1>job DEF Job
  <2> QED BY <1>1, <1>3, <1>9, <2>1 DEF SelectPending
<1>10. CASE CompleteEmbedding(j) \/ CompleteOvertaken(j)
  BY <1>1, <1>3, <1>10 DEF CompleteEmbedding, CompleteOvertaken, SaveVectors, RaiseStale
<1>11. CASE Abandon(j) \/ Finish(j) \/ EndRaised(j) \/ TimeOut(j)
  BY <1>2, <1>11 DEF Dependable, Abandon, Finish, EndRaised, TimeOut
<1>12. CASE ReadForFailure(j)
  <2>1. \A seen : /\ [job EXCEPT !.pc = "marking", !.seen = seen].tries = job.tries
                  /\ [job EXCEPT !.pc = "marking", !.seen = seen].pc # "queued"
    BY <1>job DEF Job
  <2>2. CASE Exists(job.doc)
    <3>1. Becomes(j, [job EXCEPT !.pc = "marking", !.seen = docs[job.doc]])
      BY <1>12, <2>2 DEF ReadForFailure, Becomes
    <3> QED BY <1>1, <1>12, <2>1, <3>1 DEF ReadForFailure
  <2>3. CASE ~Exists(job.doc)
    BY <1>1, <1>2, <1>3, <1>12, <2>3 DEF ReadForFailure, Becomes
  <2> QED BY <2>2, <2>3
<1>13. CASE MarkFailed(j)
  <2>1. \E pc \in {"raising", "ending"} : Becomes(j, At(job, pc))
    BY <1>13 DEF MarkFailed, Becomes
  <2> QED BY <1>1, <1>3, <1>13, <2>1 DEF MarkFailed
<1> QED BY <1>4, <1>5, <1>6, <1>7, <1>8, <1>9, <1>10, <1>11, <1>12, <1>13 DEF IngestStep, EmbedStep

\* The invariant of the tries is kept by every step.
LEMMA NextTriesInv ==
  ASSUME Dependable, TypeOK, TriesInv, [Next]_vars
  PROVE  TriesInv'
<1>0. /\ interrupts \in Nat /\ parser \in Nat \ {0}
      /\ \A i \in DOMAIN jobs : jobs[i] \in Job /\ jobs[i].tries \in Nat
  BY BoundsAssumption DEF TypeOK, BoundsOK, JobsOK, Job
<1>1. CASE UNCHANGED vars
  BY <1>1 DEF vars, TriesInv
<1>2. CASE UploadNext
  <2>1. UNCHANGED <<interrupts, parser>>
    BY <1>2, Zenon DEF UploadNext, CheckUpload, RejectDuplicate, UploadStep, StoreObject, InsertDocument,
                ViolateConstraint, EnqueueIngestion, LoseRequest
  <2>2. jobs' = jobs \/ \E j, d : jobs' = Enqueue(jobs, j, "ingest", d)
    BY <1>2, Zenon DEF UploadNext, CheckUpload, RejectDuplicate, UploadStep, StoreObject, InsertDocument,
                ViolateConstraint, EnqueueIngestion, LoseRequest
  <2>3. \A d : Queued("ingest", d, 0).tries = 0
    BY DEF Queued
  <2>4. \A i \in DOMAIN jobs' : jobs'[i].tries = 0 \/ (i \in DOMAIN jobs /\ jobs'[i] = jobs[i])
    BY <2>2, <2>3 DEF Enqueue, With
  <2> QED BY <2>1, <2>4, MoveKeepsTries
<1>3. ASSUME NEW j \in JobIds, StartRun(j)
      PROVE  TriesInv'
  <2>1. CASE Exists(jobs[j].doc)
    <3>1. /\ jobs' = [jobs EXCEPT ![j].pc = "loaded", ![j].seen = docs[jobs[j].doc], ![j].tries = @ + 1]
          /\ j \in DOMAIN jobs /\ jobs[j].pc = "queued"
      BY <1>3, <2>1 DEF StartRun
    <3>2. DOMAIN jobs' = DOMAIN jobs /\ \A i \in DOMAIN jobs : i # j => jobs'[i] = jobs[i]
      BY <3>1
    <3>3. jobs'[j].pc = "loaded" /\ jobs'[j].tries = jobs[j].tries + 1
      BY <1>0, <3>1 DEF Job
    <3>4. UNCHANGED <<interrupts, parser>>
      BY <1>3 DEF StartRun
    <3> QED BY <1>0, <3>1, <3>2, <3>3, <3>4 DEF TriesInv
  <2>2. CASE ~Exists(jobs[j].doc)
    BY <1>3, <2>2 DEF StartRun, Ended, TriesInv
  <2> QED BY <2>1, <2>2
<1>4. ASSUME NEW j \in JobIds, Interrupt(j)
      PROVE  TriesInv'
  <2>1. /\ jobs' = [jobs EXCEPT ![j] = At(jobs[j], "queued")] /\ j \in DOMAIN jobs /\ jobs[j].pc # "queued"
        /\ interrupts' = interrupts + 1 /\ parser' = parser
    BY <1>4 DEF Interrupt, Runs
  <2>2. At(jobs[j], "queued").tries = jobs[j].tries
    BY DEF At, Queued
  <2>3. jobs'[j].tries = jobs[j].tries /\ \A i \in DOMAIN jobs' : i \in DOMAIN jobs /\ (i # j => jobs'[i] = jobs[i])
    BY <2>1, <2>2
  <2> SUFFICES ASSUME NEW i \in DOMAIN jobs'
               PROVE  jobs'[i].tries + (IF jobs'[i].pc = "queued" THEN 1 ELSE 0) <= (interrupts + 1) + parser
    BY <2>1 DEF TriesInv
  <2>4. jobs[i].tries + (IF jobs[i].pc = "queued" THEN 1 ELSE 0) <= interrupts + parser
    BY <2>3 DEF TriesInv
  <2>5. i \in DOMAIN jobs /\ jobs[i].tries \in Nat
    BY <1>0, <2>3
  <2>6. CASE i = j
    BY <1>0, <2>1, <2>3, <2>4, <2>5, <2>6
  <2>7. CASE i # j
    BY <1>0, <2>3, <2>4, <2>5, <2>7
  <2> QED BY <2>6, <2>7
<1>5. CASE Redeploy
  <2>1. /\ jobs' = [i \in DOMAIN jobs |-> At(jobs[i], "queued")]
        /\ interrupts' = interrupts /\ parser' = parser + 1
    BY <1>5 DEF Redeploy
  <2>2. \A i \in DOMAIN jobs : jobs'[i].tries = jobs[i].tries
    BY <2>1 DEF At, Queued
  <2> SUFFICES ASSUME NEW i \in DOMAIN jobs'
               PROVE  jobs'[i].tries + (IF jobs'[i].pc = "queued" THEN 1 ELSE 0) <= interrupts + (parser + 1)
    BY <2>1 DEF TriesInv
  <2>3. i \in DOMAIN jobs /\ jobs[i].tries \in Nat /\ jobs[i].tries <= interrupts + parser
    BY <1>0, <2>1 DEF TriesInv
  <2> QED BY <1>0, <2>2, <2>3
<1>6. ASSUME NEW d \in Docs, NEW t \in Tasks, Rerun(d, t)
      PROVE  TriesInv'
  <2>1. Queued(t, d, 0).tries = 0
    BY DEF Queued
  <2>2. \A i \in DOMAIN jobs' : jobs'[i].tries = 0 \/ (i \in DOMAIN jobs /\ jobs'[i] = jobs[i])
    BY <1>6, <2>1 DEF Rerun, Enqueue, With
  <2> QED BY <1>6, <2>2, MoveKeepsTries DEF Rerun
<1>7. ASSUME NEW d \in Docs, DeleteDocument(d)
      PROVE  TriesInv'
  BY <1>7 DEF DeleteDocument, TriesInv
<1>8. ASSUME NEW j \in JobIds,
             IngestStep(j) \/ EmbedStep(j) \/ Abandon(j) \/ ReadForFailure(j) \/ MarkFailed(j)
               \/ Finish(j) \/ EndRaised(j) \/ SurpriseIngest(j) \/ LoseEmbedding(j)
               \/ FailEmbedding(j) \/ SurpriseEmbed(j) \/ TimeOut(j)
      PROVE  TriesInv'
  <2>1. j \in DOMAIN jobs
    BY <1>8, Zenon DEF IngestStep, EmbedStep, Abandon, ReadForFailure, MarkFailed, Finish, EndRaised,
                SurpriseIngest, LoseEmbedding, FailEmbedding, SurpriseEmbed, TimeOut, Runs, Running,
                StartParsing, FailParsing, StartChunking, DeleteChunks, CommitChunks, RejectChunks,
                EnqueueEmbedding, SkipEmbedding, SelectPending, MissProvider, CompleteEmbedding,
                CompleteOvertaken
  <2>2. /\ UNCHANGED <<interrupts, parser>>
        /\ \A i \in DOMAIN jobs' :
             \/ jobs'[i].tries = 0
             \/ /\ i \in DOMAIN jobs /\ jobs'[i].tries = jobs[i].tries
                /\ jobs'[i].pc = "queued" => jobs[i].pc = "queued"
    BY <1>8, <2>1, JobKeepsTries
  <2> QED BY <2>2, MoveKeepsTries
<1> QED
  BY <1>1, <1>2, <1>3, <1>4, <1>5, <1>6, <1>7, <1>8
  DEF Next, JobStep, JobFault, WorkerStep, Outside
-----------------------------------------------------------------------------
\* A job nobody touched is worth to its document what it was, if the document is as it was ...
LEMMA ServesStill ==
  ASSUME NEW i, jobs'[i] = jobs[i], Serves(jobs[i]),
         docs'[jobs[i].doc].status = docs[jobs[i].doc].status,
         DOMAIN chunks'[jobs[i].doc] = DOMAIN chunks[jobs[i].doc],
         Unembedded(jobs[i].doc)' \subseteq Unembedded(jobs[i].doc)
  PROVE  Serves(jobs[i])'
<1>1. Covers(jobs[i]) => Covers(jobs[i])'
  BY DEF Covers, Wanted
<1>2. Embeds(jobs[i]) => Embeds(jobs[i])'
  BY <1>1 DEF Embeds, Ingests, Fails
<1>3. Settles(jobs[i]) => Settles(jobs[i])'
  BY DEF Settles, Fails
<1> QED BY <1>2, <1>3 DEF Serves

\* ... so nothing is owed anew while the tables stand, if who serves is succeeded by who serves.
LEMMA TablesStand ==
  ASSUME TypeOK, OwedInv, UNCHANGED <<docs, chunks, requests, configured>>,
         \A i \in DOMAIN jobs :
           Exists(jobs[i].doc) /\ Unfinished(jobs[i].doc) /\ Serves(jobs[i]) =>
             \E k \in DOMAIN jobs' : jobs'[k].doc = jobs[i].doc /\ Serves(jobs[k])'
  PROVE  OwedInv'
<1> SUFFICES ASSUME NEW d \in DOMAIN docs', Unfinished(d)'
             PROVE  Requested(d)' \/ \E k \in DOMAIN jobs' : jobs'[k].doc = d /\ Serves(jobs[k])'
  BY DEF OwedInv
<1>1. d \in DOMAIN docs /\ Unfinished(d)
  BY DEF Unfinished, Unembedded
<1>2. CASE Requested(d)
  BY <1>2 DEF Requested
<1>3. CASE \E i \in DOMAIN jobs : jobs[i].doc = d /\ Serves(jobs[i])
  BY <1>1, <1>3 DEF Exists
<1> QED BY <1>1, <1>2, <1>3 DEF OwedInv

\* The case of one job that moves on.
LEMMA OneMovesOn ==
  ASSUME TypeOK, OwedInv, UNCHANGED <<docs, chunks, requests, configured>>,
         NEW j \in DOMAIN jobs, NEW new, Becomes(j, new), new.doc = jobs[j].doc,
         Exists(jobs[j].doc) /\ Unfinished(jobs[j].doc) /\ Serves(jobs[j]) => Serves(new)
  PROVE  OwedInv'
<1>1. /\ DOMAIN jobs' = DOMAIN jobs /\ jobs'[j] = new
      /\ \A i \in DOMAIN jobs \ {j} : jobs'[i] = jobs[i]
  BY DEF Becomes
<1>2. Serves(new) => Serves(jobs[j])'
  BY <1>1 DEF Serves, Settles, Embeds, Ingests, Fails, Covers, Unembedded, Wanted
<1>3. \A i \in DOMAIN jobs \ {j} : Serves(jobs[i]) => Serves(jobs[i])'
  <2> SUFFICES ASSUME NEW i \in DOMAIN jobs \ {j}, Serves(jobs[i]) PROVE Serves(jobs[i])'
    OBVIOUS
  <2>1. jobs'[i] = jobs[i] /\ Unembedded(jobs[i].doc)' = Unembedded(jobs[i].doc)
    BY <1>1 DEF Unembedded
  <2> QED BY <2>1, ServesStill
<1>4. ASSUME NEW i \in DOMAIN jobs, Exists(jobs[i].doc), Unfinished(jobs[i].doc), Serves(jobs[i])
      PROVE  \E k \in DOMAIN jobs' : jobs'[k].doc = jobs[i].doc /\ Serves(jobs[k])'
  <2>1. CASE i = j
    BY <1>1, <1>2, <1>4, <2>1
  <2>2. CASE i # j
    BY <1>1, <1>3, <1>4, <2>2
  <2> QED BY <2>1, <2>2
<1> HIDE DEF Serves, Unfinished
<1> QED BY <1>4, TablesStand

\* And of one that is over.
LEMMA OneIsOver ==
  ASSUME TypeOK, OwedInv, UNCHANGED <<docs, chunks, requests, configured>>,
         NEW j \in DOMAIN jobs, jobs' = Ended(jobs, j),
         ~(Exists(jobs[j].doc) /\ Unfinished(jobs[j].doc) /\ Serves(jobs[j]))
  PROVE  OwedInv'
<1>1. \A i \in DOMAIN jobs \ {j} : i \in DOMAIN jobs' /\ jobs'[i] = jobs[i]
  BY DEF Ended
<1>2. ASSUME NEW i \in DOMAIN jobs, Exists(jobs[i].doc), Unfinished(jobs[i].doc), Serves(jobs[i])
      PROVE  \E k \in DOMAIN jobs' : jobs'[k].doc = jobs[i].doc /\ Serves(jobs[k])'
  <2>1. i # j
    BY <1>2
  <2>2. i \in DOMAIN jobs' /\ jobs'[i] = jobs[i] /\ Unembedded(jobs[i].doc)' = Unembedded(jobs[i].doc)
    BY <1>1, <2>1 DEF Unembedded
  <2>3. Serves(jobs[i])'
    BY <1>2, <2>2, ServesStill
  <2> QED BY <2>2, <2>3
<1> QED BY <1>2, TablesStand

\* A step on one job and its document: what it leaves to the others.
OnlyServes(j) ==
  /\ UNCHANGED <<requests, configured>>
  /\ DOMAIN docs' = DOMAIN docs
  /\ \A e \in DOMAIN docs \ {jobs[j].doc} : docs'[e] = docs[e] /\ chunks'[e] = chunks[e]
  /\ \A i \in DOMAIN jobs \ {j} :
       i \in DOMAIN jobs' /\ (jobs[i].doc # jobs[j].doc => jobs'[i] = jobs[i])

(* Its own document is finished or gone, or somebody serves it, or it is   *)
(* owed what it was and by another job.                                    *)
LEMMA OneJobServes ==
  ASSUME TypeOK, OwedInv, NEW j \in DOMAIN jobs, OnlyServes(j), NEW d, d = jobs[j].doc,
         \/ ~Exists(d)
         \/ ~Unfinished(d)'
         \/ \E k \in DOMAIN jobs' : jobs'[k].doc = d /\ Serves(jobs[k])'
         \/ /\ docs'[d].status = docs[d].status /\ DOMAIN chunks'[d] = DOMAIN chunks[d]
            /\ Unembedded(d)' \subseteq Unembedded(d)
            /\ ~Serves(jobs[j])
            /\ \A i \in DOMAIN jobs \ {j} : jobs'[i] = jobs[i]
  PROVE  OwedInv'
<1> SUFFICES ASSUME NEW e \in DOMAIN docs', Unfinished(e)'
             PROVE  Requested(e)' \/ \E k \in DOMAIN jobs' : jobs'[k].doc = e /\ Serves(jobs[k])'
  BY DEF OwedInv
<1>1. e \in DOMAIN docs /\ UNCHANGED <<requests, configured>>
  BY DEF OnlyServes
<1>2. Requested(e) => Requested(e)'
  BY <1>1 DEF Requested
<1>3. CASE e # d
  <2>1. docs'[e] = docs[e] /\ chunks'[e] = chunks[e]
    BY <1>1, <1>3 DEF OnlyServes
  <2>2. Unembedded(e)' = Unembedded(e) /\ Unfinished(e)
    BY <1>1, <2>1 DEF Unfinished, Unembedded
  <2>3. CASE \E i \in DOMAIN jobs : jobs[i].doc = e /\ Serves(jobs[i])
    <3> PICK i \in DOMAIN jobs : jobs[i].doc = e /\ Serves(jobs[i])
      BY <2>3
    <3>1. i \in DOMAIN jobs' /\ jobs'[i] = jobs[i]
      BY <1>3 DEF OnlyServes
    <3> QED BY <2>1, <2>2, <3>1, ServesStill
  <2> QED BY <1>1, <1>2, <2>2, <2>3 DEF OwedInv
<1>4. CASE /\ e = d /\ docs'[d].status = docs[d].status /\ DOMAIN chunks'[d] = DOMAIN chunks[d]
           /\ Unembedded(d)' \subseteq Unembedded(d)
           /\ ~Serves(jobs[j])
           /\ \A i \in DOMAIN jobs \ {j} : jobs'[i] = jobs[i]
  <2>1. Unfinished(d)
    BY <1>1, <1>4 DEF Unfinished
  <2>2. CASE \E i \in DOMAIN jobs : jobs[i].doc = d /\ Serves(jobs[i])
    <3> PICK i \in DOMAIN jobs : jobs[i].doc = d /\ Serves(jobs[i])
      BY <2>2
    <3>1. i # j /\ i \in DOMAIN jobs' /\ jobs'[i] = jobs[i]
      BY <1>4 DEF OnlyServes
    <3> QED BY <1>4, <3>1, ServesStill
  <2> QED BY <1>1, <1>2, <1>4, <2>1, <2>2 DEF OwedInv
<1> QED BY <1>1, <1>3, <1>4 DEF Exists

\* Setting out to record a failure, or starting again, a job still serves whom it served.
LEMMA FailingServes ==
  ASSUME NEW job, job.task \in Tasks, Serves(job)
  PROVE  /\ \A code, fatal : Serves(Failing(job, code, fatal))
         /\ Serves(At(job, "queued"))
<1>1. /\ At(job, "queued").task = job.task /\ At(job, "queued").doc = job.doc /\ At(job, "queued").pc = "queued"
      /\ \A code, fatal : /\ Failing(job, code, fatal).task = job.task
                          /\ Failing(job, code, fatal).doc = job.doc
                          /\ Failing(job, code, fatal).pc = "failing"
  BY DEF At, Failing, Queued
<1>2. job.task = "ingest" \/ (job.task = "embed" /\ docs[job.doc].status = "completed")
  BY DEF Serves, Settles, Embeds, Tasks, Ingests
<1>3. Serves(At(job, "queued"))
  BY <1>1, <1>2 DEF Serves, Settles, Embeds
<1>4. ASSUME NEW code, NEW fatal PROVE Serves(Failing(job, code, fatal))
  BY <1>1, <1>2 DEF Serves, Settles, Embeds, Fails
<1> QED BY <1>3, <1>4

\* No step of an ingestion leaves its document to nobody.
LEMMA IngestKeepsOwed ==
  ASSUME Dependable, TypeOK, PipelineInv, OwedInv, NEW j \in JobIds,
         IngestStep(j) \/ SurpriseIngest(j) \/ LoseEmbedding(j)
  PROVE  OwedInv'
<1> DEFINE job == jobs[j]
           d == jobs[j].doc
<1>j. j \in DOMAIN jobs /\ job.task = "ingest"
  BY Zenon DEF IngestStep, SurpriseIngest, LoseEmbedding, Running, StartParsing, FailParsing,
               StartChunking, DeleteChunks, CommitChunks, RejectChunks, EnqueueEmbedding, SkipEmbedding
<1>job. job \in Job /\ job.seen \in Row
  BY <1>j DEF TypeOK, JobsOK, Job
<1>1. ASSUME NEW code, NEW fatal, Becomes(j, Failing(job, code, fatal)),
             UNCHANGED <<docs, chunks, requests, configured>>
      PROVE  OwedInv'
  <2>1. Failing(job, code, fatal).doc = job.doc
    BY JobKeepsDoc DEF Failing, At, Queued
  <2>2. Serves(job) => Serves(Failing(job, code, fatal))
    BY <1>j, FailingServes DEF Tasks
  <2> DEFINE new == Failing(job, code, fatal)
  <2>3. Becomes(j, new) /\ new.doc = job.doc /\ (Serves(job) => Serves(new))
    BY <1>1, <2>1, <2>2
  <2> HIDE DEF new
  <2> QED BY <1>1, <1>j, <2>3, OneMovesOn
<1>2. CASE FailParsing(j) \/ RejectChunks(j) \/ SurpriseIngest(j)
  <2>1. UNCHANGED <<docs, chunks, requests, configured>>
    BY <1>2 DEF FailParsing, RejectChunks, SurpriseIngest
  <2>2. \E code, fatal : Becomes(j, Failing(job, code, fatal))
    BY <1>2, Zenon DEF FailParsing, RejectChunks, SurpriseIngest, Crashed
  <2> QED BY <1>1, <2>1, <2>2
<1>3. ASSUME NEW pc \in {"parsing", "chunking"}, NEW want,
             \/ /\ docs' = Flush(d, job.seen, want)
                /\ Becomes(j, [job EXCEPT !.pc = pc, !.seen = want])
             \/ ~Exists(d) /\ Crashed(j) /\ UNCHANGED docs,
             UNCHANGED <<chunks, requests, configured>>
      PROVE  OwedInv'
  <2>1. CASE /\ docs' = Flush(d, job.seen, want)
             /\ Becomes(j, [job EXCEPT !.pc = pc, !.seen = want])
    <3>1. OnlyServes(j)
      BY <1>3, <2>1 DEF OnlyServes, Flush, Becomes, Exists
    <3>2. jobs'[j] = [job EXCEPT !.pc = pc, !.seen = want] /\ j \in DOMAIN jobs'
      BY <1>j, <2>1 DEF Becomes
    <3>3. jobs'[j].task = "ingest" /\ jobs'[j].pc = pc /\ jobs'[j].doc = d
      BY <1>job, <1>j, <3>2 DEF Job
    <3>4. Serves(jobs[j])'
      BY <3>3 DEF Serves, Settles
    <3> QED BY <1>j, <3>1, <3>2, <3>3, <3>4, OneJobServes
  <2>2. CASE Crashed(j) /\ UNCHANGED docs
    <3>1. Becomes(j, Failing(job, "INGESTION_FAILED", TRUE)) /\ UNCHANGED <<docs, chunks, requests, configured>>
      BY <1>3, <2>2 DEF Crashed
    <3> QED BY <1>1, <3>1
  <2> QED BY <1>3, <2>1, <2>2
<1>4. CASE StartParsing(j)
  <2> DEFINE want == [job.seen EXCEPT !.status = "parsing"]
  <2>1. /\ UNCHANGED <<chunks, requests, configured>>
        /\ \/ /\ docs' = Flush(d, job.seen, want)
              /\ Becomes(j, [job EXCEPT !.pc = "parsing", !.seen = want])
           \/ ~Exists(d) /\ Crashed(j) /\ UNCHANGED docs
    BY <1>4 DEF StartParsing
  <2>2. PICK pc \in {"parsing", "chunking"} : pc = "parsing"
    OBVIOUS
  <2> HIDE DEF want
  <2> QED BY <1>3, <2>1, <2>2
<1>5. CASE StartChunking(j)
  <2> DEFINE want == [job.seen EXCEPT !.status = "chunking"]
  <2>1. /\ UNCHANGED <<chunks, requests, configured>>
        /\ \/ /\ docs' = Flush(d, job.seen, want)
              /\ Becomes(j, [job EXCEPT !.pc = "chunking", !.seen = want])
           \/ ~Exists(d) /\ Crashed(j) /\ UNCHANGED docs
    BY <1>5 DEF StartChunking
  <2>2. PICK pc \in {"parsing", "chunking"} : pc = "chunking"
    OBVIOUS
  <2> HIDE DEF want
  <2> QED BY <1>3, <2>1, <2>2
<1>6. CASE DeleteChunks(j)
  <2> DEFINE new == [job EXCEPT !.pc = "replacing", !.cleared = DOMAIN chunks[d]]
  <2>1. Becomes(j, new) /\ UNCHANGED <<docs, chunks, requests, configured>>
    BY <1>6 DEF DeleteChunks
  <2>2. new.doc = d /\ Serves(new)
    BY <1>job, <1>j DEF Job, Serves, Settles
  <2> HIDE DEF new
  <2> QED BY <1>j, <2>1, <2>2, OneMovesOn
<1>7. CASE CommitChunks(j)
  <2> DEFINE want == [job.seen EXCEPT !.status = "completed", !.error = "none",
                                      !.count = Pieces[parser][job.seen.content]]
  <2>1. PICK W \in SUBSET Waiters(j) :
          jobs' = Overtake([jobs EXCEPT ![j] = At(job, "committed")], W)
    BY <1>7 DEF CommitChunks
  <2>2. /\ docs' = Flush(d, job.seen, want) /\ Exists(d) /\ job.pc = "replacing"
        /\ UNCHANGED <<requests, configured>>
    BY <1>7 DEF CommitChunks, Running
  <2>3. \A e \in Docs : e # d => chunks'[e] = chunks[e]
    BY <1>7 DEF CommitChunks, TypeOK, ChunksOK
  <2>4. want.status = "completed" /\ job.seen.status = "chunking"
    <3>1. SafeJob(job)
      BY <1>j DEF PipelineInv, ReplacementIsSafe
    <3>2. job.seen.status = "chunking"
      BY <1>j, <2>2, <3>1 DEF SafeJob, Ingests
    <3> QED BY <1>job, <3>2 DEF Row
  <2> HIDE DEF want
  <2>5. DOMAIN docs' = DOMAIN docs /\ docs'[d].status = "completed"
    BY <2>2, <2>4 DEF Flush, Exists
  <2>6. \A e \in DOMAIN docs \ {d} : docs'[e] = docs[e] /\ chunks'[e] = chunks[e]
    BY <2>2, <2>3 DEF Flush, Exists, TypeOK, DocsOK
  <2>7. \A i \in DOMAIN jobs \ {j} : i \in DOMAIN jobs' /\ (jobs[i].doc # d => jobs'[i] = jobs[i])
    BY <1>j, <2>1 DEF Overtake, Waiters, Holds
  <2>8. j \in DOMAIN jobs' /\ jobs'[j] = At(job, "committed")
    BY <1>j, <2>1 DEF Overtake, Waiters
  <2>9. At(job, "committed").doc = d /\ At(job, "committed").task = "ingest" /\ At(job, "committed").pc = "committed"
    BY <1>j DEF At, Queued
  <2>10. jobs'[j].doc = d /\ Serves(jobs[j])'
    BY <2>5, <2>8, <2>9 DEF Serves, Embeds, Ingests
  <2> QED BY <1>j, <2>2, <2>5, <2>6, <2>7, <2>8, <2>10, OneJobServes DEF OnlyServes
<1>8. CASE EnqueueEmbedding(j)
  <2>1. PICK k \in FreeJobs : jobs' = Enqueue([jobs EXCEPT ![j] = At(job, "ending")], k, "embed", d)
    BY <1>8 DEF EnqueueEmbedding
  <2>2. UNCHANGED <<docs, chunks, requests, configured>> /\ job.pc = "committed"
    BY <1>8 DEF EnqueueEmbedding, Running
  <2>3. /\ k \notin DOMAIN jobs /\ k \in DOMAIN jobs' /\ jobs'[k] = Queued("embed", d, 0)
        /\ \A i \in DOMAIN jobs \ {j} : i \in DOMAIN jobs' /\ jobs'[i] = jobs[i]
    BY <1>j, <2>1 DEF FreeJobs, Enqueue, With
  <2>4. jobs'[k].task = "embed" /\ jobs'[k].doc = d /\ jobs'[k].pc = "queued"
    BY <2>3 DEF Queued
  <2>5. Serves(job) => docs[d].status = "completed"
    BY <1>j, <2>2 DEF Serves, Settles, Fails
  <2>6. Serves(job) => Serves(jobs[k])'
    BY <2>2, <2>4, <2>5 DEF Serves, Embeds
  <2>7. ASSUME NEW i \in DOMAIN jobs, Serves(jobs[i])
        PROVE  \E n \in DOMAIN jobs' : jobs'[n].doc = jobs[i].doc /\ Serves(jobs[n])'
    <3>1. CASE i = j
      BY <2>3, <2>4, <2>6, <2>7, <3>1
    <3>2. CASE i # j
      <4>1. i \in DOMAIN jobs' /\ jobs'[i] = jobs[i] /\ Unembedded(jobs[i].doc)' = Unembedded(jobs[i].doc)
        BY <2>2, <2>3, <3>2 DEF Unembedded
      <4>2. Serves(jobs[i])'
        BY <2>2, <2>7, <4>1, ServesStill
      <4> QED BY <4>1, <4>2
    <3> QED BY <3>1, <3>2
  <2> QED BY <2>2, <2>7, TablesStand
<1>9. CASE SkipEmbedding(j)
  <2> DEFINE new == At(job, "ending")
  <2>1. Becomes(j, new) /\ UNCHANGED <<docs, chunks, requests, configured>> /\ ~configured /\ job.pc = "committed"
    BY <1>9 DEF SkipEmbedding, Running
  <2>2. new.doc = d
    BY JobKeepsDoc DEF At, Queued
  <2>3. ~(Unfinished(d) /\ Serves(job))
    BY <1>j, <2>1 DEF Unfinished, Serves, Settles, Fails
  <2> HIDE DEF new
  <2> QED BY <1>j, <2>1, <2>2, <2>3, OneMovesOn
<1>10. ~LoseEmbedding(j)
  BY DEF LoseEmbedding, Dependable
<1> QED BY <1>2, <1>4, <1>5, <1>6, <1>7, <1>8, <1>9, <1>10 DEF IngestStep

\* Saving adds vectors, and every vector it was to write where all its chunks are still there.
LEMMA SavingEmbeds ==
  ASSUME TypeOK, NEW j \in DOMAIN jobs, NEW lost, NEW d \in Docs, d = jobs[j].doc,
         chunks' = Vectorised(d, jobs[j].pending, Reached(j, lost))
  PROVE  /\ \A e \in Docs \ {d} : chunks'[e] = chunks[e]
         /\ DOMAIN chunks'[d] = DOMAIN chunks[d]
         /\ Unembedded(d)' \subseteq Unembedded(d)
         /\ lost = {} /\ Covers(jobs[j]) => Unembedded(d)' = {}
<1> DEFINE job == jobs[j]
           rows == Reached(j, lost)
<1>0. /\ DOMAIN chunks = Docs
      /\ \A o \in DOMAIN chunks[d] : chunks[d][o] \in [text : 1..MaxParser, vec : 0..MaxParser]
      /\ job.pending \in SUBSET [ordinal : Nat, text : 1..MaxParser]
      /\ MaxParser \in Nat
  BY BoundsAssumption DEF TypeOK, ChunksOK, ChunkRow, JobsOK, Job
<1>1. /\ DOMAIN chunks' = Docs
      /\ \A e \in Docs \ {d} : chunks'[e] = chunks[e]
      /\ chunks'[d] = [o \in DOMAIN chunks[d] |->
                        IF o \in rows THEN [chunks[d][o] EXCEPT !.vec = TextRead(job.pending, o)]
                        ELSE chunks[d][o]]
  BY <1>0 DEF Vectorised
<1> HIDE DEF rows
<1>2. \A o \in DOMAIN chunks[d] :
        /\ o \in DOMAIN chunks'[d]
        /\ o \in rows => chunks'[d][o].vec = TextRead(job.pending, o)
        /\ o \notin rows => chunks'[d][o] = chunks[d][o]
  BY <1>0, <1>1
<1>3. DOMAIN chunks'[d] = DOMAIN chunks[d]
  BY <1>1
<1>4. \A o \in rows : TextRead(job.pending, o) # 0
  <2> SUFFICES ASSUME NEW o \in rows PROVE TextRead(job.pending, o) # 0
    OBVIOUS
  <2>1. \E c \in job.pending : c.ordinal = o
    BY DEF rows, Reached, Wanted
  <2>2. TextRead(job.pending, o) \in 1..MaxParser
    BY <1>0, <2>1 DEF TextRead
  <2> QED BY <1>0, <2>2
<1>5. \A o \in DOMAIN chunks[d] : chunks'[d][o].vec = 0 => o \notin rows /\ chunks[d][o].vec = 0
  BY <1>2, <1>4
<1>6. Unembedded(d)' \subseteq Unembedded(d) /\ \A o \in Unembedded(d)' : o \notin rows
  BY <1>3, <1>5 DEF Unembedded
<1>7. lost = {} /\ Covers(job) => Unembedded(d) \subseteq rows
  BY DEF Covers, rows, Reached
<1> QED BY <1>1, <1>3, <1>6, <1>7

\* No step of an embedding job leaves its document to nobody, though the job itself may.
LEMMA EmbedKeepsOwed ==
  ASSUME Dependable, TypeOK, OwedInv, NEW j \in JobIds,
         EmbedStep(j) \/ FailEmbedding(j) \/ SurpriseEmbed(j)
  PROVE  OwedInv'
<1> DEFINE job == jobs[j]
           d == jobs[j].doc
<1>j. j \in DOMAIN jobs /\ job.task = "embed"
  BY Zenon DEF EmbedStep, FailEmbedding, SurpriseEmbed, Running, SelectPending, MissProvider,
               CompleteEmbedding, CompleteOvertaken
<1>job. job \in Job /\ job.seen \in Row /\ d \in Docs
  BY <1>j DEF TypeOK, JobsOK, Job
<1>1. CASE MissProvider(j) \/ FailEmbedding(j)
  <2>1. UNCHANGED <<docs, chunks, requests, configured>>
    BY <1>1 DEF MissProvider, FailEmbedding
  <2>2. PICK code, fatal : Becomes(j, Failing(job, code, fatal))
    BY <1>1, Zenon DEF MissProvider, FailEmbedding
  <2> DEFINE new == Failing(job, code, fatal)
  <2>3. new.doc = d
    BY DEF Failing, At, Queued
  <2>4. Serves(job) => Serves(new)
    BY <1>j, FailingServes DEF Tasks
  <2>5. Becomes(j, new)
    BY <2>2
  <2> HIDE DEF new
  <2> QED BY <1>j, <2>1, <2>3, <2>4, <2>5, OneMovesOn
<1>2. CASE SelectPending(j)
  <2>1. UNCHANGED <<docs, chunks, requests, configured>> /\ job.pc = "loaded" /\ configured
    BY <1>2 DEF SelectPending, Running
  <2>2. Serves(job) => docs[d].status = "completed"
    BY <1>j DEF Serves, Settles
  <2>3. CASE Unembedded(d) = {}
    <3> DEFINE new == At(job, "ending")
    <3>1. Becomes(j, new)
      BY <1>2, <2>3 DEF SelectPending
    <3>2. new.doc = d
      BY DEF At, Queued
    <3>3. ~(Unfinished(d) /\ Serves(job))
      BY <2>2, <2>3 DEF Unfinished
    <3> HIDE DEF new
    <3> QED BY <1>j, <2>1, <3>1, <3>2, <3>3, OneMovesOn
  <2>4. CASE Unembedded(d) # {}
    <3> DEFINE todo == {Read(d, o) : o \in Unembedded(d)}
               new == [job EXCEPT !.pc = "calling", !.pending = todo]
    <3>1. Becomes(j, new)
      BY <1>2, <2>4 DEF SelectPending
    <3>2. new.doc = d /\ new.task = "embed" /\ new.pc = "calling" /\ new.pending = todo
      BY <1>job, <1>j DEF Job
    <3>3. Unembedded(d) = Wanted(todo)
      <4>1. \A o : Read(d, o).ordinal = o
        BY DEF Read
      <4> QED BY <4>1 DEF Wanted
    <3>4. Unembedded(d) \subseteq DOMAIN chunks[d]
      BY DEF Unembedded
    <3> HIDE DEF new, todo
    <3>5. Serves(job) => Serves(new)
      BY <2>2, <3>2, <3>3, <3>4 DEF Serves, Embeds, Covers
    <3> QED BY <1>j, <2>1, <3>1, <3>2, <3>5, OneMovesOn
  <2> QED BY <2>3, <2>4
<1>3. ASSUME job.pc \in {"calling", "overtaken"}
      PROVE  Serves(job) => docs[d].status = "completed" /\ Covers(job)
  BY <1>j, <1>3 DEF Serves, Settles, Embeds, Ingests, Fails
<1>4. ASSUME NEW lost, RaiseStale(j, lost), job.pc \in {"calling", "overtaken"}, Covers(job) => lost = {}
      PROVE  OwedInv'
  <2> DEFINE new == At(job, "raising")
  <2>1. Becomes(j, new) /\ UNCHANGED <<docs, chunks, requests, configured>>
    BY <1>4 DEF RaiseStale
  <2>2. new.doc = d
    BY DEF At, Queued
  <2>3. ~Covers(job)
    BY <1>4 DEF RaiseStale, Covers, Reached
  <2> HIDE DEF new
  <2> QED BY <1>j, <1>3, <1>4, <2>1, <2>2, <2>3, OneMovesOn
<1>5. ASSUME NEW lost, SaveVectors(j, lost), job.pc \in {"calling", "overtaken"}, Covers(job) => lost = {}
      PROVE  OwedInv'
  <2>d. PICK e \in Docs : e = d
    BY <1>job
  <2> DEFINE want == [job.seen EXCEPT !.error = "none"]
  <2>1. /\ chunks' = Vectorised(d, job.pending, Reached(j, lost))
        /\ docs' = Flush(d, job.seen, want)
        /\ Becomes(j, At(job, "ending"))
        /\ UNCHANGED <<requests, configured>>
    BY <1>5 DEF SaveVectors
  <2>2. want.status = job.seen.status
    BY <1>job DEF Row
  <2> HIDE DEF want
  <2>3. /\ DOMAIN docs' = DOMAIN docs /\ docs'[e].status = docs[e].status
        /\ \A f \in DOMAIN docs \ {e} : docs'[f] = docs[f]
    BY <2>1, <2>2, <2>d DEF Flush, Exists
  <2>4. /\ \A f \in Docs \ {e} : chunks'[f] = chunks[f]
        /\ DOMAIN chunks'[e] = DOMAIN chunks[e]
        /\ Unembedded(e)' \subseteq Unembedded(e)
        /\ lost = {} /\ Covers(job) => Unembedded(e)' = {}
    BY <1>j, <2>1, <2>d, SavingEmbeds
  <2>5. \A i \in DOMAIN jobs \ {j} : i \in DOMAIN jobs' /\ jobs'[i] = jobs[i]
    BY <2>1 DEF Becomes
  <2>6. OnlyServes(j)
    BY <2>1, <2>3, <2>4, <2>5, <2>d DEF OnlyServes, TypeOK, DocsOK
  <2>7. CASE Serves(job)
    <3>1. docs[e].status = "completed" /\ Unembedded(e)' = {}
      BY <1>3, <1>5, <2>4, <2>7, <2>d
    <3>2. ~Unfinished(e)'
      BY <2>3, <3>1 DEF Unfinished
    <3> QED BY <1>j, <2>6, <2>d, <3>2, OneJobServes
  <2>8. CASE ~Serves(job)
    BY <1>j, <2>3, <2>4, <2>5, <2>6, <2>8, <2>d, OneJobServes
  <2> QED BY <2>7, <2>8
<1>6. CASE CompleteEmbedding(j)
  <2>1. job.pc \in {"calling", "overtaken"} /\ (SaveVectors(j, {}) \/ RaiseStale(j, {}))
    BY <1>6 DEF CompleteEmbedding, Running
  <2> QED BY <1>4, <1>5, <2>1
<1>7. CASE CompleteOvertaken(j)
  <2>1. /\ job.pc = "overtaken" /\ ~Covers(job)
        /\ \E o \in Wanted(job.pending) : SaveVectors(j, {o}) \/ RaiseStale(j, {o})
    BY <1>7 DEF CompleteOvertaken, Running, Covers
  <2> QED BY <1>4, <1>5, <2>1
<1>8. ~SurpriseEmbed(j)
  BY DEF SurpriseEmbed, Dependable
<1> QED BY <1>1, <1>2, <1>6, <1>7, <1>8 DEF EmbedStep

\* Neither does anything arq does with a job, while it runs again what was cut short.
LEMMA WorkerKeepsOwed ==
  ASSUME Dependable, TypeOK, TriesInv, OwedInv, NEW j \in JobIds,
         WorkerStep(j) \/ Interrupt(j) \/ TimeOut(j)
  PROVE  OwedInv'
<1> DEFINE job == jobs[j]
           d == jobs[j].doc
<1>j. j \in DOMAIN jobs
  BY Zenon DEF WorkerStep, Interrupt, TimeOut, Runs, StartRun, Abandon, ReadForFailure, MarkFailed,
               Finish, EndRaised
<1>job. job \in Job /\ job.seen \in Row /\ d \in Docs /\ job.task \in Tasks
  BY <1>j DEF TypeOK, JobsOK, Job
<1>1. CASE StartRun(j)
  <2>1. UNCHANGED <<docs, chunks, requests, configured>> /\ job.pc = "queued"
    BY <1>1 DEF StartRun
  <2>2. CASE Exists(d)
    <3> DEFINE new == [job EXCEPT !.pc = "loaded", !.seen = docs[d], !.tries = @ + 1]
    <3>1. Becomes(j, new)
      BY <1>1, <1>j, <2>2 DEF StartRun, Becomes
    <3>2. new.doc = d /\ new.task = job.task /\ new.pc = "loaded"
      BY <1>job DEF Job
    <3> HIDE DEF new
    <3>3. Serves(job) => Serves(new)
      BY <2>1, <3>2 DEF Serves, Settles, Embeds, Ingests
    <3> QED BY <1>j, <2>1, <3>1, <3>2, <3>3, OneMovesOn
  <2>3. CASE ~Exists(d)
    <3>1. jobs' = Ended(jobs, j)
      BY <1>1, <2>3 DEF StartRun
    <3> QED BY <1>j, <2>1, <2>3, <3>1, OneIsOver
  <2> QED BY <2>2, <2>3
<1>2. ~Abandon(j)
  <2>1. job.tries \in Nat /\ interrupts \in Nat /\ parser \in Nat /\ MaxTries \in Nat
        /\ interrupts + parser <= MaxTries
    <3>1. /\ interrupts \in Nat /\ interrupts <= MaxInterrupts /\ parser \in Nat /\ parser <= MaxParser
          /\ MaxInterrupts \in Nat /\ MaxParser \in Nat /\ MaxTries \in Nat /\ job.tries \in Nat
      BY <1>job, BoundsAssumption DEF TypeOK, BoundsOK, Job
    <3> QED BY <3>1 DEF Dependable
  <2>2. job.pc = "queued" => job.tries + 1 <= interrupts + parser
    BY <1>j DEF TriesInv
  <2> QED BY <2>1, <2>2 DEF Abandon
<1>3. CASE ReadForFailure(j)
  <2>1. UNCHANGED <<docs, chunks, requests, configured>> /\ job.pc = "failing"
    BY <1>3 DEF ReadForFailure
  <2>2. CASE Exists(d)
    <3> DEFINE new == [job EXCEPT !.pc = "marking", !.seen = docs[d]]
    <3>1. Becomes(j, new)
      BY <1>3, <1>j, <2>2 DEF ReadForFailure, Becomes
    <3>2. new.doc = d /\ new.task = job.task /\ new.pc = "marking" /\ new.seen = docs[d]
      BY <1>job DEF Job
    <3> HIDE DEF new
    <3>3. Unfinished(d) /\ Serves(job) => Serves(new)
      <4>1. Unfinished(d) => docs[d].status # "failed"
        BY DEF Unfinished
      <4>2. Serves(job) => job.task = "ingest" \/ (job.task = "embed" /\ docs[d].status = "completed")
        BY <1>job DEF Serves, Settles, Embeds, Ingests
      <4> QED BY <3>2, <4>1, <4>2 DEF Serves, Settles, Embeds, Fails
    <3> QED BY <1>j, <2>1, <3>1, <3>2, <3>3, OneMovesOn
  <2>3. CASE ~Exists(d) /\ job.fatal
    <3> DEFINE new == At(job, "raising")
    <3>1. Becomes(j, new)
      BY <1>3, <2>3 DEF ReadForFailure, Becomes
    <3>2. new.doc = d
      BY DEF At, Queued
    <3> HIDE DEF new
    <3> QED BY <1>j, <2>1, <2>3, <3>1, <3>2, OneMovesOn
  <2>4. CASE ~Exists(d) /\ ~job.fatal
    <3>1. jobs' = Ended(jobs, j)
      BY <1>3, <2>4 DEF ReadForFailure
    <3> QED BY <1>j, <2>1, <2>4, <3>1, OneIsOver
  <2> QED BY <2>2, <2>3, <2>4
<1>4. CASE MarkFailed(j)
  <2>d. PICK e \in Docs : e = d
    BY <1>job
  <2> DEFINE want == [job.seen EXCEPT !.status = "failed", !.error = job.code]
  <2>1. /\ docs' = Flush(d, job.seen, want) /\ UNCHANGED <<chunks, requests, configured>>
        /\ job.pc = "marking" /\ \E pc : jobs' = [jobs EXCEPT ![j] = At(job, pc)]
    BY <1>4 DEF MarkFailed
  <2>2. want.status = "failed"
    BY <1>job DEF Row
  <2> HIDE DEF want
  <2>3. \A i \in DOMAIN jobs \ {j} : i \in DOMAIN jobs' /\ jobs'[i] = jobs[i]
    BY <2>1
  <2>4. /\ DOMAIN docs' = DOMAIN docs
        /\ \A x \in DOMAIN docs \ {d} : docs'[x] = docs[x]
        /\ Exists(d) => docs'[d].status = IF job.seen.status = "failed" THEN docs[d].status ELSE "failed"
    BY <2>1, <2>2 DEF Flush, Exists
  <2>5. OnlyServes(j)
    BY <2>1, <2>3, <2>4 DEF OnlyServes
  <2>6. CASE ~Exists(d)
    BY <1>j, <2>5, <2>6, OneJobServes
  <2>7. CASE Exists(d) /\ job.seen.status # "failed"
    <3>1. ~Unfinished(e)'
      BY <2>4, <2>7, <2>d DEF Unfinished
    <3> QED BY <1>j, <2>5, <2>d, <3>1, OneJobServes
  <2>8. CASE Exists(d) /\ job.seen.status = "failed"
    <3>1. ~Serves(job)
      BY <2>1, <2>8 DEF Serves, Settles, Embeds, Ingests, Fails, Covers
    <3>2. docs'[e].status = docs[e].status /\ Unembedded(e)' = Unembedded(e)
      BY <2>1, <2>4, <2>8, <2>d DEF Unembedded
    <3> QED BY <1>j, <2>1, <2>3, <2>5, <2>d, <3>1, <3>2, OneJobServes
  <2> QED BY <2>6, <2>7, <2>8
<1>5. CASE Finish(j) \/ EndRaised(j)
  <2>1. UNCHANGED <<docs, chunks, requests, configured>> /\ jobs' = Ended(jobs, j)
        /\ job.pc \in {"ending", "raising"}
    BY <1>5 DEF Finish, EndRaised, Dependable
  <2>2. ~Serves(job)
    BY <2>1 DEF Serves, Settles, Embeds, Ingests, Fails, Covers
  <2> QED BY <1>j, <2>1, <2>2, OneIsOver
<1>6. CASE Interrupt(j)
  <2> DEFINE new == At(job, "queued")
  <2>1. UNCHANGED <<docs, chunks, requests, configured>> /\ Becomes(j, new)
    BY <1>6 DEF Interrupt, Becomes
  <2>2. new.doc = d
    BY DEF At, Queued
  <2>3. Serves(job) => Serves(new)
    BY <1>job, FailingServes
  <2> HIDE DEF new
  <2> QED BY <1>j, <2>1, <2>2, <2>3, OneMovesOn
<1>7. ~TimeOut(j)
  BY DEF TimeOut, Dependable
<1> QED BY <1>1, <1>2, <1>3, <1>4, <1>5, <1>6, <1>7 DEF WorkerStep

\* A request on its way is not forgotten, and hands its document over to a queued ingestion.
LEMMA UploadsKeepOwed ==
  ASSUME Dependable, TypeOK, UploadInv, OwedInv, UploadNext
  PROVE  OwedInv'
<1> PICK r \in Requests : \/ \E c \in Contents, d \in Docs : CheckUpload(r, c, d) \/ RejectDuplicate(r, c, d)
                          \/ UploadStep(r)
                          \/ LoseRequest(r)
  BY DEF UploadNext
<1>1. ASSUME UNCHANGED <<docs, chunks, configured>>,
             \A i \in DOMAIN jobs : i \in DOMAIN jobs' /\ jobs'[i] = jobs[i],
             \A d \in DOMAIN docs : Requested(d) =>
               Requested(d)' \/ \E k \in DOMAIN jobs' : jobs'[k].doc = d /\ Serves(jobs[k])'
      PROVE  OwedInv'
  <2> SUFFICES ASSUME NEW d \in DOMAIN docs', Unfinished(d)'
               PROVE  Requested(d)' \/ \E k \in DOMAIN jobs' : jobs'[k].doc = d /\ Serves(jobs[k])'
    BY DEF OwedInv
  <2>1. d \in DOMAIN docs /\ Unfinished(d) /\ Unembedded(d)' = Unembedded(d)
    BY <1>1 DEF Unfinished, Unembedded
  <2>2. CASE \E i \in DOMAIN jobs : jobs[i].doc = d /\ Serves(jobs[i])
    <3> PICK i \in DOMAIN jobs : jobs[i].doc = d /\ Serves(jobs[i])
      BY <2>2
    <3> QED BY <1>1, <2>1, ServesStill
  <2> QED BY <1>1, <2>1, <2>2 DEF OwedInv
<1>2. ASSUME NEW c \in Contents, NEW d \in Docs, CheckUpload(r, c, d) \/ RejectDuplicate(r, c, d)
      PROVE  OwedInv'
  <2>1. /\ UNCHANGED <<docs, chunks, jobs, configured>> /\ r \notin DOMAIN requests
        /\ \A q \in DOMAIN requests : q \in DOMAIN requests' /\ requests'[q] = requests[q]
    BY <1>2 DEF CheckUpload, RejectDuplicate, With
  <2>2. \A e \in DOMAIN docs : Requested(e) => Requested(e)'
    BY <2>1 DEF Requested
  <2> QED BY <1>1, <2>1, <2>2
<1>3. CASE StoreObject(r) \/ ViolateConstraint(r)
  <2>1. /\ UNCHANGED <<docs, chunks, jobs, configured>> /\ requests[r].pc # "committed"
        /\ \E pc : requests' = [requests EXCEPT ![r].pc = pc]
    BY <1>3 DEF StoreObject, ViolateConstraint, Answer
  <2>2. DOMAIN requests' = DOMAIN requests /\ \A q \in DOMAIN requests \ {r} : requests'[q] = requests[q]
    BY <2>1
  <2>3. \A e \in DOMAIN docs : Requested(e) => Requested(e)'
    BY <2>1, <2>2 DEF Requested
  <2> QED BY <1>1, <2>1, <2>3
<1>4. CASE InsertDocument(r)
  <2> DEFINE n == requests[r].doc
             row == NewRow(requests[r].content)
  <2>0. r \in DOMAIN requests /\ requests[r] \in Request
    BY <1>4 DEF InsertDocument, TypeOK, RequestsOK
  <2>1. /\ docs' = With(docs, n, row) /\ UNCHANGED <<chunks, jobs, configured>>
        /\ requests' = [requests EXCEPT ![r].pc = "committed"]
    BY <1>4 DEF InsertDocument, Answer
  <2>2. /\ DOMAIN requests' = DOMAIN requests /\ requests'[r].doc = n /\ requests'[r].pc = "committed"
        /\ \A q \in DOMAIN requests \ {r} : requests'[q] = requests[q]
    BY <2>0, <2>1 DEF Request
  <2>3. \A e \in DOMAIN docs' : e # n => e \in DOMAIN docs /\ docs'[e] = docs[e]
    BY <2>1 DEF With
  <2> SUFFICES ASSUME NEW d \in DOMAIN docs', Unfinished(d)'
               PROVE  Requested(d)' \/ \E k \in DOMAIN jobs' : jobs'[k].doc = d /\ Serves(jobs[k])'
    BY DEF OwedInv
  <2>4. CASE d = n
    BY <2>0, <2>2, <2>4 DEF Requested
  <2>5. CASE d # n
    <3>1. d \in DOMAIN docs /\ docs'[d] = docs[d] /\ Unembedded(d)' = Unembedded(d) /\ Unfinished(d)
      BY <2>1, <2>3, <2>5 DEF Unembedded, Unfinished
    <3>2. CASE \E i \in DOMAIN jobs : jobs[i].doc = d /\ Serves(jobs[i])
      <4> PICK i \in DOMAIN jobs : jobs[i].doc = d /\ Serves(jobs[i])
        BY <3>2
      <4> QED BY <2>1, <3>1, ServesStill
    <3>3. CASE Requested(d)
      BY <2>0, <2>2, <2>5, <3>3 DEF Requested
    <3> QED BY <3>1, <3>2, <3>3 DEF OwedInv
  <2> QED BY <2>4, <2>5
<1>5. CASE EnqueueIngestion(r)
  <2> DEFINE n == requests[r].doc
  <2>1. PICK k \in FreeJobs : jobs' = Enqueue(jobs, k, "ingest", n)
    BY <1>5 DEF EnqueueIngestion
  <2>2. /\ UNCHANGED <<docs, chunks, configured>> /\ requests' = [requests EXCEPT ![r].pc = "accepted"]
    BY <1>5 DEF EnqueueIngestion, Answer
  <2>3. /\ k \in DOMAIN jobs' /\ jobs'[k] = Queued("ingest", n, 0)
        /\ \A i \in DOMAIN jobs : i \in DOMAIN jobs' /\ jobs'[i] = jobs[i]
    BY <2>1 DEF FreeJobs, Enqueue, With
  <2>4. jobs'[k].doc = n /\ jobs'[k].task = "ingest" /\ jobs'[k].pc = "queued"
    BY <2>3 DEF Queued
  <2>5. Serves(jobs[k])'
    BY <2>4 DEF Serves, Settles
  <2>6. ASSUME NEW d \in DOMAIN docs, Requested(d)
        PROVE  Requested(d)' \/ \E i \in DOMAIN jobs' : jobs'[i].doc = d /\ Serves(jobs[i])'
    <3>1. CASE d = n
      BY <2>3, <2>4, <2>5, <3>1
    <3>2. CASE d # n
      <4>1. \A q \in DOMAIN requests : q # r => q \in DOMAIN requests' /\ requests'[q] = requests[q]
        BY <2>2
      <4> QED BY <2>6, <3>2, <4>1 DEF Requested
    <3> QED BY <3>1, <3>2
  <2> QED BY <1>1, <2>2, <2>3, <2>6
<1>6. ~LoseRequest(r)
  BY DEF LoseRequest, Dependable
<1> QED BY <1>2, <1>3, <1>4, <1>5, <1>6 DEF UploadStep

\* Nor does anybody outside: what a release cuts short is queued again, and a deletion owes nothing.
LEMMA OutsideKeepsOwed ==
  ASSUME TypeOK, OwedInv, Outside
  PROVE  OwedInv'
<1>1. CASE Redeploy
  <2>1. /\ UNCHANGED <<docs, chunks, requests, configured>> /\ DOMAIN jobs' = DOMAIN jobs
        /\ \A i \in DOMAIN jobs : jobs'[i] = At(jobs[i], "queued")
    BY <1>1 DEF Redeploy
  <2>2. ASSUME NEW i \in DOMAIN jobs, Serves(jobs[i])
        PROVE  \E k \in DOMAIN jobs' : jobs'[k].doc = jobs[i].doc /\ Serves(jobs[k])'
    <3>1. /\ At(jobs[i], "queued").task = jobs[i].task /\ At(jobs[i], "queued").doc = jobs[i].doc
          /\ At(jobs[i], "queued").pc = "queued"
      BY DEF At, Queued
    <3>2. jobs[i].task = "ingest" \/ (jobs[i].task = "embed" /\ docs[jobs[i].doc].status = "completed")
      BY <2>2 DEF TypeOK, JobsOK, Job, Tasks, Serves, Settles, Embeds, Ingests
    <3>3. Serves(jobs[i])'
      BY <2>1, <3>1, <3>2 DEF Serves, Settles, Embeds
    <3> QED BY <2>1, <3>1, <3>3
  <2> QED BY <2>1, <2>2, TablesStand
<1>2. ASSUME NEW d \in Docs, NEW t \in Tasks, Rerun(d, t)
      PROVE  OwedInv'
  <2>1. /\ UNCHANGED <<docs, chunks, requests, configured>>
        /\ \A i \in DOMAIN jobs : i \in DOMAIN jobs' /\ jobs'[i] = jobs[i]
    BY <1>2 DEF Rerun, FreeJobs, Enqueue, With
  <2>2. ASSUME NEW i \in DOMAIN jobs, Serves(jobs[i])
        PROVE  \E k \in DOMAIN jobs' : jobs'[k].doc = jobs[i].doc /\ Serves(jobs[k])'
    <3>1. Unembedded(jobs[i].doc)' = Unembedded(jobs[i].doc)
      BY <2>1 DEF Unembedded
    <3>2. Serves(jobs[i])'
      BY <2>1, <2>2, <3>1, ServesStill
    <3> QED BY <2>1, <3>2
  <2> QED BY <2>1, <2>2, TablesStand
<1>3. ASSUME NEW d \in Docs, DeleteDocument(d)
      PROVE  OwedInv'
  <2>1. /\ DOMAIN docs' = DOMAIN docs \ {d} /\ \A e \in DOMAIN docs' : docs'[e] = docs[e]
        /\ \A e \in Docs : e # d => chunks'[e] = chunks[e]
        /\ UNCHANGED <<jobs, requests, configured>>
    BY <1>3 DEF DeleteDocument, TypeOK, ChunksOK
  <2> SUFFICES ASSUME NEW e \in DOMAIN docs', Unfinished(e)'
               PROVE  Requested(e)' \/ \E k \in DOMAIN jobs' : jobs'[k].doc = e /\ Serves(jobs[k])'
    BY DEF OwedInv
  <2>2. e \in DOMAIN docs /\ docs'[e] = docs[e] /\ chunks'[e] = chunks[e]
    BY <2>1 DEF TypeOK, DocsOK
  <2>3. Unfinished(e) /\ Unembedded(e)' = Unembedded(e)
    BY <2>1, <2>2 DEF Unfinished, Unembedded
  <2>4. CASE \E i \in DOMAIN jobs : jobs[i].doc = e /\ Serves(jobs[i])
    <3> PICK i \in DOMAIN jobs : jobs[i].doc = e /\ Serves(jobs[i])
      BY <2>4
    <3> QED BY <2>1, <2>2, <2>3, ServesStill
  <2>5. CASE Requested(e)
    BY <2>1, <2>5 DEF Requested
  <2> QED BY <2>2, <2>3, <2>4, <2>5 DEF OwedInv
<1> QED BY <1>1, <1>2, <1>3 DEF Outside

\* Every step leaves what is unfinished to somebody.
LEMMA NextOwedInv ==
  ASSUME Dependable, TypeOK, UploadInv, PipelineInv, TriesInv, OwedInv, [Next]_vars
  PROVE  OwedInv'
<1>1. CASE UNCHANGED vars
  <2>1. UNCHANGED <<docs, chunks, requests, configured, jobs>>
    BY <1>1 DEF vars
  <2>2. ASSUME NEW i \in DOMAIN jobs, Serves(jobs[i])
        PROVE  \E k \in DOMAIN jobs' : jobs'[k].doc = jobs[i].doc /\ Serves(jobs[k])'
    <3>1. Unembedded(jobs[i].doc)' = Unembedded(jobs[i].doc)
      BY <2>1 DEF Unembedded
    <3> QED BY <2>1, <2>2, <3>1, ServesStill
  <2> QED BY <2>1, <2>2, TablesStand
<1>2. CASE UploadNext
  BY <1>2, UploadsKeepOwed
<1>3. CASE Outside
  BY <1>3, OutsideKeepsOwed
<1>4. CASE \E j \in JobIds : JobStep(j) \/ JobFault(j)
  BY <1>4, IngestKeepsOwed, EmbedKeepsOwed, WorkerKeepsOwed DEF JobStep, JobFault
<1> QED BY <1>1, <1>2, <1>3, <1>4 DEF Next

\* What nobody is to finish is finished.
LEMMA OwedIsFinished == TypeOK /\ OwedInv => IdleIsFinished
<1> SUFFICES ASSUME TypeOK, OwedInv, NEW d \in DOMAIN docs, Idle(d)
             PROVE  /\ docs[d].status \in {"completed", "failed"}
                    /\ docs[d].status = "completed" /\ configured => Unembedded(d) = {}
  BY DEF IdleIsFinished, IdleIsSettled, IdleIsEmbedded
<1>1. ~Unfinished(d)
  BY DEF Idle, OwedInv, Requested
<1>2. docs[d].status \in Statuses
  BY DEF TypeOK, DocsOK, Row
<1> QED BY <1>1, <1>2 DEF Unfinished, Statuses

(* With the faults the worker is written for, nothing is left half way: a  *)
(* document that no upload and no job is about any more is completed, with *)
(* every vector if there is a provider, or failed; for any number of       *)
(* documents and jobs, any interleaving of overlapping ingestions and      *)
(* embeddings, interruptions, releases, reruns and deletions.              *)
THEOREM NothingIsLeftHalfWay ==
  ASSUME Dependable
  PROVE  Spec => []IdleIsFinished
<1>1. Init => TriesInv /\ OwedInv
  BY DEF Init, TriesInv, OwedInv
<1>2. TypeOK /\ UploadInv /\ PipelineInv /\ TriesInv /\ OwedInv /\ [Next]_vars => TriesInv' /\ OwedInv'
  BY NextTriesInv, NextOwedInv
<1>3. TypeOK /\ OwedInv => IdleIsFinished
  BY OwedIsFinished
<1> QED BY <1>1, <1>2, <1>3, TypeCorrect, UploadInvariance, PipelineInvariance, PTL DEF Spec
-----------------------------------------------------------------------------
(* What a readable document becomes, however many runs ingest it.          *)

(* Nothing fails that nobody records, and arq allows a run for every       *)
(* interruption and every release.  What raises may be run again or not.   *)
Repeated ==
  /\ Faults \subseteq {"provider", "delete"}
  /\ MaxInterrupts + MaxParser <= MaxTries

Readable(d) == Exists(d) /\ docs[d].content \notin Unreadable

Parsed(d) == \E v \in 1..MaxParser : OneParse(d, v)

Unparsed(d) == Readable(d) /\ ~Parsed(d)

\* Before and during the run that is going to complete a document.
Ingesting(job) == Ingests(job, {"queued", "loaded", "parsing", "chunking", "replacing"})

(* No ingestion of a readable document gives up before somebody has parsed *)
(* it: none fails, and none is run more often than it was cut short.       *)
GoesOn(job) ==
  job.task = "ingest" /\ Unparsed(job.doc) =>
    /\ Ingesting(job)
    /\ job.tries + (IF job.pc = "queued" THEN 1 ELSE 0) <= interrupts + parser

\* A readable document is parsed, or somebody is going to parse it.
ToBeParsed(d) ==
  Unparsed(d) => Requested(d) \/ \E j \in DOMAIN jobs : jobs[j].doc = d /\ Ingesting(jobs[j])

ParseInv ==
  /\ \A j \in DOMAIN jobs : GoesOn(jobs[j])
  /\ \A d \in DOMAIN docs : ToBeParsed(d)
-----------------------------------------------------------------------------
\* Where parses stand, a parsed document stays parsed ...
LEMMA ParsedStays ==
  ASSUME TypeOK, SameParse, NEW d \in DOMAIN docs, Parsed(d)
  PROVE  Parsed(d)'
<1>1. PICK v \in 1..MaxParser : OneParse(d, v)
  BY DEF Parsed
<1>2. OneParse(d, v)'
  BY ONLY <1>1, TypeOK, SameParse, d \in DOMAIN docs, OneParseStays
<1> QED BY ONLY <1>2, v \in 1..MaxParser DEF Parsed

\* ... so what is still to be parsed was to be parsed before.
LEMMA UnparsedBefore ==
  ASSUME TypeOK, SameParse, NEW d, Unparsed(d)'
  PROVE  Unparsed(d)
<1>1. d \in DOMAIN docs /\ docs'[d].content = docs[d].content /\ docs'[d].content \notin Unreadable
  BY DEF Unparsed, Readable, Exists, SameParse
<1>2. Parsed(d) => Parsed(d)'
  BY <1>1, ParsedStays
<1> QED BY <1>1, <1>2 DEF Unparsed, Readable, Exists

(* A step of one job: it goes on itself, and the others are as they were   *)
(* wherever something is still to be parsed.                               *)
LEMMA OneJobParses ==
  ASSUME TypeOK, ParseInv, NEW j \in DOMAIN jobs, NEW d, d = jobs[j].doc,
         requests' = requests, parser' = parser, interrupts' \in {interrupts, interrupts + 1},
         \A e : Unparsed(e)' => Unparsed(e),
         \A i \in DOMAIN jobs \ {j} :
           /\ i \in DOMAIN jobs' /\ jobs'[i].task = jobs[i].task /\ jobs'[i].doc = jobs[i].doc
           /\ jobs[i].task = "ingest" /\ Unparsed(jobs[i].doc)' => jobs'[i] = jobs[i],
         \A i \in DOMAIN jobs' \ DOMAIN jobs : jobs'[i].task = "embed",
         j \in DOMAIN jobs' => jobs'[j].doc = d /\ jobs'[j].task = jobs[j].task,
         jobs[j].task = "ingest" /\ Unparsed(d)' =>
           /\ j \in DOMAIN jobs' /\ Ingesting(jobs'[j])
           /\ jobs'[j].tries + (IF jobs'[j].pc = "queued" THEN 1 ELSE 0) <= interrupts' + parser
  PROVE  ParseInv'
<1>0. /\ interrupts \in Nat /\ parser \in Nat
      /\ \A i \in DOMAIN jobs : jobs[i].tries \in Nat
  BY BoundsAssumption DEF TypeOK, BoundsOK, JobsOK, Job
<1>1. ASSUME NEW i \in DOMAIN jobs', jobs'[i].task = "ingest", NEW e, e = jobs'[i].doc, Unparsed(e)'
      PROVE  /\ Ingesting(jobs'[i])
             /\ jobs'[i].tries + (IF jobs'[i].pc = "queued" THEN 1 ELSE 0) <= interrupts' + parser
  <2>1. i \in DOMAIN jobs
    BY <1>1
  <2>2. CASE i = j
    <3>1. jobs[j].task = "ingest" /\ e = d
      BY <1>1, <2>2
    <3> HIDE DEF Ingesting, Unparsed
    <3> QED BY <1>1, <2>2, <3>1
  <2>3. CASE i # j
    <3>1. jobs[i].task = "ingest" /\ jobs[i].doc = e
      BY <1>1, <2>1, <2>3
    <3>2. jobs'[i] = jobs[i] /\ Unparsed(e)
      BY <1>1, <2>1, <2>3, <3>1
    <3>3. /\ Ingesting(jobs[i])
          /\ jobs[i].tries + (IF jobs[i].pc = "queued" THEN 1 ELSE 0) <= interrupts + parser
      BY <2>1, <3>1, <3>2 DEF ParseInv, GoesOn
    <3>4. jobs[i].tries + (IF jobs[i].pc = "queued" THEN 1 ELSE 0) <= interrupts' + parser
      BY <1>0, <2>1, <3>3
    <3> QED BY <3>2, <3>3, <3>4
  <2> QED BY <2>2, <2>3
<1>2. \A i \in DOMAIN jobs' : GoesOn(jobs[i])'
  BY <1>1 DEF GoesOn
<1>3. ASSUME NEW e \in DOMAIN docs', Unparsed(e)'
      PROVE  Requested(e)' \/ \E i \in DOMAIN jobs' : jobs'[i].doc = e /\ Ingesting(jobs'[i])
  <2>1. e \in DOMAIN docs /\ Unparsed(e)
    <3>1. Unparsed(e)
      BY <1>3
    <3> QED BY <3>1 DEF Unparsed, Readable, Exists
  <2>2. Requested(e) => Requested(e)'
    BY DEF Requested
  <2>3. ASSUME NEW i \in DOMAIN jobs, jobs[i].doc = e, Ingesting(jobs[i])
        PROVE  i \in DOMAIN jobs' /\ jobs'[i].doc = e /\ Ingesting(jobs'[i])
    <3>1. jobs[i].task = "ingest"
      BY <2>3 DEF Ingesting, Ingests
    <3>2. CASE i = j
      BY <1>3, <2>3, <3>1, <3>2
    <3>3. CASE i # j
      <4>1. i \in DOMAIN jobs' /\ jobs'[i].doc = e
        BY <2>3, <3>3
      <4>2. jobs'[i] = jobs[i]
        BY <1>3, <3>1, <3>3, <4>1
      <4> QED BY <2>3, <4>1, <4>2
    <3> QED BY <3>2, <3>3
  <2> QED BY <2>1, <2>2, <2>3 DEF ParseInv, ToBeParsed
<1> QED BY <1>2, <1>3 DEF ParseInv, ToBeParsed

\* The two shapes most steps have.
LEMMA OneMoveParses ==
  ASSUME TypeOK, ParseInv, NEW j \in DOMAIN jobs, NEW new, Becomes(j, new), SameParse,
         requests' = requests, interrupts' \in {interrupts, interrupts + 1},
         new.doc = jobs[j].doc, new.task = jobs[j].task,
         jobs[j].task = "ingest" /\ Unparsed(jobs[j].doc) =>
           /\ Ingesting(new)
           /\ new.tries + (IF new.pc = "queued" THEN 1 ELSE 0) <= interrupts' + parser
  PROVE  ParseInv'
<1>1. /\ \A i \in DOMAIN jobs \ {j} : i \in DOMAIN jobs' /\ jobs'[i] = jobs[i]
      /\ \A i \in DOMAIN jobs' : i \in DOMAIN jobs
      /\ j \in DOMAIN jobs' /\ jobs'[j] = new
  BY DEF Becomes
<1>2. (\A e : Unparsed(e)' => Unparsed(e)) /\ parser' = parser
  BY UnparsedBefore DEF SameParse
<1> HIDE DEF Ingesting, Unparsed
<1> QED BY <1>1, <1>2, OneJobParses

LEMMA OneEndParses ==
  ASSUME TypeOK, ParseInv, NEW j \in DOMAIN jobs, jobs' = Ended(jobs, j),
         UNCHANGED <<docs, chunks, requests, parser, interrupts>>,
         jobs[j].task = "ingest" => ~Unparsed(jobs[j].doc)
  PROVE  ParseInv'
<1>1. /\ \A i \in DOMAIN jobs \ {j} : i \in DOMAIN jobs' /\ jobs'[i] = jobs[i]
      /\ \A i \in DOMAIN jobs' : i \in DOMAIN jobs /\ i # j
  BY DEF Ended
<1>2. \A e : Unparsed(e)' => Unparsed(e)
  BY TablesAlone, UnparsedBefore
<1> HIDE DEF Ingesting, Unparsed
<1> QED BY <1>1, <1>2, OneJobParses

\* What a job's fields are at another point.
LEMMA AtKeepsJob ==
  ASSUME NEW job
  PROVE  /\ \A pc : /\ At(job, pc).task = job.task /\ At(job, pc).doc = job.doc
                    /\ At(job, pc).tries = job.tries /\ At(job, pc).pc = pc /\ At(job, pc).code = "none"
         /\ \A code, fatal : /\ Failing(job, code, fatal).task = job.task
                             /\ Failing(job, code, fatal).doc = job.doc
                             /\ Failing(job, code, fatal).pc = "failing"
                             /\ Failing(job, code, fatal).code = code
  BY DEF At, Failing, Queued

(* An ingestion goes on until it commits its chunks or finds that another  *)
(* has: chunks it clashes with are of a whole parse.                       *)
LEMMA IngestParses ==
  ASSUME Repeated, TypeOK, UploadInv, PipelineInv, PipelineInv', ParseInv, NEW j \in JobIds,
         IngestStep(j) \/ SurpriseIngest(j) \/ LoseEmbedding(j)
  PROVE  ParseInv'
<1>j. j \in DOMAIN jobs /\ jobs[j].task = "ingest"
  BY Zenon DEF IngestStep, SurpriseIngest, LoseEmbedding, Running, StartParsing, FailParsing,
               StartChunking, DeleteChunks, CommitChunks, RejectChunks, EnqueueEmbedding, SkipEmbedding
<1> PICK job : job = jobs[j]
  OBVIOUS
<1> PICK d : d = job.doc
  OBVIOUS
<1>job. job \in Job /\ job.seen \in Row /\ d \in Docs /\ SafeJob(job)
  BY <1>j DEF TypeOK, JobsOK, Job, PipelineInv, ReplacementIsSafe
<1>goes. Unparsed(d) =>
           /\ Ingesting(job)
           /\ job.pc # "queued" => job.tries + 0 <= interrupts + parser
  BY <1>j DEF ParseInv, GoesOn
<1>1. ASSUME NEW new, Becomes(j, new), SameParse, new.doc = d, new.task = "ingest", job.pc # "queued",
             UNCHANGED <<requests, interrupts>>,
             Unparsed(d) =>
               new.pc \in {"loaded", "parsing", "chunking", "replacing"} /\ new.tries = job.tries
      PROVE  ParseInv'
  <2>1. Unparsed(d) =>
          /\ Ingesting(new)
          /\ new.tries + (IF new.pc = "queued" THEN 1 ELSE 0) <= interrupts' + parser
    BY <1>1, <1>goes DEF Ingesting, Ingests
  <2> HIDE DEF Ingesting, Unparsed
  <2> QED BY <1>1, <1>j, <2>1, OneMoveParses
<1>2. ASSUME ~Unparsed(d), NEW code, NEW fatal, Becomes(j, Failing(job, code, fatal)), job.pc # "queued",
             UNCHANGED <<docs, chunks, parser, requests, interrupts>>
      PROVE  ParseInv'
  <2>1. PICK new : new = Failing(job, code, fatal)
    OBVIOUS
  <2>2. new.doc = d /\ new.task = "ingest"
    BY <1>j, <2>1, AtKeepsJob
  <2>3. SameParse
    BY <1>2, TablesAlone
  <2> QED BY <1>1, <1>2, <2>1, <2>2, <2>3
<1>3. CASE FailParsing(j)
  <2>1. ~Unparsed(d) /\ job.pc = "parsing"
    BY <1>3, <1>job
    DEF FailParsing, Running, Unparsed, Readable, SafeJob, Ingests, Exists, UploadInv, ObjectBeforeRow
  <2>2. \E code, fatal : Becomes(j, Failing(job, code, fatal))
    BY <1>3, Zenon DEF FailParsing
  <2> QED BY <1>2, <1>3, <2>1, <2>2 DEF FailParsing
<1>4. CASE RejectChunks(j)
  <2>1. ASSUME Unparsed(d)
        PROVE  FALSE
    <3>1. Exists(d) /\ NoParse(d)
      BY <1>job, <2>1 DEF Unparsed, Readable, Parsed, PipelineInv, ChunksAreOneParse
    <3>2. DOMAIN chunks[d] # {}
      BY <1>4, <3>1 DEF RejectChunks, Clash, Survivors
    <3> QED BY <3>1, <3>2 DEF NoParse
  <2>2. job.pc = "replacing"
    BY <1>4 DEF RejectChunks, Running
  <2> QED BY <1>2, <1>4, <2>1, <2>2 DEF RejectChunks, Crashed
<1>5. ASSUME NEW pc \in {"parsing", "chunking"}, NEW want,
             want.status = pc, want.count = job.seen.count, job.pc # "queued",
             \/ /\ docs' = Flush(d, job.seen, want)
                /\ Becomes(j, [job EXCEPT !.pc = pc, !.seen = want])
             \/ ~Exists(d) /\ Crashed(j) /\ UNCHANGED docs,
             UNCHANGED <<chunks, requests, parser, interrupts>>
      PROVE  ParseInv'
  <2>1. CASE ~Exists(d) /\ Crashed(j) /\ UNCHANGED docs
    BY <1>2, <1>5, <2>1 DEF Crashed, Unparsed, Readable
  <2>2. CASE docs' = Flush(d, job.seen, want) /\ Becomes(j, [job EXCEPT !.pc = pc, !.seen = want])
    <3> DEFINE new == [job EXCEPT !.pc = pc, !.seen = want]
    <3>1. Becomes(j, new)
      BY <2>2
    <3>2. new.doc = d /\ new.task = "ingest" /\ new.pc = pc /\ new.tries = job.tries
      BY <1>j, <1>job DEF Job
    <3> HIDE DEF new
    <3>3. SameParse
      BY <1>5, <2>2, FlushIsSameParse
    <3> QED BY <1>1, <1>5, <3>1, <3>2, <3>3
  <2> QED BY <1>5, <2>1, <2>2
<1>6. CASE StartParsing(j)
  <2> DEFINE want == [job.seen EXCEPT !.status = "parsing"]
  <2>1. /\ UNCHANGED <<chunks, requests, parser, interrupts>> /\ job.pc # "queued"
        /\ \/ /\ docs' = Flush(d, job.seen, want)
              /\ Becomes(j, [job EXCEPT !.pc = "parsing", !.seen = want])
           \/ ~Exists(d) /\ Crashed(j) /\ UNCHANGED docs
    BY <1>6 DEF StartParsing, Running
  <2>2. want.status = "parsing" /\ want.count = job.seen.count
    BY <1>job DEF Row
  <2>3. PICK pc \in {"parsing", "chunking"} : pc = "parsing"
    OBVIOUS
  <2> HIDE DEF want
  <2> QED BY <1>5, <2>1, <2>2, <2>3
<1>7. CASE StartChunking(j)
  <2> DEFINE want == [job.seen EXCEPT !.status = "chunking"]
  <2>1. /\ UNCHANGED <<chunks, requests, parser, interrupts>> /\ job.pc # "queued"
        /\ \/ /\ docs' = Flush(d, job.seen, want)
              /\ Becomes(j, [job EXCEPT !.pc = "chunking", !.seen = want])
           \/ ~Exists(d) /\ Crashed(j) /\ UNCHANGED docs
    BY <1>7 DEF StartChunking, Running
  <2>2. want.status = "chunking" /\ want.count = job.seen.count
    BY <1>job DEF Row
  <2>3. PICK pc \in {"parsing", "chunking"} : pc = "chunking"
    OBVIOUS
  <2> HIDE DEF want
  <2> QED BY <1>5, <2>1, <2>2, <2>3
<1>8. CASE DeleteChunks(j)
  <2> DEFINE new == [job EXCEPT !.pc = "replacing", !.cleared = DOMAIN chunks[d]]
  <2>1. Becomes(j, new) /\ UNCHANGED <<docs, chunks, requests, parser, interrupts>> /\ job.pc # "queued"
    BY <1>8 DEF DeleteChunks, Running
  <2>2. new.doc = d /\ new.task = "ingest" /\ new.pc = "replacing" /\ new.tries = job.tries
    BY <1>j, <1>job DEF Job
  <2>3. SameParse
    BY <2>1, TablesAlone
  <2> HIDE DEF new
  <2> QED BY <1>1, <2>1, <2>2, <2>3
<1>9. CASE EnqueueEmbedding(j)
  <2>1. PICK k \in FreeJobs : jobs' = Enqueue([jobs EXCEPT ![j] = At(job, "ending")], k, "embed", d)
    BY <1>9 DEF EnqueueEmbedding
  <2>2. UNCHANGED <<docs, chunks, requests, parser, interrupts>> /\ job.pc = "committed"
    BY <1>9 DEF EnqueueEmbedding, Running
  <2>3. /\ k \notin DOMAIN jobs /\ DOMAIN jobs' = DOMAIN jobs \cup {k} /\ jobs'[k] = Queued("embed", d, 0)
        /\ jobs'[j] = At(job, "ending")
        /\ \A i \in DOMAIN jobs \ {j} : jobs'[i] = jobs[i]
    BY <1>j, <2>1 DEF FreeJobs, Enqueue, With
  <2>4. jobs'[k].task = "embed" /\ jobs'[j].task = "ingest" /\ jobs'[j].doc = d
    BY <1>j, <2>3, AtKeepsJob DEF Queued
  <2>5. (\A e : Unparsed(e)' => Unparsed(e)) /\ ~Unparsed(d)
    BY <1>goes, <2>2, TablesAlone, UnparsedBefore DEF Ingesting, Ingests
  <2> HIDE DEF Ingesting, Unparsed
  <2> QED BY <1>j, <2>2, <2>3, <2>4, <2>5, OneJobParses
<1>10. CASE SkipEmbedding(j)
  <2>1. PICK new : new = At(job, "ending")
    OBVIOUS
  <2>2. /\ Becomes(j, new) /\ UNCHANGED <<docs, chunks, requests, parser, interrupts>>
        /\ job.pc = "committed"
    BY <1>10, <2>1 DEF SkipEmbedding, Running
  <2>3. new.doc = d /\ new.task = "ingest"
    BY <1>j, <2>1, AtKeepsJob
  <2>4. SameParse /\ ~Unparsed(d)
    BY <1>goes, <2>2, TablesAlone DEF Ingesting, Ingests
  <2> QED BY <1>1, <2>2, <2>3, <2>4
<1>11. CASE CommitChunks(j)
  <2> DEFINE want == [job.seen EXCEPT !.status = "completed", !.error = "none",
                                      !.count = Pieces[parser][job.seen.content]]
  <2>1. PICK W \in SUBSET Waiters(j) :
          jobs' = Overtake([jobs EXCEPT ![j] = At(job, "committed")], W)
    BY <1>11 DEF CommitChunks
  <2>2. /\ docs' = Flush(d, job.seen, want) /\ Exists(d) /\ job.pc = "replacing"
        /\ UNCHANGED <<requests, parser, interrupts>>
    BY <1>11 DEF CommitChunks, Running
  <2>3. \A e \in Docs : e # d => chunks'[e] = chunks[e]
    BY <1>11 DEF CommitChunks, TypeOK, ChunksOK
  <2>4. want.status = "completed" /\ job.seen.status = "chunking"
    BY <1>job, <1>j, <2>2 DEF SafeJob, Ingests, Row
  <2> HIDE DEF want
  <2>5. /\ DOMAIN docs' = DOMAIN docs /\ docs'[d].status = "completed"
        /\ \A e \in DOMAIN docs : e # d => docs'[e] = docs[e]
    BY <2>2, <2>4 DEF Flush, Exists
  <2>6. Parsed(d)'
    BY <1>job, <2>2, <2>5 DEF PipelineInv, ChunksAreOneParse, Parsed, Exists
  <2>7. ASSUME NEW e, Unparsed(e)'
        PROVE  Unparsed(e) /\ e # d
    <3>1. e \in DOMAIN docs /\ e # d /\ e \in Docs
      BY <2>5, <2>6, <2>7 DEF Unparsed, Readable, Exists, TypeOK, DocsOK
    <3>2. docs'[e] = docs[e] /\ chunks'[e] = chunks[e]
      BY <2>3, <2>5, <3>1
    <3> QED BY <2>7, <3>1, <3>2 DEF Unparsed, Readable, Exists, Parsed, OneParse
  <2>8. /\ DOMAIN jobs' = DOMAIN jobs /\ jobs'[j] = At(job, "committed")
        /\ \A i \in DOMAIN jobs \ {j} :
             jobs'[i] = IF i \in W THEN [jobs[i] EXCEPT
                                           !.pc = IF jobs[i].task = "ingest" THEN "replacing" ELSE "overtaken"]
                        ELSE jobs[i]
    BY <1>j, <2>1 DEF Overtake, Waiters
  <2>9. \A i \in DOMAIN jobs \ {j} : /\ jobs'[i].task = jobs[i].task /\ jobs'[i].doc = jobs[i].doc
                                     /\ jobs[i].doc # d => jobs'[i] = jobs[i]
    <3>1. \A i \in DOMAIN jobs : jobs[i] \in Job
      BY DEF TypeOK, JobsOK
    <3>2. \A i \in W : jobs[i].doc = d
      BY <1>j DEF Waiters, Holds
    <3> QED BY <2>8, <3>1, <3>2 DEF Job
  <2>10. jobs'[j].doc = d /\ jobs'[j].task = "ingest"
    BY <1>j, <2>8, AtKeepsJob
  <2> HIDE DEF Ingesting, Unparsed
  <2> QED BY <1>j, <2>2, <2>7, <2>8, <2>9, <2>10, OneJobParses
<1>12. ~SurpriseIngest(j) /\ ~LoseEmbedding(j)
  BY DEF SurpriseIngest, LoseEmbedding, Repeated
<1> QED BY <1>3, <1>4, <1>6, <1>7, <1>8, <1>9, <1>10, <1>11, <1>12 DEF IngestStep

\* An embedding job touches neither parses nor an ingestion.
LEMMA EmbedParses ==
  ASSUME Repeated, TypeOK, ParseInv, NEW j \in JobIds,
         EmbedStep(j) \/ FailEmbedding(j) \/ SurpriseEmbed(j)
  PROVE  ParseInv'
<1>j. j \in DOMAIN jobs /\ jobs[j].task = "embed"
  BY Zenon DEF EmbedStep, FailEmbedding, SurpriseEmbed, Running, SelectPending, MissProvider,
               CompleteEmbedding, CompleteOvertaken
<1> PICK job : job = jobs[j]
  OBVIOUS
<1> PICK d : d = job.doc
  OBVIOUS
<1>job. job \in Job /\ job.seen \in Row /\ d \in Docs
  BY <1>j DEF TypeOK, JobsOK, Job
<1>1. ASSUME NEW new, Becomes(j, new), new.doc = d, new.task = "embed", SameParse,
             UNCHANGED <<requests, interrupts>>
      PROVE  ParseInv'
  <2> HIDE DEF Ingesting, Unparsed
  <2> QED BY <1>1, <1>j, OneMoveParses
<1>2. ASSUME NEW new, Becomes(j, new), new.doc = d, new.task = "embed",
             UNCHANGED <<docs, chunks, requests, parser, interrupts>>
      PROVE  ParseInv'
  BY <1>1, <1>2, TablesAlone
<1>3. CASE MissProvider(j) \/ FailEmbedding(j)
  <2>1. PICK code \in {"PROVIDER_NOT_CONFIGURED", "EMBEDDING_FAILED"} :
          \E fatal : Becomes(j, Failing(job, code, fatal))
    BY <1>3, Zenon DEF MissProvider, FailEmbedding
  <2> PICK fatal : Becomes(j, Failing(job, code, fatal))
    BY <2>1
  <2>2. UNCHANGED <<docs, chunks, requests, parser, interrupts>>
    BY <1>3 DEF MissProvider, FailEmbedding
  <2>3. PICK new : new = Failing(job, code, fatal)
    OBVIOUS
  <2>4. new.doc = d /\ new.task = "embed"
    BY <1>j, <2>3, AtKeepsJob
  <2> QED BY <1>2, <2>2, <2>3, <2>4
<1>4. ASSUME NEW pc, Becomes(j, At(job, pc)), UNCHANGED <<docs, chunks, requests, parser, interrupts>>
      PROVE  ParseInv'
  <2>1. PICK new : new = At(job, pc)
    OBVIOUS
  <2>2. new.doc = d /\ new.task = "embed"
    BY <1>j, <2>1, AtKeepsJob
  <2> QED BY <1>2, <1>4, <2>1, <2>2
<1>5. CASE SelectPending(j)
  <2>1. UNCHANGED <<docs, chunks, requests, parser, interrupts>>
    BY <1>5 DEF SelectPending
  <2>2. CASE Unembedded(d) = {}
    BY <1>4, <1>5, <2>1, <2>2 DEF SelectPending
  <2>3. CASE Unembedded(d) # {}
    <3> DEFINE new == [job EXCEPT !.pc = "calling", !.pending = {Read(d, o) : o \in Unembedded(d)}]
    <3>1. Becomes(j, new)
      BY <1>5, <2>3 DEF SelectPending
    <3>2. new.doc = d /\ new.task = "embed"
      BY <1>j, <1>job DEF Job
    <3> HIDE DEF new
    <3> QED BY <1>2, <2>1, <3>1, <3>2
  <2> QED BY <2>2, <2>3
<1>6. ASSUME NEW lost, SaveVectors(j, lost)
      PROVE  ParseInv'
  <2> DEFINE want == [job.seen EXCEPT !.error = "none"]
  <2>1. /\ docs' = Flush(d, job.seen, want) /\ Becomes(j, At(job, "ending"))
        /\ UNCHANGED <<requests, parser, interrupts>>
    BY <1>6 DEF SaveVectors
  <2>2. want.status = job.seen.status /\ want.count = job.seen.count
    BY <1>job DEF Row
  <2>3. \A e \in Docs : /\ DOMAIN chunks'[e] = DOMAIN chunks[e]
                        /\ \A o \in DOMAIN chunks[e] : chunks'[e][o].text = chunks[e][o].text
    BY <1>6 DEF SaveVectors, Vectorised, TypeOK, ChunksOK, ChunkRow
  <2> HIDE DEF want
  <2>4. SameParse
    BY <2>1, <2>2, <2>3, FlushIsSameParse
  <2>5. PICK new : new = At(job, "ending")
    OBVIOUS
  <2>6. new.doc = d /\ new.task = "embed"
    BY <1>j, <2>5, AtKeepsJob
  <2> QED BY <1>1, <2>1, <2>4, <2>5, <2>6
<1>7. ASSUME NEW lost, RaiseStale(j, lost)
      PROVE  ParseInv'
  BY <1>4, <1>7 DEF RaiseStale
<1>8. ~SurpriseEmbed(j)
  BY DEF SurpriseEmbed, Repeated
<1> QED BY <1>3, <1>5, <1>6, <1>7, <1>8 DEF EmbedStep, CompleteEmbedding, CompleteOvertaken

\* arq starts the ingestion of an unparsed document once more for every run cut short.
LEMMA WorkerParses ==
  ASSUME Repeated, TypeOK, ParseInv, NEW j \in JobIds, WorkerStep(j) \/ Interrupt(j) \/ TimeOut(j)
  PROVE  ParseInv'
<1>j. j \in DOMAIN jobs
  BY Zenon DEF WorkerStep, Interrupt, TimeOut, Runs, StartRun, Abandon, ReadForFailure, MarkFailed,
               Finish, EndRaised
<1> PICK job : job = jobs[j]
  OBVIOUS
<1> PICK d : d = job.doc
  OBVIOUS
<1>job. /\ job \in Job /\ job.seen \in Row /\ d \in Docs
        /\ job.tries \in Nat /\ interrupts \in Nat /\ parser \in Nat
        /\ interrupts + parser <= MaxTries
  <2>1. job \in Job
    BY <1>j DEF TypeOK, JobsOK
  <2>2. /\ interrupts \in Nat /\ interrupts <= MaxInterrupts /\ parser \in Nat /\ parser <= MaxParser
        /\ MaxInterrupts \in Nat /\ MaxParser \in Nat /\ MaxTries \in Nat /\ job.tries \in Nat
    BY <2>1, BoundsAssumption DEF TypeOK, BoundsOK, Job
  <2>3. interrupts + parser <= MaxTries
    BY <2>2 DEF Repeated
  <2> QED BY <2>1, <2>2, <2>3 DEF Job
<1>goes. ASSUME job.task = "ingest", Unparsed(d)
         PROVE  /\ job.pc \in {"queued", "loaded", "parsing", "chunking", "replacing"}
                /\ job.pc = "queued" => job.tries + 1 <= interrupts + parser
                /\ job.pc # "queued" => job.tries + 0 <= interrupts + parser
  BY <1>goes, <1>j DEF ParseInv, GoesOn, Ingesting, Ingests
<1>1. ASSUME NEW new, Becomes(j, new), SameParse, new.doc = d, new.task = job.task,
             requests' = requests, interrupts' \in {interrupts, interrupts + 1},
             job.task = "ingest" /\ Unparsed(d) =>
               /\ new.pc \in {"queued", "loaded"}
               /\ new.tries + (IF new.pc = "queued" THEN 1 ELSE 0) <= interrupts' + parser
      PROVE  ParseInv'
  <2>1. job.task = "ingest" /\ Unparsed(d) => Ingesting(new)
    BY <1>1 DEF Ingesting, Ingests
  <2> HIDE DEF Ingesting, Unparsed
  <2> QED BY <1>1, <1>j, <2>1, OneMoveParses
<1>2. ASSUME job.pc \in {"failing", "marking", "raising", "ending"}, NEW new, Becomes(j, new), SameParse,
             new.doc = d, new.task = job.task, UNCHANGED <<requests, interrupts>>
      PROVE  ParseInv'
  <2>1. ~(job.task = "ingest" /\ Unparsed(d))
    BY <1>2, <1>goes
  <2> QED BY <1>1, <1>2, <2>1
<1>3. ASSUME jobs' = Ended(jobs, j), UNCHANGED <<docs, chunks, requests, parser, interrupts>>,
             job.task = "ingest" => ~Unparsed(d)
      PROVE  ParseInv'
  BY <1>3, <1>j, OneEndParses
<1>4. CASE StartRun(j)
  <2>1. job.pc = "queued" /\ UNCHANGED <<docs, chunks, requests, parser, interrupts>>
    BY <1>4 DEF StartRun
  <2>2. CASE ~Exists(d)
    BY <1>3, <1>4, <2>1, <2>2 DEF StartRun, Unparsed, Readable
  <2>3. CASE Exists(d)
    <3> DEFINE new == [job EXCEPT !.pc = "loaded", !.seen = docs[d], !.tries = @ + 1]
    <3>1. Becomes(j, new)
      BY <1>4, <1>j, <2>3 DEF StartRun, Becomes
    <3>2. new.doc = d /\ new.task = job.task /\ new.pc = "loaded" /\ new.tries = job.tries + 1
      BY <1>job DEF Job
    <3> HIDE DEF new
    <3>3. job.task = "ingest" /\ Unparsed(d) =>
            /\ new.pc \in {"queued", "loaded"}
            /\ new.tries + (IF new.pc = "queued" THEN 1 ELSE 0) <= interrupts' + parser
      BY <1>job, <1>goes, <2>1, <3>2
    <3>4. SameParse
      BY <2>1, TablesAlone
    <3> QED BY <1>1, <2>1, <3>1, <3>2, <3>3, <3>4
  <2> QED BY <2>2, <2>3
<1>5. CASE Abandon(j)
  <2>1. /\ jobs' = Ended(jobs, j) /\ UNCHANGED <<docs, chunks, requests, parser, interrupts>>
        /\ job.pc = "queued" /\ job.tries = MaxTries
    BY <1>5 DEF Abandon
  <2>2. ~(job.task = "ingest" /\ Unparsed(d))
    BY <1>job, <1>goes, <2>1
  <2> QED BY <1>3, <2>1, <2>2
<1>6. CASE ReadForFailure(j)
  <2>1. job.pc = "failing" /\ UNCHANGED <<docs, chunks, requests, parser, interrupts>>
    BY <1>6 DEF ReadForFailure
  <2>2. SameParse /\ ~(job.task = "ingest" /\ Unparsed(d))
    BY <1>goes, <2>1, TablesAlone
  <2>3. CASE Exists(d)
    <3> DEFINE new == [job EXCEPT !.pc = "marking", !.seen = docs[d]]
    <3>1. Becomes(j, new)
      BY <1>6, <2>3 DEF ReadForFailure, Becomes
    <3>2. new.doc = d /\ new.task = job.task
      BY <1>job DEF Job
    <3> HIDE DEF new
    <3> QED BY <1>2, <2>1, <2>2, <3>1, <3>2
  <2>4. CASE ~Exists(d) /\ job.fatal
    <3>1. PICK new : new = At(job, "raising")
      OBVIOUS
    <3>2. new.doc = d /\ new.task = job.task /\ Becomes(j, new)
      BY <1>6, <2>4, <3>1, AtKeepsJob DEF ReadForFailure, Becomes
    <3> QED BY <1>2, <2>1, <2>2, <3>2
  <2>5. CASE ~Exists(d) /\ ~job.fatal
    BY <1>3, <1>6, <2>1, <2>2, <2>5 DEF ReadForFailure
  <2> QED BY <2>3, <2>4, <2>5
<1>7. CASE MarkFailed(j)
  <2> DEFINE want == [job.seen EXCEPT !.status = "failed", !.error = job.code]
  <2>1. /\ docs' = Flush(d, job.seen, want) /\ UNCHANGED <<chunks, requests, parser, interrupts>>
        /\ job.pc = "marking"
    BY <1>7 DEF MarkFailed
  <2>2. PICK pc \in {"raising", "ending"} : Becomes(j, At(job, pc))
    BY <1>7 DEF MarkFailed, Becomes
  <2>3. want.status = "failed" /\ want.count = job.seen.count
    BY <1>job DEF Row
  <2> HIDE DEF want
  <2>4. SameParse
    BY <2>1, <2>3, FlushIsSameParse
  <2>5. PICK new : new = At(job, pc)
    OBVIOUS
  <2>6. new.doc = d /\ new.task = job.task
    BY <2>5, AtKeepsJob
  <2> QED BY <1>2, <2>1, <2>2, <2>4, <2>5, <2>6
<1>8. CASE Finish(j)
  BY <1>3, <1>8, <1>goes DEF Finish
<1>9. CASE EndRaised(j)
  <2>1. job.pc = "raising" /\ UNCHANGED <<docs, chunks, requests, parser, interrupts>>
    BY <1>9 DEF EndRaised
  <2>2. SameParse /\ ~(job.task = "ingest" /\ Unparsed(d))
    BY <1>goes, <2>1, TablesAlone
  <2>3. CASE Becomes(j, At(job, "queued"))
    <3>1. PICK new : new = At(job, "queued")
      OBVIOUS
    <3>2. new.doc = d /\ new.task = job.task
      BY <3>1, AtKeepsJob
    <3> QED BY <1>2, <2>1, <2>2, <2>3, <3>1, <3>2
  <2> QED BY <1>3, <1>9, <2>1, <2>2, <2>3 DEF EndRaised, Becomes
<1>10. CASE Interrupt(j)
  <2>1. /\ Becomes(j, At(job, "queued")) /\ UNCHANGED <<docs, chunks, requests, parser>>
        /\ interrupts' = interrupts + 1 /\ job.pc # "queued"
    BY <1>10 DEF Interrupt, Runs, Becomes
  <2>2. PICK new : new = At(job, "queued")
    OBVIOUS
  <2>3. new.doc = d /\ new.task = job.task /\ new.pc = "queued" /\ new.tries = job.tries
    BY <2>2, AtKeepsJob
  <2>4. job.task = "ingest" /\ Unparsed(d) =>
          new.tries + (IF new.pc = "queued" THEN 1 ELSE 0) <= interrupts' + parser
    BY <1>job, <1>goes, <2>1, <2>3
  <2>5. SameParse
    BY <2>1, TablesAlone
  <2> QED BY <1>1, <2>1, <2>2, <2>3, <2>4, <2>5
<1>11. ~TimeOut(j)
  BY DEF TimeOut, Repeated
<1> QED BY <1>4, <1>5, <1>6, <1>7, <1>8, <1>9, <1>10, <1>11 DEF WorkerStep

\* A new job is to be run once: it has a run to spare.
LEMMA EnqueuedGoesOn ==
  ASSUME TypeOK, NEW k, k \in DOMAIN jobs', NEW task, NEW n, jobs'[k] = Queued(task, n, 0),
         UNCHANGED <<interrupts, parser>>
  PROVE  /\ GoesOn(jobs[k])' /\ jobs'[k].doc = n
         /\ task = "ingest" => Ingesting(jobs'[k])
<1>1. interrupts \in Nat /\ parser \in Nat \ {0}
  BY BoundsAssumption DEF TypeOK, BoundsOK
<1>2. jobs'[k].doc = n /\ jobs'[k].task = task /\ jobs'[k].pc = "queued" /\ jobs'[k].tries = 0
  BY DEF Queued
<1>3. task = "ingest" => Ingesting(jobs'[k])
  BY <1>2 DEF Ingesting, Ingests
<1> HIDE DEF Ingesting, Unparsed
<1> QED BY <1>1, <1>2, <1>3 DEF GoesOn

\* A job that is not touched goes on, where nothing about its document is worse.
LEMMA OthersGoOn ==
  ASSUME TypeOK, ParseInv, NEW i \in DOMAIN jobs, i \in DOMAIN jobs', jobs'[i] = jobs[i],
         UNCHANGED <<interrupts, parser>>, \A e : Unparsed(e)' => Unparsed(e) \/ e # jobs[i].doc
  PROVE  GoesOn(jobs[i])'
<1> HIDE DEF Ingesting, Unparsed
<1>1. PICK e : e = jobs[i].doc
  OBVIOUS
<1>2. Unparsed(e)' => Unparsed(e)
  BY <1>1
<1> QED BY <1>1, <1>2 DEF ParseInv, GoesOn

\* An upload ends with the ingestion of its document in the queue.
LEMMA UploadsParse ==
  ASSUME Repeated, TypeOK, UploadInv, ParseInv, UploadNext
  PROVE  ParseInv'
<1> PICK r \in Requests : \/ \E c \in Contents, d \in Docs : CheckUpload(r, c, d) \/ RejectDuplicate(r, c, d)
                          \/ UploadStep(r)
                          \/ LoseRequest(r)
  BY DEF UploadNext
<1>1. ASSUME UNCHANGED <<docs, chunks, jobs, interrupts, parser>>,
             \A q \in DOMAIN requests :
               requests[q].pc = "committed" => q \in DOMAIN requests' /\ requests'[q] = requests[q]
      PROVE  ParseInv'
  <2>1. \A e : (Unparsed(e)' <=> Unparsed(e)) /\ (Requested(e) => Requested(e)')
    BY <1>1 DEF Unparsed, Readable, Exists, Parsed, OneParse, Requested
  <2>2. \A i \in DOMAIN jobs : GoesOn(jobs[i])'
    BY <1>1, <2>1, OthersGoOn
  <2>3. \A e \in DOMAIN docs : ToBeParsed(e)'
    <3> HIDE DEF Unparsed, Requested, Ingesting
    <3> QED BY <1>1, <2>1 DEF ParseInv, ToBeParsed
  <2> QED BY <1>1, <2>2, <2>3 DEF ParseInv
<1>2. ASSUME NEW c \in Contents, NEW d \in Docs, CheckUpload(r, c, d) \/ RejectDuplicate(r, c, d)
      PROVE  ParseInv'
  <2>1. /\ UNCHANGED <<docs, chunks, jobs, interrupts, parser>> /\ r \notin DOMAIN requests
        /\ \E pc \in {"checked", "conflict"} :
             requests' = With(requests, r, [pc |-> pc, content |-> c, doc |-> d])
    BY <1>2 DEF CheckUpload, RejectDuplicate
  <2>2. /\ DOMAIN requests' = DOMAIN requests \cup {r}
        /\ \A q \in DOMAIN requests : requests'[q] = requests[q]
    BY <2>1 DEF With
  <2> QED BY <1>1, <2>1, <2>2
<1>3. CASE StoreObject(r) \/ ViolateConstraint(r)
  <2>1. /\ UNCHANGED <<docs, chunks, jobs, interrupts, parser>> /\ requests[r].pc # "committed"
        /\ \E pc \in {"stored", "error"} : requests' = [requests EXCEPT ![r].pc = pc]
    BY <1>3 DEF StoreObject, ViolateConstraint, Answer
  <2>2. /\ DOMAIN requests' = DOMAIN requests
        /\ \A q \in DOMAIN requests \ {r} : requests'[q] = requests[q]
    BY <2>1
  <2> QED BY <1>1, <2>1, <2>2
<1>4. CASE InsertDocument(r)
  <2> PICK n : n = requests[r].doc
    OBVIOUS
  <2> DEFINE row == NewRow(requests[r].content)
  <2>1. /\ docs' = With(docs, n, row) /\ UNCHANGED <<chunks, jobs, interrupts, parser>>
        /\ requests' = [requests EXCEPT ![r].pc = "committed"]
        /\ r \in DOMAIN requests /\ requests[r] \in Request /\ requests[r].pc = "stored"
    BY <1>4 DEF InsertDocument, Answer, TypeOK, RequestsOK
  <2>2. /\ DOMAIN requests' = DOMAIN requests /\ requests'[r].doc = n /\ requests'[r].pc = "committed"
        /\ \A q \in DOMAIN requests \ {r} : requests'[q] = requests[q]
    BY <2>1 DEF Request
  <2>3. n \notin DOMAIN docs /\ \A i \in DOMAIN jobs : jobs[i].doc # n
    BY <2>1 DEF UploadInv, UploadsOwnIds, Exists
  <2>4. DOMAIN docs' = DOMAIN docs \cup {n} /\ \A e \in DOMAIN docs : docs'[e] = docs[e]
    BY <2>1, <2>3 DEF With
  <2>5. \A e : e # n => (Unparsed(e)' => Unparsed(e)) /\ (Requested(e) => Requested(e)')
    BY <2>1, <2>2, <2>4 DEF Unparsed, Readable, Exists, Parsed, OneParse, Requested
  <2>6. \A i \in DOMAIN jobs : GoesOn(jobs[i])'
    BY <2>1, <2>3, <2>5, OthersGoOn
  <2>7. Requested(n)'
    BY <2>1, <2>2 DEF Requested
  <2>8. \A e \in DOMAIN docs' : ToBeParsed(e)'
    <3> HIDE DEF Unparsed, Requested, Ingesting
    <3> QED BY <2>1, <2>4, <2>5, <2>7 DEF ParseInv, ToBeParsed
  <2> QED BY <2>1, <2>6, <2>8 DEF ParseInv
<1>5. CASE EnqueueIngestion(r)
  <2> PICK n : n = requests[r].doc
    OBVIOUS
  <2>1. PICK k \in FreeJobs : jobs' = Enqueue(jobs, k, "ingest", n)
    BY <1>5 DEF EnqueueIngestion
  <2>2. /\ UNCHANGED <<docs, chunks, interrupts, parser>> /\ requests' = [requests EXCEPT ![r].pc = "accepted"]
    BY <1>5 DEF EnqueueIngestion, Answer
  <2>3. /\ DOMAIN jobs' = DOMAIN jobs \cup {k} /\ jobs'[k] = Queued("ingest", n, 0)
        /\ \A i \in DOMAIN jobs : jobs'[i] = jobs[i]
    BY <2>1 DEF FreeJobs, Enqueue, With
  <2>4. GoesOn(jobs[k])' /\ jobs'[k].doc = n /\ Ingesting(jobs'[k])
    BY <2>2, <2>3, EnqueuedGoesOn
  <2>5. \A e : /\ Unparsed(e)' => Unparsed(e)
               /\ e # n => (Requested(e) => Requested(e)')
    BY <2>2 DEF Unparsed, Readable, Exists, Parsed, OneParse, Requested
  <2>6. \A i \in DOMAIN jobs' : GoesOn(jobs[i])'
    BY <2>2, <2>3, <2>4, <2>5, OthersGoOn
  <2>7. \A e \in DOMAIN docs' : ToBeParsed(e)'
    <3> HIDE DEF Unparsed, Requested, Ingesting
    <3> QED BY <2>2, <2>3, <2>4, <2>5 DEF ParseInv, ToBeParsed
  <2> QED BY <2>6, <2>7 DEF ParseInv
<1>6. ~LoseRequest(r)
  BY DEF LoseRequest, Repeated
<1> QED BY <1>2, <1>3, <1>4, <1>5, <1>6 DEF UploadStep

(* A release runs again what it cut short, a job queued by hand is one more*)
(* that may parse the document, and what is deleted need not be parsed.    *)
LEMMA OutsideParses ==
  ASSUME Repeated, TypeOK, ParseInv, Outside
  PROVE  ParseInv'
<1>0. /\ interrupts \in Nat /\ parser \in Nat
      /\ \A i \in DOMAIN jobs : jobs[i].tries \in Nat
  BY BoundsAssumption DEF TypeOK, BoundsOK, JobsOK, Job
<1>1. CASE Redeploy
  <2>1. /\ UNCHANGED <<docs, chunks, requests, interrupts>> /\ parser' = parser + 1
        /\ jobs' = [i \in DOMAIN jobs |-> At(jobs[i], "queued")]
    BY <1>1 DEF Redeploy
  <2>2. \A i \in DOMAIN jobs : /\ i \in DOMAIN jobs' /\ jobs'[i].doc = jobs[i].doc
                               /\ jobs'[i].task = jobs[i].task /\ jobs'[i].pc = "queued"
                               /\ jobs'[i].tries = jobs[i].tries
    BY <2>1, AtKeepsJob
  <2>3. DOMAIN jobs' = DOMAIN jobs
    BY <2>1
  <2>4. \A e : (Unparsed(e)' <=> Unparsed(e)) /\ (Requested(e)' <=> Requested(e))
    BY <2>1 DEF Unparsed, Readable, Exists, Parsed, OneParse, Requested
  <2>5. \A i \in DOMAIN jobs : Ingesting(jobs'[i]) <=> jobs[i].task = "ingest"
    BY <2>2 DEF Ingesting, Ingests
  <2>6. \A i \in DOMAIN jobs : Ingesting(jobs[i]) => jobs[i].task = "ingest"
    BY DEF Ingesting, Ingests
  <2> HIDE DEF Unparsed, Requested, Ingesting
  <2>7. ASSUME NEW i \in DOMAIN jobs
        PROVE  GoesOn(jobs[i])'
    <3>1. PICK e : e = jobs[i].doc
      OBVIOUS
    <3>2. CASE jobs[i].task = "ingest" /\ Unparsed(e)
      <4>1. jobs[i].tries + (IF jobs[i].pc = "queued" THEN 1 ELSE 0) <= interrupts + parser
        BY <3>1, <3>2 DEF ParseInv, GoesOn
      <4>2. jobs[i].tries + 1 <= interrupts + (parser + 1)
        BY <1>0, <4>1
      <4> QED BY <2>1, <2>2, <2>5, <3>2, <4>2 DEF GoesOn
    <3>3. CASE ~(jobs[i].task = "ingest" /\ Unparsed(e))
      BY <2>2, <2>4, <3>1, <3>3 DEF GoesOn
    <3> QED BY <3>2, <3>3
  <2>8. \A e \in DOMAIN docs : ToBeParsed(e)'
    BY <2>2, <2>3, <2>4, <2>5, <2>6 DEF ParseInv, ToBeParsed
  <2> QED BY <2>1, <2>3, <2>7, <2>8 DEF ParseInv
<1>2. ASSUME NEW d \in Docs, NEW t \in Tasks, Rerun(d, t)
      PROVE  ParseInv'
  <2>1. PICK k \in FreeJobs : jobs' = Enqueue(jobs, k, t, d)
    BY <1>2 DEF Rerun
  <2>2. UNCHANGED <<docs, chunks, requests, interrupts, parser>>
    BY <1>2 DEF Rerun
  <2>3. /\ DOMAIN jobs' = DOMAIN jobs \cup {k} /\ jobs'[k] = Queued(t, d, 0)
        /\ \A i \in DOMAIN jobs : jobs'[i] = jobs[i]
    BY <2>1 DEF FreeJobs, Enqueue, With
  <2>4. GoesOn(jobs[k])'
    BY <2>2, <2>3, EnqueuedGoesOn
  <2>5. \A e : (Unparsed(e)' => Unparsed(e)) /\ (Requested(e) => Requested(e)')
    BY <2>2 DEF Unparsed, Readable, Exists, Parsed, OneParse, Requested
  <2>6. \A i \in DOMAIN jobs' : GoesOn(jobs[i])'
    BY <2>2, <2>3, <2>4, <2>5, OthersGoOn
  <2>7. \A e \in DOMAIN docs' : ToBeParsed(e)'
    <3> HIDE DEF Unparsed, Requested, Ingesting
    <3> QED BY <2>2, <2>3, <2>5 DEF ParseInv, ToBeParsed
  <2> QED BY <2>6, <2>7 DEF ParseInv
<1>3. ASSUME NEW d \in Docs, DeleteDocument(d)
      PROVE  ParseInv'
  <2>1. /\ DOMAIN docs' = DOMAIN docs \ {d} /\ \A e \in DOMAIN docs' : docs'[e] = docs[e]
        /\ \A e \in Docs : e # d => chunks'[e] = chunks[e]
        /\ UNCHANGED <<jobs, requests, interrupts, parser>>
    BY <1>3 DEF DeleteDocument, TypeOK, ChunksOK
  <2>2. ASSUME NEW e, Unparsed(e)'
        PROVE  Unparsed(e)
    <3>1. e \in DOMAIN docs' /\ docs'[e] = docs[e] /\ e \in DOMAIN docs /\ chunks'[e] = chunks[e]
      BY <2>1, <2>2 DEF Unparsed, Readable, Exists, TypeOK, DocsOK
    <3> QED BY <2>2, <3>1 DEF Unparsed, Readable, Exists, Parsed, OneParse
  <2>3. \A i \in DOMAIN jobs : GoesOn(jobs[i])'
    BY <2>1, <2>2, OthersGoOn
  <2>4. \A e \in DOMAIN docs' : ToBeParsed(e)'
    <3>1. \A e : Requested(e)' <=> Requested(e)
      BY <2>1 DEF Requested
    <3> HIDE DEF Unparsed, Requested, Ingesting
    <3> QED BY <2>1, <2>2, <3>1 DEF ParseInv, ToBeParsed
  <2> QED BY <2>1, <2>3, <2>4 DEF ParseInv
<1> QED BY <1>1, <1>2, <1>3 DEF Outside

\* Every step keeps what makes a readable document parsed in the end.
LEMMA NextParseInv ==
  ASSUME Repeated, TypeOK, UploadInv, PipelineInv, PipelineInv', ParseInv, [Next]_vars
  PROVE  ParseInv'
<1>1. CASE UNCHANGED vars
  <2>1. UNCHANGED <<docs, chunks, jobs, requests, interrupts, parser>>
    BY <1>1 DEF vars
  <2>2. \A e : (Unparsed(e)' <=> Unparsed(e)) /\ (Requested(e)' <=> Requested(e))
    BY <2>1 DEF Unparsed, Readable, Exists, Parsed, OneParse, Requested
  <2>3. \A i \in DOMAIN jobs : GoesOn(jobs[i])'
    BY <2>1, <2>2, OthersGoOn
  <2>4. \A e \in DOMAIN docs : ToBeParsed(e)'
    <3> HIDE DEF Unparsed, Requested, Ingesting
    <3> QED BY <2>1, <2>2 DEF ParseInv, ToBeParsed
  <2> QED BY <2>1, <2>3, <2>4 DEF ParseInv
<1>2. CASE UploadNext
  BY <1>2, UploadsParse
<1>3. CASE Outside
  BY <1>3, OutsideParses
<1>4. CASE \E j \in JobIds : JobStep(j) \/ JobFault(j)
  BY <1>4, IngestParses, EmbedParses, WorkerParses DEF JobStep, JobFault
<1> QED BY <1>1, <1>2, <1>3, <1>4 DEF Next
-----------------------------------------------------------------------------
(* While nobody queues a job by hand, no ingestion meets another: none of  *)
(* a readable document fails.                                              *)

\* A document has one ingestion: a request that is to queue it, or a job.
OneIngestion ==
  /\ \A r \in DOMAIN requests : requests[r].pc = "committed" =>
       /\ \A j \in DOMAIN jobs : jobs[j].doc # requests[r].doc
       /\ \A q \in DOMAIN requests \ {r} :
            requests[q].pc = "committed" => requests[q].doc # requests[r].doc
  /\ \A i, j \in DOMAIN jobs :
       jobs[i].task = "ingest" /\ jobs[j].task = "ingest" /\ jobs[i].doc = jobs[j].doc => i = j

(* Of a readable document an ingestion never fails, since it deletes every *)
(* chunk there is; and embedding has another code to record.               *)
Succeeds(job) ==
  /\ job.task = "ingest" /\ Readable(job.doc) =>
       /\ job.pc \notin {"failing", "marking", "raising"}
       /\ job.pc = "replacing" => job.cleared = DOMAIN chunks[job.doc]
  /\ job.task = "embed" => job.code # "INGESTION_FAILED"

SucceedInv ==
  /\ OneIngestion
  /\ \A j \in DOMAIN jobs : Succeeds(jobs[j])
  /\ \A d \in DOMAIN docs : Readable(d) => docs[d].error # "INGESTION_FAILED"

\* No step of a job makes another ingestion.
LEMMA OneIngestionStays ==
  ASSUME OneIngestion, requests' = requests,
         \A i \in DOMAIN jobs' :
           /\ \E k \in DOMAIN jobs : jobs'[i].doc = jobs[k].doc
           /\ jobs'[i].task = "ingest" =>
                i \in DOMAIN jobs /\ jobs[i].task = "ingest" /\ jobs'[i].doc = jobs[i].doc
  PROVE  OneIngestion'
  BY DEF OneIngestion

(* A step of one job: what it has to keep of its own document and of itself*)
(* for everything else to be as good as it was.                            *)
LEMMA OneJobSucceeds ==
  ASSUME TypeOK, SucceedInv, NEW j \in DOMAIN jobs, NEW d, d = jobs[j].doc, requests' = requests,
         DOMAIN docs' = DOMAIN docs,
         \A e \in DOMAIN docs : /\ docs'[e].content = docs[e].content
                                /\ e # d => docs'[e] = docs[e],
         \A e \in DOMAIN docs : DOMAIN chunks'[e] = DOMAIN chunks[e] \/ (e = d /\ jobs[j].task = "ingest"),
         \A i \in DOMAIN jobs \ {j} :
           /\ i \in DOMAIN jobs' /\ jobs'[i].doc = jobs[i].doc /\ jobs'[i].task = jobs[i].task
           /\ jobs'[i].code = jobs[i].code
           /\ jobs[i].task = "ingest" => jobs'[i] = jobs[i],
         \A i \in DOMAIN jobs' \ DOMAIN jobs :
           jobs'[i].task = "embed" /\ jobs'[i].doc = d /\ jobs'[i].code = "none",
         j \in DOMAIN jobs' =>
           jobs'[j].doc = d /\ jobs'[j].task = jobs[j].task /\ Succeeds(jobs[j])',
         Readable(d) => docs'[d].error # "INGESTION_FAILED"
  PROVE  SucceedInv'
<1>1. \A e : Readable(e)' <=> Readable(e)
  BY DEF Readable, Exists
<1>2. OneIngestion'
  <2>1. ASSUME NEW i \in DOMAIN jobs'
        PROVE  /\ \E k \in DOMAIN jobs : jobs'[i].doc = jobs[k].doc
               /\ jobs'[i].task = "ingest" =>
                    i \in DOMAIN jobs /\ jobs[i].task = "ingest" /\ jobs'[i].doc = jobs[i].doc
    <3>1. CASE i \notin DOMAIN jobs
      BY <2>1, <3>1
    <3>2. CASE i = j
      BY <2>1, <3>2
    <3>3. CASE i \in DOMAIN jobs \ {j}
      BY <3>3
    <3> QED BY <3>1, <3>2, <3>3
  <2> QED BY <2>1, OneIngestionStays DEF SucceedInv
<1>3. ASSUME NEW i \in DOMAIN jobs'
      PROVE  Succeeds(jobs[i])'
  <2>1. CASE i \notin DOMAIN jobs
    BY <2>1 DEF Succeeds
  <2>2. CASE i = j
    BY <1>3, <2>2
  <2>3. CASE i \in DOMAIN jobs \ {j}
    <3>1. PICK e : e = jobs[i].doc
      OBVIOUS
    <3>2. Succeeds(jobs[i])
      BY <2>3 DEF SucceedInv
    <3>3. Readable(e) /\ jobs[i].task = "ingest" => DOMAIN chunks'[e] = DOMAIN chunks[e]
      BY <2>3, <3>1 DEF Readable, Exists, SucceedInv, OneIngestion
    <3>4. /\ jobs'[i].doc = e /\ jobs'[i].task = jobs[i].task /\ jobs'[i].code = jobs[i].code
          /\ jobs[i].task = "ingest" => jobs'[i] = jobs[i]
      BY <2>3, <3>1
    <3> QED BY <1>1, <3>1, <3>2, <3>3, <3>4 DEF Succeeds
  <2> QED BY <2>1, <2>2, <2>3
<1>4. \A e \in DOMAIN docs' : Readable(e)' => docs'[e].error # "INGESTION_FAILED"
  BY <1>1 DEF SucceedInv
<1> QED BY <1>2, <1>3, <1>4 DEF SucceedInv

\* The case of a step that leaves the tables and every other job alone.
LEMMA OneMoveSucceeds ==
  ASSUME TypeOK, SucceedInv, NEW j \in DOMAIN jobs, NEW d, d = jobs[j].doc, NEW new, Becomes(j, new),
         UNCHANGED <<docs, chunks, requests>>, new.doc = d, new.task = jobs[j].task, Succeeds(new)
  PROVE  SucceedInv'
<1>1. /\ \A i \in DOMAIN jobs \ {j} : i \in DOMAIN jobs' /\ jobs'[i] = jobs[i]
      /\ \A i \in DOMAIN jobs' \ DOMAIN jobs : FALSE
      /\ j \in DOMAIN jobs' /\ jobs'[j] = new
  BY DEF Becomes
<1>2. Succeeds(jobs[j])'
  BY <1>1 DEF Succeeds, Readable, Exists
<1>3. Readable(d) => docs'[d].error # "INGESTION_FAILED"
  BY DEF SucceedInv, Readable, Exists
<1>4. /\ DOMAIN docs' = DOMAIN docs
      /\ \A e \in DOMAIN docs : docs'[e] = docs[e] /\ DOMAIN chunks'[e] = DOMAIN chunks[e]
  OBVIOUS
<1> HIDE DEF Readable, Succeeds
<1> QED BY <1>1, <1>2, <1>3, <1>4, OneJobSucceeds

LEMMA OneEndSucceeds ==
  ASSUME TypeOK, SucceedInv, NEW j \in DOMAIN jobs, jobs' = Ended(jobs, j),
         UNCHANGED <<docs, chunks, requests>>
  PROVE  SucceedInv'
<1> PICK d : d = jobs[j].doc
  OBVIOUS
<1>1. /\ \A i \in DOMAIN jobs \ {j} : i \in DOMAIN jobs' /\ jobs'[i] = jobs[i]
      /\ \A i \in DOMAIN jobs' \ DOMAIN jobs : FALSE
      /\ j \notin DOMAIN jobs'
  BY DEF Ended
<1>2. Readable(d) => docs'[d].error # "INGESTION_FAILED"
  BY DEF SucceedInv, Readable, Exists
<1>3. /\ DOMAIN docs' = DOMAIN docs
      /\ \A e \in DOMAIN docs : docs'[e] = docs[e] /\ DOMAIN chunks'[e] = DOMAIN chunks[e]
  OBVIOUS
<1> HIDE DEF Readable, Succeeds
<1> QED BY <1>1, <1>2, <1>3, OneJobSucceeds

\* A step that writes the row as well, with an error that is not an ingestion's.
LEMMA OneWriteSucceeds ==
  ASSUME TypeOK, SucceedInv, NEW j \in DOMAIN jobs, NEW d, d = jobs[j].doc, NEW new, Becomes(j, new),
         NEW want, docs' = Flush(d, jobs[j].seen, want),
         Readable(d) => want.error = jobs[j].seen.error \/ want.error # "INGESTION_FAILED",
         \A e \in DOMAIN docs : DOMAIN chunks'[e] = DOMAIN chunks[e],
         requests' = requests, new.doc = d, new.task = jobs[j].task, Succeeds(new)
  PROVE  SucceedInv'
<1>1. /\ \A i \in DOMAIN jobs \ {j} : i \in DOMAIN jobs' /\ jobs'[i] = jobs[i]
      /\ \A i \in DOMAIN jobs' \ DOMAIN jobs : FALSE
      /\ j \in DOMAIN jobs' /\ jobs'[j] = new
  BY DEF Becomes
<1>2. /\ DOMAIN docs' = DOMAIN docs
      /\ \A e \in DOMAIN docs : docs'[e].content = docs[e].content /\ (e # d => docs'[e] = docs[e])
      /\ Exists(d) => docs'[d].error = IF want.error = jobs[j].seen.error THEN docs[d].error ELSE want.error
  BY DEF Flush, Exists
<1>3. Readable(d) => docs'[d].error # "INGESTION_FAILED"
  BY <1>2 DEF SucceedInv, Readable, Exists
<1>4. Readable(d)' => Readable(d) /\ DOMAIN chunks'[d] = DOMAIN chunks[d]
  BY <1>2 DEF Readable, Exists
<1>5. Succeeds(jobs[j])'
  BY <1>1, <1>4 DEF Succeeds
<1> HIDE DEF Readable, Succeeds
<1> QED BY <1>1, <1>2, <1>3, <1>5, OneJobSucceeds

\* The ingestion of a readable document commits its chunks.
LEMMA IngestSucceeds ==
  ASSUME Repeated, TypeOK, UploadInv, PipelineInv, SucceedInv, NEW j \in JobIds,
         IngestStep(j) \/ SurpriseIngest(j) \/ LoseEmbedding(j)
  PROVE  SucceedInv'
<1>j. j \in DOMAIN jobs /\ jobs[j].task = "ingest"
  BY Zenon DEF IngestStep, SurpriseIngest, LoseEmbedding, Running, StartParsing, FailParsing,
               StartChunking, DeleteChunks, CommitChunks, RejectChunks, EnqueueEmbedding, SkipEmbedding
<1> PICK job : job = jobs[j]
  OBVIOUS
<1> PICK d : d = job.doc
  OBVIOUS
<1>job. job \in Job /\ job.seen \in Row /\ d \in Docs /\ SafeJob(job) /\ Succeeds(job)
  BY <1>j DEF TypeOK, JobsOK, Job, PipelineInv, ReplacementIsSafe, SucceedInv
<1>1. ASSUME ~Readable(d), NEW code, NEW fatal, Becomes(j, Failing(job, code, fatal)),
             UNCHANGED <<docs, chunks, requests>>
      PROVE  SucceedInv'
  <2>1. PICK new : new = Failing(job, code, fatal)
    OBVIOUS
  <2>2. new.doc = d /\ new.task = "ingest"
    BY <1>j, <2>1, AtKeepsJob
  <2>3. Succeeds(new)
    BY <1>1, <2>2 DEF Succeeds
  <2> QED BY <1>1, <1>j, <2>1, <2>2, <2>3, OneMoveSucceeds
<1>2. CASE FailParsing(j)
  <2>1. ~Readable(d)
    BY <1>2, <1>job DEF FailParsing, Running, Readable, SafeJob, Ingests, Exists, UploadInv, ObjectBeforeRow
  <2>2. \E code, fatal : Becomes(j, Failing(job, code, fatal))
    BY <1>2, Zenon DEF FailParsing
  <2> QED BY <1>1, <1>2, <2>1, <2>2 DEF FailParsing
<1>3. CASE RejectChunks(j)
  <2>1. ~Readable(d)
    BY <1>3, <1>job DEF RejectChunks, Running, Readable, Succeeds, Clash, Survivors
  <2> QED BY <1>1, <1>3, <2>1 DEF RejectChunks, Crashed
<1>4. ASSUME NEW pc \in {"parsing", "chunking"}, NEW want, want.error = job.seen.error,
             \/ /\ docs' = Flush(d, job.seen, want)
                /\ Becomes(j, [job EXCEPT !.pc = pc, !.seen = want])
             \/ ~Exists(d) /\ Crashed(j) /\ UNCHANGED docs,
             UNCHANGED <<chunks, requests>>
      PROVE  SucceedInv'
  <2>1. CASE Crashed(j) /\ ~Exists(d) /\ UNCHANGED docs
    BY <1>1, <1>4, <2>1 DEF Crashed, Readable
  <2>2. CASE docs' = Flush(d, job.seen, want) /\ Becomes(j, [job EXCEPT !.pc = pc, !.seen = want])
    <3> DEFINE new == [job EXCEPT !.pc = pc, !.seen = want]
    <3>1. Becomes(j, new)
      BY <2>2
    <3>2. new.doc = d /\ new.task = "ingest" /\ new.pc = pc
      BY <1>j, <1>job DEF Job
    <3> HIDE DEF new
    <3>3. Succeeds(new)
      BY <3>2 DEF Succeeds
    <3>4. \A e \in DOMAIN docs : DOMAIN chunks'[e] = DOMAIN chunks[e]
      BY <1>4
    <3> HIDE DEF Readable, Succeeds
    <3> QED BY <1>4, <1>j, <2>2, <3>1, <3>2, <3>3, <3>4, OneWriteSucceeds
  <2> QED BY <1>4, <2>1, <2>2
<1>5. CASE StartParsing(j)
  <2> DEFINE want == [job.seen EXCEPT !.status = "parsing"]
  <2>1. /\ UNCHANGED <<chunks, requests>>
        /\ \/ /\ docs' = Flush(d, job.seen, want)
              /\ Becomes(j, [job EXCEPT !.pc = "parsing", !.seen = want])
           \/ ~Exists(d) /\ Crashed(j) /\ UNCHANGED docs
    BY <1>5 DEF StartParsing
  <2>2. want.error = job.seen.error
    BY <1>job DEF Row
  <2>3. PICK pc \in {"parsing", "chunking"} : pc = "parsing"
    OBVIOUS
  <2> HIDE DEF want
  <2> QED BY <1>4, <2>1, <2>2, <2>3
<1>6. CASE StartChunking(j)
  <2> DEFINE want == [job.seen EXCEPT !.status = "chunking"]
  <2>1. /\ UNCHANGED <<chunks, requests>>
        /\ \/ /\ docs' = Flush(d, job.seen, want)
              /\ Becomes(j, [job EXCEPT !.pc = "chunking", !.seen = want])
           \/ ~Exists(d) /\ Crashed(j) /\ UNCHANGED docs
    BY <1>6 DEF StartChunking
  <2>2. want.error = job.seen.error
    BY <1>job DEF Row
  <2>3. PICK pc \in {"parsing", "chunking"} : pc = "chunking"
    OBVIOUS
  <2> HIDE DEF want
  <2> QED BY <1>4, <2>1, <2>2, <2>3
<1>7. CASE DeleteChunks(j)
  <2> DEFINE new == [job EXCEPT !.pc = "replacing", !.cleared = DOMAIN chunks[d]]
  <2>1. Becomes(j, new) /\ UNCHANGED <<docs, chunks, requests>>
    BY <1>7 DEF DeleteChunks
  <2>2. new.doc = d /\ new.task = "ingest" /\ new.pc = "replacing" /\ new.cleared = DOMAIN chunks[d]
    BY <1>j, <1>job DEF Job
  <2> HIDE DEF new
  <2>3. Succeeds(new)
    BY <2>2 DEF Succeeds
  <2> QED BY <1>j, <2>1, <2>2, <2>3, OneMoveSucceeds
<1>8. CASE SkipEmbedding(j)
  <2>1. PICK new : new = At(job, "ending")
    OBVIOUS
  <2>2. Becomes(j, new) /\ UNCHANGED <<docs, chunks, requests>>
    BY <1>8, <2>1 DEF SkipEmbedding
  <2>3. new.doc = d /\ new.task = "ingest" /\ new.pc = "ending"
    BY <1>j, <2>1, AtKeepsJob
  <2>4. Succeeds(new)
    BY <2>3 DEF Succeeds
  <2> QED BY <1>j, <2>2, <2>3, <2>4, OneMoveSucceeds
<1>9. CASE EnqueueEmbedding(j)
  <2>1. PICK k \in FreeJobs : jobs' = Enqueue([jobs EXCEPT ![j] = At(job, "ending")], k, "embed", d)
    BY <1>9 DEF EnqueueEmbedding
  <2>2. UNCHANGED <<docs, chunks, requests>>
    BY <1>9 DEF EnqueueEmbedding
  <2>3. /\ k \notin DOMAIN jobs /\ DOMAIN jobs' = DOMAIN jobs \cup {k} /\ jobs'[k] = Queued("embed", d, 0)
        /\ jobs'[j] = At(job, "ending")
        /\ \A i \in DOMAIN jobs \ {j} : jobs'[i] = jobs[i]
    BY <1>j, <2>1 DEF FreeJobs, Enqueue, With
  <2>4. jobs'[k].task = "embed" /\ jobs'[k].doc = d /\ jobs'[k].code = "none"
    BY <2>3 DEF Queued
  <2>5. jobs'[j].task = "ingest" /\ jobs'[j].doc = d /\ jobs'[j].pc = "ending"
    BY <1>j, <2>3, AtKeepsJob
  <2>6. Succeeds(jobs[j])'
    BY <2>5 DEF Succeeds
  <2>7. Readable(d) => docs'[d].error # "INGESTION_FAILED"
    BY <2>2 DEF SucceedInv, Readable, Exists
  <2>8. /\ DOMAIN docs' = DOMAIN docs
        /\ \A e \in DOMAIN docs : docs'[e] = docs[e] /\ DOMAIN chunks'[e] = DOMAIN chunks[e]
    BY <2>2
  <2> HIDE DEF Readable, Succeeds
  <2> QED BY <1>j, <2>2, <2>3, <2>4, <2>5, <2>6, <2>7, <2>8, OneJobSucceeds
<1>10. CASE CommitChunks(j)
  <2> DEFINE want == [job.seen EXCEPT !.status = "completed", !.error = "none",
                                      !.count = Pieces[parser][job.seen.content]]
  <2>1. PICK W \in SUBSET Waiters(j) :
          jobs' = Overtake([jobs EXCEPT ![j] = At(job, "committed")], W)
    BY <1>10 DEF CommitChunks
  <2>2. docs' = Flush(d, job.seen, want) /\ requests' = requests
    BY <1>10 DEF CommitChunks
  <2>3. \A e \in Docs : e # d => chunks'[e] = chunks[e]
    BY <1>10 DEF CommitChunks, TypeOK, ChunksOK
  <2>4. want.error = "none"
    BY <1>job DEF Row
  <2> HIDE DEF want
  <2>5. /\ DOMAIN docs' = DOMAIN docs
        /\ Exists(d) => docs'[d].error \in {docs[d].error, "none"}
        /\ \A e \in DOMAIN docs : docs'[e].content = docs[e].content /\ (e # d => docs'[e] = docs[e])
    BY <2>2, <2>4 DEF Flush, Exists
  <2>6. \A i \in W : i \in DOMAIN jobs \ {j} /\ jobs[i].doc = d /\ jobs[i].task \in {"ingest", "embed"}
    BY <1>j, <1>job DEF Waiters, Holds, Running
  <2>7. \A i \in W : jobs[i].task = "embed"
    BY <1>j, <2>6 DEF SucceedInv, OneIngestion
  <2>8. /\ DOMAIN jobs' = DOMAIN jobs /\ jobs'[j] = At(job, "committed")
        /\ \A i \in DOMAIN jobs \ {j} :
             jobs'[i] = IF i \in W THEN [jobs[i] EXCEPT !.pc = "overtaken"] ELSE jobs[i]
    BY <1>j, <2>1, <2>6, <2>7 DEF Overtake
  <2>9. \A i \in DOMAIN jobs \ {j} :
          /\ jobs'[i].doc = jobs[i].doc /\ jobs'[i].task = jobs[i].task /\ jobs'[i].code = jobs[i].code
          /\ jobs[i].task = "ingest" => jobs'[i] = jobs[i]
    BY <2>7, <2>8 DEF TypeOK, JobsOK, Job
  <2>10. jobs'[j].doc = d /\ jobs'[j].task = "ingest" /\ jobs'[j].pc = "committed"
    BY <1>j, <2>8, AtKeepsJob
  <2>11. Succeeds(jobs[j])'
    BY <2>10 DEF Succeeds
  <2>12. Readable(d) => docs'[d].error # "INGESTION_FAILED"
    BY <2>5 DEF Readable, Exists, SucceedInv
  <2>13. \A i \in DOMAIN jobs' \ DOMAIN jobs : FALSE
    BY <2>8
  <2>14. \A e \in DOMAIN docs : DOMAIN chunks'[e] = DOMAIN chunks[e] \/ (e = d /\ jobs[j].task = "ingest")
    BY <1>j, <2>3 DEF TypeOK, DocsOK
  <2> HIDE DEF Readable, Succeeds
  <2> QED BY <1>j, <2>2, <2>5, <2>8, <2>9, <2>10, <2>11, <2>12, <2>13, <2>14, OneJobSucceeds
<1>11. ~SurpriseIngest(j) /\ ~LoseEmbedding(j)
  BY DEF SurpriseIngest, LoseEmbedding, Repeated
<1> QED BY <1>2, <1>3, <1>5, <1>6, <1>7, <1>8, <1>9, <1>10, <1>11 DEF IngestStep

\* An embedding job is no ingestion, and never says that one failed.
LEMMA EmbedSucceeds ==
  ASSUME Repeated, TypeOK, SucceedInv, NEW j \in JobIds,
         EmbedStep(j) \/ FailEmbedding(j) \/ SurpriseEmbed(j)
  PROVE  SucceedInv'
<1>j. j \in DOMAIN jobs /\ jobs[j].task = "embed"
  BY Zenon DEF EmbedStep, FailEmbedding, SurpriseEmbed, Running, SelectPending, MissProvider,
               CompleteEmbedding, CompleteOvertaken
<1> PICK job : job = jobs[j]
  OBVIOUS
<1> PICK d : d = job.doc
  OBVIOUS
<1>job. job \in Job /\ job.seen \in Row /\ d \in Docs /\ Succeeds(job)
  BY <1>j DEF TypeOK, JobsOK, Job, SucceedInv
<1>1. ASSUME NEW new, Becomes(j, new), new.doc = d, new.task = "embed", new.code # "INGESTION_FAILED",
             UNCHANGED <<docs, chunks, requests>>
      PROVE  SucceedInv'
  <2>1. Succeeds(new)
    BY <1>1 DEF Succeeds
  <2> QED BY <1>1, <1>j, <2>1, OneMoveSucceeds
<1>2. CASE MissProvider(j) \/ FailEmbedding(j)
  <2>1. PICK code \in {"PROVIDER_NOT_CONFIGURED", "EMBEDDING_FAILED"} :
          \E fatal : Becomes(j, Failing(job, code, fatal))
    BY <1>2, Zenon DEF MissProvider, FailEmbedding
  <2> PICK fatal : Becomes(j, Failing(job, code, fatal))
    BY <2>1
  <2>2. UNCHANGED <<docs, chunks, requests>>
    BY <1>2 DEF MissProvider, FailEmbedding
  <2>3. PICK new : new = Failing(job, code, fatal)
    OBVIOUS
  <2>4. new.doc = d /\ new.task = "embed" /\ new.code = code
    BY <1>j, <2>3, AtKeepsJob
  <2> QED BY <1>1, <2>1, <2>2, <2>3, <2>4
<1>3. ASSUME NEW pc, Becomes(j, At(job, pc)), UNCHANGED <<docs, chunks, requests>>
      PROVE  SucceedInv'
  <2>1. PICK new : new = At(job, pc)
    OBVIOUS
  <2>2. new.doc = d /\ new.task = "embed" /\ new.code = "none"
    BY <1>j, <2>1, AtKeepsJob
  <2> QED BY <1>1, <1>3, <2>1, <2>2
<1>4. CASE SelectPending(j)
  <2>1. UNCHANGED <<docs, chunks, requests>>
    BY <1>4 DEF SelectPending
  <2>2. CASE Unembedded(d) = {}
    BY <1>3, <1>4, <2>1, <2>2 DEF SelectPending
  <2>3. CASE Unembedded(d) # {}
    <3> DEFINE new == [job EXCEPT !.pc = "calling", !.pending = {Read(d, o) : o \in Unembedded(d)}]
    <3>1. Becomes(j, new)
      BY <1>4, <2>3 DEF SelectPending
    <3>2. new.doc = d /\ new.task = "embed" /\ new.code = job.code
      BY <1>j, <1>job DEF Job
    <3> HIDE DEF new
    <3>3. job.code # "INGESTION_FAILED"
      BY <1>j, <1>job DEF Succeeds
    <3> QED BY <1>1, <2>1, <3>1, <3>2, <3>3
  <2> QED BY <2>2, <2>3
<1>5. ASSUME NEW lost, SaveVectors(j, lost)
      PROVE  SucceedInv'
  <2> DEFINE want == [job.seen EXCEPT !.error = "none"]
  <2>1. docs' = Flush(d, job.seen, want) /\ Becomes(j, At(job, "ending")) /\ requests' = requests
    BY <1>5 DEF SaveVectors
  <2>2. want.error = "none"
    BY <1>job DEF Row
  <2> HIDE DEF want
  <2>3. \A e \in DOMAIN docs : DOMAIN chunks'[e] = DOMAIN chunks[e]
    BY <1>5 DEF SaveVectors, Vectorised, TypeOK, ChunksOK, DocsOK
  <2>4. PICK new : new = At(job, "ending")
    OBVIOUS
  <2>5. new.doc = d /\ new.task = "embed" /\ new.code = "none"
    BY <1>j, <2>4, AtKeepsJob
  <2>6. Succeeds(new)
    BY <2>5 DEF Succeeds
  <2> QED BY <1>j, <2>1, <2>2, <2>3, <2>4, <2>5, <2>6, OneWriteSucceeds
<1>6. ASSUME NEW lost, RaiseStale(j, lost)
      PROVE  SucceedInv'
  BY <1>3, <1>6 DEF RaiseStale
<1>7. ~SurpriseEmbed(j)
  BY DEF SurpriseEmbed, Repeated
<1> QED BY <1>2, <1>4, <1>5, <1>6, <1>7 DEF EmbedStep, CompleteEmbedding, CompleteOvertaken

\* arq starts, ends and repeats runs, and an ingestion that succeeds has nothing to record.
LEMMA WorkerSucceeds ==
  ASSUME TypeOK, SucceedInv, NEW j \in JobIds, WorkerStep(j) \/ Interrupt(j) \/ TimeOut(j)
  PROVE  SucceedInv'
<1>j. j \in DOMAIN jobs
  BY Zenon DEF WorkerStep, Interrupt, TimeOut, Runs, StartRun, Abandon, ReadForFailure, MarkFailed,
               Finish, EndRaised
<1> PICK job : job = jobs[j]
  OBVIOUS
<1> PICK d : d = job.doc
  OBVIOUS
<1>job. job \in Job /\ job.seen \in Row /\ d \in Docs /\ job.task \in {"ingest", "embed"} /\ Succeeds(job)
  BY <1>j DEF TypeOK, JobsOK, Job, Tasks, SucceedInv
<1>1. ASSUME NEW new, Becomes(j, new), new.doc = d, new.task = job.task, UNCHANGED <<docs, chunks, requests>>,
             job.task = "ingest" /\ Readable(d) => new.pc \in {"queued", "loaded"},
             job.task = "embed" => new.code # "INGESTION_FAILED"
      PROVE  SucceedInv'
  <2>1. Succeeds(new)
    BY <1>1 DEF Succeeds
  <2> QED BY <1>1, <1>j, <2>1, OneMoveSucceeds
<1>2. ASSUME NEW pc, Becomes(j, At(job, pc)), UNCHANGED <<docs, chunks, requests>>,
             job.task = "ingest" /\ Readable(d) => pc = "queued"
      PROVE  SucceedInv'
  <2>1. PICK new : new = At(job, pc)
    OBVIOUS
  <2>2. new.doc = d /\ new.task = job.task /\ new.pc = pc /\ new.code = "none"
    BY <2>1, AtKeepsJob
  <2> QED BY <1>1, <1>2, <2>1, <2>2
<1>3. ASSUME jobs' = Ended(jobs, j), UNCHANGED <<docs, chunks, requests>>
      PROVE  SucceedInv'
  BY <1>3, <1>j, OneEndSucceeds
<1>4. CASE StartRun(j)
  <2>1. UNCHANGED <<docs, chunks, requests>>
    BY <1>4 DEF StartRun
  <2>2. CASE ~Exists(d)
    BY <1>3, <1>4, <2>1, <2>2 DEF StartRun
  <2>3. CASE Exists(d)
    <3> DEFINE new == [job EXCEPT !.pc = "loaded", !.seen = docs[d], !.tries = @ + 1]
    <3>1. Becomes(j, new)
      BY <1>4, <1>j, <2>3 DEF StartRun, Becomes
    <3>2. new.doc = d /\ new.task = job.task /\ new.pc = "loaded" /\ new.code = job.code
      BY <1>job DEF Job
    <3> HIDE DEF new
    <3>3. job.task = "embed" => new.code # "INGESTION_FAILED"
      BY <1>job, <3>2 DEF Succeeds
    <3> QED BY <1>1, <2>1, <3>1, <3>2, <3>3
  <2> QED BY <2>2, <2>3
<1>5. CASE ReadForFailure(j)
  <2>1. UNCHANGED <<docs, chunks, requests>> /\ ~(job.task = "ingest" /\ Readable(d))
    BY <1>5, <1>job DEF ReadForFailure, Succeeds
  <2>2. CASE Exists(d)
    <3> DEFINE new == [job EXCEPT !.pc = "marking", !.seen = docs[d]]
    <3>1. Becomes(j, new)
      BY <1>5, <2>2 DEF ReadForFailure, Becomes
    <3>2. new.doc = d /\ new.task = job.task /\ new.code = job.code
      BY <1>job DEF Job
    <3> HIDE DEF new
    <3>3. job.task = "embed" => new.code # "INGESTION_FAILED"
      BY <1>job, <3>2 DEF Succeeds
    <3> QED BY <1>1, <2>1, <3>1, <3>2, <3>3
  <2>3. CASE ~Exists(d) /\ job.fatal
    BY <1>2, <1>5, <2>1, <2>3 DEF ReadForFailure, Becomes
  <2>4. CASE ~Exists(d) /\ ~job.fatal
    BY <1>3, <1>5, <2>1, <2>4 DEF ReadForFailure
  <2> QED BY <2>2, <2>3, <2>4
<1>6. CASE MarkFailed(j)
  <2> DEFINE want == [job.seen EXCEPT !.status = "failed", !.error = job.code]
  <2>1. docs' = Flush(d, job.seen, want) /\ UNCHANGED <<chunks, requests>> /\ job.pc = "marking"
    BY <1>6 DEF MarkFailed
  <2>2. PICK pc \in {"raising", "ending"} : Becomes(j, At(job, pc))
    BY <1>6 DEF MarkFailed, Becomes
  <2>3. want.error = job.code
    BY <1>job DEF Row
  <2> HIDE DEF want
  <2>4. ~(job.task = "ingest" /\ Readable(d))
    BY <1>job, <2>1 DEF Succeeds
  <2>5. Readable(d) => job.code # "INGESTION_FAILED"
    BY <1>job, <2>4 DEF Succeeds
  <2>6. PICK new : new = At(job, pc)
    OBVIOUS
  <2>7. new.doc = d /\ new.task = job.task /\ new.code = "none"
    BY <2>6, AtKeepsJob
  <2>8. Succeeds(new)
    BY <2>4, <2>7 DEF Succeeds
  <2>9. \A e \in DOMAIN docs : DOMAIN chunks'[e] = DOMAIN chunks[e]
    BY <2>1
  <2> HIDE DEF Readable, Succeeds
  <2> QED BY <1>j, <2>1, <2>2, <2>3, <2>5, <2>6, <2>7, <2>8, <2>9, OneWriteSucceeds
<1>7. CASE Abandon(j) \/ Finish(j) \/ TimeOut(j)
  BY <1>3, <1>7 DEF Abandon, Finish, TimeOut
<1>8. CASE EndRaised(j) \/ Interrupt(j)
  <2>1. UNCHANGED <<docs, chunks, requests>>
    BY <1>8 DEF EndRaised, Interrupt
  <2>2. Becomes(j, At(job, "queued")) \/ jobs' = Ended(jobs, j)
    BY <1>8 DEF EndRaised, Interrupt, Becomes
  <2> QED BY <1>2, <1>3, <2>1, <2>2
<1> QED BY <1>4, <1>5, <1>6, <1>7, <1>8 DEF WorkerStep

\* An upload queues one ingestion of its document, and no other.
LEMMA UploadsSucceed ==
  ASSUME Repeated, TypeOK, UploadInv, SucceedInv, UploadNext
  PROVE  SucceedInv'
<1> PICK r \in Requests : \/ \E c \in Contents, d \in Docs : CheckUpload(r, c, d) \/ RejectDuplicate(r, c, d)
                          \/ UploadStep(r)
                          \/ LoseRequest(r)
  BY DEF UploadNext
<1>1. ASSUME UNCHANGED <<docs, chunks, jobs>>,
             \A q \in DOMAIN requests' :
               requests'[q].pc = "committed" => q \in DOMAIN requests /\ requests'[q] = requests[q]
      PROVE  SucceedInv'
  <2>1. OneIngestion'
    BY <1>1 DEF SucceedInv, OneIngestion
  <2> QED BY <1>1, <2>1 DEF SucceedInv, Succeeds, Readable, Exists
<1>2. ASSUME NEW c \in Contents, NEW d \in Docs, CheckUpload(r, c, d) \/ RejectDuplicate(r, c, d)
      PROVE  SucceedInv'
  <2>1. /\ UNCHANGED <<docs, chunks, jobs>>
        /\ \E pc \in {"checked", "conflict"} :
             requests' = With(requests, r, [pc |-> pc, content |-> c, doc |-> d])
    BY <1>2 DEF CheckUpload, RejectDuplicate
  <2>2. /\ DOMAIN requests' = DOMAIN requests \cup {r} /\ requests'[r].pc # "committed"
        /\ \A q \in DOMAIN requests : q # r => requests'[q] = requests[q]
    BY <2>1 DEF With
  <2> QED BY <1>1, <2>1, <2>2
<1>3. CASE StoreObject(r) \/ ViolateConstraint(r)
  <2>1. /\ UNCHANGED <<docs, chunks, jobs>> /\ r \in DOMAIN requests /\ requests[r] \in Request
        /\ \E pc \in {"stored", "error"} : requests' = [requests EXCEPT ![r].pc = pc]
    BY <1>3 DEF StoreObject, ViolateConstraint, Answer, TypeOK, RequestsOK
  <2>2. /\ DOMAIN requests' = DOMAIN requests /\ requests'[r].pc # "committed"
        /\ \A q \in DOMAIN requests \ {r} : requests'[q] = requests[q]
    BY <2>1 DEF Request
  <2> QED BY <1>1, <2>1, <2>2
<1>4. CASE InsertDocument(r)
  <2> PICK n : n = requests[r].doc
    OBVIOUS
  <2> DEFINE row == NewRow(requests[r].content)
  <2>1. /\ docs' = With(docs, n, row) /\ UNCHANGED <<chunks, jobs>>
        /\ requests' = [requests EXCEPT ![r].pc = "committed"]
        /\ r \in DOMAIN requests /\ requests[r] \in Request /\ requests[r].pc = "stored"
    BY <1>4 DEF InsertDocument, Answer, TypeOK, RequestsOK
  <2>2. /\ DOMAIN requests' = DOMAIN requests /\ requests'[r].doc = n /\ requests'[r].pc = "committed"
        /\ \A q \in DOMAIN requests \ {r} : requests'[q] = requests[q]
    BY <2>1 DEF Request
  <2>3. /\ n \notin DOMAIN docs /\ \A i \in DOMAIN jobs : jobs[i].doc # n
        /\ \A q \in DOMAIN requests \ {r} : requests[q].doc # n
    BY <2>1 DEF UploadInv, UploadsOwnIds, Exists
  <2>4. /\ DOMAIN docs' = DOMAIN docs \cup {n} /\ docs'[n].error = "none"
        /\ \A e \in DOMAIN docs : docs'[e] = docs[e]
    BY <2>1, <2>3 DEF With, NewRow
  <2>5. OneIngestion'
    BY <2>1, <2>2, <2>3 DEF SucceedInv, OneIngestion
  <2>6. \A e : e # n => (Readable(e)' <=> Readable(e))
    BY <2>4 DEF Readable, Exists
  <2>7. \A i \in DOMAIN jobs : Succeeds(jobs[i])'
    BY <2>1, <2>3, <2>6 DEF SucceedInv, Succeeds
  <2>8. \A e \in DOMAIN docs' : Readable(e)' => docs'[e].error # "INGESTION_FAILED"
    BY <2>4, <2>6 DEF SucceedInv
  <2> QED BY <2>1, <2>5, <2>7, <2>8 DEF SucceedInv
<1>5. CASE EnqueueIngestion(r)
  <2> PICK n : n = requests[r].doc
    OBVIOUS
  <2>1. PICK k \in FreeJobs : jobs' = Enqueue(jobs, k, "ingest", n)
    BY <1>5 DEF EnqueueIngestion
  <2>2. /\ UNCHANGED <<docs, chunks>> /\ requests' = [requests EXCEPT ![r].pc = "accepted"]
        /\ r \in DOMAIN requests /\ requests[r] \in Request /\ requests[r].pc = "committed"
    BY <1>5 DEF EnqueueIngestion, Answer, TypeOK, RequestsOK
  <2>3. /\ DOMAIN jobs' = DOMAIN jobs \cup {k} /\ jobs'[k] = Queued("ingest", n, 0)
        /\ \A i \in DOMAIN jobs : jobs'[i] = jobs[i]
    BY <2>1 DEF FreeJobs, Enqueue, With
  <2>4. jobs'[k].doc = n /\ jobs'[k].task = "ingest" /\ jobs'[k].pc = "queued"
    BY <2>3 DEF Queued
  <2>5. /\ DOMAIN requests' = DOMAIN requests /\ requests'[r].pc # "committed"
        /\ \A q \in DOMAIN requests \ {r} : requests'[q] = requests[q]
    BY <2>2 DEF Request
  <2>6. /\ \A i \in DOMAIN jobs : jobs[i].doc # n
        /\ \A q \in DOMAIN requests \ {r} : requests[q].pc = "committed" => requests[q].doc # n
    BY <2>2 DEF SucceedInv, OneIngestion
  <2>7. OneIngestion'
    BY <2>3, <2>4, <2>5, <2>6 DEF SucceedInv, OneIngestion
  <2>8. Succeeds(jobs[k])'
    BY <2>4 DEF Succeeds
  <2> QED BY <2>2, <2>3, <2>7, <2>8 DEF SucceedInv, Succeeds, Readable, Exists
<1>6. ~LoseRequest(r)
  BY DEF LoseRequest, Repeated
<1> QED BY <1>2, <1>3, <1>4, <1>5, <1>6 DEF UploadStep

\* A release runs again what it cut short, and nobody queues a job by hand.
LEMMA OutsideSucceeds ==
  ASSUME TypeOK, SucceedInv, Outside, reruns' = 0
  PROVE  SucceedInv'
<1>1. CASE Redeploy
  <2>1. UNCHANGED <<docs, chunks, requests>> /\ jobs' = [i \in DOMAIN jobs |-> At(jobs[i], "queued")]
    BY <1>1 DEF Redeploy
  <2>2. \A i \in DOMAIN jobs : /\ jobs'[i].doc = jobs[i].doc /\ jobs'[i].task = jobs[i].task
                               /\ jobs'[i].pc = "queued" /\ jobs'[i].code = "none"
    BY <2>1, AtKeepsJob
  <2>3. DOMAIN jobs' = DOMAIN jobs
    BY <2>1
  <2>4. OneIngestion'
    BY <2>1, <2>2, <2>3 DEF SucceedInv, OneIngestion
  <2>5. \A i \in DOMAIN jobs' : Succeeds(jobs[i])'
    BY <2>2, <2>3 DEF Succeeds
  <2> QED BY <2>1, <2>4, <2>5 DEF SucceedInv, Readable, Exists
<1>2. ASSUME NEW d \in Docs, NEW t \in Tasks
      PROVE  ~Rerun(d, t)
  BY DEF Rerun, TypeOK, BoundsOK
<1>3. ASSUME NEW d \in Docs, DeleteDocument(d)
      PROVE  SucceedInv'
  <2>1. /\ DOMAIN docs' = DOMAIN docs \ {d} /\ \A e \in DOMAIN docs' : docs'[e] = docs[e]
        /\ \A e \in Docs : e # d => chunks'[e] = chunks[e]
        /\ UNCHANGED <<jobs, requests>>
    BY <1>3 DEF DeleteDocument, TypeOK, ChunksOK
  <2>2. \A e : Readable(e)' => /\ Readable(e) /\ e \in DOMAIN docs' /\ docs'[e] = docs[e]
                               /\ chunks'[e] = chunks[e]
    BY <2>1 DEF Readable, Exists, TypeOK, DocsOK
  <2>3. OneIngestion'
    BY <2>1 DEF SucceedInv, OneIngestion
  <2>4. \A i \in DOMAIN jobs : Succeeds(jobs[i])'
    BY <2>1, <2>2 DEF SucceedInv, Succeeds
  <2> QED BY <2>1, <2>2, <2>3, <2>4 DEF SucceedInv
<1> QED BY <1>1, <1>2, <1>3 DEF Outside

\* Every step keeps it, while nobody queues a job by hand.
LEMMA NextSucceedInv ==
  ASSUME Repeated, TypeOK, UploadInv, PipelineInv, SucceedInv, [Next]_vars, reruns' = 0
  PROVE  SucceedInv'
<1>1. CASE UNCHANGED vars
  <2>1. UNCHANGED <<docs, chunks, jobs, requests>>
    BY <1>1 DEF vars
  <2>2. OneIngestion'
    BY <2>1 DEF SucceedInv, OneIngestion
  <2> QED BY <2>1, <2>2 DEF SucceedInv, Succeeds, Readable, Exists
<1>2. CASE UploadNext
  BY <1>2, UploadsSucceed
<1>3. CASE Outside
  BY <1>3, OutsideSucceeds
<1>4. CASE \E j \in JobIds : JobStep(j) \/ JobFault(j)
  BY <1>4, IngestSucceeds, EmbedSucceeds, WorkerSucceeds DEF JobStep, JobFault
<1> QED BY <1>1, <1>2, <1>3, <1>4 DEF Next

\* Once somebody has, somebody always has.
LEMMA NoRerunBefore ==
  ASSUME TypeOK, [Next]_vars, reruns' = 0
  PROVE  reruns = 0
<1>1. ASSUME NEW j \in JobIds, JobStep(j) \/ JobFault(j)
      PROVE  reruns' = reruns
  <2>1. CASE IngestStep(j) \/ SurpriseIngest(j) \/ LoseEmbedding(j)
    BY <2>1 DEF IngestStep, SurpriseIngest, LoseEmbedding, StartParsing, FailParsing, StartChunking,
                DeleteChunks, CommitChunks, RejectChunks, EnqueueEmbedding, SkipEmbedding, bounds
  <2>2. CASE EmbedStep(j) \/ FailEmbedding(j) \/ SurpriseEmbed(j)
    BY <2>2 DEF EmbedStep, FailEmbedding, SurpriseEmbed, SelectPending, MissProvider, CompleteEmbedding,
                CompleteOvertaken, SaveVectors, RaiseStale, bounds
  <2>3. CASE WorkerStep(j) \/ Interrupt(j) \/ TimeOut(j)
    BY <2>3 DEF WorkerStep, Interrupt, TimeOut, StartRun, Abandon, ReadForFailure, MarkFailed, Finish,
                EndRaised, bounds
  <2> QED BY <1>1, <2>1, <2>2, <2>3 DEF JobStep, JobFault
<1>2. ASSUME UploadNext
      PROVE  reruns' = reruns
  BY <1>2 DEF UploadNext, UploadStep, CheckUpload, RejectDuplicate, StoreObject, InsertDocument,
              ViolateConstraint, EnqueueIngestion, LoseRequest, bounds
<1>3. ASSUME Outside
      PROVE  reruns' \in {reruns, reruns + 1}
  BY <1>3 DEF Outside, Redeploy, DeleteDocument, Rerun, bounds
<1>4. reruns \in Nat
  BY BoundsAssumption DEF TypeOK, BoundsOK
<1> QED BY <1>1, <1>2, <1>3, <1>4 DEF Next, vars

\* When nobody is to touch a readable document any more, somebody has parsed it.
LEMMA ConvergedIsParsed == TypeOK /\ ParseInv /\ (reruns = 0 => SucceedInv) => RunsConverge
<1> SUFFICES ASSUME TypeOK, ParseInv, reruns = 0 => SucceedInv, NEW d \in DOMAIN docs,
                    Idle(d), docs[d].content \notin Unreadable
             PROVE  Parsed(d) /\ (reruns = 0 => docs[d].error # "INGESTION_FAILED")
  BY DEF RunsConverge, Parsed
<1>1. Readable(d)
  BY DEF Readable, Exists
<1>2. ~Requested(d) /\ \A j \in DOMAIN jobs : jobs[j].doc # d
  BY DEF Idle, Requested
<1>3. Parsed(d)
  BY <1>1, <1>2 DEF ParseInv, ToBeParsed, Unparsed
<1> QED BY <1>1, <1>3 DEF SucceedInv

(* Runs converge: however often runs on a readable document are cut short  *)
(* by an interruption or a release, repeated because they raised or because*)
(* somebody queued them again, and overlap, once everything about it is    *)
(* over it has the chunks of one parse; and while nobody queues a run by   *)
(* hand, no failed ingestion is on record; for any number of documents,    *)
(* jobs, reruns and parser versions.                                       *)
THEOREM RepeatedRunsConverge ==
  ASSUME Repeated
  PROVE  Spec => []RunsConverge
<1>1. Init => ParseInv /\ (reruns = 0 => SucceedInv)
  BY DEF Init, ParseInv, SucceedInv, OneIngestion
<1>2. /\ TypeOK /\ UploadInv /\ PipelineInv /\ ParseInv /\ PipelineInv' /\ [Next]_vars => ParseInv'
      /\ TypeOK /\ UploadInv /\ PipelineInv /\ (reruns = 0 => SucceedInv) /\ [Next]_vars
           => (reruns = 0 => SucceedInv)'
      /\ TypeOK /\ ParseInv /\ (reruns = 0 => SucceedInv) => RunsConverge
  BY NextParseInv, NextSucceedInv, NoRerunBefore, ConvergedIsParsed
<1> QED BY <1>1, <1>2, TypeCorrect, UploadInvariance, PipelineInvariance, PTL DEF Spec
-----------------------------------------------------------------------------
(* What AcceptedSettles and CompletedGetsVectors rest on besides fairness  *)
(* and OwedInv.  How far a job is from its end: the tries arq has for it,  *)
(* each a stretch of points, and where in one of them it is.               *)
Stretch == 9

Rank(job) ==
  CASE job.pc = "queued" -> 0
    [] job.pc \in {"raising", "ending"} -> 1
    [] job.pc = "marking" -> 2
    [] job.pc = "failing" -> 3
    [] job.pc = "committed" -> 4
    [] job.pc \in {"replacing", "overtaken"} -> 5
    [] job.pc \in {"chunking", "calling"} -> 6
    [] job.pc = "parsing" -> 7
    [] job.pc = "loaded" -> 8

JobToGo(job) == (MaxTries - job.tries) * Stretch + Rank(job) + 1

SameWork(old, new) == new.task = old.task /\ new.doc = old.doc

(* Whatever happens to a job, its own steps and its faults, the commits    *)
(* that overtake it, crashes and releases, it stays the work it was queued *)
(* for and is never set back; and its steps and faults end it or bring it  *)
(* nearer to its end.                                                      *)
JobsWindDown ==
  [][\A j \in DOMAIN jobs :
       /\ j \in DOMAIN jobs' =>
            SameWork(jobs[j], jobs'[j]) /\ JobToGo(jobs'[j]) <= JobToGo(jobs[j])
       /\ JobStep(j) \/ JobFault(j) =>
            j \notin DOMAIN jobs' \/ JobToGo(jobs'[j]) < JobToGo(jobs[j])]_vars

(* The jobs that wait for a document's row locks wait for one ingestion    *)
(* that waits for none: a transaction with rows deleted is at its commit,  *)
(* and there is one for a document at most.                                *)
LocksAreShort ==
  \A i, j \in DOMAIN jobs :
    jobs[i].cleared # {} =>
      /\ Ingests(jobs[i], {"replacing"})
      /\ jobs[j].doc = jobs[i].doc /\ jobs[j].cleared # {} => i = j

(* A job always has a next step, short of a lock or of room in the queue:  *)
(* it is at a point of its own task, an embedding at its provider call has *)
(* chunks to write, and if its document is gone so are they, which is      *)
(* noticed and raised.  Elsewhere the guards of its steps leave no gap.    *)
NeverStuck ==
  \A j \in DOMAIN jobs : LET job == jobs[j] IN
    /\ job.pc \in {"parsing", "chunking", "replacing", "committed"} => job.task = "ingest"
    /\ job.pc \in {"calling", "overtaken"} =>
         /\ job.task = "embed" /\ Wanted(job.pending) # {}
         /\ Exists(job.doc) \/ Reached(j, {}) # Wanted(job.pending)

\* The ranks of the points, one by one.
LEMMA RankOf ==
  ASSUME NEW job
  PROVE  /\ job.pc = "queued" => Rank(job) = 0
         /\ job.pc \in {"raising", "ending"} => Rank(job) = 1
         /\ job.pc = "marking" => Rank(job) = 2
         /\ job.pc = "failing" => Rank(job) = 3
         /\ job.pc = "committed" => Rank(job) = 4
         /\ job.pc \in {"replacing", "overtaken"} => Rank(job) = 5
         /\ job.pc \in {"chunking", "calling"} => Rank(job) = 6
         /\ job.pc = "parsing" => Rank(job) = 7
         /\ job.pc = "loaded" => Rank(job) = 8
  BY DEF Rank

\* The points of one try are fewer than a stretch.
LEMMA RankIsInStretch ==
  ASSUME NEW job \in Job
  PROVE  Rank(job) \in 0..8
  BY RankOf DEF Job, Points

\* In the same try, further on, or in the next.
Onward(old, new) ==
  \/ new.tries = old.tries + 1
  \/ new.tries = old.tries /\ Rank(new) < Rank(old)

\* How far a job is from its end is a number ...
LEMMA ToGoIsNat ==
  ASSUME NEW job \in Job
  PROVE  JobToGo(job) \in Nat
<1>1. Rank(job) \in Nat /\ MaxTries \in Nat /\ job.tries \in Nat /\ job.tries <= MaxTries
  BY RankIsInStretch, BoundsAssumption DEF Job
<1> QED BY ONLY <1>1 DEF JobToGo, Stretch

\* ... and less of one further on, in the same try or the next.
LEMMA JobComesNearer ==
  ASSUME NEW job \in Job, NEW new \in Job, Onward(job, new)
  PROVE  JobToGo(new) \in Nat /\ JobToGo(job) \in Nat /\ JobToGo(new) < JobToGo(job)
<1>1. PICK k \in 0..8, l \in 0..8 : k = Rank(new) /\ l = Rank(job)
  BY RankIsInStretch
<1>2. PICK t \in Nat, u \in Nat, m \in Nat :
        t = job.tries /\ u = new.tries /\ m = MaxTries /\ t <= m /\ u <= m
  BY BoundsAssumption DEF Job
<1>3. /\ JobToGo(job) = (m - t) * 9 + l + 1
      /\ JobToGo(new) = (m - u) * 9 + k + 1
  BY <1>1, <1>2 DEF JobToGo, Stretch
<1>4. u = t + 1 \/ (u = t /\ k < l)
  BY <1>1, <1>2 DEF Onward
<1> QED BY ONLY <1>1, <1>2, <1>3, <1>4

\* At a point of its own task, and with chunks to write when it writes.
Fits(job) ==
  /\ job.pc \in {"parsing", "chunking", "replacing", "committed"} => job.task = "ingest"
  /\ job.pc \in {"calling", "overtaken"} => job.task = "embed" /\ Wanted(job.pending) # {}

\* What a step of a job makes of it, if it does not end it.
Moves(old, new) ==
  /\ SameWork(old, new)
  /\ Onward(old, new)
  /\ Fits(new)
  /\ new.cleared = {} \/ new.cleared = old.cleared \/ ~Locked(old.doc)

\* A job whose locals are spent has moved, if its point is a later one.
LEMMA SpentJobMoves ==
  ASSUME NEW job, NEW pc, Rank([pc |-> pc]) < Rank(job),
         pc \in {"queued", "raising", "ending"} \/ (pc = "committed" /\ job.task = "ingest")
  PROVE  Moves(job, At(job, pc))
<1> DEFINE new == At(job, pc)
<1>1. /\ new.task = job.task /\ new.doc = job.doc /\ new.tries = job.tries
      /\ new.pc = pc /\ new.cleared = {}
  BY DEF At, Queued
<1>2. Rank(new) = Rank([pc |-> pc])
  <2>1. [pc |-> pc].pc = pc
    OBVIOUS
  <2> HIDE DEF new
  <2> QED BY ONLY <1>1, <2>1 DEF Rank
<1> HIDE DEF new
<1>3. Moves(job, new)
  BY <1>1, <1>2 DEF Moves, SameWork, Onward, Fits
<1> QED BY <1>3 DEF new

\* Nor is one that sets out to record a failure set back.
LEMMA FailingJobMoves ==
  ASSUME NEW job, NEW code, NEW fatal,
         job.pc \in {"loaded", "parsing", "chunking", "replacing", "calling"}
  PROVE  Moves(job, Failing(job, code, fatal))
<1> DEFINE new == Failing(job, code, fatal)
<1>1. /\ new.task = job.task /\ new.doc = job.doc /\ new.tries = job.tries
      /\ new.pc = "failing" /\ new.cleared = {}
  BY DEF Failing, At, Queued
<1> HIDE DEF new
<1>2. Rank(new) = 3 /\ Rank(job) \in {5, 6, 7, 8}
  BY <1>1, RankOf
<1>3. Moves(job, new)
  BY <1>1, <1>2 DEF Moves, SameWork, Onward, Fits
<1> QED BY <1>3 DEF new

(* A step of a job ends it or moves it; the jobs it overtakes move too,    *)
(* their locks as they were, and what it queues starts without any.        *)
StepMoves(j) ==
  /\ j \in DOMAIN jobs
  /\ j \in DOMAIN jobs' => Moves(jobs[j], jobs'[j])
  /\ \A i \in DOMAIN jobs' \ {j} :
       \/ i \in DOMAIN jobs /\ jobs'[i] = jobs[i]
       \/ i \in DOMAIN jobs /\ Moves(jobs[i], jobs'[i]) /\ jobs'[i].cleared = jobs[i].cleared
       \/ i \notin DOMAIN jobs /\ jobs'[i].pc = "queued" /\ jobs'[i].cleared = {}

\* The two shapes most steps have.
LEMMA OneMoves ==
  ASSUME NEW j \in DOMAIN jobs, NEW job, Becomes(j, job), Moves(jobs[j], job)
  PROVE  StepMoves(j)
  BY DEF Becomes, StepMoves

LEMMA OneEnds ==
  ASSUME NEW j \in DOMAIN jobs, jobs' = Ended(jobs, j)
  PROVE  StepMoves(j)
  BY DEF Ended, StepMoves

\* Every step of an ingestion, but its commit, moves it.
LEMMA IngestMoves ==
  ASSUME TypeOK, NEW j \in JobIds,
         \/ StartParsing(j) \/ FailParsing(j) \/ StartChunking(j) \/ DeleteChunks(j)
         \/ RejectChunks(j) \/ EnqueueEmbedding(j) \/ SkipEmbedding(j)
         \/ SurpriseIngest(j) \/ LoseEmbedding(j)
  PROVE  StepMoves(j)
<1> DEFINE job == jobs[j]
<1>1. j \in DOMAIN jobs /\ job \in Job
  <2>1. j \in DOMAIN jobs
    BY Zenon DEF StartParsing, FailParsing, StartChunking, DeleteChunks, RejectChunks,
                 EnqueueEmbedding, SkipEmbedding, SurpriseIngest, LoseEmbedding, Running
  <2> QED BY <2>1 DEF TypeOK, JobsOK
<1>2. CASE FailParsing(j) \/ RejectChunks(j) \/ SurpriseIngest(j)
  <2>1. job.pc \in {"loaded", "parsing", "chunking", "replacing"}
    BY <1>2 DEF FailParsing, RejectChunks, SurpriseIngest, Running
  <2>2. \E code, fatal : Becomes(j, Failing(job, code, fatal))
    BY <1>2, Zenon DEF FailParsing, RejectChunks, SurpriseIngest, Crashed
  <2> QED BY <1>1, <2>1, <2>2, FailingJobMoves, OneMoves
<1>3. CASE SkipEmbedding(j) \/ LoseEmbedding(j)
  <2>1. job.pc = "committed" /\ \E pc \in {"ending", "raising"} : Becomes(j, At(job, pc))
    BY <1>3 DEF SkipEmbedding, LoseEmbedding, Running
  <2>2. Rank(job) = 4 /\ \A pc \in {"ending", "raising"} : Rank([pc |-> pc]) = 1
    BY <2>1, RankOf
  <2>3. \A pc \in {"ending", "raising"} : Moves(job, At(job, pc))
    BY <2>2, SpentJobMoves
  <2> QED BY <1>1, <2>1, <2>3, OneMoves
<1>4. ASSUME NEW want, NEW pc, Becomes(j, [job EXCEPT !.pc = pc, !.seen = want]),
             job.task = "ingest",
             \/ job.pc = "loaded" /\ pc = "parsing"
             \/ job.pc = "parsing" /\ pc = "chunking"
      PROVE  StepMoves(j)
  <2> DEFINE new == [job EXCEPT !.pc = pc, !.seen = want]
  <2>1. /\ new.task = job.task /\ new.doc = job.doc /\ new.tries = job.tries
        /\ new.pc = pc /\ new.cleared = job.cleared
    BY <1>1 DEF Job
  <2>2. Becomes(j, new)
    BY <1>4
  <2> HIDE DEF new
  <2>3. Rank(new) < Rank(job)
    BY <1>4, <2>1, RankOf
  <2>4. Moves(job, new)
    BY <1>4, <2>1, <2>3 DEF Moves, SameWork, Onward, Fits
  <2> QED BY ONLY <1>1, <2>2, <2>4, OneMoves
<1>5. ASSUME Crashed(j), job.pc \in {"loaded", "parsing"}
      PROVE  StepMoves(j)
  <2>1. \E code, fatal : Becomes(j, Failing(job, code, fatal))
    BY <1>5, Zenon DEF Crashed
  <2> QED BY <1>1, <1>5, <2>1, FailingJobMoves, OneMoves
<1>6. CASE StartParsing(j)
  <2>1. job.task = "ingest" /\ job.pc = "loaded"
    BY <1>6 DEF StartParsing, Running
  <2> DEFINE want == [job.seen EXCEPT !.status = "parsing"]
  <2>2. CASE Exists(job.doc) \/ want = job.seen
    <3>1. Becomes(j, [job EXCEPT !.pc = "parsing", !.seen = want])
      BY <1>6, <2>2 DEF StartParsing
    <3> HIDE DEF want
    <3> QED BY <1>4, <2>1, <3>1
  <2>3. CASE ~(Exists(job.doc) \/ want = job.seen)
    <3>1. Crashed(j)
      BY <1>6, <2>3 DEF StartParsing
    <3> QED BY <1>5, <2>1, <3>1
  <2> QED BY <2>2, <2>3
<1>7. CASE StartChunking(j)
  <2>1. job.task = "ingest" /\ job.pc = "parsing"
    BY <1>7 DEF StartChunking, Running
  <2>2. CASE Exists(job.doc)
    <3> DEFINE want == [job.seen EXCEPT !.status = "chunking"]
    <3>1. Becomes(j, [job EXCEPT !.pc = "chunking", !.seen = want])
      BY <1>7, <2>2 DEF StartChunking
    <3> HIDE DEF want
    <3> QED BY <1>4, <2>1, <3>1
  <2>3. CASE ~Exists(job.doc)
    <3>1. Crashed(j)
      BY <1>7, <2>3 DEF StartChunking
    <3> QED BY <1>5, <2>1, <3>1
  <2> QED BY <2>2, <2>3
<1>8. CASE DeleteChunks(j)
  <2> DEFINE new == [job EXCEPT !.pc = "replacing", !.cleared = DOMAIN chunks[job.doc]]
  <2>1. /\ new.task = job.task /\ new.doc = job.doc /\ new.tries = job.tries
        /\ new.pc = "replacing"
    BY <1>1 DEF Job
  <2>2. Becomes(j, new) /\ job.task = "ingest" /\ job.pc = "chunking" /\ ~Locked(job.doc)
    BY <1>8 DEF DeleteChunks, Running
  <2> HIDE DEF new
  <2>3. Rank(new) < Rank(job)
    BY <2>1, <2>2, RankOf
  <2>4. Moves(job, new)
    BY <2>1, <2>2, <2>3 DEF Moves, SameWork, Onward, Fits
  <2> QED BY ONLY <1>1, <2>2, <2>4, OneMoves
<1>9. CASE EnqueueEmbedding(j)
  <2>1. PICK k \in FreeJobs :
          jobs' = Enqueue([jobs EXCEPT ![j] = At(job, "ending")], k, "embed", job.doc)
    BY <1>9 DEF EnqueueEmbedding
  <2>2. job.pc = "committed"
    BY <1>9 DEF EnqueueEmbedding, Running
  <2>3. Rank(job) = 4 /\ Rank([pc |-> "ending"]) = 1
    BY <2>2, RankOf
  <2>4. Moves(job, At(job, "ending"))
    BY <2>3, SpentJobMoves
  <2> DEFINE queued == Queued("embed", job.doc, 0)
  <2>5. queued.pc = "queued" /\ queued.cleared = {}
    BY DEF Queued
  <2>6. /\ k \notin DOMAIN jobs /\ DOMAIN jobs' = DOMAIN jobs \cup {k} /\ jobs'[k] = queued
        /\ jobs'[j] = At(job, "ending")
        /\ \A i \in DOMAIN jobs \ {j} : jobs'[i] = jobs[i]
    BY <1>1, <2>1 DEF Enqueue, With, FreeJobs
  <2> HIDE DEF queued
  <2> QED BY <1>1, <2>4, <2>5, <2>6 DEF StepMoves
<1> QED BY <1>2, <1>3, <1>6, <1>7, <1>8, <1>9

\* The commit moves the ingestion, and whom it overtakes.
LEMMA CommitMoves ==
  ASSUME TypeOK, NEW j \in JobIds, CommitChunks(j), \A i \in DOMAIN jobs : Fits(jobs[i])
  PROVE  StepMoves(j)
<1> DEFINE job == jobs[j]
<1>1. j \in DOMAIN jobs /\ job.task = "ingest" /\ job.pc = "replacing"
  BY DEF CommitChunks, Running
<1>2. PICK W \in SUBSET Waiters(j) :
        jobs' = Overtake([jobs EXCEPT ![j] = At(job, "committed")], W)
  BY DEF CommitChunks
<1>3. Rank(job) = 5 /\ Rank([pc |-> "committed"]) = 4
  BY <1>1, RankOf
<1>4. Moves(job, At(job, "committed"))
  BY <1>1, <1>3, SpentJobMoves
<1>5. DOMAIN jobs' = DOMAIN jobs /\ j \notin W /\ jobs'[j] = At(job, "committed")
  BY <1>1, <1>2 DEF Overtake, Waiters
<1>6. ASSUME NEW i \in DOMAIN jobs, i # j, i \notin W
      PROVE  jobs'[i] = jobs[i]
  BY <1>2, <1>6 DEF Overtake
<1>7. ASSUME NEW i \in W
      PROVE  i \in DOMAIN jobs /\ Moves(jobs[i], jobs'[i]) /\ jobs'[i].cleared = jobs[i].cleared
  <2>1. /\ i \in DOMAIN jobs /\ i # j /\ jobs[i] \in Job
        /\ Running(i, "ingest", "chunking") \/ Running(i, "embed", "calling")
    BY DEF Waiters, TypeOK, JobsOK
  <2> DEFINE pc == IF jobs[i].task = "ingest" THEN "replacing" ELSE "overtaken"
  <2>2. jobs'[i] = [jobs[i] EXCEPT !.pc = pc]
    BY <1>2, <2>1 DEF Overtake
  <2>3. /\ jobs'[i].task = jobs[i].task /\ jobs'[i].doc = jobs[i].doc
        /\ jobs'[i].tries = jobs[i].tries /\ jobs'[i].cleared = jobs[i].cleared
        /\ jobs'[i].pending = jobs[i].pending /\ jobs'[i].pc = pc
    BY <2>1, <2>2 DEF Job
  <2>4. Rank(jobs'[i]) < Rank(jobs[i])
    BY <2>1, <2>3, RankOf DEF Running
  <2>5. Fits(jobs'[i])
    BY <2>1, <2>3 DEF Fits, Running
  <2> QED BY <2>1, <2>3, <2>4, <2>5 DEF Moves, SameWork, Onward
<1> QED BY <1>1, <1>4, <1>5, <1>6, <1>7 DEF StepMoves

\* Every step of an embedding moves it.
LEMMA EmbedMoves ==
  ASSUME TypeOK, NEW j \in JobIds, EmbedStep(j) \/ FailEmbedding(j) \/ SurpriseEmbed(j)
  PROVE  StepMoves(j)
<1> DEFINE job == jobs[j]
<1>1. j \in DOMAIN jobs /\ job \in Job
  <2>1. j \in DOMAIN jobs
    BY Zenon DEF EmbedStep, SelectPending, MissProvider, CompleteEmbedding, CompleteOvertaken,
                 FailEmbedding, SurpriseEmbed, Running
  <2> QED BY <2>1 DEF TypeOK, JobsOK
<1>2. ASSUME NEW pc \in {"raising", "ending"}, Becomes(j, At(job, pc)),
             job.pc \in {"loaded", "calling", "overtaken"}
      PROVE  StepMoves(j)
  <2>1. Rank(job) \in {5, 6, 8} /\ Rank([pc |-> pc]) = 1
    BY <1>2, RankOf
  <2>2. Moves(job, At(job, pc))
    BY <2>1, SpentJobMoves
  <2> QED BY <1>1, <1>2, <2>2, OneMoves
<1>3. CASE MissProvider(j) \/ FailEmbedding(j)
  <2>1. job.pc \in {"loaded", "calling"}
    BY <1>3 DEF MissProvider, FailEmbedding, Running
  <2>2. \E code, fatal : Becomes(j, Failing(job, code, fatal))
    BY <1>3, Zenon DEF MissProvider, FailEmbedding
  <2> QED BY <1>1, <2>1, <2>2, FailingJobMoves, OneMoves
<1>4. CASE SelectPending(j)
  <2> DEFINE todo == Unembedded(job.doc)
             reads == {Read(job.doc, o) : o \in todo}
             new == [job EXCEPT !.pc = "calling", !.pending = reads]
  <2>1. job.pc = "loaded" /\ job.task = "embed"
    BY <1>4 DEF SelectPending, Running
  <2>2. CASE todo = {}
    BY <1>2, <1>4, <2>1, <2>2 DEF SelectPending
  <2>3. CASE todo # {}
    <3>1. Becomes(j, new)
      BY <1>4, <2>3 DEF SelectPending
    <3>2. Wanted(reads) # {}
      BY <2>3 DEF Wanted
    <3> HIDE DEF reads
    <3>3. /\ new.task = job.task /\ new.doc = job.doc /\ new.tries = job.tries
          /\ new.pc = "calling" /\ new.cleared = job.cleared /\ new.pending = reads
      BY <1>1 DEF Job
    <3> HIDE DEF new
    <3>4. Rank(new) < Rank(job)
      BY <2>1, <3>3, RankOf
    <3>5. Moves(job, new)
      BY <2>1, <3>2, <3>3, <3>4 DEF Moves, SameWork, Onward, Fits
    <3> QED BY ONLY <1>1, <3>1, <3>5, OneMoves
  <2> QED BY <2>2, <2>3
<1>5. CASE CompleteEmbedding(j) \/ CompleteOvertaken(j) \/ SurpriseEmbed(j)
  <2>1. job.pc \in {"loaded", "calling", "overtaken"}
    BY <1>5 DEF CompleteEmbedding, CompleteOvertaken, SurpriseEmbed, Running
  <2>2. \E pc \in {"raising", "ending"} : Becomes(j, At(job, pc))
    BY <1>5 DEF CompleteEmbedding, CompleteOvertaken, SurpriseEmbed, SaveVectors, RaiseStale
  <2> QED BY <1>2, <2>1, <2>2
<1> QED BY <1>3, <1>4, <1>5 DEF EmbedStep

\* What arq and the recording of a failure do to a job moves it or ends it.
LEMMA WorkerMoves ==
  ASSUME TypeOK, NEW j \in JobIds, WorkerStep(j) \/ Interrupt(j) \/ TimeOut(j)
  PROVE  StepMoves(j)
<1> DEFINE job == jobs[j]
<1>1. j \in DOMAIN jobs /\ job \in Job
  <2>1. j \in DOMAIN jobs
    BY Zenon DEF WorkerStep, StartRun, Abandon, ReadForFailure, MarkFailed, Finish, EndRaised,
                 Interrupt, TimeOut, Runs
  <2> QED BY <2>1 DEF TypeOK, JobsOK
<1>2. ASSUME NEW pc \in {"queued", "raising", "ending"}, Becomes(j, At(job, pc)),
             Rank([pc |-> pc]) < Rank(job)
      PROVE  StepMoves(j)
  <2>1. Moves(job, At(job, pc))
    BY <1>2, SpentJobMoves
  <2> QED BY <1>1, <1>2, <2>1, OneMoves
<1>3. CASE StartRun(j)
  <2>1. CASE ~Exists(job.doc)
    BY <1>1, <1>3, <2>1, OneEnds DEF StartRun
  <2>2. CASE Exists(job.doc)
    <3> DEFINE new == [job EXCEPT !.pc = "loaded", !.seen = docs[job.doc], !.tries = @ + 1]
    <3>1. Becomes(j, new)
      BY <1>3, <2>2 DEF StartRun, Becomes
    <3>2. /\ new.task = job.task /\ new.doc = job.doc /\ new.tries = job.tries + 1
          /\ new.pc = "loaded" /\ new.cleared = job.cleared
      BY <1>1 DEF Job
    <3> HIDE DEF new
    <3>3. Moves(job, new)
      BY <3>2 DEF Moves, SameWork, Onward, Fits
    <3> QED BY ONLY <1>1, <3>1, <3>3, OneMoves
  <2> QED BY <2>1, <2>2
<1>4. CASE Abandon(j) \/ Finish(j) \/ TimeOut(j)
  BY <1>1, <1>4, OneEnds DEF Abandon, Finish, TimeOut
<1>5. CASE ReadForFailure(j)
  <2>1. job.pc = "failing" /\ Rank(job) = 3
    BY <1>5, RankOf DEF ReadForFailure
  <2>2. CASE Exists(job.doc)
    <3> DEFINE new == [job EXCEPT !.pc = "marking", !.seen = docs[job.doc]]
    <3>1. Becomes(j, new)
      BY <1>5, <2>2 DEF ReadForFailure, Becomes
    <3>2. /\ new.task = job.task /\ new.doc = job.doc /\ new.tries = job.tries
          /\ new.pc = "marking" /\ new.cleared = job.cleared
      BY <1>1 DEF Job
    <3> HIDE DEF new
    <3>3. Rank(new) = 2
      BY <3>2, RankOf
    <3>4. Moves(job, new)
      BY <2>1, <3>2, <3>3 DEF Moves, SameWork, Onward, Fits
    <3> QED BY ONLY <1>1, <3>1, <3>4, OneMoves
  <2>3. CASE ~Exists(job.doc)
    <3>1. Becomes(j, At(job, "raising")) \/ jobs' = Ended(jobs, j)
      BY <1>5, <2>3 DEF ReadForFailure, Becomes
    <3>2. Rank([pc |-> "raising"]) = 1
      BY RankOf
    <3> QED BY <1>1, <1>2, <2>1, <3>1, <3>2, OneEnds
  <2> QED BY <2>2, <2>3
<1>6. CASE MarkFailed(j)
  <2>1. job.pc = "marking" /\ \E pc \in {"raising", "ending"} : Becomes(j, At(job, pc))
    BY <1>6 DEF MarkFailed, Becomes
  <2>2. Rank(job) = 2 /\ \A pc \in {"raising", "ending"} : Rank([pc |-> pc]) = 1
    BY <2>1, RankOf
  <2> QED BY <1>2, <2>1, <2>2
<1>7. CASE EndRaised(j) \/ Interrupt(j)
  <2>1. job.pc # "queued" /\ (Becomes(j, At(job, "queued")) \/ jobs' = Ended(jobs, j))
    BY <1>7 DEF EndRaised, Interrupt, Runs, Becomes
  <2>2. Rank([pc |-> "queued"]) = 0 /\ Rank(job) \in 1..8
    BY <1>1, <2>1, RankOf DEF Job, Points
  <2> QED BY <1>1, <1>2, <2>1, <2>2, OneEnds
<1> QED BY <1>3, <1>4, <1>5, <1>6, <1>7 DEF WorkerStep

\* So does, all in all, whatever a job does or meets with.
LEMMA JobMoves ==
  ASSUME TypeOK, NEW j \in JobIds, JobStep(j) \/ JobFault(j), \A i \in DOMAIN jobs : Fits(jobs[i])
  PROVE  StepMoves(j)
  BY IngestMoves, CommitMoves, EmbedMoves, WorkerMoves DEF JobStep, IngestStep, JobFault

(* Around the jobs nothing moves one, unless a release cuts all runs short,*)
(* and what is queued starts at the beginning.                             *)
LEMMA OthersMoveNothing ==
  ASSUME TypeOK, UNCHANGED vars \/ UploadNext \/ Outside
  PROVE  \/ jobs' = [i \in DOMAIN jobs |-> At(jobs[i], "queued")]
         \/ /\ DOMAIN jobs \subseteq DOMAIN jobs'
            /\ \A i \in DOMAIN jobs : jobs'[i] = jobs[i]
            /\ \A i \in DOMAIN jobs' \ DOMAIN jobs : jobs'[i].pc = "queued" /\ jobs'[i].cleared = {}
<1>1. CASE UNCHANGED vars
  BY <1>1 DEF vars
<1>2. \/ UNCHANGED jobs \/ Redeploy
      \/ \E j \in FreeJobs : \E task, d : jobs' = Enqueue(jobs, j, task, d)
  BY Zenon DEF vars, Outside, Rerun, DeleteDocument, UploadNext, CheckUpload, RejectDuplicate,
         UploadStep, StoreObject, InsertDocument, ViolateConstraint, EnqueueIngestion, LoseRequest
<1>3. CASE Redeploy
  BY <1>3 DEF Redeploy
<1>4. CASE \E j \in FreeJobs : \E task, d : jobs' = Enqueue(jobs, j, task, d)
  <2>1. PICK j \in FreeJobs : \E task, d : jobs' = Enqueue(jobs, j, task, d)
    BY <1>4
  <2>2. PICK task, d : jobs' = Enqueue(jobs, j, task, d)
    BY <2>1
  <2>3. Queued(task, d, 0).pc = "queued" /\ Queued(task, d, 0).cleared = {}
    BY DEF Queued
  <2> QED BY <2>2, <2>3 DEF Enqueue, With, FreeJobs
<1> QED BY <1>1, <1>2, <1>3, <1>4

\* Everybody is at a point of its own task, and at most one holds a document's rows.
WaitInv ==
  /\ \A j \in DOMAIN jobs : Fits(jobs[j])
  /\ \A i, j \in DOMAIN jobs :
       jobs[i].cleared # {} /\ jobs[j].cleared # {} /\ jobs[j].doc = jobs[i].doc => i = j

\* Rows are deleted only where nobody holds any, and no step hands them on.
LEMMA NextWaitInv ==
  ASSUME TypeOK, WaitInv, [Next]_vars
  PROVE  WaitInv'
<1>1. CASE UNCHANGED vars \/ UploadNext \/ Outside
  <2>1. CASE jobs' = [i \in DOMAIN jobs |-> At(jobs[i], "queued")]
    <3>1. \A job : At(job, "queued").pc = "queued" /\ At(job, "queued").cleared = {}
      BY DEF At, Queued
    <3>2. \A i \in DOMAIN jobs' : jobs'[i].pc = "queued" /\ jobs'[i].cleared = {}
      BY <2>1, <3>1
    <3> QED BY <3>2 DEF WaitInv, Fits
  <2>2. CASE /\ DOMAIN jobs \subseteq DOMAIN jobs'
             /\ \A i \in DOMAIN jobs : jobs'[i] = jobs[i]
             /\ \A i \in DOMAIN jobs' \ DOMAIN jobs : jobs'[i].pc = "queued" /\ jobs'[i].cleared = {}
    <3>1. \A i \in DOMAIN jobs' : Fits(jobs'[i])
      BY <2>2 DEF WaitInv, Fits
    <3>2. \A i \in DOMAIN jobs' : jobs'[i].cleared # {} => i \in DOMAIN jobs /\ jobs'[i] = jobs[i]
      BY <2>2
    <3> QED BY <3>1, <3>2 DEF WaitInv
  <2> QED BY <1>1, <2>1, <2>2, OthersMoveNothing
<1>2. ASSUME NEW j \in JobIds, JobStep(j) \/ JobFault(j)
      PROVE  WaitInv'
  <2>1. StepMoves(j)
    BY <1>2, JobMoves DEF WaitInv
  <2>2. \A i \in DOMAIN jobs' : Fits(jobs'[i])
    BY <2>1 DEF WaitInv, StepMoves, Moves, Fits
  <2>3. \A i \in DOMAIN jobs' \ {j} : jobs'[i].cleared # {} =>
          i \in DOMAIN jobs /\ jobs'[i].doc = jobs[i].doc /\ jobs'[i].cleared = jobs[i].cleared
    BY <2>1 DEF StepMoves, Moves, SameWork
  <2>4. j \in DOMAIN jobs /\ (j \in DOMAIN jobs' /\ jobs'[j].cleared # {} =>
          /\ jobs'[j].doc = jobs[j].doc
          /\ jobs'[j].cleared = jobs[j].cleared \/ ~Locked(jobs[j].doc))
    BY <2>1 DEF StepMoves, Moves, SameWork
  <2>5. ASSUME NEW i \in DOMAIN jobs' \ {j}, j \in DOMAIN jobs', jobs'[i].doc = jobs'[j].doc,
               jobs'[i].cleared # {}, jobs'[j].cleared # {}
        PROVE  FALSE
    BY <2>3, <2>4, <2>5 DEF WaitInv, Locked, Holds
  <2>6. ASSUME NEW i \in DOMAIN jobs' \ {j}, NEW k \in DOMAIN jobs' \ {j},
               jobs'[i].doc = jobs'[k].doc, jobs'[i].cleared # {}, jobs'[k].cleared # {}
        PROVE  i = k
    BY <2>3, <2>6 DEF WaitInv
  <2> QED BY <2>2, <2>5, <2>6 DEF WaitInv
<1> QED BY <1>1, <1>2 DEF Next

\* The invariant of who waits, in every reachable state.
LEMMA WaitInvariance == Spec => []WaitInv
<1>1. Init => WaitInv
  BY DEF Init, WaitInv
<1> QED BY <1>1, NextWaitInv, TypeCorrect, PTL DEF Spec

\* No step sets a job back, and its own bring it nearer to its end.
LEMMA NextWindsDown ==
  ASSUME TypeOK, TypeOK', WaitInv, [Next]_vars, NEW j \in DOMAIN jobs
  PROVE  /\ j \in DOMAIN jobs' =>
              SameWork(jobs[j], jobs'[j]) /\ JobToGo(jobs'[j]) <= JobToGo(jobs[j])
         /\ JobStep(j) \/ JobFault(j) =>
              j \notin DOMAIN jobs' \/ JobToGo(jobs'[j]) < JobToGo(jobs[j])
<1>1. jobs[j] \in Job /\ j \in JobIds /\ (j \in DOMAIN jobs' => jobs'[j] \in Job)
  BY DEF TypeOK, JobsOK
<1>2. ASSUME j \in DOMAIN jobs', Moves(jobs[j], jobs'[j])
      PROVE  /\ SameWork(jobs[j], jobs'[j])
             /\ JobToGo(jobs'[j]) < JobToGo(jobs[j]) /\ JobToGo(jobs'[j]) <= JobToGo(jobs[j])
  <2>1. SameWork(jobs[j], jobs'[j]) /\ Onward(jobs[j], jobs'[j])
    BY <1>2 DEF Moves
  <2>2. /\ JobToGo(jobs'[j]) \in Nat /\ JobToGo(jobs[j]) \in Nat
        /\ JobToGo(jobs'[j]) < JobToGo(jobs[j])
    BY <1>1, <1>2, <2>1, JobComesNearer
  <2> QED BY ONLY <2>1, <2>2
<1>3. JobToGo(jobs[j]) \in Nat
  BY <1>1, ToGoIsNat
<1>4. JobStep(j) \/ JobFault(j) =>
        j \notin DOMAIN jobs' \/ JobToGo(jobs'[j]) < JobToGo(jobs[j])
  BY <1>1, <1>2, JobMoves DEF StepMoves, WaitInv
<1>5. ASSUME j \in DOMAIN jobs'
      PROVE  SameWork(jobs[j], jobs'[j]) /\ JobToGo(jobs'[j]) <= JobToGo(jobs[j])
  <2>1. CASE jobs'[j] = jobs[j]
    BY <1>3, <2>1 DEF SameWork
  <2>2. CASE jobs'[j] = At(jobs[j], "queued")
    <3>1. SameWork(jobs[j], jobs'[j]) /\ jobs'[j].tries = jobs[j].tries /\ jobs'[j].pc = "queued"
      BY <2>2 DEF SameWork, At, Queued
    <3>2. Rank(jobs'[j]) = 0 /\ Rank(jobs[j]) \in 0..8
      BY <1>1, <3>1, RankOf, RankIsInStretch
    <3>3. jobs[j].tries \in Nat /\ MaxTries \in Nat
      BY <1>1, BoundsAssumption DEF Job
    <3> QED BY ONLY <3>1, <3>2, <3>3 DEF JobToGo, Stretch
  <2>3. CASE UNCHANGED vars \/ UploadNext \/ Outside
    BY <1>5, <2>1, <2>2, <2>3, OthersMoveNothing
  <2>4. ASSUME NEW i \in JobIds, JobStep(i) \/ JobFault(i)
        PROVE  jobs'[j] = jobs[j] \/ Moves(jobs[j], jobs'[j])
    BY <1>5, <2>4, JobMoves DEF StepMoves, WaitInv
  <2> QED BY <1>2, <1>5, <2>1, <2>3, <2>4 DEF Next
<1> QED BY <1>4, <1>5

(* No job is ever set back, whatever faults, crashes and releases it meets,*)
(* and each of its steps brings it nearer to its end: no document is worked*)
(* on for ever by the jobs that have been queued for it.                   *)
THEOREM JobsAreDriven == Spec => JobsWindDown
<1>1. TypeOK /\ TypeOK' /\ WaitInv /\ [Next]_vars =>
        [\A j \in DOMAIN jobs :
           /\ j \in DOMAIN jobs' =>
                SameWork(jobs[j], jobs'[j]) /\ JobToGo(jobs'[j]) <= JobToGo(jobs[j])
           /\ JobStep(j) \/ JobFault(j) =>
                j \notin DOMAIN jobs' \/ JobToGo(jobs'[j]) < JobToGo(jobs[j])]_vars
  BY NextWindsDown
<1> QED BY <1>1, TypeCorrect, WaitInvariance, PTL DEF Spec, JobsWindDown

(* Whoever waits for row locks waits for one ingestion about to commit,    *)
(* which waits for nobody: the worker's transactions do not deadlock.      *)
THEOREM LockHoldersAreAlone == Spec => []LocksAreShort
<1>1. PipelineInv /\ WaitInv => LocksAreShort
  BY DEF PipelineInv, ReplacementIsSafe, SafeJob, WaitInv, LocksAreShort
<1> QED BY <1>1, PipelineInvariance, WaitInvariance, PTL

(* A job is never at a point its code has no way on from: a document       *)
(* deleted under an embedding takes its chunks with it, and that is an     *)
(* exception, not a silent success.                                        *)
THEOREM JobsAreNeverStuck == Spec => []NeverStuck
<1>1. TypeOK /\ PipelineInv /\ WaitInv => NeverStuck
  <2> SUFFICES ASSUME TypeOK, PipelineInv, WaitInv, NEW j \in DOMAIN jobs
               PROVE  LET job == jobs[j] IN
                        /\ job.pc \in {"parsing", "chunking", "replacing", "committed"} =>
                             job.task = "ingest"
                        /\ job.pc \in {"calling", "overtaken"} =>
                             /\ job.task = "embed" /\ Wanted(job.pending) # {}
                             /\ Exists(job.doc) \/ Reached(j, {}) # Wanted(job.pending)
    BY DEF NeverStuck
  <2>1. jobs[j].doc \in Docs /\ Fits(jobs[j])
    BY DEF TypeOK, JobsOK, Job, WaitInv
  <2>2. ~Exists(jobs[j].doc) => Reached(j, {}) = {}
    BY <2>1 DEF PipelineInv, ChunksAreOneParse, Reached
  <2> QED BY <2>1, <2>2 DEF Fits
<1> QED BY <1>1, TypeCorrect, PipelineInvariance, WaitInvariance, PTL
=============================================================================
