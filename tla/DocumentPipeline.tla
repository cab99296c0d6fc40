-------------------------- MODULE DocumentPipeline --------------------------
(***************************************************************************)
(* The document pipeline: uploads served by the API, the ingestion and     *)
(* embedding jobs the worker runs, the faults of both processes, and what  *)
(* is done to documents from outside the code (jobs an operator queues by  *)
(* hand, rows deleted in the database).                                    *)
(***************************************************************************)
EXTENDS Upload, IngestJob, EmbedJob, ArqWorker

\* A document is ingested or embedded again: after an outage, a new key, a better parser.
Rerun(d, task) ==
  /\ Exists(d)
  /\ reruns < MaxReruns
  /\ reruns' = reruns + 1
  /\ \E j \in FreeJobs : jobs' = Enqueue(jobs, j, task, d)
  /\ UNCHANGED <<tables, objects, requests, parser, interrupts, configured>>

\* A document is deleted with its project; ON DELETE CASCADE takes its chunks.
DeleteDocument(d) ==
  /\ "delete" \in Faults
  /\ Exists(d)
  /\ ~Locked(d)
  /\ docs' = [e \in DOMAIN docs \ {d} |-> docs[e]]
  /\ chunks' = [chunks EXCEPT ![d] = <<>>]
  /\ UNCHANGED <<objects, jobs, requests, bounds>>

JobStep(j) == IngestStep(j) \/ EmbedStep(j) \/ WorkerStep(j)

JobFault(j) ==
  \/ SurpriseIngest(j)
  \/ LoseEmbedding(j)
  \/ FailEmbedding(j)
  \/ SurpriseEmbed(j)
  \/ Interrupt(j)
  \/ TimeOut(j)

Outside == Redeploy \/ \E d \in Docs : DeleteDocument(d) \/ \E t \in Tasks : Rerun(d, t)

Next ==
  \/ UploadNext
  \/ \E j \in JobIds : JobStep(j) \/ JobFault(j)
  \/ Outside

Spec == Init /\ [][Next]_vars

(* arq keeps starting and driving its jobs, and the API its requests; no   *)
(* fault has to happen, and nobody outside has to act.                     *)
Fairness ==
  /\ \A r \in Requests : WF_vars(UploadStep(r))
  /\ \A j \in JobIds : WF_vars(JobStep(j))

FairSpec == Spec /\ Fairness
-----------------------------------------------------------------------------
Job == [task : Tasks, doc : Docs, tries : 0..MaxTries, pc : Points, seen : Row,
        cleared : SUBSET Nat, pending : SUBSET [ordinal : Nat, text : 1..MaxParser],
        code : ErrorCodes, fatal : BOOLEAN]

DocsOK == DOMAIN docs \subseteq Docs /\ \A d \in DOMAIN docs : docs[d] \in Row

ChunksOK ==
  /\ DOMAIN chunks = Docs
  /\ \A d \in Docs : /\ DOMAIN chunks[d] \subseteq Nat
                      /\ \A o \in DOMAIN chunks[d] : chunks[d][o] \in ChunkRow

JobsOK == DOMAIN jobs \subseteq JobIds /\ \A j \in DOMAIN jobs : jobs[j] \in Job

RequestsOK ==
  DOMAIN requests \subseteq Requests /\ \A r \in DOMAIN requests : requests[r] \in Request

BoundsOK ==
  /\ parser \in 1..MaxParser /\ configured \in BOOLEAN
  /\ reruns \in 0..MaxReruns /\ interrupts \in 0..MaxInterrupts

\* The type invariant; a job is never tried more often than arq allows.
TypeOK ==
  DocsOK /\ ChunksOK /\ objects \subseteq Docs /\ JobsOK /\ RequestsOK /\ BoundsOK

(* A row is never without its file: whatever is lost between the put and   *)
(* the commit, a job that loads the row finds the object under its key.    *)
ObjectBeforeRow == DOMAIN docs \subseteq objects

(* Why it is so: an id drawn by an upload is nobody else's until the row   *)
(* is committed, and no job is about a document that was never stored.     *)
UploadsOwnIds ==
  /\ \A j \in DOMAIN jobs : jobs[j].doc \in objects
  /\ \A r \in DOMAIN requests :
       LET d == requests[r].doc
       IN /\ requests[r].pc \in {"stored", "committed", "accepted"} => d \in objects
          /\ requests[r].pc \in {"checked", "stored"} =>
               /\ ~Exists(d)
               /\ \A j \in DOMAIN jobs : jobs[j].doc # d
               /\ \A q \in DOMAIN requests \ {r} : requests[q].doc # d

(* The same file is not ingested twice into a project, however two uploads *)
(* of it interleave with each other, with deletions and with failures.     *)
OneRowPerContent ==
  \A d, e \in DOMAIN docs : docs[d].content = docs[e].content => d = e

(* What is searchable of a document is nothing or one whole parse of it,   *)
(* with chunk_count its size, whatever jobs run on it at once or die in the*)
(* middle: no run is ever half visible, nor mixed with another.            *)
OneParse(d, v) ==
  /\ DOMAIN chunks[d] = Ordinals(v, docs[d].content)
  /\ \A o \in DOMAIN chunks[d] : chunks[d][o].text = v
  /\ docs[d].count = Pieces[v][docs[d].content]

NoParse(d) == DOMAIN chunks[d] = {} /\ docs[d].count = 0

ChunksAreOneParse ==
  \A d \in Docs :
    IF ~Exists(d) THEN DOMAIN chunks[d] = {}
    ELSE /\ NoParse(d) \/ \E v \in 1..MaxParser : OneParse(d, v)
         /\ docs[d].status = "completed" => \E v \in 1..MaxParser : OneParse(d, v)
         /\ docs[d].status = "pending" => NoParse(d)

(* Why it is so.  An ingestion in flight knows the row it will complete,   *)
(* chunk_count included, or another run of the same parser has completed it*)
(* meanwhile; and by the time it commits it has deleted every chunk there  *)
(* is, unless another run of the same parser put the present ones there.   *)
Ingests(job, pcs) == job.task = "ingest" /\ job.pc \in pcs

SafeJob(job) ==
  LET d == job.doc
  IN /\ job.cleared # {} => Ingests(job, {"replacing"})
     /\ Ingests(job, {"chunking", "replacing"}) => job.seen.status = "chunking"
     /\ Ingests(job, {"loaded", "parsing", "chunking", "replacing"}) /\ Exists(d) =>
          /\ job.seen.content = docs[d].content
          /\ job.seen.count = docs[d].count \/ OneParse(d, parser)
     /\ Ingests(job, {"replacing"}) =>
          job.cleared = DOMAIN chunks[d] \/ (Exists(d) /\ OneParse(d, parser))

ReplacementIsSafe == \A j \in DOMAIN jobs : SafeJob(jobs[j])

\* Nobody is going to touch the document any more.
Idle(d) ==
  /\ \A j \in DOMAIN jobs : jobs[j].doc # d
  /\ \A r \in DOMAIN requests : requests[r].doc = d => requests[r].pc # "committed"

(* The status a client polls has settled once nobody works on the document:*)
(* interrupted, overtaken and repeated runs included, none is left in      *)
(* pending, parsing or chunking.                                           *)
IdleIsSettled ==
  \A d \in DOMAIN docs : Idle(d) => docs[d].status \in {"completed", "failed"}

(* A completed document that nobody works on has all its vectors: the      *)
(* follow-up job is never lost with the run that should queue it, and the  *)
(* vectors an ingestion wiped are always somebody's to write again.        *)
IdleIsEmbedded ==
  \A d \in DOMAIN docs :
    Idle(d) /\ docs[d].status = "completed" /\ configured => Unembedded(d) = {}

\* Nothing is left half way when nobody works on it.
IdleIsFinished == IdleIsSettled /\ IdleIsEmbedded

(* "arq retries failed jobs, so a second run must converge on the same     *)
(* result rather than duplicating chunks or tripping a constraint"         *)
(* (tests/integration/test_ingestion.py): however runs on a readable       *)
(* document are repeated, cut short and overlapped, and whichever of them  *)
(* the constraint makes fail, when all are over the document has the chunks*)
(* of one whole parse.  That none of them is on record as failed is claimed*)
(* only while nobody queues one by hand: a run so queued may overlap       *)
(* another, and the one that clashes fails the document it finds complete. *)
RunsConverge ==
  \A d \in DOMAIN docs :
    Idle(d) /\ docs[d].content \notin Unreadable =>
      /\ \E v \in 1..MaxParser : OneParse(d, v)
      /\ reruns = 0 => docs[d].error # "INGESTION_FAILED"

(* "error_code holds an ErrorCode value when ingestion fails, making the   *)
(* failure attributable" (app/models/document.py).                         *)
FailedIsAttributable ==
  \A d \in DOMAIN docs : docs[d].status = "failed" => docs[d].error # "none"

(* "vectors stay attached to the right chunks" (core/embeddings/pipeline.py*)
(* ): a stored vector was computed from the text it is stored beside.      *)
VectorsOfOwnText ==
  \A d \in Docs : \A o \in DOMAIN chunks[d] :
    chunks[d][o].vec \in {0, chunks[d][o].text}

(* An accepted upload is settled sooner or later: completed or failed, as  *)
(* the upload route tells the client to poll for, or deleted.              *)
Accepted(d) ==
  \E r \in DOMAIN requests : requests[r].doc = d /\ requests[r].pc = "accepted"
Settled(d) == Exists(d) => docs[d].status \in {"completed", "failed"}
AcceptedSettles == \A d \in Docs : Accepted(d) ~> Settled(d)

(* A completed document becomes searchable by vector, unless embedding it  *)
(* fails and says so, or the document goes.                                *)
Completed(d) == Exists(d) /\ docs[d].status = "completed"
CompletedGetsVectors ==
  \A d \in Docs : Completed(d) ~> (~Completed(d) \/ Unembedded(d) = {})
-----------------------------------------------------------------------------
(* What a search sees of the chunks table.                                 *)
Published ==
  [d \in Docs |-> [o \in DOMAIN chunks[d] |->
    [text |-> chunks[d][o].text, dense |-> chunks[d][o].vec # 0]]]

Index ==
  INSTANCE RetrievalIndex WITH
    Versions <- 1..MaxParser,
    Sizes <- {Pieces[v][c] : v \in 1..MaxParser, c \in Contents},
    known <- DOMAIN docs,
    index <- Published

(* What it may rely on, of everything above: parses are published whole    *)
(* and each in one step, a published chunk keeps its text, and its vector  *)
(* until its document is published again (see RetrievalIndex).             *)
ImplementsIndex == Index!Spec
=============================================================================
