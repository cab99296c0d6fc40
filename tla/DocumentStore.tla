--------------------------- MODULE DocumentStore ---------------------------
(***************************************************************************)
(* The state the document pipeline keeps, shared by the API process and    *)
(* the arq worker:                                                         *)
(*                                                                         *)
(*   docs       the documents table, a function on the ids that have a row *)
(*   chunks     the chunks table: per document, its rows by ordinal        *)
(*   objects    the keys the object storage holds a file under             *)
(*   jobs       the arq queue and the jobs being run, by job id            *)
(*   requests   the upload requests the API has begun to serve             *)
(*   parser     the version of the parsing code the worker runs            *)
(*   configured whether the worker was started with a provider key         *)
(*                                                                         *)
(* Only committed rows are in docs and chunks.  What a job holds between   *)
(* two awaits (the attributes its ORM session loaded, the rows its open    *)
(* transaction has deleted, the chunks it read) is in its own record, and  *)
(* is lost when the worker is interrupted.                                 *)
(***************************************************************************)
EXTENDS Integers, FiniteSets

CONSTANTS
  Docs,           \* document ids, the pool uuid4 draws from
  Contents,       \* (project, sha256) pairs an upload may carry
  Refused,        \* contents turned away by type, size or emptiness
  Unreadable,     \* contents no parser version can read
  Pieces,         \* chunks a readable content yields, per parser version
  MaxParser,      \* parser versions are 1..MaxParser
  Requests,       \* upload requests
  JobIds,         \* arq job ids: how many jobs may exist at once
  MaxTries,       \* arq max_tries
  RetryRaised,    \* whether a job that raises is run again
  HasProvider,    \* the deployments considered: with a provider key, without
  MaxReruns,      \* bound: jobs an operator queues by hand
  MaxInterrupts,  \* bound: runs cut short by a crash or a shutdown
  Faults          \* the kinds of fault that may happen

FaultKinds == {"api", "queue", "provider", "surprise", "timeout", "delete"}

ASSUME BoundsAssumption ==
  /\ MaxParser \in Nat \ {0} /\ MaxTries \in Nat \ {0}
  /\ MaxReruns \in Nat /\ MaxInterrupts \in Nat

ASSUME SwitchAssumption ==
  /\ RetryRaised \in BOOLEAN /\ HasProvider \subseteq BOOLEAN
  /\ Faults \subseteq FaultKinds

ASSUME ParseAssumption ==
  /\ Contents # {}
  /\ Refused \subseteq Contents /\ Unreadable \subseteq Contents
  /\ Pieces \in [1..MaxParser -> [Contents -> Nat]]

VARIABLES docs, chunks, objects, jobs, requests, parser, reruns, interrupts,
          configured

tables == <<docs, chunks>>
bounds == <<parser, reruns, interrupts, configured>>
vars == <<docs, chunks, objects, jobs, requests, parser, reruns, interrupts,
          configured>>

\* A table, a queue or a log with one entry added.
With(f, key, value) == [k \in DOMAIN f \cup {key} |-> IF k = key THEN value ELSE f[k]]
-----------------------------------------------------------------------------
(* The documents table.  `page_count`, titles and sizes never steer the    *)
(* pipeline and are left out; `error` stands for error_code together with  *)
(* error_message, which are always written as a pair.                      *)

Statuses == {"pending", "parsing", "chunking", "completed", "failed"}
ErrorCodes == {"none", "PARSING_FAILED", "INGESTION_FAILED", "STORAGE_FAILED",
               "EMBEDDING_FAILED", "PROVIDER_NOT_CONFIGURED"}

Row == [content : Contents, status : Statuses, error : ErrorCodes, count : Nat]

NewRow(c) == [content |-> c, status |-> "pending", error |-> "none", count |-> 0]

Exists(d) == d \in DOMAIN docs

(* The unit of work writes a column only when the attribute the session    *)
(* holds differs from the value it last loaded or flushed: a column set to *)
(* the value it was loaded with is left as another transaction made it.    *)
Flush(d, seen, want) ==
  IF ~Exists(d) THEN docs ELSE [docs EXCEPT ![d] =
    [content |-> @.content,
     status |-> IF want.status = seen.status THEN @.status ELSE want.status,
     error |-> IF want.error = seen.error THEN @.error ELSE want.error,
     count |-> IF want.count = seen.count THEN @.count ELSE want.count]]

(* The chunks table.  `text` is the parser version that cut the chunk's    *)
(* text (parsing and chunking are deterministic, so document, ordinal and  *)
(* version determine it), and `vec` the version whose text the stored      *)
(* vector was computed from, 0 for NULL.  A chunk id is derived from its   *)
(* document and ordinal, so the ordinal is the primary key here.           *)
ChunkRow == [text : 1..MaxParser, vec : 0..MaxParser]

Ordinals(v, c) == 1..Pieces[v][c]

FreshChunks(v, c) == [o \in Ordinals(v, c) |-> [text |-> v, vec |-> 0]]

Unembedded(d) == {o \in DOMAIN chunks[d] : chunks[d][o].vec = 0}
-----------------------------------------------------------------------------
(* The queue.  A job's record holds its arguments, arq's try counter, the  *)
(* point its coroutine has reached and the locals it holds there.          *)

Tasks == {"ingest", "embed"}
Points == {"queued", "loaded", "parsing", "chunking", "replacing", "committed",
           "calling", "overtaken", "failing", "marking", "raising", "ending"}

Nothing == NewRow(CHOOSE c \in Contents : TRUE)

\* A job as arq holds it before the worker runs it, and after a run is lost.
Queued(task, d, tries) ==
  [task |-> task, doc |-> d, tries |-> tries, pc |-> "queued",
   seen |-> Nothing,  \* column values the session last loaded or flushed
   cleared |-> {},    \* ordinals its open transaction has deleted
   pending |-> {},    \* the chunks to embed, with the text that was read
   code |-> "none",   \* the error being recorded
   fatal |-> FALSE]   \* whether the error is raised again once recorded

\* The same job at another point of its coroutine, its locals spent.
At(job, pc) == [Queued(job.task, job.doc, job.tries) EXCEPT !.pc = pc]

Failing(job, code, fatal) ==
  [At(job, "failing") EXCEPT !.code = code, !.fatal = fatal]

FreeJobs == JobIds \ DOMAIN jobs

Enqueue(queue, j, task, d) == With(queue, j, Queued(task, d, 0))

Ended(queue, j) == [i \in DOMAIN queue \ {j} |-> queue[i]]

Becomes(j, job) == jobs' = [jobs EXCEPT ![j] = job]

Running(j, task, pc) == j \in DOMAIN jobs /\ jobs[j].task = task /\ jobs[j].pc = pc

(* Row locks: a transaction that has deleted rows holds them until it ends,*)
(* and every other statement that wants to change them waits.              *)
Holds(j, d) == jobs[j].doc = d /\ jobs[j].cleared # {}
Locked(d) == \E j \in DOMAIN jobs : Holds(j, d)
-----------------------------------------------------------------------------
Init ==
  /\ docs = <<>>
  /\ chunks = [d \in Docs |-> <<>>]
  /\ objects = {}
  /\ jobs = <<>>
  /\ requests = <<>>
  /\ parser = 1
  /\ reruns = 0
  /\ interrupts = 0
  /\ configured \in HasProvider
=============================================================================
