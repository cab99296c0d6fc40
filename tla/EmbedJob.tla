------------------------------ MODULE EmbedJob ------------------------------
(***************************************************************************)
(* The embed_document_chunks job: EmbeddingService.embed_document and the  *)
(* task around it, one action per await.  The chunks it will write are read*)
(* before the provider is called and updated by primary key after.         *)
(***************************************************************************)
EXTENDS DocumentStore

Read(d, o) == [ordinal |-> o, text |-> chunks[d][o].text]
Wanted(pending) == {c.ordinal : c \in pending}

(* Chunks without a vector are read; none pending ends the job without a   *)
(* write.  One model is configured, so no vector is another model's.       *)
SelectPending(j) ==
  /\ Running(j, "embed", "loaded")
  /\ configured
  /\ LET job == jobs[j]
         todo == Unembedded(job.doc)
     IN IF todo = {} THEN Becomes(j, At(job, "ending"))
        ELSE Becomes(j, [job EXCEPT !.pc = "calling",
                                 !.pending = {Read(job.doc, o) : o \in todo}])
  /\ UNCHANGED <<tables, objects, requests, bounds>>

\* ProviderError: no key is configured, and no pipeline can be built.
MissProvider(j) ==
  /\ Running(j, "embed", "loaded")
  /\ ~configured
  /\ Becomes(j, Failing(jobs[j], "PROVIDER_NOT_CONFIGURED", TRUE))
  /\ UNCHANGED <<tables, objects, requests, bounds>>

\* The provider's error, of whatever code, is recorded on the document and raised again.
FailEmbedding(j) ==
  /\ "provider" \in Faults
  /\ Running(j, "embed", "calling")
  /\ Becomes(j, Failing(jobs[j], "EMBEDDING_FAILED", TRUE))
  /\ UNCHANGED <<tables, objects, requests, bounds>>

\* The rows a list of UPDATEs by primary key reaches, those in lost having waited for a lock.
Reached(j, lost) == (Wanted(jobs[j].pending) \cap DOMAIN chunks[jobs[j].doc]) \ lost

TextRead(pending, o) == (CHOOSE c \in pending : c.ordinal = o).text

Vectorised(d, pending, rows) ==
  [chunks EXCEPT ![d] =
    [o \in DOMAIN @ |-> IF o \in rows THEN [@[o] EXCEPT !.vec = TextRead(pending, o)]
                        ELSE @[o]]]

(* The vectors and the cleared error in one commit.  An UPDATE that matched*)
(* no row is noticed in a batch of one; of several statements the driver   *)
(* need not report the count, and then the others are committed.           *)
SaveVectors(j, lost) ==
  LET job == jobs[j]
      todo == Wanted(job.pending)
      want == [job.seen EXCEPT !.error = "none"]
  IN /\ ~Locked(job.doc)
     /\ Reached(j, lost) = todo \/ Cardinality(todo) > 1
     /\ Exists(job.doc) \/ want = job.seen
     /\ chunks' = Vectorised(job.doc, job.pending, Reached(j, lost))
     /\ docs' = Flush(job.doc, job.seen, want)
     /\ Becomes(j, At(job, "ending"))
     /\ UNCHANGED <<objects, requests, bounds>>

\* Or it is noticed: StaleDataError is no DomainError, and is raised unrecorded.
RaiseStale(j, lost) ==
  /\ ~Locked(jobs[j].doc)
  /\ Reached(j, lost) # Wanted(jobs[j].pending)
  /\ Becomes(j, At(jobs[j], "raising"))
  /\ UNCHANGED <<tables, objects, requests, bounds>>

CompleteEmbedding(j) ==
  /\ Running(j, "embed", "calling")
  /\ SaveVectors(j, {}) \/ RaiseStale(j, {})

(* The batch began while an ingestion held the rows: the UPDATE that waited*)
(* is lost, those after it see the rows that replaced them.                *)
CompleteOvertaken(j) ==
  /\ Running(j, "embed", "overtaken")
  /\ \E o \in Wanted(jobs[j].pending) : SaveVectors(j, {o}) \/ RaiseStale(j, {o})

\* Anything unforeseen that is not a DomainError, raised with nothing recorded.
SurpriseEmbed(j) ==
  /\ "surprise" \in Faults
  /\ j \in DOMAIN jobs /\ jobs[j].task = "embed"
  /\ jobs[j].pc \in {"loaded", "calling", "overtaken"}
  /\ Becomes(j, At(jobs[j], "raising"))
  /\ UNCHANGED <<tables, objects, requests, bounds>>

EmbedStep(j) ==
  \/ SelectPending(j)
  \/ MissProvider(j)
  \/ CompleteEmbedding(j)
  \/ CompleteOvertaken(j)
=============================================================================
