------------------------------ MODULE Upload ------------------------------
(***************************************************************************)
(* POST /documents/upload: what the API process does between receiving a   *)
(* file and answering, one action per await.  Requests run concurrently,   *)
(* so two uploads of the same bytes may interleave at any of these points. *)
(***************************************************************************)
EXTENDS DocumentStore

RequestPoints == {"checked", "stored", "committed", "accepted", "conflict", "error"}
Request == [pc : RequestPoints, content : Contents, doc : Docs]

\* A file that is neither empty, nor too large, nor of another media type.
Accepts(c) == c \notin Refused

SameContent(c) == {d \in DOMAIN docs : docs[d].content = c}

(* Document ids nobody has drawn: uuid4 never repeats, and an object stays *)
(* under its key for good because nothing in the code deletes one.         *)
FreshIds == Docs \ (objects \cup {requests[q].doc : q \in DOMAIN requests})

Answer(r, pc) == requests' = [requests EXCEPT ![r].pc = pc]

(* The media type, the size and the hash are looked at first, and a refused*)
(* file changes nothing; then a row with the same project and hash is      *)
(* sought.  The id is drawn here: it is read nowhere before the put.       *)
CheckUpload(r, c, d) ==
  /\ r \notin DOMAIN requests
  /\ Accepts(c)
  /\ SameContent(c) = {}
  /\ d \in FreshIds
  /\ requests' = With(requests, r, [pc |-> "checked", content |-> c, doc |-> d])
  /\ UNCHANGED <<tables, objects, jobs, bounds>>

\* The hash is already in the project: ConflictError names the document.
RejectDuplicate(r, c, d) ==
  /\ r \notin DOMAIN requests
  /\ Accepts(c)
  /\ d \in SameContent(c)
  /\ requests' = With(requests, r, [pc |-> "conflict", content |-> c, doc |-> d])
  /\ UNCHANGED <<tables, objects, jobs, bounds>>

\* Variant: the row is registered without the file being stored.
StoreNothing(r) ==
  /\ r \in DOMAIN requests /\ requests[r].pc = "checked"
  /\ Answer(r, "stored")
  /\ UNCHANGED <<tables, objects, jobs, bounds>>

StoreObject(r) ==
  /\ r \in DOMAIN requests /\ requests[r].pc = "checked"
  /\ objects' = objects \cup {requests[r].doc}
  /\ Answer(r, "stored")
  /\ UNCHANGED <<tables, jobs, bounds>>

\* Variant: no unique constraint backs the check made before the upload was stored.
InsertUnchecked(r) ==
  /\ r \in DOMAIN requests /\ requests[r].pc = "stored"
  /\ docs' = With(docs, requests[r].doc, NewRow(requests[r].content))
  /\ Answer(r, "committed")
  /\ UNCHANGED <<chunks, objects, jobs, bounds>>

(* INSERT and COMMIT.  The unique constraint on (project_id, content_hash) *)
(* is what decides between two uploads that both passed the check.         *)
InsertDocument(r) ==
  /\ r \in DOMAIN requests /\ requests[r].pc = "stored"
  /\ SameContent(requests[r].content) = {}
  /\ docs' = With(docs, requests[r].doc, NewRow(requests[r].content))
  /\ Answer(r, "committed")
  /\ UNCHANGED <<chunks, objects, jobs, bounds>>

\* The loser's IntegrityError is nobody's to catch: a 500, and its object stays.
ViolateConstraint(r) ==
  /\ r \in DOMAIN requests /\ requests[r].pc = "stored"
  /\ SameContent(requests[r].content) # {}
  /\ Answer(r, "error")
  /\ UNCHANGED <<tables, objects, jobs, bounds>>

EnqueueIngestion(r) ==
  /\ r \in DOMAIN requests /\ requests[r].pc = "committed"
  /\ \E j \in FreeJobs : jobs' = Enqueue(jobs, j, "ingest", requests[r].doc)
  /\ Answer(r, "accepted")
  /\ UNCHANGED <<tables, objects, bounds>>

\* The API process dies, or the queue refuses the job, before the answer.
LoseRequest(r) ==
  /\ "api" \in Faults
  /\ r \in DOMAIN requests /\ requests[r].pc \in {"checked", "stored", "committed"}
  /\ Answer(r, "error")
  /\ UNCHANGED <<tables, objects, jobs, bounds>>

UploadStep(r) ==
  \/ StoreObject(r)
  \/ InsertDocument(r)
  \/ ViolateConstraint(r)
  \/ EnqueueIngestion(r)

UploadNext ==
  \E r \in Requests :
    \/ \E c \in Contents, d \in Docs : CheckUpload(r, c, d) \/ RejectDuplicate(r, c, d)
    \/ UploadStep(r)
    \/ LoseRequest(r)
=============================================================================
