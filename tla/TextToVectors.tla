---------------------------- MODULE TextToVectors ----------------------------
(***************************************************************************)
(* A document's way from bytes to vectors when nothing disturbs it: parse, *)
(* chunk, and embed the chunks in batches the provider accepts.  What may  *)
(* disturb it is the subject of DocumentPipeline.                          *)
(*                                                                         *)
(*   vectors   the vectors so far, each known by the number of its text    *)
(*                                                                         *)
(* The provider is taken to give every input of a request its own index;   *)
(* it may answer in any order, with one too few, or with what cannot be    *)
(* read as vectors of the right width.                                     *)
(***************************************************************************)
EXTENDS TextChunks, ProviderCall

CONSTANTS
  EMBEDDING_BATCH_SIZE,  \* as configured
  MAX_BATCH_SIZE         \* as many inputs as the provider accepts

ASSUME BatchAssumption == EMBEDDING_BATCH_SIZE \in Nat \ {0} /\ MAX_BATCH_SIZE \in Nat \ {0}

VARIABLE vectors

vars == <<text_vars, call_vars, vectors>>

Init == TextInit /\ CallInit /\ vectors = <<>>

\* The pipeline's batch size never exceeds the provider's, whatever is configured.
BatchSize == Min({EMBEDDING_BATCH_SIZE, MAX_BATCH_SIZE})

\* The numbers of the texts of the batch that is due.
Batch == (Len(vectors) + 1)..Min({Len(vectors) + BatchSize, Len(chunks)})

ReadText == TextNext /\ UNCHANGED <<call_vars, vectors>>

SendBatch ==
  /\ stage = "chunked" /\ Len(vectors) < Len(chunks)
  /\ IF Cardinality(Batch) > MAX_BATCH_SIZE
     THEN call = "idle" /\ Raise(Error("MODEL_CONTEXT_EXCEEDED", FALSE))
     ELSE Post
  /\ UNCHANGED <<text_vars, vectors>>

\* What a provider may answer for the batch: [index, text] pairs in any order.
Replies ==
  LET item(text) == [index |-> text - Len(vectors) - 1, text |-> text]
  IN {[i \in DOMAIN order |-> item(order[i])] :
        order \in UNION {SetToSeqs(Batch \ missing) : missing \in {{}} \cup {{t} : t \in Batch}}}

\* Variant: vectors in the order in which they arrive.
AsTheyCome(items) == [i \in DOMAIN items |-> items[i].text]

\* The vectors by index.
Ordered(items) ==
  [n \in DOMAIN items |->
     LET item == CHOOSE item \in ToSet(items) :
                   Cardinality({i \in DOMAIN items : items[i].index < item.index}) = n - 1
     IN item.text]

ReceiveVectors(items) ==
  /\ call = "posted"
  /\ IF Len(items) = Cardinality(Batch)
     THEN Answered /\ vectors' = vectors \o Ordered(items)
     ELSE Raise(Error(DEFAULT_CODE, FALSE)) /\ UNCHANGED vectors
  /\ UNCHANGED text_vars

\* No "data", no numbers, or not as many as the model has dimensions.
ReceiveNonsense ==
  /\ call = "posted" /\ Raise(Error(DEFAULT_CODE, FALSE))
  /\ UNCHANGED <<text_vars, vectors>>

CallStep ==
  /\ \/ \E e \in RequestErrors : RequestFails(e)
     \/ BodyIsNoJson \/ Retry
  /\ UNCHANGED <<text_vars, vectors>>

IsOver == stage = "unreadable" \/ call = "raised" \/ (stage = "chunked" /\ Len(vectors) = Len(chunks))

\* Nothing is left to do; everywhere else something is, or TLC reports a deadlock.
StayOver == IsOver /\ UNCHANGED vars

Next ==
  \/ ReadText \/ SendBatch \/ \E items \in Replies : ReceiveVectors(items)
  \/ ReceiveNonsense \/ CallStep \/ StayOver

Spec == Init /\ [][Next]_vars
-----------------------------------------------------------------------------
(* Vectors stay attached to their chunks: the n-th vector is that of the   *)
(* n-th text, through batching and whatever order the provider answers in  *)
(* (pipeline.py:4-5, mistral.py:225-231).                                  *)
VectorsAreAligned == \A n \in DOMAIN vectors : vectors[n] = n

(* A failure that may pass is raised only when every attempt was used, and *)
(* every failure is one of a request that was made: the client never       *)
(* refuses its own batch for its size, whatever batch size is configured   *)
(* (mistral.py:94-105, pipeline.py:23-24).                                 *)
RetriesAreSpent ==
  /\ attempt <= MAX_RETRIES
  /\ call = "raised" => attempt > 0 /\ (error.retryable => attempt = MAX_RETRIES)

\* What is left of the loops, the outermost first.
WorkLeft ==
  << CASE stage = "parsing" -> 2 [] stage = "chunking" -> 1 [] OTHER -> 0,
     CASE stage = "chunking" -> Len(blocks) - next + 1
       [] stage = "parsing" /\ document.mime = "pdf" -> Len(document.pages) - next + 1
       [] stage = "parsing" /\ document.mime = "text" /\ unread # Finished -> Len(document.pages[1]) - unread + 1
       [] OTHER -> 0,
     IF stage = "chunking" /\ next <= Len(blocks) THEN Len(blocks[next].text) - cursor ELSE 0,
     Len(chunks) - Len(vectors),
     IF call = "raised" THEN 0 ELSE 1,
     MAX_RETRIES - attempt,
     IF call = "posted" THEN 1 ELSE 0 >>

(* Every step leaves less to do, in the order of the loops, and nothing is *)
(* ever owed: no window makes the chunker stand still, whatever overlap is *)
(* configured, no batch is empty, and no call is repeated for ever.  As    *)
(* nothing stops before IsOver, every document is embedded or fails        *)
(* (recursive.py:89-91, mistral.py:94-99).                                 *)
EveryStepAdvances ==
  [][ /\ \A k \in DOMAIN WorkLeft : WorkLeft[k] >= 0 /\ WorkLeft'[k] >= 0
      /\ \E k \in DOMAIN WorkLeft : /\ WorkLeft'[k] < WorkLeft[k]
                                     /\ \A j \in 1..(k - 1) : WorkLeft'[j] = WorkLeft[j] ]_vars
=============================================================================
