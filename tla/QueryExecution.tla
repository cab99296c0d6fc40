--------------------------- MODULE QueryExecution ---------------------------
(***************************************************************************)
(* One POST /query: retrieve evidence under a span, answer from it under   *)
(* another, commit the trace, respond.  A step is what happens between two *)
(* awaits.  Meanwhile the worker may replace the project's chunks, whose   *)
(* ids stay the same (uuid5 of document and ordinal), and embed them.      *)
(*                                                                         *)
(*   corpus    the chunks table of the project                             *)
(*   pc        where the route is                                          *)
(*   strategy  of the request                                              *)
(*   profile   how it retrieves: fusion weights, and hits asked of an arm  *)
(*   hits      what each arm has read                                      *)
(*   evidence  the chunks retrieved, best first, with the text as read     *)
(*   payload   the JSON the model answered with                            *)
(*   answer    what was parsed from it                                     *)
(*   failed    whether the route caught a DomainError                      *)
(*   traces    the committed traces of this execution                      *)
(*   response  what the client gets                                        *)
(***************************************************************************)
EXTENDS RankFusion, TraceCollector, GroundedAnswer

CONSTANTS
  Chunks,      \* ids of chunks of the project, as numbers
  TopK,        \* top_k of the request
  Profiles,    \* the adaptive profiles: fusion weights and fetch multiplier
  Payloads,    \* what a model may answer
  MaxText,     \* bound: parses of the document
  Failures     \* the kinds of failure considered, a subset of Raisable

ASSUME QueryAssumption ==
  /\ Chunks \subseteq Nat /\ IsFiniteSet(Chunks)
  /\ TopK \in Nat \ {0} /\ MaxText \in Nat \ {0}
  /\ {"retrieval", "generation"} \subseteq Stages
  /\ Profiles \subseteq [weights : [Arms -> Nat \ {0}], multiplier : Nat \ {0}]
  /\ Payloads \subseteq [kind : PayloadKinds, text : BOOLEAN, abstained : BOOLEAN,
                         claims : Seq([text : BOOLEAN, cites : Seq(Int)])]
  /\ Failures \subseteq Raisable

VARIABLES corpus, pc, strategy, profile, hits, evidence, payload, answer, failed, traces, response

request == <<strategy, profile>>
retrieval == <<hits, evidence>>
generation == <<payload, answer>>
outcome == <<failed, traces, response>>
vars == <<corpus, pc, request, retrieval, generation, outcome, collector>>

Strategies == {"semantic", "keyword", "hybrid", "adaptive"}
EMBEDDING_STRATEGIES == {"semantic", "hybrid", "adaptive"}

Hit == [chunk : Chunks, text : 1..MaxText]

\* Stands for a value the route has not computed.
Unset == [unset |-> TRUE]

\* Of the analysis of a query only the profile it selects is kept.
ProfilesOf(s) ==
  CASE s = "hybrid" -> {[weights |-> EqualWeights, depth |-> FetchDepth(TopK)]}
    [] s = "adaptive" -> {[weights |-> p.weights, depth |-> TopK * p.multiplier] : p \in Profiles}
    [] OTHER -> {[weights |-> EqualWeights, depth |-> TopK]}

ChunksOf(ranking) == [i \in DOMAIN ranking |-> ranking[i].chunk]

Init ==
  /\ corpus \in [Chunks -> [text : {1}, embedded : BOOLEAN]]
  /\ pc = "received"
  /\ strategy \in Strategies
  /\ profile \in ProfilesOf(strategy)
  /\ hits = [a \in Arms |-> <<>>] /\ evidence = <<>>
  /\ payload = Unset /\ answer = Unset
  /\ failed = FALSE /\ traces = {} /\ response = Unset
  /\ CollectorInit
-----------------------------------------------------------------------------
(* The route.                                                              *)

\* No such project, or no provider key: the collector is not created yet.
Refuse ==
  /\ pc = "received"
  /\ pc' = "done" /\ response' = [kind |-> "error"]
  /\ UNCHANGED <<corpus, request, retrieval, generation, failed, traces, collector>>

StartRetrieval ==
  /\ pc = "received"
  /\ Enter("retrieval")
  /\ pc' = IF strategy \in EMBEDDING_STRATEGIES THEN "embedding" ELSE "keyword"
  /\ UNCHANGED <<corpus, request, retrieval, generation, outcome>>

EmbedQuery ==
  /\ pc = "embedding"
  /\ pc' = "dense"
  /\ UNCHANGED <<corpus, request, retrieval, generation, outcome, collector>>

\* An arm returns the best of the rows it matches, in its own order.
ReadsOf(rows) ==
  LET size == IF Cardinality(rows) < profile.depth THEN Cardinality(rows) ELSE profile.depth
  IN {[i \in 1..size |-> [chunk |-> order[i], text |-> corpus[order[i]].text]] :
        order \in {r \in [1..size -> rows] : \A i, j \in 1..size : r[i] = r[j] => i = j}}

\* The chunks that have a vector, by distance; the index may miss some.
ReadDense ==
  /\ pc = "dense"
  /\ \E found \in SUBSET {c \in DOMAIN corpus : corpus[c].embedded} :
       \E ranking \in ReadsOf(found) : hits' = [hits EXCEPT !["semantic"] = ranking]
  /\ pc' = IF strategy = "semantic" THEN "ranking" ELSE "keyword"
  /\ UNCHANGED <<corpus, request, evidence, generation, outcome, collector>>

\* The chunks that hold every term of the query.
ReadKeyword ==
  /\ pc = "keyword"
  /\ \E matching \in SUBSET DOMAIN corpus : \E ranking \in ReadsOf(matching) :
       hits' = [hits EXCEPT !["keyword"] = ranking]
  /\ pc' = "ranking"
  /\ UNCHANGED <<corpus, request, evidence, generation, outcome, collector>>

\* The copy fusion keeps of a chunk: the first sighting, dense arm first.
Exemplar(c) ==
  LET dense == ChunksOf(hits["semantic"])
      keyword == ChunksOf(hits["keyword"])
  IN IF c \in FoundBy(dense) THEN hits["semantic"][Place(dense, c)]
                             ELSE hits["keyword"][Place(keyword, c)]

Retrieved ==
  CASE strategy = "semantic" -> hits["semantic"]
    [] strategy = "keyword" -> hits["keyword"]
    [] OTHER -> LET fused == Fuse([a \in Arms |-> ChunksOf(hits[a])], profile.weights)
                    best == Cut(fused, TopK)
                IN [i \in DOMAIN best |-> Exemplar(best[i])]

EndRetrieval ==
  /\ pc = "ranking"
  /\ evidence' = Retrieved
  /\ Leave("none")
  /\ pc' = "retrieved"
  /\ UNCHANGED <<corpus, request, hits, generation, outcome>>

StartGeneration ==
  /\ pc = "retrieved"
  /\ Enter("generation")
  /\ pc' = "generating"
  /\ UNCHANGED <<corpus, request, retrieval, generation, outcome>>

AnswerWithoutEvidence ==
  /\ pc = "generating" /\ evidence = <<>>
  /\ answer' = NoEvidenceAnswer
  /\ Leave("none")
  /\ pc' = "saving"
  /\ UNCHANGED <<corpus, request, retrieval, payload, outcome>>

ModelAnswers(p) ==
  /\ pc = "generating" /\ evidence # <<>>
  /\ payload' = p
  /\ Leave(ParseEnding(p))
  /\ IF ParseEnding(p) = "none"
     THEN answer' = Answer(p, ChunksOf(evidence)) /\ pc' = "saving"
     ELSE UNCHANGED answer /\ pc' = "raising"
  /\ UNCHANGED <<corpus, request, retrieval, outcome>>

\* A statement fails with no DomainError; a call of the provider with any error.
Fail(kind) ==
  /\ \/ pc = "embedding"
     \/ pc \in {"dense", "keyword"} /\ kind # "domain"
     \/ pc = "generating" /\ evidence # <<>>
  /\ Leave(kind)
  /\ pc' = "raising"
  /\ UNCHANGED <<corpus, request, retrieval, generation, outcome>>

\* `except DomainError`: what did run is persisted before re-raising.
CatchDomainError ==
  /\ pc = "raising" /\ raised = "domain"
  /\ Catch
  /\ failed' = TRUE
  /\ pc' = "saving"
  /\ UNCHANGED <<corpus, request, retrieval, generation, traces, response>>

Propagate ==
  /\ pc = "raising" /\ raised # "domain"
  /\ pc' = "done" /\ response' = [kind |-> "error"]
  /\ UNCHANGED <<corpus, request, retrieval, generation, failed, traces, collector>>

Trace ==
  [status |-> FinishStatus(failed), failed |-> failed, spans |-> InExecutionOrder,
   retrieved |-> ChunksOf(evidence), answered |-> ~failed,
   abstained |-> ~failed /\ answer.abstained,
   claims |-> IF failed THEN <<>> ELSE answer.claims,
   cited |-> IF failed THEN {} ELSE CitedChunks(answer)]

\* Variant: a trace that cannot be committed is given up, the answer is not.
SaveTraceIfPossible ==
  /\ pc = "saving"
  /\ traces' \in {traces, traces \cup {Trace}}
  /\ IF failed THEN pc' = "done" /\ response' = [kind |-> "error"]
               ELSE pc' = "responding" /\ UNCHANGED response
  /\ UNCHANGED <<corpus, request, retrieval, generation, failed, collector>>

SaveTrace ==
  /\ pc = "saving"
  /\ traces' = traces \cup {Trace}
  /\ IF failed THEN pc' = "done" /\ response' = [kind |-> "error"]
               ELSE pc' = "responding" /\ UNCHANGED response
  /\ UNCHANGED <<corpus, request, retrieval, generation, failed, collector>>

\* The commit fails, or does not, before the connection or the task is gone.
LoseSave(kind) ==
  /\ pc = "saving" /\ kind # "domain"
  /\ traces' \in {traces, traces \cup {Trace}}
  /\ pc' = "done" /\ response' = [kind |-> "error"]
  /\ UNCHANGED <<corpus, request, retrieval, generation, failed, collector>>

(* The hit of a chunk in `by_id`: of two hits of one chunk, the later.     *)
ById(c) == evidence[CHOOSE i \in DOMAIN evidence :
                      /\ evidence[i].chunk = c
                      /\ \A j \in DOMAIN evidence : evidence[j].chunk = c => j <= i]

Citations(claim) == {ById(c) : c \in {d \in claim : d \in FoundBy(ChunksOf(evidence))}}

Respond ==
  /\ pc = "responding"
  /\ response' = [kind |-> "answer", abstained |-> answer.abstained,
                  claims |-> [i \in DOMAIN answer.claims |-> Citations(answer.claims[i])],
                  invented |-> answer.invented,
                  unsupported |-> UnsupportedClaims(answer)]
  /\ pc' = "done"
  /\ UNCHANGED <<corpus, request, retrieval, generation, failed, traces, collector>>
-----------------------------------------------------------------------------
(* The worker, at any time: see DocumentPipeline.                          *)

\* The document is ingested by a newer parser: other texts, perhaps fewer.
ReplaceChunks(kept, text) ==
  /\ \A c \in DOMAIN corpus : corpus[c].text < text
  /\ corpus' = [c \in kept |-> [text |-> text, embedded |-> FALSE]]
  /\ UNCHANGED <<pc, request, retrieval, generation, outcome, collector>>

EmbedChunks ==
  /\ \E c \in DOMAIN corpus : ~corpus[c].embedded
  /\ corpus' = [c \in DOMAIN corpus |-> [corpus[c] EXCEPT !.embedded = TRUE]]
  /\ UNCHANGED <<pc, request, retrieval, generation, outcome, collector>>

Next ==
  \/ Refuse \/ StartRetrieval \/ EmbedQuery \/ ReadDense \/ ReadKeyword \/ EndRetrieval
  \/ StartGeneration \/ AnswerWithoutEvidence \/ \E p \in Payloads : ModelAnswers(p)
  \/ \E kind \in Failures : Fail(kind) \/ LoseSave(kind)
  \/ CatchDomainError \/ Propagate \/ SaveTrace \/ Respond
  \/ \E kept \in SUBSET Chunks, text \in 2..MaxText : ReplaceChunks(kept, text)
  \/ EmbedChunks

Spec == Init /\ [][Next]_vars
-----------------------------------------------------------------------------
TypeOK ==
  /\ DOMAIN corpus \subseteq Chunks
  /\ \A c \in DOMAIN corpus : corpus[c] \in [text : 1..MaxText, embedded : BOOLEAN]
  /\ pc \in {"received", "embedding", "dense", "keyword", "ranking", "retrieved",
             "generating", "raising", "saving", "responding", "done"}
  /\ strategy \in Strategies /\ profile \in ProfilesOf(strategy)
  /\ hits \in [Arms -> Seq(Hit)]
  /\ evidence \in Seq(Hit) /\ Len(evidence) <= TopK
  /\ payload \in Payloads \cup {Unset}
  /\ failed \in BOOLEAN
  /\ sequence \in 0..2 /\ Len(stack) <= 1 /\ Len(spans) <= 2 /\ raised \in Endings

(* Every citation of an answer given to a client is a passage the model    *)
(* was shown, with the very text it was shown, and which it cited in that  *)
(* claim: whatever the model invents, and whatever the worker does to the  *)
(* chunks meanwhile (query.py:182-194, grounded.py:149-175).               *)
CitationsWereShown ==
  (response # Unset /\ response.kind = "answer") =>
    \A i \in DOMAIN response.claims : \A citation \in response.claims[i] :
      \E j \in DOMAIN payload.claims, n \in DOMAIN evidence :
        /\ \E k \in DOMAIN payload.claims[j].cites : payload.claims[j].cites[k] = n - 1
        /\ payload.claims[j].text
        /\ evidence[n] = citation

(* A client that gets an answer gets one whose trace is committed, with    *)
(* the same claims, each citing chunks among those the trace says were     *)
(* retrieved: the evidence graph is rebuilt from it (query.py:160-180).    *)
AnswersAreTraced ==
  (response # Unset /\ response.kind = "answer") =>
    \E t \in traces :
      /\ t.status = "ok" /\ t.abstained = response.abstained
      /\ DOMAIN t.claims = DOMAIN response.claims
      /\ \A i \in DOMAIN t.claims : t.claims[i] = {hit.chunk : hit \in response.claims[i]}
      /\ t.cited \subseteq FoundBy(t.retrieved)

(* A committed trace blames the stage that failed: it is an error if and   *)
(* only if the route failed, then its last span is the failed one and no   *)
(* other is, and what it says was retrieved is what that stage was given;  *)
(* one that is not ran both stages (recorder.py:169-184).                  *)
TracesBlameTheStage ==
  \A t \in traces :
    LET last == t.spans[Len(t.spans)] IN
    /\ t.spans # <<>> /\ t.spans[1].stage = "retrieval"
    /\ \A i \in 1..(Len(t.spans) - 1) : t.spans[i].status = "ok"
    /\ (t.status = "error") <=> t.failed
    /\ last.status = t.status
    /\ t.status = "ok" => last.stage = "generation"
    /\ last.stage = "generation" => t.retrieved = ChunksOf(evidence)
    /\ last.stage = "retrieval" => t.retrieved = <<>>

InEvidence(c) == \E i \in DOMAIN evidence : evidence[i].chunk = c

\* Whether c is retrieved before d, which may have been cut.
Precedes(c, d) ==
  \E i \in DOMAIN evidence :
    /\ evidence[i].chunk = c
    /\ \A j \in 1..i : evidence[j].chunk # d

IsRetrieved == pc \in {"retrieved", "generating", "saving", "responding"} /\ ~failed

FoundIn(c, a) == c \in FoundBy(ChunksOf(hits[a]))

(* Of hybrid retrieval: a chunk both arms found comes before any chunk     *)
(* only one arm found, and is not cut while such a chunk is kept           *)
(* (fusion.py:34-36).  It holds for arms no deeper than K + 1.             *)
AgreementWins ==
  (IsRetrieved /\ strategy = "hybrid") =>
    \A c, d \in Chunks :
      ( /\ \A a \in Arms : FoundIn(c, a)
        /\ \E a \in Arms : FoundIn(d, a) /\ \E b \in Arms : ~FoundIn(d, b)
        /\ InEvidence(d) ) => Precedes(c, d)

(* Fusion repeats no chunk, leaves none out while there is room, and never *)
(* reorders two chunks which the same one arm found and the other did not: *)
(* with one arm empty it reproduces the other (hybrid.py:62-63).           *)
ArmsKeepTheirOrder ==
  IsRetrieved =>
    /\ \A i, j \in DOMAIN evidence : evidence[i].chunk = evidence[j].chunk => i = j
    /\ LET found == {c \in Chunks : \E a \in Arms : FoundIn(c, a)}
       IN Len(evidence) = IF Cardinality(found) < TopK THEN Cardinality(found) ELSE TopK
    /\ \A a \in Arms : \A i, j \in DOMAIN hits[a] :
         LET c == hits[a][i].chunk
             d == hits[a][j].chunk
         IN ( /\ i < j
              /\ \A b \in Arms \ {a} : ~FoundIn(c, b) /\ ~FoundIn(d, b)
              /\ InEvidence(d) ) => Precedes(c, d)

(* What the module says of itself: "Every execution produces a persisted   *)
(* trace, including a failed one" (query.py:7-8).                          *)
EveryExecutionIsTraced == (pc = "done" /\ sequence > 0) => traces # {}
-----------------------------------------------------------------------------
(* What the search can find, what the query has of it, what is stored of   *)
(* the query, and what the client is told.                                 *)
Searchable == {[chunk |-> c, text |-> corpus[c].text] : c \in DOMAIN corpus}

PassagesIn(ranking) == {ranking[i] : i \in DOMAIN ranking}

ReadByArm == [a \in Arms |-> PassagesIn(hits[a])]

Stored ==
  {[failed |-> t.failed, abstained |-> t.abstained, claims |-> t.claims,
    retrieved |-> FoundBy(t.retrieved)] : t \in traces}

Told ==
  IF response = Unset THEN {}
  ELSE IF response.kind = "error" THEN {[kind |-> "error"]}
  ELSE {[kind |-> "answer", abstained |-> response.abstained, claims |-> response.claims]}

Promise ==
  INSTANCE AnsweredQuery WITH
    Passages <- Hit,
    Numbers <- UNION {DOMAIN p.claims : p \in Payloads},
    index <- Searchable,
    found <- ReadByArm,
    shown <- PassagesIn(evidence),
    record <- Stored,
    reply <- Told

(* Whatever the worker does to the chunks meanwhile and however the model, *)
(* the provider and the database fail: what the model was shown had been in*)
(* the table when an arm read it; a client that gets an answer gets the one*)
(* on its committed trace, each claim citing, with the very text, passages *)
(* that were shown, and among those the trace says were retrieved; and what*)
(* was stored or told is never changed (query.py:160-194, AnsweredQuery).  *)
ImplementsAnswer == Promise!Spec
=============================================================================
