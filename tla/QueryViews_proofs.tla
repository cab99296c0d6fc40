-------------------------- MODULE QueryViews_proofs --------------------------
(***************************************************************************)
(* What is left of one query, and what is shown of it: the trace that is   *)
(* committed, the evidence graph rebuilt from the trace, the response of a *)
(* search, the comparison of strategies a viewer is shown; and, for every  *)
(* recording and every text, how a trace is drawn and a query is typed.    *)
(*                                                                         *)
(* ViewsInv is inductive relative to QueryInv.  SpansInv says which spans  *)
(* were recorded at each await and how they ended; StoredInv, that a trace *)
(* is committed once, when everything it is made of has got its last value;*)
(* RespondedInv, that a response repeats the answer.  PromiseInv adds what *)
(* the arms have read at each await; with it every step of a query is one  *)
(* of AnsweredQuery or a stutter.                                          *)
(***************************************************************************)
EXTENDS QueryExecution_proofs, MCQueryExecution, WellFoundedInduction

USE DEF request, retrieval, generation, outcome, collector

Opened(n, name) == [sequence |-> n, parent |-> NoParent, stage |-> name]

Recorded(n, name, status) ==
  [sequence |-> n, parent |-> NoParent, stage |-> name, status |-> status]

Retrieval(status) == Recorded(0, "retrieval", status)
Generation(status) == Recorded(1, "generation", status)

\* Retrieval failed and left nothing, or the generation after it did.
BlamedOne(status) ==
  \/ spans = <<Retrieval(status)>> /\ evidence = <<>>
  \/ spans = <<Retrieval("ok"), Generation(status)>>

\* The trace is about to be committed, or may have been.
Saving == pc \in {"saving", "responding"} \/ traces # {}

SpansInv ==
  /\ pc = "received" => stack = <<>> /\ spans = <<>> /\ sequence = 0
  /\ Retrieving => stack = <<Opened(0, "retrieval")>> /\ spans = <<>> /\ sequence = 1
  /\ pc = "received" \/ Retrieving => evidence = <<>>
  /\ pc = "retrieved" => stack = <<>> /\ spans = <<Retrieval("ok")>> /\ sequence = 1
  /\ pc = "generating" => stack = <<Opened(1, "generation")>> /\ spans = <<Retrieval("ok")>>
  /\ pc = "raising" => BlamedOne(SpanStatus(raised))
  /\ Saving /\ failed => BlamedOne("error")
  /\ Saving /\ ~failed => spans = <<Retrieval("ok"), Generation("ok")>>

StoredInv ==
  /\ traces # {} => traces = {Trace} /\ pc \in {"responding", "done"}
  /\ pc = "responding" \/ Answered => Trace \in traces /\ ~failed

RespondedInv ==
  Answered => /\ response.abstained = answer.abstained
              /\ response.unsupported = UnsupportedClaims(answer)

ViewsInv == SpansInv /\ StoredInv /\ RespondedInv
-----------------------------------------------------------------------------
(* The spans.                                                              *)

\* Appending to a sequence of one.
LEMMA AppendToOne ==
  ASSUME NEW a, NEW b
  PROVE  Append(<<a>>, b) = <<a, b>>
<1>1. <<a>> \in Seq({a, b}) /\ <<a, b>> \in Seq({a, b}) /\ Len(<<a>>) = 1 /\ Len(<<a, b>>) = 2
  OBVIOUS
<1>2. /\ Append(<<a>>, b) \in Seq({a, b}) /\ Len(Append(<<a>>, b)) = 2
      /\ Append(<<a>>, b)[1] = a /\ Append(<<a>>, b)[2] = b
  BY <1>1, AppendProperties
<1>3. \A i \in 1..2 : Append(<<a>>, b)[i] = <<a, b>>[i]
  BY <1>2
<1> QED BY <1>1, <1>2, <1>3, SeqEqual

\* Entering the first span opens it on the stack (collector.py).
LEMMA EnterOpensSpan ==
  ASSUME NEW name, Enter(name), stack = <<>>
  PROVE  /\ stack' = <<Opened(sequence, name)>>
         /\ sequence' = sequence + 1 /\ spans' = spans /\ raised' = "none"
  BY DEF Enter, Opened, Innermost

\* Leaving it records it with the status of how it ended.
LEMMA LeaveRecordsSpan ==
  ASSUME NEW ending, Leave(ending), NEW n, NEW name, stack = <<Opened(n, name)>>
  PROVE  /\ stack' = <<>> /\ sequence' = sequence /\ raised' = ending
         /\ spans' = Append(spans, Recorded(n, name, SpanStatus(ending)))
<1>1. stack[Len(stack)] = Opened(n, name)
  OBVIOUS
<1>2. stack' = SubSeq(<<Opened(n, name)>>, 1, 0)
  BY DEF Leave
<1>3. stack' = <<>>
  BY <1>2
<1> QED BY <1>1, <1>3 DEF Leave, Opened, Recorded

\* Retrieval ends.
LEMMA RetrievalIsRecorded ==
  ASSUME SpansInv, Retrieving, NEW ending, Leave(ending)
  PROVE  /\ stack' = <<>> /\ sequence' = 1 /\ raised' = ending
         /\ spans' = <<Retrieval(SpanStatus(ending))>>
<1>1. stack = <<Opened(0, "retrieval")>> /\ spans = <<>> /\ sequence = 1
  BY DEF SpansInv
<1>2. spans' = Append(<<>>, Retrieval(SpanStatus(ending)))
  BY <1>1, LeaveRecordsSpan DEF Retrieval
<1>3. \A a : Append(<<>>, a) = <<a>>
  OBVIOUS
<1> QED BY <1>1, <1>2, <1>3, LeaveRecordsSpan

\* Generation ends.
LEMMA GenerationIsRecorded ==
  ASSUME SpansInv, pc = "generating", NEW ending, Leave(ending)
  PROVE  raised' = ending /\ spans' = <<Retrieval("ok"), Generation(SpanStatus(ending))>>
<1>1. stack = <<Opened(1, "generation")>> /\ spans = <<Retrieval("ok")>>
  BY DEF SpansInv
<1>2. spans' = Append(<<Retrieval("ok")>>, Generation(SpanStatus(ending)))
  BY <1>1, LeaveRecordsSpan DEF Generation
<1>3. spans' = <<Retrieval("ok"), Generation(SpanStatus(ending))>>
  BY <1>2, AppendToOne
<1>4. raised' = ending
  BY DEF Leave
<1> QED BY <1>3, <1>4

\* Each await of a query opens or records the span that is due there.
LEMMA NextSpansInv ==
  ASSUME QueryInv, SpansInv, StoredInv, [Next]_vars
  PROVE  SpansInv'
<1> USE DEF SpansInv, Saving, Retrieving
<1>quiet. pc \notin {"saving", "done"} => ~failed
  BY DEF QueryInv, ResultsInv
<1>untraced. pc \notin {"responding", "done"} => traces = {}
  BY DEF StoredInv
<1>1. CASE StartRetrieval
  <2>1. stack = <<>> /\ sequence = 0
    BY <1>1 DEF StartRetrieval
  <2>2. stack' = <<Opened(0, "retrieval")>> /\ sequence' = 1 /\ spans' = spans
    BY <1>1, <2>1, EnterOpensSpan DEF StartRetrieval
  <2> QED BY <1>1, <1>untraced, <2>2 DEF StartRetrieval
<1>2. CASE EndRetrieval
  <2>1. stack' = <<>> /\ sequence' = 1 /\ spans' = <<Retrieval("ok")>>
    BY <1>2, RetrievalIsRecorded DEF EndRetrieval, SpanStatus
  <2> QED BY <1>2, <1>untraced, <2>1 DEF EndRetrieval
<1>3. CASE StartGeneration
  <2>1. stack = <<>> /\ sequence = 1 /\ spans = <<Retrieval("ok")>>
    BY <1>3 DEF StartGeneration
  <2>2. stack' = <<Opened(1, "generation")>> /\ spans' = spans
    BY <1>3, <2>1, EnterOpensSpan DEF StartGeneration
  <2> QED BY <1>3, <1>untraced, <2>1, <2>2 DEF StartGeneration
<1>4. CASE AnswerWithoutEvidence
  <2>1. spans' = <<Retrieval("ok"), Generation("ok")>>
    BY <1>4, GenerationIsRecorded DEF AnswerWithoutEvidence, SpanStatus
  <2> QED BY <1>4, <1>quiet, <1>untraced, <2>1 DEF AnswerWithoutEvidence
<1>5. ASSUME NEW p \in Payloads, ModelAnswers(p) PROVE SpansInv'
  <2>1. /\ pc = "generating" /\ raised' = ParseEnding(p)
        /\ spans' = <<Retrieval("ok"), Generation(SpanStatus(ParseEnding(p)))>>
    BY <1>5, GenerationIsRecorded DEF ModelAnswers
  <2>2. pc' = IF ParseEnding(p) = "none" THEN "saving" ELSE "raising"
    BY <1>5 DEF ModelAnswers
  <2>3. failed' = failed /\ traces' = traces
    BY <1>5 DEF ModelAnswers
  <2>4. CASE ParseEnding(p) = "none"
    BY <1>quiet, <1>untraced, <2>1, <2>2, <2>3, <2>4 DEF SpanStatus
  <2>5. CASE ParseEnding(p) # "none"
    BY <1>quiet, <1>untraced, <2>1, <2>2, <2>3, <2>5 DEF BlamedOne
  <2> QED BY <2>4, <2>5
<1>6. ASSUME NEW kind \in Failures, Fail(kind) PROVE SpansInv'
  <2>1. pc' = "raising" /\ traces' = traces /\ evidence' = evidence /\ traces = {}
    BY <1>6, <1>untraced DEF Fail
  <2>2. CASE pc = "generating"
    <3>1. raised' = kind /\ spans' = <<Retrieval("ok"), Generation(SpanStatus(kind))>>
      BY <1>6, <2>2, GenerationIsRecorded DEF Fail
    <3> QED BY <2>1, <3>1 DEF BlamedOne
  <2>3. CASE pc # "generating"
    <3>1. Retrieving /\ evidence = <<>>
      BY <1>6, <2>3 DEF Fail
    <3>2. raised' = kind /\ spans' = <<Retrieval(SpanStatus(kind))>>
      BY <1>6, <3>1, RetrievalIsRecorded DEF Fail
    <3> QED BY <2>1, <3>1, <3>2 DEF BlamedOne
  <2> QED BY <2>2, <2>3
<1>7. CASE CatchDomainError
  <2>1. pc = "raising" /\ pc' = "saving" /\ failed' /\ BlamedOne("error")
    BY <1>7 DEF CatchDomainError, SpanStatus
  <2>2. BlamedOne("error")'
    BY <1>7, <2>1 DEF CatchDomainError, Catch, BlamedOne
  <2> QED BY <2>1, <2>2
<1>8. CASE SaveTrace \/ \E kind \in Failures : LoseSave(kind)
  BY <1>8 DEF SaveTrace, LoseSave, BlamedOne
<1>9. CASE Refuse \/ Propagate \/ Respond
  BY <1>9, <1>untraced DEF Refuse, Propagate, Respond, BlamedOne
<1>10. CASE EmbedQuery \/ ReadDense \/ ReadKeyword
  BY <1>10, <1>untraced DEF EmbedQuery, ReadDense, ReadKeyword
<1>11. CASE EmbedChunks \/ \E kept \in SUBSET Chunks, text \in 2..MaxText : ReplaceChunks(kept, text)
  BY <1>11 DEF EmbedChunks, ReplaceChunks, BlamedOne
<1>12. CASE UNCHANGED vars
  BY <1>12 DEF vars, BlamedOne
<1> QED BY <1>1, <1>2, <1>3, <1>4, <1>5, <1>6, <1>7, <1>8, <1>9, <1>10, <1>11, <1>12 DEF Next
-----------------------------------------------------------------------------
(* The trace and the response.                                             *)

\* The trace is made of what these four variables hold.
LEMMA TraceIsKept ==
  ASSUME UNCHANGED <<failed, spans, evidence, answer>>
  PROVE  Trace' = Trace
  BY DEF Trace, FinishStatus, AnyFailed, InExecutionOrder, ChunksOf, CitedChunks

\* A trace is committed once, after the last change of what it is made of.
LEMMA NextStoredInv ==
  ASSUME QueryInv, StoredInv, [Next]_vars
  PROVE  StoredInv'
<1> USE DEF StoredInv, Answered
<1>early. pc \notin {"responding", "done"} => traces = {} /\ ~Answered
  BY DEF QueryInv, ResultsInv
<1>1. CASE SaveTrace \/ \E kind \in Failures : LoseSave(kind)
  <2>1. pc = "saving" /\ traces' \in {{}, {Trace}} /\ UNCHANGED <<failed, spans, evidence, answer>>
    BY <1>1, <1>early DEF SaveTrace, LoseSave
  <2>2. Trace' = Trace
    BY <2>1, TraceIsKept
  <2>3. SaveTrace => traces' = {Trace} /\ (failed => pc' = "done") /\ (~failed => response' = response)
    BY <1>early DEF SaveTrace
  <2>4. /\ pc' \in {"responding", "done"} /\ (pc' = "responding" => SaveTrace)
        /\ (response' = response \/ response' = [kind |-> "error"])
    BY <1>1 DEF SaveTrace, LoseSave
  <2>5. ~Answered'
    BY <1>early, <2>1, <2>4
  <2> QED BY <2>1, <2>2, <2>3, <2>4, <2>5
<1>2. CASE Respond
  <2>1. UNCHANGED <<failed, spans, evidence, answer, traces>> /\ pc = "responding" /\ pc' = "done"
    BY <1>2 DEF Respond
  <2>2. Trace' = Trace
    BY <2>1, TraceIsKept
  <2> QED BY <2>1, <2>2
<1>3. CASE UNCHANGED vars \/ EmbedChunks \/ \E kept \in SUBSET Chunks, text \in 2..MaxText : ReplaceChunks(kept, text)
  <2>1. UNCHANGED <<failed, spans, evidence, answer, traces, pc, response>>
    BY <1>3 DEF vars, EmbedChunks, ReplaceChunks
  <2>2. Trace' = Trace
    BY <2>1, TraceIsKept
  <2> QED BY <2>1, <2>2
<1>4. CASE \/ StartRetrieval \/ EmbedQuery \/ ReadDense \/ ReadKeyword \/ EndRetrieval
           \/ StartGeneration \/ AnswerWithoutEvidence \/ CatchDomainError
           \/ (\E p \in Payloads : ModelAnswers(p)) \/ \E kind \in Failures : Fail(kind)
  <2>1. /\ pc \notin {"responding", "done"} /\ pc' # "responding"
        /\ traces' = traces /\ response' = response
    BY <1>4 DEF StartRetrieval, EmbedQuery, ReadDense, ReadKeyword, EndRetrieval, StartGeneration,
                AnswerWithoutEvidence, CatchDomainError, ModelAnswers, Fail
  <2> QED BY <1>early, <2>1
<1>5. CASE Refuse \/ Propagate
  BY <1>5, <1>early DEF Refuse, Propagate
<1> QED BY <1>1, <1>2, <1>3, <1>4, <1>5 DEF Next

\* The response is built from the answer, which no later step changes.
LEMMA NextRespondedInv ==
  ASSUME QueryInv, RespondedInv, [Next]_vars
  PROVE  RespondedInv'
<1> USE DEF RespondedInv, Answered
<1>early. pc # "done" => ~Answered
  BY DEF QueryInv, ResultsInv
<1>1. CASE Respond
  BY <1>1 DEF Respond, UnsupportedClaims
<1>2. CASE \/ StartRetrieval \/ EmbedQuery \/ ReadDense \/ ReadKeyword \/ EndRetrieval
           \/ StartGeneration \/ AnswerWithoutEvidence \/ CatchDomainError
           \/ (\E p \in Payloads : ModelAnswers(p)) \/ \E kind \in Failures : Fail(kind)
  <2>1. pc # "done" /\ response' = response
    BY <1>2 DEF StartRetrieval, EmbedQuery, ReadDense, ReadKeyword, EndRetrieval, StartGeneration,
                AnswerWithoutEvidence, CatchDomainError, ModelAnswers, Fail
  <2> QED BY <1>early, <2>1
<1>3. CASE Refuse \/ Propagate \/ SaveTrace \/ \E kind \in Failures : LoseSave(kind)
  <2>1. pc # "done" /\ (response' = response \/ response' = [kind |-> "error"])
    BY <1>3 DEF Refuse, Propagate, SaveTrace, LoseSave
  <2> QED BY <1>early, <2>1
<1>4. CASE UNCHANGED vars \/ EmbedChunks \/ \E kept \in SUBSET Chunks, text \in 2..MaxText : ReplaceChunks(kept, text)
  BY <1>4 DEF vars, EmbedChunks, ReplaceChunks, UnsupportedClaims
<1> QED BY <1>1, <1>2, <1>3, <1>4 DEF Next

\* Nothing is stored or answered at first.
LEMMA InitViewsInv == Init => ViewsInv
  BY DEF Init, CollectorInit, ViewsInv, SpansInv, StoredInv, RespondedInv, Answered, Retrieving, Saving

\* One query, whatever fails, keeps what is stored of it in step with what it did.
THEOREM ViewsInvHolds == Spec => []ViewsInv
<1>1. QueryInv /\ ViewsInv /\ [Next]_vars => ViewsInv'
  BY NextSpansInv, NextStoredInv, NextRespondedInv DEF ViewsInv
<1> QED BY <1>1, InitViewsInv, QueryInvHolds, PTL DEF Spec
-----------------------------------------------------------------------------
(* Traces.                                                                 *)

\* Spans that ended in the order in which they were opened come in that order.
LEMMA OneSpanInOrder ==
  ASSUME NEW status, spans = <<Retrieval(status)>>
  PROVE  InExecutionOrder = spans
<1> DEFINE before(i) == {j \in DOMAIN spans : spans[j].sequence < spans[i].sequence}
           chosen(n) == CHOOSE i \in DOMAIN spans : Cardinality(before(i)) = n - 1
<1>1. InExecutionOrder = [n \in 1..Len(spans) |-> spans[chosen(n)]]
  BY DEF InExecutionOrder
<1>2. DOMAIN spans = {1} /\ 1..Len(spans) = {1}
  OBVIOUS
<1>3. before(1) = {}
  BY <1>2 DEF Retrieval, Recorded
<1>4. Cardinality(before(1)) = 0
  BY <1>3, FS_EmptySet
<1> HIDE DEF before
<1>5. chosen(1) = 1
  BY <1>2, <1>4
<1> HIDE DEF chosen
<1>6. InExecutionOrder = [n \in {1} |-> spans[n]]
  BY <1>1, <1>2, <1>5
<1>7. spans = [n \in {1} |-> spans[n]]
  BY <1>2
<1> QED BY <1>6, <1>7

\* Two spans were recorded in the order in which they were opened.
LEMMA TwoSpansInOrder ==
  ASSUME NEW status, NEW later, spans = <<Retrieval(status), Generation(later)>>
  PROVE  InExecutionOrder = spans
<1> DEFINE before(i) == {j \in DOMAIN spans : spans[j].sequence < spans[i].sequence}
           chosen(n) == CHOOSE i \in DOMAIN spans : Cardinality(before(i)) = n - 1
<1>1. InExecutionOrder = [n \in 1..Len(spans) |-> spans[chosen(n)]]
  BY DEF InExecutionOrder
<1>2. DOMAIN spans = {1, 2} /\ 1..Len(spans) = {1, 2}
  OBVIOUS
<1>3. spans[1].sequence = 0 /\ spans[2].sequence = 1
  BY DEF Retrieval, Generation, Recorded
<1>4. before(1) = {} /\ before(2) = {1}
  BY <1>2, <1>3
<1>5. Cardinality(before(1)) = 0 /\ Cardinality(before(2)) = 1
  BY <1>4, FS_EmptySet, FS_Singleton
<1> HIDE DEF before
<1>6. chosen(1) = 1 /\ chosen(2) = 2
  BY <1>2, <1>5
<1> HIDE DEF chosen
<1>7. InExecutionOrder = [n \in {1, 2} |-> spans[n]]
  BY <1>1, <1>2, <1>6
<1>8. spans = [n \in {1, 2} |-> spans[n]]
  BY <1>2
<1> QED BY <1>7, <1>8

\* What the route ran is told from the spans of its trace, and how it ended.
LEMMA TraceTellsWhatRan ==
  ASSUME SpansInv, Saving
  PROVE  /\ Trace.spans = spans
         /\ Trace.status = IF failed THEN "error" ELSE "ok"
<1>1. spans = <<Retrieval("error")>> \/ \E status, later : spans = <<Retrieval(status), Generation(later)>>
  BY DEF SpansInv, BlamedOne
<1>2. Trace.spans = spans
  BY <1>1, OneSpanInOrder, TwoSpansInOrder DEF Trace
<1>3. ~failed => ~AnyFailed(spans)
  <2>1. SUFFICES ASSUME ~failed PROVE \A i \in {1, 2} : spans[i].status = "ok" /\ DOMAIN spans = {1, 2}
    BY DEF AnyFailed
  <2>2. spans = <<Retrieval("ok"), Generation("ok")>>
    BY <2>1 DEF SpansInv
  <2> QED BY <2>2 DEF Retrieval, Generation, Recorded
<1> QED BY <1>2, <1>3 DEF Trace, FinishStatus

(* A committed trace blames the stage that failed, and tells what that     *)
(* stage was given (recorder.py:169-184, query.py:114-158).                *)
THEOREM BlameIsRight == Spec => []TracesBlameTheStage
<1>1. QueryInv /\ ViewsInv => TracesBlameTheStage
  <2>1. SUFFICES ASSUME QueryInv, ViewsInv, traces = {Trace}, Saving
                 PROVE  LET last == spans[Len(spans)] IN
                        /\ spans # <<>> /\ spans[1].stage = "retrieval"
                        /\ \A i \in 1..(Len(spans) - 1) : spans[i].status = "ok"
                        /\ (Trace.status = "error") <=> failed
                        /\ last.status = Trace.status
                        /\ Trace.status = "ok" => last.stage = "generation"
                        /\ last.stage = "retrieval" => ChunksOf(evidence) = <<>>
    <3>1. ViewsInv /\ traces # {} => traces = {Trace} /\ Saving
      BY DEF ViewsInv, StoredInv, Saving
    <3>2. Trace.failed = failed /\ Trace.retrieved = ChunksOf(evidence)
      BY DEF Trace
    <3>3. ViewsInv /\ traces # {} => Trace.spans = spans
      BY <3>1, TraceTellsWhatRan DEF ViewsInv
    <3> QED BY <3>1, <3>2, <3>3 DEF TracesBlameTheStage
  <2>2. Trace.status = IF failed THEN "error" ELSE "ok"
    BY <2>1, TraceTellsWhatRan DEF ViewsInv
  <2>3. CASE spans = <<Retrieval("error")>> /\ evidence = <<>> /\ failed
    <3>1. Len(spans) = 1 /\ spans[1] = Retrieval("error")
      BY <2>3
    <3>2. ChunksOf(evidence) = <<>>
      BY <2>3 DEF ChunksOf
    <3> QED BY <2>2, <2>3, <3>1, <3>2 DEF Retrieval, Recorded
  <2>4. ASSUME NEW status, spans = <<Retrieval("ok"), Generation(status)>>, status = Trace.status
        PROVE  LET last == spans[Len(spans)] IN
               /\ spans # <<>> /\ spans[1].stage = "retrieval"
               /\ \A i \in 1..(Len(spans) - 1) : spans[i].status = "ok"
               /\ last.status = Trace.status /\ last.stage = "generation"
    <3>1. Len(spans) = 2 /\ spans[1] = Retrieval("ok") /\ spans[2] = Generation(status)
      BY <2>4
    <3>2. 1..(Len(spans) - 1) = {1}
      BY <3>1
    <3> QED BY <2>4, <3>1, <3>2 DEF Retrieval, Generation, Recorded
  <2>5. \/ spans = <<Retrieval("error")>> /\ evidence = <<>> /\ failed
        \/ \E status : spans = <<Retrieval("ok"), Generation(status)>> /\ status = Trace.status
    BY <2>1, <2>2 DEF ViewsInv, SpansInv, BlamedOne
  <2> QED BY <2>2, <2>3, <2>4, <2>5
<1> QED BY <1>1, QueryInvHolds, ViewsInvHolds, PTL
-----------------------------------------------------------------------------
(* Answers.                                                                *)

\* What a stored answer is, and what the client got of it.
LEMMA AnswerIsStored ==
  ASSUME QueryInv, ViewsInv, Answered
  PROVE  /\ Trace \in traces /\ ~failed
         /\ Trace.status = "ok" /\ Trace.abstained = response.abstained
         /\ Trace.claims = answer.claims /\ Trace.cited = CitedChunks(answer)
         /\ Trace.retrieved = ChunksOf(evidence)
         /\ response.claims = [i \in DOMAIN answer.claims |-> Citations(answer.claims[i])]
         /\ response.unsupported = UnsupportedClaims(answer)
<1>1. Trace \in traces /\ ~failed
  BY DEF ViewsInv, StoredInv
<1>2. Trace.status = "ok"
  BY <1>1, TraceTellsWhatRan DEF ViewsInv, Saving
<1>3. HasAnswer
  BY DEF HasAnswer
<1>4. answer.abstained \in BOOLEAN
  <2>1. CASE answer = NoEvidenceAnswer
    BY <2>1 DEF NoEvidenceAnswer
  <2>2. CASE payload \in Payloads /\ answer = Answer(payload, ChunksOf(evidence))
    <3>1. payload.abstained \in BOOLEAN
      BY <2>2, QueryAssumption
    <3> QED BY <2>2, <3>1 DEF Answer
  <2> QED BY <1>3, <2>1, <2>2 DEF QueryInv, ResultsInv
<1>5. response.abstained = answer.abstained /\ response.unsupported = UnsupportedClaims(answer)
  BY DEF ViewsInv, RespondedInv
<1>6. response.claims = [i \in DOMAIN answer.claims |-> Citations(answer.claims[i])]
  BY DEF QueryInv, ResultsInv
<1>7. /\ Trace.abstained = (~failed /\ answer.abstained)
      /\ Trace.claims = answer.claims /\ Trace.cited = CitedChunks(answer)
      /\ Trace.retrieved = ChunksOf(evidence)
  BY <1>1 DEF Trace
<1> QED BY <1>1, <1>2, <1>4, <1>5, <1>6, <1>7

\* A claim of the model cites by numbers.
LEMMA CitesArePositions ==
  ASSUME QueryInv, HasAnswer, answer # NoEvidenceAnswer, NEW i \in DOMAIN answer.claims
  PROVE  payload.claims[i].cites \in Seq(Int)
<1>1. payload \in Payloads /\ answer.claims = Claims(payload, ChunksOf(evidence))
  BY DEF QueryInv, ResultsInv, Answer
<1>2. payload.claims \in Seq([text : BOOLEAN, cites : Seq(Int)])
  BY <1>1, QueryAssumption
<1> DEFINE claims == payload.claims
           T == [text : BOOLEAN, cites : Seq(Int)]
<1>3. i \in DOMAIN payload.claims
  BY <1>1 DEF Claims, Kept
<1> HIDE DEF T
<1>4. claims \in Seq(T) /\ i \in 1..Len(claims)
  BY <1>2, <1>3 DEF T
<1>5. claims[i] \in T
  BY <1>4, ElementOfSeq
<1>6. payload.claims[i] \in [text : BOOLEAN, cites : Seq(Int)]
  BY <1>5 DEF T
<1> QED BY <1>6, Zenon

\* Nothing but chunks of the evidence is cited.
LEMMA ClaimsCiteEvidence ==
  ASSUME QueryInv, HasAnswer, NEW i \in DOMAIN answer.claims
  PROVE  answer.claims[i] \subseteq FoundBy(ChunksOf(evidence))
<1>1. evidence \in Seq(Hit) /\ answer # NoEvidenceAnswer
  BY DEF QueryInv, TypeOK, NoEvidenceAnswer
<1>2. answer.claims = Claims(payload, ChunksOf(evidence))
  BY <1>1 DEF QueryInv, ResultsInv, Answer
<1>3. answer.claims[i] = Resolved(payload.claims[i].cites, ChunksOf(evidence))
  BY <1>2 DEF Claims
<1>4. /\ Len(ChunksOf(evidence)) = Len(evidence) /\ Len(evidence) \in Nat
      /\ DOMAIN ChunksOf(evidence) = 1..Len(evidence)
  BY <1>1 DEF ChunksOf
<1>5. payload.claims[i].cites \in Seq(Int)
  <2>1. answer # NoEvidenceAnswer
    BY <1>1
  <2> QED BY <2>1, CitesArePositions
<1>6. PICK n \in Nat : Len(ChunksOf(evidence)) = n /\ DOMAIN ChunksOf(evidence) = 1..n
  BY <1>4
<1>7. ASSUME NEW c \in Resolved(payload.claims[i].cites, ChunksOf(evidence))
      PROVE  c \in FoundBy(ChunksOf(evidence))
  <2>1. PICK k \in DOMAIN payload.claims[i].cites, j \in 1..n : c = ChunksOf(evidence)[j]
    BY <1>5, <1>6, ResolvedWasCited
  <2> QED BY <1>6, <2>1, Zenon DEF FoundBy
<1> QED BY <1>3, <1>7

\* The citations of a claim show the chunks it cites, and no others.
LEMMA CitationsShowChunks ==
  ASSUME QueryInv, HasAnswer, NEW i \in DOMAIN answer.claims
  PROVE  {hit.chunk : hit \in Citations(answer.claims[i])} = answer.claims[i]
<1>1. answer.claims[i] \subseteq FoundBy(ChunksOf(evidence))
  BY ClaimsCiteEvidence
<1>2. evidence \in Seq(Hit) /\ IsRanking(ChunksOf(evidence))
  BY RetrievedIsRanking DEF QueryInv, ResultsInv, HasEvidence
<1>3. \A c \in FoundBy(ChunksOf(evidence)) : ById(c).chunk = c
  BY <1>2, ByIdFinds DEF FoundBy, ChunksOf
<1>4. Citations(answer.claims[i]) = {ById(c) : c \in answer.claims[i]}
  BY <1>1 DEF Citations
<1> QED BY <1>1, <1>3, <1>4

(* Whoever gets an answer gets one whose trace is committed and repeats    *)
(* its claims and what they cite (query.py:160-194).                       *)
THEOREM AnswersHaveTraces == Spec => []AnswersAreTraced
<1>1. QueryInv /\ ViewsInv => AnswersAreTraced
  <2>1. SUFFICES ASSUME QueryInv, ViewsInv, Answered
                 PROVE  /\ Trace \in traces
                        /\ Trace.status = "ok" /\ Trace.abstained = response.abstained
                        /\ DOMAIN Trace.claims = DOMAIN response.claims
                        /\ \A i \in DOMAIN Trace.claims :
                             Trace.claims[i] = {hit.chunk : hit \in response.claims[i]}
                        /\ Trace.cited \subseteq FoundBy(Trace.retrieved)
    BY DEF AnswersAreTraced, Answered
  <2>2. \A i \in DOMAIN answer.claims :
          /\ answer.claims[i] = {hit.chunk : hit \in Citations(answer.claims[i])}
          /\ answer.claims[i] \subseteq FoundBy(ChunksOf(evidence))
    BY <2>1, CitationsShowChunks, ClaimsCiteEvidence DEF HasAnswer
  <2>3. CitedChunks(answer) \subseteq FoundBy(ChunksOf(evidence))
    BY <2>2 DEF CitedChunks
  <2> QED BY <2>1, <2>2, <2>3, AnswerIsStored
<1> QED BY <1>1, QueryInvHolds, ViewsInvHolds, PTL
-----------------------------------------------------------------------------
(* The evidence graph.                                                     *)

\* Nodes of two kinds differ, and so do the nodes of two chunks or two claims.
LEMMA NodesDiffer ==
  ASSUME NEW c, NEW d, NEW i, NEW j
  PROVE  /\ ChunkNode(c) # Query /\ ChunkNode(c) # Document /\ ChunkNode(c) # ClaimNode(j)
         /\ ChunkNode(c) = ChunkNode(d) => c = d
         /\ ClaimNode(i) = ClaimNode(j) => i = j
  BY DEF ChunkNode, ClaimNode, Query, Document

\* What can be resolved of a trace is what it retrieved and the corpus still holds.
LEMMA ResolvableIsKept ==
  ASSUME NEW t
  PROVE  FoundBy(Resolvable(t)) = {c \in FoundBy(t.retrieved) : c \in DOMAIN corpus}
  BY DEF Resolvable, FoundBy

\* No edge of a graph dangles, whatever the trace.
LEMMA EdgesAreAnchored ==
  ASSUME NEW t, NEW edge \in Graph(t).edges
  PROVE  edge[1] \in Graph(t).nodes /\ edge[2] \in Graph(t).nodes
<1> DEFINE chunks == FoundBy(Resolvable(t))
           claims == DOMAIN t.claims
<1>1. Graph(t).nodes = {Query, Reply} \cup {Document : c \in chunks}
                         \cup {ChunkNode(c) : c \in chunks} \cup {ClaimNode(j) : j \in claims}
  BY DEF Graph
<1>2. \/ \E c \in chunks : edge = <<Query, Document>>
      \/ \E c \in chunks : edge = <<Document, ChunkNode(c)>>
      \/ \E j \in claims, c \in chunks : edge = <<ChunkNode(c), ClaimNode(j)>>
      \/ \E j \in claims : edge = <<ClaimNode(j), Reply>>
  BY DEF Graph, CitationEdges
<1>3. CASE \E c \in chunks : edge = <<Query, Document>>
  BY <1>1, <1>3
<1>4. CASE \E c \in chunks : edge = <<Document, ChunkNode(c)>>
  BY <1>1, <1>4
<1>5. CASE \E j \in claims, c \in chunks : edge = <<ChunkNode(c), ClaimNode(j)>>
  BY <1>1, <1>5
<1>6. CASE \E j \in claims : edge = <<ClaimNode(j), Reply>>
  BY <1>1, <1>6
<1> QED BY <1>2, <1>3, <1>4, <1>5, <1>6

\* A chunk is joined to a claim if the claim cites it and it can be resolved.
LEMMA CitationsAreDrawn ==
  ASSUME NEW t, NEW c, NEW i
  PROVE  <<ChunkNode(c), ClaimNode(i)>> \in Graph(t).edges
           <=> i \in DOMAIN t.claims /\ c \in t.claims[i] /\ c \in FoundBy(Resolvable(t))
<1> DEFINE e == <<ChunkNode(c), ClaimNode(i)>>
<1>1. \A d : e # <<Query, Document>> /\ e # <<Document, ChunkNode(d)>>
  BY NodesDiffer
<1>2. \A j : e # <<ClaimNode(j), Reply>>
  BY NodesDiffer
<1>3. e \in Graph(t).edges <=> e \in CitationEdges(t)
  BY <1>1, <1>2 DEF Graph
<1>4. e \in CitationEdges(t)
        <=> \E j \in DOMAIN t.claims : \E d \in t.claims[j] :
              d \in FoundBy(Resolvable(t)) /\ e = <<ChunkNode(d), ClaimNode(j)>>
  BY DEF CitationEdges
<1>5. \A d, j : e = <<ChunkNode(d), ClaimNode(j)>> <=> c = d /\ i = j
  BY NodesDiffer
<1> HIDE DEF e
<1>6. e \in CitationEdges(t)
        <=> i \in DOMAIN t.claims /\ c \in t.claims[i] /\ c \in FoundBy(Resolvable(t))
  BY <1>4, <1>5
<1> QED BY <1>3, <1>6 DEF e

(* The evidence graph of an answer repeats what the client was told, for   *)
(* what the corpus still holds (visualizations.py:113-150,                 *)
(* builder.py:48-53 and 124-131).                                          *)
THEOREM GraphsAgree == Spec => []GraphAgreesWithAnswer
<1>1. QueryInv /\ ViewsInv => GraphAgreesWithAnswer
  <2>1. SUFFICES ASSUME QueryInv, ViewsInv, Answered
                 PROVE  /\ Trace \in traces
                        /\ \A edge \in Graph(Trace).edges :
                             edge[1] \in Graph(Trace).nodes /\ edge[2] \in Graph(Trace).nodes
                        /\ \A i, j \in DOMAIN Graph(Trace).chunks :
                             Graph(Trace).chunks[i] = Graph(Trace).chunks[j] => i = j
                        /\ \A i \in DOMAIN response.claims, c \in DOMAIN corpus :
                             <<ChunkNode(c), ClaimNode(i)>> \in Graph(Trace).edges
                               <=> \E citation \in response.claims[i] : citation.chunk = c
                        /\ DOMAIN response.claims \ Graph(Trace).supported = response.unsupported
                        /\ Graph(Trace).cited = {c \in DOMAIN corpus : \E i \in DOMAIN response.claims :
                             \E citation \in response.claims[i] : citation.chunk = c}
    BY DEF GraphAgreesWithAnswer, Answered
  <2> DEFINE shown == FoundBy(ChunksOf(evidence))
             claims == answer.claims
  <2>2. /\ Trace \in traces /\ Trace.claims = claims /\ Trace.retrieved = ChunksOf(evidence)
        /\ response.claims = [i \in DOMAIN claims |-> Citations(claims[i])]
        /\ response.unsupported = UnsupportedClaims(answer)
    BY <2>1, AnswerIsStored
  <2>3. \A i \in DOMAIN claims : claims[i] \subseteq shown
    BY <2>1, ClaimsCiteEvidence DEF HasAnswer
  <2>4. DOMAIN response.claims = DOMAIN claims
    BY <2>2
  <2>5. \A i \in DOMAIN claims : \A c :
          (\E citation \in response.claims[i] : citation.chunk = c) <=> c \in claims[i]
    <3>1. \A i \in DOMAIN claims : {hit.chunk : hit \in Citations(claims[i])} = claims[i]
      BY <2>1, CitationsShowChunks DEF HasAnswer
    <3>2. \A i \in DOMAIN claims : response.claims[i] = Citations(claims[i])
      BY <2>2
    <3> QED BY <3>1, <3>2
  <2>6. FoundBy(Resolvable(Trace)) = {c \in shown : c \in DOMAIN corpus}
    BY <2>2, ResolvableIsKept
  <2>7. \A i, j \in DOMAIN Graph(Trace).chunks : Graph(Trace).chunks[i] = Graph(Trace).chunks[j] => i = j
    <3>1. IsRanking(ChunksOf(evidence))
      BY <2>1, RetrievedIsRanking DEF QueryInv, ResultsInv, HasEvidence, HasAnswer
    <3>2. Graph(Trace).chunks = Resolvable(Trace)
      BY DEF Graph
    <3> QED BY <2>2, <3>1, <3>2 DEF Resolvable, IsRanking
  <2>8. \A i \in DOMAIN claims, c \in DOMAIN corpus :
          <<ChunkNode(c), ClaimNode(i)>> \in Graph(Trace).edges <=> c \in claims[i]
    BY <2>2, <2>3, <2>6, CitationsAreDrawn
  <2>9. DOMAIN claims \ Graph(Trace).supported = UnsupportedClaims(answer)
    BY <2>2 DEF Graph, UnsupportedClaims
  <2>10. Graph(Trace).cited = {c \in DOMAIN corpus : \E i \in DOMAIN claims : c \in claims[i]}
    BY <2>2, <2>3, <2>6 DEF Graph
  <2> HIDE DEF shown, claims
  <2> QED BY <2>2, <2>4, <2>5, <2>7, <2>8, <2>9, <2>10, EdgesAreAnchored
<1> QED BY <1>1, QueryInvHolds, ViewsInvHolds, PTL
-----------------------------------------------------------------------------
(* The response of a search.                                               *)

\* Two sequences of one element, one after the other.
LEMMA JoinOfTwo ==
  ASSUME NEW a, NEW b
  PROVE  <<a>> \o <<b>> = <<a, b>>
<1>1. <<a>> \in Seq({a, b}) /\ <<b>> \in Seq({a, b}) /\ <<a, b>> \in Seq({a, b})
      /\ Len(<<a>>) = 1 /\ Len(<<b>>) = 1 /\ Len(<<a, b>>) = 2
  OBVIOUS
<1>2. /\ <<a>> \o <<b>> \in Seq({a, b}) /\ Len(<<a>> \o <<b>>) = 2
      /\ (<<a>> \o <<b>>)[1] = a /\ (<<a>> \o <<b>>)[2] = b
  BY <1>1, ConcatProperties
<1>3. \A i \in 1..2 : (<<a>> \o <<b>>)[i] = <<a, b>>[i]
  BY <1>2
<1> QED BY <1>1, <1>2, <1>3, SeqEqual

\* Contributions are those of the arms that found the chunk, the dense one first.
LEMMA ContributionsInOrder ==
  ASSUME NEW rankings, NEW c
  PROVE  LET s == [retriever |-> "semantic", rank |-> Place(rankings["semantic"], c) - 1]
             k == [retriever |-> "keyword", rank |-> Place(rankings["keyword"], c) - 1]
         IN Contributions(rankings, c) =
              IF c \in FoundBy(rankings["semantic"])
              THEN IF c \in FoundBy(rankings["keyword"]) THEN <<s, k>> ELSE <<s>>
              ELSE IF c \in FoundBy(rankings["keyword"]) THEN <<k>> ELSE <<>>
<1> DEFINE s == [retriever |-> "semantic", rank |-> Place(rankings["semantic"], c) - 1]
           k == [retriever |-> "keyword", rank |-> Place(rankings["keyword"], c) - 1]
<1>1. Contributions(rankings, c) =
        (IF c \in FoundBy(rankings["semantic"]) THEN <<s>> ELSE <<>>)
          \o (IF c \in FoundBy(rankings["keyword"]) THEN <<k>> ELSE <<>>)
  BY DEF Contributions, ContributedBy
<1> HIDE DEF s, k
<1>2. <<s>> \o <<>> = <<s>> /\ <<>> \o <<k>> = <<k>> /\ <<>> \o <<>> = <<>>
  OBVIOUS
<1>3. <<s>> \o <<k>> = <<s, k>>
  BY JoinOfTwo
<1>4. Contributions(rankings, c) =
        IF c \in FoundBy(rankings["semantic"])
        THEN IF c \in FoundBy(rankings["keyword"]) THEN <<s, k>> ELSE <<s>>
        ELSE IF c \in FoundBy(rankings["keyword"]) THEN <<k>> ELSE <<>>
  BY <1>1, <1>2, <1>3
<1> QED BY <1>4 DEF s, k

\* Of each arm that found a chunk exactly one contribution is kept.
LEMMA OneContributionEach ==
  ASSUME NEW rankings, NEW c
  PROVE  LET kept == Contributions(rankings, c)
         IN /\ {kept[n].retriever : n \in DOMAIN kept} = {a \in Arms : c \in FoundBy(rankings[a])}
            /\ \A a \in Arms : {x.rank : x \in ContributionOf(kept, a)} =
                 IF c \in FoundBy(rankings[a]) THEN {Place(rankings[a], c) - 1} ELSE {}
<1> DEFINE s == [retriever |-> "semantic", rank |-> Place(rankings["semantic"], c) - 1]
           k == [retriever |-> "keyword", rank |-> Place(rankings["keyword"], c) - 1]
           kept == Contributions(rankings, c)
           both == c \in FoundBy(rankings["semantic"]) /\ c \in FoundBy(rankings["keyword"])
<1>1. /\ s.retriever = "semantic" /\ s.rank = Place(rankings["semantic"], c) - 1
      /\ k.retriever = "keyword" /\ k.rank = Place(rankings["keyword"], c) - 1
  OBVIOUS
<1>2. /\ both => kept = <<s, k>>
      /\ c \in FoundBy(rankings["semantic"]) /\ ~both => kept = <<s>>
      /\ c \in FoundBy(rankings["keyword"]) /\ ~both => kept = <<k>>
      /\ c \notin FoundBy(rankings["semantic"]) /\ c \notin FoundBy(rankings["keyword"]) => kept = <<>>
  BY ContributionsInOrder
<1> HIDE DEF s, k, kept
<1>3. CASE both
  <2>1. DOMAIN kept = {1, 2} /\ kept[1] = s /\ kept[2] = k
    BY <1>2, <1>3
  <2>2. ContributionOf(kept, "semantic") = {s}
    BY <1>1, <2>1 DEF ContributionOf
  <2>3. ContributionOf(kept, "keyword") = {k}
    BY <1>1, <2>1 DEF ContributionOf
  <2> QED BY <1>1, <1>3, <2>1, <2>2, <2>3 DEF Arms, kept
<1>4. CASE c \in FoundBy(rankings["semantic"]) /\ ~both
  <2>1. DOMAIN kept = {1} /\ kept[1] = s
    BY <1>2, <1>4
  <2>2. ContributionOf(kept, "semantic") = {s} /\ ContributionOf(kept, "keyword") = {}
    BY <1>1, <2>1 DEF ContributionOf
  <2> QED BY <1>1, <1>4, <2>1, <2>2 DEF Arms, kept
<1>5. CASE c \in FoundBy(rankings["keyword"]) /\ ~both
  <2>1. DOMAIN kept = {1} /\ kept[1] = k
    BY <1>2, <1>5
  <2>2. ContributionOf(kept, "keyword") = {k} /\ ContributionOf(kept, "semantic") = {}
    BY <1>1, <2>1 DEF ContributionOf
  <2> QED BY <1>1, <1>5, <2>1, <2>2 DEF Arms, kept
<1>6. CASE c \notin FoundBy(rankings["semantic"]) /\ c \notin FoundBy(rankings["keyword"])
  <2>1. DOMAIN kept = {}
    BY <1>2, <1>6
  <2>2. \A a : ContributionOf(kept, a) = {}
    BY <2>1 DEF ContributionOf
  <2> QED BY <1>6, <2>1, <2>2 DEF Arms, kept
<1> QED BY <1>3, <1>4, <1>5, <1>6

\* The arms an item names.
Named(item) == {item.retrieval_source[n] : n \in DOMAIN item.retrieval_source}

\* An item of a fused search names the arms that found its chunk, at their ranks.
LEMMA FusedItem ==
  ASSUME strategy \in {"hybrid", "adaptive"}, NEW hit, NEW rank, NEW rankings
  PROVE  LET item == ToEvidence(hit, rank, rankings)
         IN /\ item.chunk = hit.chunk
            /\ Named(item) = {a \in Arms : hit.chunk \in FoundBy(rankings[a])}
            /\ \A a \in Arms : item.rank_by[a] =
                 IF hit.chunk \in FoundBy(rankings[a]) THEN {Place(rankings[a], hit.chunk) - 1} ELSE {}
<1> DEFINE kept == Contributions(rankings, hit.chunk)
           item == ToEvidence(hit, rank, rankings)
<1>1. /\ item.chunk = hit.chunk
      /\ item.retrieval_source = [n \in DOMAIN kept |-> kept[n].retriever]
      /\ item.rank_by = [a \in Arms |-> {x.rank : x \in ContributionOf(kept, a)}]
  BY DEF ToEvidence
<1>2. Named(item) = {kept[n].retriever : n \in DOMAIN kept}
  BY <1>1 DEF Named
<1> HIDE DEF item
<1> QED BY <1>1, <1>2, OneContributionEach DEF item

\* An item of a search by one arm claims no contribution.
LEMMA OneArmItem ==
  ASSUME strategy \in Arms, NEW hit, NEW rank, NEW rankings
  PROVE  LET item == ToEvidence(hit, rank, rankings)
         IN /\ Named(item) = {}
            /\ \A a \in Arms : item.rank_by[a] = {}
<1> DEFINE item == ToEvidence(hit, rank, rankings)
<1>1. /\ item.retrieval_source = [n \in DOMAIN <<>> |-> <<>>[n].retriever]
      /\ item.rank_by = [a \in Arms |-> {x.rank : x \in ContributionOf(<<>>, a)}]
  BY DEF ToEvidence, Arms
<1>2. DOMAIN <<>> = {}
  OBVIOUS
<1>3. \A a : ContributionOf(<<>>, a) = {}
  BY <1>2 DEF ContributionOf
<1> HIDE DEF item
<1> QED BY <1>1, <1>2, <1>3 DEF item, Named

\* From the ranks of an item a client adds up the very score fusion ordered it by.
LEMMA ScoreIsRecomputed ==
  ASSUME strategy \in {"hybrid", "adaptive"}, NEW weights, IsInput(Ranked, weights),
         NEW hit, NEW rank
  PROVE  Recomputed(ToEvidence(hit, rank, Ranked), weights) = Score(Ranked, weights, hit.chunk)
<1> DEFINE item == ToEvidence(hit, rank, Ranked)
           share(a) == IF item.rank_by[a] = {} THEN <<0, 1>>
                       ELSE <<weights[a], K + 1 + CHOOSE n \in item.rank_by[a] : TRUE>>
<1>1. ASSUME NEW a \in Arms PROVE share(a) = Contribution(Ranked[a], weights[a], hit.chunk)
  <2>1. item.rank_by[a] = IF hit.chunk \in FoundBy(Ranked[a]) THEN {Place(Ranked[a], hit.chunk) - 1} ELSE {}
    BY FusedItem
  <2> DEFINE ranks == item.rank_by[a]
             p == Place(Ranked[a], hit.chunk)
  <2> HIDE DEF ranks
  <2>2. CASE hit.chunk \in FoundBy(Ranked[a])
    <3>1. p \in Nat
      BY <2>2, PlaceIsThere DEF IsInput
    <3> HIDE DEF p
    <3>2. ranks = {p - 1} /\ ranks # {}
      BY <2>1, <2>2 DEF ranks, p
    <3>3. (CHOOSE n \in ranks : TRUE) = p - 1
      BY <3>2
    <3>4. share(a) = <<weights[a], K + 1 + (p - 1)>>
      BY <3>2, <3>3 DEF ranks
    <3>5. K + 1 + (p - 1) = K + p
      BY <3>1, FusionAssumption
    <3> QED BY <2>2, <3>4, <3>5 DEF Contribution, p
  <2>3. CASE hit.chunk \notin FoundBy(Ranked[a])
    BY <2>1, <2>3 DEF Contribution
  <2> QED BY <2>2, <2>3
<1>2. Recomputed(item, weights) = Plus(share("semantic"), share("keyword"))
  BY DEF Recomputed
<1> HIDE DEF share, item
<1>3. Recomputed(item, weights) = Score(Ranked, weights, hit.chunk)
  BY <1>1, <1>2 DEF Score, Arms
<1> QED BY <1>3 DEF item

(* A fused search can be explained from its response, for every corpus and *)
(* every profile: what a client recomputes orders the items as they came   *)
(* (search.py:8-10, types.py:34-40, fusion.py:49-64).                      *)
THEOREM SearchCanBeExplained == Spec => []SearchIsExplained
<1>1. QueryInv => SearchIsExplained
  <2> SUFFICES ASSUME QueryInv, pc = "ranking" PROVE SearchIsExplained
    BY DEF SearchIsExplained
  <2> DEFINE results == SearchResponse.results
             weights == SearchResponse.weights
  <2>1. TypeOK /\ HitsInv
    BY DEF QueryInv
  <2>2. /\ results = [i \in DOMAIN Retrieved |-> ToEvidence(Retrieved[i], i - 1, Ranked)]
        /\ weights = ReportedWeights
    BY DEF SearchResponse, Ranked
  <2>3. \A i \in DOMAIN results : results[i] = ToEvidence(Retrieved[i], i - 1, Ranked)
    BY <2>2
  <2> HIDE DEF results, weights
  <2>4. CASE strategy \in Arms
    <3>1. \A i \in DOMAIN results : Named(results[i]) = {} /\ \A a \in Arms : results[i].rank_by[a] = {}
      BY <2>3, <2>4, OneArmItem
    <3> QED BY <2>4, <3>1 DEF SearchIsExplained, Named, results
  <2>5. CASE strategy \notin Arms
    <3>1. strategy \in {"hybrid", "adaptive"} /\ strategy \notin {"semantic", "keyword"}
      BY <2>1, <2>5 DEF TypeOK, Strategies, Arms
    <3>2. weights = profile.weights
      BY <2>1, <2>2, <3>1, ProfileIsSound DEF ReportedWeights
    <3>3. IsInput(Ranked, weights) /\ Found(Ranked) \subseteq Nat
      BY <2>1, <3>2, RankedIsInput, FoundIsFinite
    <3> DEFINE fused == Fuse(Ranked, weights)
               n == Cardinality(Found(Ranked))
    <3>4. /\ n \in Nat /\ fused \in [1..n -> Found(Ranked)]
          /\ \A i, j \in 1..n : fused[i] = fused[j] => i = j
          /\ \A i, j \in 1..n : i < j => Outranks(Ranked, weights, fused[i], fused[j])
      BY <3>3, FusionIsARanking
    <3>5. PICK m \in 0..n : /\ Retrieved \in [1..m -> Hit]
                            /\ \A i \in 1..m : Retrieved[i].chunk = fused[i]
      BY <2>1, <3>1, <3>2, FusedIsRetrieved
    <3> HIDE DEF n, fused
    <3>6. DOMAIN results = 1..m /\ 1..m \subseteq 1..n
      BY <2>2, <3>4, <3>5
    <3> DEFINE c == [i \in 1..m |-> Retrieved[i].chunk]
               score(i) == Recomputed(results[i], weights)
    <3>7. ASSUME NEW i \in DOMAIN results
          PROVE  /\ results[i].chunk = c[i]
                 /\ Named(results[i]) = {a \in Arms : c[i] \in FoundBy(Ranked[a])}
                 /\ \A a \in Arms : results[i].rank_by[a] =
                      IF c[i] \in FoundBy(Ranked[a]) THEN {Place(Ranked[a], c[i]) - 1} ELSE {}
                 /\ score(i) = Score(Ranked, weights, c[i]) /\ score(i) \in Fraction
      <4>1. c[i] = Retrieved[i].chunk
        BY <3>6
      <4> HIDE DEF c
      <4>2. score(i) = Score(Ranked, weights, c[i])
        BY <2>3, <3>1, <3>3, <4>1, ScoreIsRecomputed
      <4>3. Score(Ranked, weights, c[i]) \in Fraction
        BY <3>3, ScoreIsFraction
      <4>4. results[i].chunk = c[i] /\ Named(results[i]) = {a \in Arms : c[i] \in FoundBy(Ranked[a])}
        BY <2>3, <3>1, <4>1, FusedItem
      <4>5. \A a \in Arms : results[i].rank_by[a] =
              IF c[i] \in FoundBy(Ranked[a]) THEN {Place(Ranked[a], c[i]) - 1} ELSE {}
        BY <2>3, <3>1, <4>1, FusedItem
      <4> QED BY <4>2, <4>3, <4>4, <4>5
    <3>chunk. \A i \in 1..m : c[i] = fused[i]
      BY <3>5
    <3> HIDE DEF score, c
    <3>8. ASSUME NEW i \in DOMAIN results, NEW j \in DOMAIN results, i < j
          PROVE  /\ ~Below(score(i), score(j))
                 /\ ~Below(score(j), score(i)) => c[i] < c[j]
                 /\ \A a \in Arms : results[i].rank_by[a] \cap results[j].rank_by[a] = {}
      <4>1. c[i] = fused[i] /\ c[j] = fused[j] /\ c[i] # c[j] /\ Outranks(Ranked, weights, c[i], c[j])
        BY <3>4, <3>6, <3>8, <3>chunk
      <4>2. Below(score(j), score(i)) \/ (~Below(score(i), score(j)) /\ c[i] < c[j])
        BY <3>7, <4>1 DEF Outranks
      <4>3. ~Below(score(i), score(j)) /\ (~Below(score(j), score(i)) => c[i] < c[j])
        BY <3>7, <4>2, BelowIsAsymmetric
      <4>4. ASSUME NEW a \in Arms, c[i] \in FoundBy(Ranked[a]), c[j] \in FoundBy(Ranked[a])
            PROVE  Place(Ranked[a], c[i]) - 1 # Place(Ranked[a], c[j]) - 1
        <5> DEFINE p == Place(Ranked[a], c[i])
                   q == Place(Ranked[a], c[j])
        <5>1. Ranked[a] \in Seq(Nat)
          BY <3>3 DEF IsInput
        <5>2. p \in 1..Len(Ranked[a]) /\ q \in 1..Len(Ranked[a]) /\ Ranked[a][p] = c[i] /\ Ranked[a][q] = c[j]
          BY <4>4, <5>1, PlaceIsThere
        <5> HIDE DEF p, q
        <5>3. p \in Nat /\ q \in Nat /\ p # q
          BY <4>1, <5>1, <5>2
        <5> QED BY <5>3 DEF p, q
      <4>5. ASSUME NEW a \in Arms PROVE results[i].rank_by[a] \cap results[j].rank_by[a] = {}
        <5>1. /\ results[i].rank_by[a] =
                    IF c[i] \in FoundBy(Ranked[a]) THEN {Place(Ranked[a], c[i]) - 1} ELSE {}
              /\ results[j].rank_by[a] =
                    IF c[j] \in FoundBy(Ranked[a]) THEN {Place(Ranked[a], c[j]) - 1} ELSE {}
          BY <3>7
        <5>2. CASE c[i] \in FoundBy(Ranked[a]) /\ c[j] \in FoundBy(Ranked[a])
          <6>1. Place(Ranked[a], c[i]) - 1 # Place(Ranked[a], c[j]) - 1
            BY ONLY <4>4, <5>2, a \in Arms
          <6>2. /\ results[i].rank_by[a] = {Place(Ranked[a], c[i]) - 1}
                /\ results[j].rank_by[a] = {Place(Ranked[a], c[j]) - 1}
            BY ONLY <5>1, <5>2
          <6> QED BY ONLY <6>1, <6>2
        <5>3. CASE ~(c[i] \in FoundBy(Ranked[a]) /\ c[j] \in FoundBy(Ranked[a]))
          BY ONLY <5>1, <5>3
        <5> QED BY ONLY <5>2, <5>3
      <4> QED BY <4>3, <4>5
    <3>9. ASSUME NEW i \in DOMAIN results
          PROVE  /\ Named(results[i]) = {a \in Arms : FoundIn(results[i].chunk, a)}
                 /\ \A a \in Arms : results[i].rank_by[a] # {} <=> a \in Named(results[i])
      <4>1. \A a \in Arms : FoundIn(c[i], a) <=> c[i] \in FoundBy(Ranked[a])
        BY DEF FoundIn, Ranked
      <4>2. results[i].chunk = c[i] /\ Named(results[i]) = {a \in Arms : c[i] \in FoundBy(Ranked[a])}
        BY <3>7
      <4>3. ASSUME NEW a \in Arms PROVE results[i].rank_by[a] # {} <=> c[i] \in FoundBy(Ranked[a])
        <5> DEFINE p == Place(Ranked[a], c[i]) - 1
        <5>1. results[i].rank_by[a] = IF c[i] \in FoundBy(Ranked[a]) THEN {p} ELSE {}
          BY <3>7
        <5> HIDE DEF p
        <5>2. p \in {p}
          OBVIOUS
        <5> QED BY <5>1, <5>2
      <4>4. \A a \in Arms : results[i].rank_by[a] # {} <=> a \in Named(results[i])
        BY <4>2, <4>3
      <4> QED BY <4>1, <4>2, <4>4
    <3>10. \A i, j \in DOMAIN results : i < j =>
             /\ ~Below(score(i), score(j))
             /\ ~Below(score(j), score(i)) => results[i].chunk < results[j].chunk
             /\ \A a \in Arms : results[i].rank_by[a] \cap results[j].rank_by[a] = {}
      BY <3>7, <3>8
    <3> QED BY <2>5, <3>9, <3>10 DEF SearchIsExplained, Named, score, results, weights
  <2> QED BY <2>4, <2>5
<1> QED BY <1>1, QueryInvHolds, PTL
-----------------------------------------------------------------------------
(* The comparison of strategies.                                           *)

\* Some of finitely many numbers is the least.
LEMMA LeastIsThere ==
  ASSUME NEW S \in SUBSET Nat, S # {}
  PROVE  \E x \in S : \A y \in S : x <= y
<1> DEFINE R == {ss \in Nat \X Nat : ss[1] < ss[2]}
<1>1. IsWellFoundedOn(R, Nat)
  BY NatLessThanWellFounded DEF OpToRel
<1> HIDE DEF R
<1>2. PICK x \in S : \A y \in S : ~ (<<y, x>> \in R)
  BY <1>1, WFMin, Zenon
<1>3. \A y \in S : x <= y
  <2> TAKE y \in S
  <2>1. ~ (<<y, x>> \in R)
    BY <1>2
  <2>2. ~ (y < x)
    BY <2>1 DEF R
  <2> QED BY <2>2
<1> QED BY <1>3

\* Whoever has a lower key, or the same and a lower number.
BeforeBy(S, key, c) == {d \in S : key[d] < key[c] \/ (key[d] = key[c] /\ d < c)}

\* Counting who comes before gives each of finitely many its own place, and fills all places.
LEMMA PlacesAreTaken ==
  ASSUME NEW S \in SUBSET Nat, IsFiniteSet(S), NEW key \in [S -> Nat]
  PROVE  /\ Cardinality(S) \in Nat
         /\ \A c \in S : Cardinality(BeforeBy(S, key, c)) + 1 \in 1..Cardinality(S)
         /\ \A c, d \in S :
              Cardinality(BeforeBy(S, key, c)) = Cardinality(BeforeBy(S, key, d)) => c = d
         /\ \A n \in 1..Cardinality(S) : \E c \in S : Cardinality(BeforeBy(S, key, c)) = n - 1
<1> DEFINE First(d, c) == key[d] < key[c] \/ (key[d] = key[c] /\ d < c)
           before(c) == {d \in S : First(d, c)}
<1>1. Cardinality(S) \in Nat
  BY FS_CardinalityType
<1>2. /\ \A c \in S : ~First(c, c)
      /\ \A c, d, e \in S : First(c, d) /\ First(d, e) => First(c, e)
      /\ \A c, d \in S : c # d => First(c, d) \/ First(d, c)
  OBVIOUS
<1> HIDE DEF First
<1>3. ASSUME NEW c \in S
      PROVE  IsFiniteSet(before(c)) /\ Cardinality(before(c)) \in Nat
             /\ Cardinality(before(c)) + 1 \in 1..Cardinality(S)
  <2>1. IsFiniteSet(before(c)) /\ Cardinality(before(c)) <= Cardinality(S)
        /\ (Cardinality(S) = Cardinality(before(c)) => S = before(c))
    BY FS_Subset
  <2>2. S # before(c)
    BY <1>2
  <2>3. Cardinality(before(c)) \in Nat
    BY <2>1, FS_CardinalityType
  <2> QED BY <1>1, <2>1, <2>2, <2>3
<1>4. ASSUME NEW c \in S, NEW d \in S, First(c, d)
      PROVE  Cardinality(before(c)) < Cardinality(before(d))
  <2>1. before(c) \subseteq before(d) /\ before(c) # before(d)
    BY <1>2, <1>4
  <2>2. IsFiniteSet(before(d)) /\ Cardinality(before(d)) \in Nat /\ Cardinality(before(c)) \in Nat
    BY <1>3
  <2>3. Cardinality(before(c)) <= Cardinality(before(d))
        /\ (Cardinality(before(d)) = Cardinality(before(c)) => before(d) = before(c))
    BY <2>1, <2>2, FS_Subset
  <2> QED BY <2>1, <2>2, <2>3
<1>5. ASSUME NEW c \in S, NEW d \in S, Cardinality(before(c)) = Cardinality(before(d))
      PROVE  c = d
  <2>1. ~(Cardinality(before(c)) < Cardinality(before(d))) /\ ~(Cardinality(before(d)) < Cardinality(before(c)))
    BY <1>3, <1>5
  <2>2. ~First(c, d) /\ ~First(d, c)
    BY <1>4, <2>1
  <2> QED BY <1>2, <2>2
<1>6. ASSUME NEW n \in 1..Cardinality(S)
      PROVE  \E c \in S : Cardinality(before(c)) = n - 1
  <2> DEFINE T == 1..Cardinality(S)
             f == [c \in S |-> Cardinality(before(c)) + 1]
  <2>1. f \in [S -> T]
    BY <1>3
  <2>2. ASSUME NEW c \in S, NEW d \in S, f[c] = f[d] PROVE c = d
    <3>1. Cardinality(before(c)) = Cardinality(before(d))
      BY <1>3, <2>2
    <3> QED BY <1>5, <3>1
  <2>3. f \in Injection(S, T)
    BY <2>1, <2>2 DEF Injection, IsInjective
  <2>4. IsFiniteSet(T) /\ Cardinality(T) = Cardinality(S)
    BY <1>1, FS_Interval
  <2>5. f \in Surjection(S, T)
    BY <2>3, <2>4, FS_Injection
  <2>6. PICK c \in S : f[c] = n
    BY <2>5 DEF Surjection
  <2>7. Cardinality(before(c)) = n - 1
    BY <1>3, <2>6
  <2> QED BY <2>7
<1>7. \A c : before(c) = BeforeBy(S, key, c)
  BY DEF BeforeBy, First
<1> HIDE DEF before
<1> QED BY <1>1, <1>3, <1>5, <1>6, <1>7

\* What the strategies of a comparison return.
Returned(s) == FoundBy(Results(Ranked)[s])
AllReturned == UNION {Returned(s) : s \in _COMPARISON_STRATEGIES}

\* Whatever is cut, its beginning is kept.
KeepsBeginnings(n, k, m) == \A S : \A r \in [1..n -> S] : Cut(r, k) = [i \in 1..m |-> r[i]]

LEMMA EveryCutKeeps ==
  ASSUME NEW n \in Nat, NEW k \in Nat \ {0}, NEW m \in Nat, m = IF n < k THEN n ELSE k
  PROVE  KeepsBeginnings(n, k, m)
<1>1. ASSUME NEW S, NEW r \in [1..n -> S]
      PROVE  Cut(r, k) = [i \in 1..m |-> r[i]]
  BY <1>1, CutKeeps
<1> QED BY <1>1 DEF KeepsBeginnings

\* Each is a ranking of chunks the arms found, no longer than top_k.
LEMMA ReturnedAreRankings ==
  ASSUME TypeOK, HitsInv, strategy = "hybrid", NEW s \in _COMPARISON_STRATEGIES
  PROVE  LET r == IF s = "hybrid" THEN Fuse(Ranked, EqualWeights) ELSE Ranked[s] IN
         \E n \in Nat, m \in Nat :
           /\ r \in [1..n -> Chunks] /\ m = IF n < TopK THEN n ELSE TopK
           /\ \A i, j \in 1..n : r[i] = r[j] => i = j
           /\ Results(Ranked)[s] = [i \in 1..m |-> r[i]]
<1> DEFINE r == IF s = "hybrid" THEN Fuse(Ranked, EqualWeights) ELSE Ranked[s]
<1>1. IsInput(Ranked, EqualWeights) /\ Found(Ranked) \subseteq Chunks
  BY RankedIsInput, ProfileIsSound
<1>2. PICK n \in Nat : r \in [1..n -> Chunks] /\ \A i, j \in 1..n : r[i] = r[j] => i = j
  <2>1. CASE s = "hybrid"
    BY <1>1, <2>1, FusionIsARanking
  <2>2. CASE s # "hybrid"
    <3>1. s \in Arms /\ r = Ranked[s]
      BY <2>2 DEF _COMPARISON_STRATEGIES, Arms
    <3>2. Ranked[s] \in Seq(Nat) /\ IsRanking(Ranked[s]) /\ FoundBy(Ranked[s]) \subseteq Chunks
      BY <1>1, <3>1 DEF IsInput, HitsInv, Ranked, Found
    <3> HIDE DEF r
    <3>3. r \in Seq(Nat) /\ DOMAIN r = 1..Len(r) /\ Len(r) \in Nat
      BY <3>1, <3>2
    <3>4. \A i \in 1..Len(r) : r[i] \in Chunks
      BY <3>1, <3>2, <3>3 DEF FoundBy
    <3>5. r = [i \in 1..Len(r) |-> r[i]]
      BY <3>3
    <3>6. r \in [1..Len(r) -> Chunks]
      BY <3>4, <3>5
    <3> QED BY <3>1, <3>2, <3>3, <3>6 DEF IsRanking
  <2> QED BY <2>1, <2>2
<1>3. PICK m \in Nat : m = IF n < TopK THEN n ELSE TopK
  BY QueryAssumption
<1>4. Results(Ranked)[s] = Cut(r, TopK)
  BY DEF Results
<1> HIDE DEF r
<1>5. Cut(r, TopK) = [i \in 1..m |-> r[i]]
  <2>1. TopK \in Nat \ {0}
    BY QueryAssumption
  <2>2. PICK k \in Nat \ {0} : k = TopK
    BY <2>1
  <2>3. m = IF n < k THEN n ELSE k
    BY ONLY <1>3, <2>2
  <2>4. Cut(r, k) = [i \in 1..m |-> r[i]]
    <3>1. KeepsBeginnings(n, k, m)
      BY ONLY <2>3, n \in Nat, m \in Nat, k \in Nat \ {0}, EveryCutKeeps
    <3>2. PICK S : S = Chunks
      OBVIOUS
    <3>3. PICK f \in [1..n -> S] : f = r
      BY ONLY <1>2, <3>2
    <3>4. Cut(f, k) = [i \in 1..m |-> f[i]]
      BY ONLY <3>1, f \in [1..n -> S] DEF KeepsBeginnings
    <3> QED BY ONLY <3>3, <3>4
  <2> QED BY ONLY <2>2, <2>4
<1> QED BY <1>2, <1>3, <1>4, <1>5, Zenon DEF r

\* Ranks of a strategy are below top_k, and a chunk has one exactly if it was returned.
LEMMA RanksOfReturned ==
  ASSUME TypeOK, HitsInv, strategy = "hybrid", NEW s \in _COMPARISON_STRATEGIES, NEW c
  PROVE  /\ Returned(s) \subseteq Chunks
         /\ RankOf(Results(Ranked)[s], c) # NotReturned <=> c \in Returned(s)
         /\ c \in Returned(s) => RankOf(Results(Ranked)[s], c) \in 0..TopK
<1> DEFINE ranking == IF s = "hybrid" THEN Fuse(Ranked, EqualWeights) ELSE Ranked[s]
<1>0. PICK n \in Nat, m \in Nat :
        /\ ranking \in [1..n -> Chunks] /\ m = IF n < TopK THEN n ELSE TopK
        /\ Results(Ranked)[s] = [i \in 1..m |-> ranking[i]]
  BY ReturnedAreRankings, Zenon
<1> HIDE DEF ranking
<1>1. PICK r \in [1..n -> Chunks] :
        m = (IF n < TopK THEN n ELSE TopK) /\ Results(Ranked)[s] = [i \in 1..m |-> r[i]]
  BY <1>0
<1>2. m <= n /\ m <= TopK /\ TopK \in Nat
  BY <1>1, QueryAssumption
<1> DEFINE cut == Results(Ranked)[s]
<1>3. DOMAIN cut = 1..m /\ \A i \in 1..m : cut[i] = r[i] /\ r[i] \in Chunks
  BY <1>1, <1>2
<1> HIDE DEF cut
<1>4. Returned(s) = FoundBy(cut)
  BY DEF Returned, cut
<1>5. FoundBy(cut) \subseteq Chunks
  BY <1>3 DEF FoundBy
<1>6. ASSUME c \in FoundBy(cut)
      PROVE  RankOf(cut, c) \in 0..TopK
  <2>1. Place(cut, c) \in 1..m
    BY <1>3, <1>6 DEF FoundBy, Place
  <2>2. RankOf(cut, c) = Place(cut, c) - 1
    BY <1>6 DEF RankOf
  <2> QED BY <1>2, <2>1, <2>2
<1>7. RankOf(cut, c) # NotReturned <=> c \in FoundBy(cut)
  BY <1>2, <1>6 DEF RankOf, NotReturned
<1> QED BY <1>4, <1>5, <1>6, <1>7 DEF cut

\* What was returned has a best rank.
LEMMA BestRankIsNat ==
  ASSUME TypeOK, HitsInv, strategy = "hybrid", NEW c \in AllReturned
  PROVE  BestRank(Results(Ranked), c) \in Nat
<1> DEFINE results == Results(Ranked)
           ranks == {RankOf(results[s], c) : s \in {t \in _COMPARISON_STRATEGIES : c \in Returned(t)}}
<1>1. DOMAIN results = _COMPARISON_STRATEGIES
  BY DEF Results
<1>2. TopK \in Nat
  BY QueryAssumption
<1> HIDE DEF results
<1>3. \A s \in _COMPARISON_STRATEGIES :
        /\ RankOf(results[s], c) # NotReturned <=> c \in Returned(s)
        /\ c \in Returned(s) => RankOf(results[s], c) \in 0..TopK
  BY RanksOfReturned DEF results
<1>4. ranks \in SUBSET Nat /\ ranks # {} /\ \A n \in ranks : n \in 0..TopK
  BY <1>2, <1>3 DEF AllReturned
<1>5. PICK n \in ranks : \A k \in ranks : n <= k
  BY <1>4, LeastIsThere
<1>6. /\ n \in 0..TopK /\ \E s \in DOMAIN results : RankOf(results[s], c) = n
      /\ \A s \in DOMAIN results : RankOf(results[s], c) # NotReturned => n <= RankOf(results[s], c)
  BY <1>1, <1>3, <1>4, <1>5
<1>7. BestRank(results, c) \in 0..TopK
  BY <1>6 DEF BestRank
<1> QED BY <1>2, <1>7 DEF results

\* The rows are the chunks returned, one each, and say who returned them.
LEMMA RowsAreReturned ==
  ASSUME TypeOK, HitsInv, strategy = "hybrid"
  PROVE  LET rows == Rows(Results(Ranked)) IN
         /\ Cardinality(AllReturned) \in Nat /\ DOMAIN rows = 1..Cardinality(AllReturned)
         /\ AllReturned \subseteq Chunks
         /\ \A i \in DOMAIN rows :
              /\ rows[i].chunk \in AllReturned
              /\ rows[i].found_by = {s \in _COMPARISON_STRATEGIES : rows[i].chunk \in Returned(s)}
         /\ \A i, j \in DOMAIN rows : rows[i].chunk = rows[j].chunk => i = j
         /\ \A c \in AllReturned : \E i \in DOMAIN rows : rows[i].chunk = c
<1> DEFINE results == Results(Ranked)
           found == UNION {FoundBy(results[s]) : s \in DOMAIN results}
           place(c) == Cardinality({d \in found : RowBefore(results, d, c)})
           chunk(n) == CHOOSE c \in found : place(c) = n - 1
           rows == Rows(results)
           key == [c \in found |-> BestRank(results, c)]
           before(c) == BeforeBy(found, key, c)
<1>1. DOMAIN results = _COMPARISON_STRATEGIES /\ found = AllReturned
  BY DEF Results, AllReturned, Returned
<1>2. AllReturned \subseteq Chunks
  BY RanksOfReturned DEF AllReturned
<1>3. found \in SUBSET Nat /\ IsFiniteSet(found)
  BY <1>1, <1>2, QueryAssumption, FS_Subset
<1>4. key \in [found -> Nat]
  BY <1>1, BestRankIsNat
<1>5. /\ Cardinality(found) \in Nat
      /\ \A c \in found : Cardinality(before(c)) + 1 \in 1..Cardinality(found)
      /\ \A c, d \in found : Cardinality(before(c)) = Cardinality(before(d)) => c = d
      /\ \A n \in 1..Cardinality(found) : \E c \in found : Cardinality(before(c)) = n - 1
  <2> HIDE DEF found, key
  <2> QED BY <1>3, <1>4, PlacesAreTaken
<1>6. ASSUME NEW c \in found
      PROVE  place(c) = Cardinality(before(c))
  <2>1. \A d \in found : RowBefore(results, d, c)
                           <=> key[d] < key[c] \/ (key[d] = key[c] /\ d < c)
    BY DEF RowBefore
  <2>2. {d \in found : RowBefore(results, d, c)} = before(c)
    BY <2>1 DEF BeforeBy
  <2> QED BY <2>2
<1>7. rows = [n \in 1..Cardinality(found) |->
                [chunk |-> chunk(n), found_by |-> FoundByStrategies(results, chunk(n))]]
  BY DEF Rows
<1> HIDE DEF results, found, before, place, key
<1>8. ASSUME NEW n \in 1..Cardinality(found)
      PROVE  chunk(n) \in found /\ place(chunk(n)) = n - 1
  <2>1. \E c \in found : place(c) = n - 1
    BY <1>5, <1>6
  <2> QED BY <2>1
<1> HIDE DEF chunk
<1>9. DOMAIN rows = 1..Cardinality(found)
      /\ \A n \in 1..Cardinality(found) :
           rows[n].chunk = chunk(n) /\ rows[n].found_by = FoundByStrategies(results, chunk(n))
  BY <1>7
<1> HIDE DEF rows
<1>10. ASSUME NEW i \in DOMAIN rows
       PROVE  /\ rows[i].chunk \in AllReturned
              /\ rows[i].found_by = {s \in _COMPARISON_STRATEGIES : rows[i].chunk \in Returned(s)}
  <2>1. FoundByStrategies(results, chunk(i)) =
          {s \in _COMPARISON_STRATEGIES : RankOf(results[s], chunk(i)) # NotReturned}
    BY <1>1 DEF FoundByStrategies
  <2>2. \A s \in _COMPARISON_STRATEGIES :
          RankOf(results[s], chunk(i)) # NotReturned <=> chunk(i) \in Returned(s)
    BY RanksOfReturned DEF results
  <2> QED BY <1>1, <1>8, <1>9, <2>1, <2>2
<1>11. ASSUME NEW i \in DOMAIN rows, NEW j \in DOMAIN rows, rows[i].chunk = rows[j].chunk
       PROVE  i = j
  <2>1. chunk(i) = chunk(j)
    BY <1>9, <1>11
  <2>2. i - 1 = j - 1 /\ i \in Int /\ j \in Int
    BY <1>5, <1>8, <1>9, <2>1
  <2> QED BY <2>2
<1>12. ASSUME NEW c \in AllReturned
       PROVE  \E i \in DOMAIN rows : rows[i].chunk = c
  <2>1. c \in found /\ Cardinality(before(c)) + 1 \in 1..Cardinality(found)
    BY <1>1, <1>5
  <2>2. PICK n \in 1..Cardinality(found) : n = Cardinality(before(c)) + 1
    BY <2>1
  <2>3. PICK d \in found : Cardinality(before(d)) = n - 1 /\ d = chunk(n)
    BY <1>6, <1>8
  <2>4. PICK e \in found : Cardinality(before(e)) = n - 1
    BY <1>5
  <2>5. Cardinality(before(c)) = n - 1
    BY <1>6, <2>1, <2>2, FS_CardinalityType, <1>3, FS_Subset DEF before, BeforeBy
  <2>6. c = chunk(n)
    BY <1>5, <2>1, <2>3, <2>5
  <2> QED BY <1>9, <2>6
<1> QED BY <1>1, <1>2, <1>5, <1>9, <1>10, <1>11, <1>12 DEF rows, results

\* 1/q < 1/p + x/y where p is below q.
LEMMA OneBeatsLess ==
  ASSUME NEW p \in Nat \ {0}, NEW q \in Nat \ {0}, p < q, NEW x \in Nat, NEW y \in Nat \ {0}
  PROVE  p * y < (y + x * p) * q
<1>1. p * y < q * y
  <2>1. ~(q * y <= p * y)
    BY ProductGrows
  <2> QED BY <2>1, ProductIsNat
<1>2. x * p \in Nat /\ y * q \in Nat /\ (x * p) * q \in Nat /\ p * y \in Nat /\ q * y = y * q
  <2>1. x * p \in Nat
    BY ProductIsNat
  <2>2. (x * p) * q \in Nat
    <3> PICK z \in Nat : z = x * p
      BY <2>1
    <3> QED BY ProductIsNat
  <2> QED BY <2>1, <2>2, ProductIsNat
<1>3. (y + x * p) * q = y * q + (x * p) * q
  <2> PICK z \in Nat : z = x * p
    BY <1>2
  <2>1. (y + z) * q = y * q + z * q
    OBVIOUS
  <2> QED BY <2>1
<1> QED BY <1>1, <1>2, <1>3

\* Whatever else found it, a chunk outranks those which only its own arm found, and later.
LEMMA EarlierOutranks ==
  ASSUME NEW rankings, IsInput(rankings, EqualWeights), NEW a \in Arms,
         NEW c \in FoundBy(rankings[a]), \A b \in Arms \ {a} : c \notin FoundBy(rankings[b]),
         NEW d \in FoundBy(rankings[a]), Place(rankings[a], d) < Place(rankings[a], c)
  PROVE  Outranks(rankings, EqualWeights, d, c)
<1> DEFINE p == K + Place(rankings[a], d)
           q == K + Place(rankings[a], c)
<1>1. rankings[a] \in Seq(Nat) /\ \A b \in Arms : rankings[b] \in Seq(Nat) /\ EqualWeights[b] = 1
  BY DEF IsInput, EqualWeights
<1>2. p \in Nat \ {0} /\ q \in Nat \ {0} /\ p < q
  <2>1. Place(rankings[a], c) \in Nat /\ Place(rankings[a], d) \in Nat
    BY <1>1, PlaceIsThere
  <2> QED BY <2>1, FusionAssumption
<1>3. PICK b \in Arms : b # a /\ Arms = {a, b}
  BY DEF Arms
<1> DEFINE other == Contribution(rankings[b], 1, d)
<1>4. other \in Fraction
  BY <1>1, ContributionIsFraction
<1>5. PICK x \in Nat, y \in Nat \ {0} : other[1] = x /\ other[2] = y
  BY <1>4 DEF Fraction
<1>6. /\ Contribution(rankings[a], 1, d) = <<1, p>> /\ Contribution(rankings[a], 1, c) = <<1, q>>
      /\ Contribution(rankings[b], 1, c) = <<0, 1>>
  BY <1>3 DEF Contribution
<1> HIDE DEF p, q, other
<1>7. /\ Score(rankings, EqualWeights, c) \in {Plus(<<1, q>>, <<0, 1>>), Plus(<<0, 1>>, <<1, q>>)}
      /\ Score(rankings, EqualWeights, d) \in {Plus(<<1, p>>, other), Plus(other, <<1, p>>)}
  BY <1>1, <1>3, <1>6, Zenon DEF Score, Arms, other
<1>8. Score(rankings, EqualWeights, c) = <<1, q>>
  <2>1. Plus(<<1, q>>, <<0, 1>>) = <<1 * 1 + 0 * q, q * 1>> /\ Plus(<<0, 1>>, <<1, q>>) = <<0 * q + 1 * 1, 1 * q>>
    BY DEF Plus
  <2>2. 1 * 1 + 0 * q = 1 /\ q * 1 = q /\ 0 * q + 1 * 1 = 1 /\ 1 * q = q
    BY <1>2
  <2> QED BY <1>7, <2>1, <2>2
<1>9. Score(rankings, EqualWeights, d) = <<y + x * p, p * y>>
  <2>1. /\ Plus(<<1, p>>, other) = <<1 * y + x * p, p * y>>
        /\ Plus(other, <<1, p>>) = <<x * p + 1 * y, y * p>>
    BY <1>5 DEF Plus
  <2>2. 1 * y = y /\ y * p = p * y /\ x * p \in Nat
    BY <1>2, ProductIsNat
  <2>3. x * p + y = y + x * p
    BY <2>2
  <2> QED BY <1>7, <2>1, <2>2, <2>3
<1>10. p * y < (y + x * p) * q
  BY <1>2, OneBeatsLess
<1>11. 1 * (p * y) = p * y
  BY <1>2, ProductIsNat
<1>12. Below(Score(rankings, EqualWeights, c), Score(rankings, EqualWeights, d))
  BY <1>8, <1>9, <1>10, <1>11 DEF Below
<1> QED BY <1>12 DEF Outranks

\* What a cut returns are the ids on its first top_k places.
LEMMA CutIsTheTop ==
  ASSUME NEW n \in Nat
  PROVE  \A S : \A r \in [1..n -> S] : FoundBy(Cut(r, TopK)) = {r[i] : i \in {j \in 1..n : j <= TopK}}
<1>1. TopK \in Nat \ {0}
  BY QueryAssumption
<1>2. PICK k \in Nat \ {0} : k = TopK
  BY <1>1
<1>3. PICK m \in Nat : m = IF n < k THEN n ELSE k
  OBVIOUS
<1>4. KeepsBeginnings(n, k, m)
  BY ONLY <1>3, n \in Nat, m \in Nat, k \in Nat \ {0}, EveryCutKeeps
<1>5. 1..m = {j \in 1..n : j <= k}
  BY <1>3
<1>6. ASSUME NEW S, NEW r \in [1..n -> S]
      PROVE  FoundBy(Cut(r, k)) = {r[i] : i \in {j \in 1..n : j <= k}}
  <2>1. Cut(r, k) = [i \in 1..m |-> r[i]]
    BY ONLY <1>4, r \in [1..n -> S] DEF KeepsBeginnings
  <2> QED BY <1>5, <2>1 DEF FoundBy
<1> QED BY <1>2, <1>6

\* What hybrid returns and no arm does, both arms found.
LEMMA OneArmIsNotPromoted ==
  ASSUME TypeOK, HitsInv, strategy = "hybrid", NEW c \in Returned("hybrid"),
         \A a \in Arms : c \notin Returned(a), NEW b \in Arms
  PROVE  c \in FoundBy(Ranked[b])
<1> SUFFICES ASSUME c \notin FoundBy(Ranked[b])
             PROVE  FALSE
  OBVIOUS
<1>1. IsInput(Ranked, EqualWeights) /\ TopK \in Nat \ {0}
  BY RankedIsInput, ProfileIsSound, QueryAssumption
<1> DEFINE fused == Fuse(Ranked, EqualWeights)
           all == Cardinality(Found(Ranked))
<1>2. all \in Nat /\ fused \in [1..all -> Found(Ranked)] /\ IsFiniteSet(Found(Ranked))
  BY <1>1, FusionIsARanking, FoundIsFinite
<1>3. PICK n \in 1..all : n <= TopK /\ c = fused[n]
  <2>1. Returned("hybrid") = FoundBy(Cut(fused, TopK))
    BY DEF Returned, Results, _COMPARISON_STRATEGIES
  <2> HIDE DEF fused, all
  <2>2. FoundBy(Cut(fused, TopK)) = {fused[i] : i \in {j \in 1..all : j <= TopK}}
    BY <1>2, CutIsTheTop
  <2> QED BY <2>1, <2>2
<1>4. c \in Found(Ranked) /\ Rank(Ranked, EqualWeights, c) = n - 1
  <2>1. \E d \in Found(Ranked) : Rank(Ranked, EqualWeights, d) = n - 1
    BY <1>1, EveryRankIsTaken
  <2>2. c = CHOOSE d \in Found(Ranked) : Rank(Ranked, EqualWeights, d) = n - 1
    BY <1>3 DEF Fuse
  <2> HIDE DEF fused, all
  <2> QED BY <2>1, <2>2
<1> HIDE DEF fused
<1>5. PICK a \in Arms : c \in FoundBy(Ranked[a]) /\ \A d \in Arms \ {a} : c \notin FoundBy(Ranked[d])
  <2>1. PICK a \in Arms : c \in FoundBy(Ranked[a])
    BY <1>4 DEF Found
  <2> QED BY <2>1 DEF Arms
<1>6. PICK r \in Seq(Nat) : /\ r = Ranked[a] /\ IsRanking(r)
                            /\ c \in FoundBy(r) /\ Returned(a) = FoundBy(Cut(r, TopK))
  <2>1. Ranked[a] \in Seq(Nat) /\ IsRanking(Ranked[a])
    BY <1>1 DEF IsInput, HitsInv, Ranked
  <2>2. Returned(a) = FoundBy(Cut(Ranked[a], TopK))
    BY DEF Returned, Results, _COMPARISON_STRATEGIES, Arms
  <2> QED BY <1>5, <2>1, <2>2
<1>7. PICK length \in Nat : length = Len(r) /\ DOMAIN r = 1..length
  BY <1>6
<1>8. PICK p \in 1..length : r[p] = c /\ Place(r, c) = p
  BY <1>6, <1>7, PlaceIsThere
<1>9. TopK < p
  <2> SUFFICES ASSUME p <= TopK
               PROVE  FALSE
    BY <1>1, <1>8
  <2>1. r \in [1..length -> Nat]
    BY <1>6, <1>7
  <2>2. \A S : \A f \in [1..length -> S] :
          FoundBy(Cut(f, TopK)) = {f[i] : i \in {j \in 1..length : j <= TopK}}
    BY <1>7, CutIsTheTop
  <2>3. FoundBy(Cut(r, TopK)) = {r[i] : i \in {j \in 1..length : j <= TopK}}
    BY <2>1, <2>2, Zenon
  <2> QED BY <1>6, <1>8, <2>3
<1> DEFINE earlier == {r[i] : i \in 1..TopK}
<1>10. \A i \in 1..TopK : i \in 1..length /\ i # p
  BY <1>1, <1>7, <1>8, <1>9
<1>11. earlier \subseteq Before(Ranked, EqualWeights, c)
  <2> SUFFICES ASSUME NEW d \in earlier
               PROVE  d \in Before(Ranked, EqualWeights, c)
    OBVIOUS
  <2>1. PICK i \in 1..TopK : d = r[i]
    OBVIOUS
  <2>2. i \in DOMAIN r /\ i < p /\ d # c /\ d \in FoundBy(r)
    <3>1. i \in 1..length /\ i # p /\ i < p
      BY <1>1, <1>9, <1>10
    <3>2. r[i] # r[p]
      BY <1>6, <1>7, <3>1 DEF IsRanking
    <3> QED BY <1>7, <1>8, <2>1, <3>1, <3>2 DEF FoundBy
  <2>3. Place(r, d) = i
    <3>1. Place(r, d) \in 1..Len(r) /\ r[Place(r, d)] = d
      BY ONLY r \in Seq(Nat), <2>2, PlaceIsThere
    <3>2. PICK k \in DOMAIN r : k = Place(r, d)
      BY ONLY <1>7, <3>1
    <3>3. r[k] = r[i] /\ i \in DOMAIN r
      BY ONLY <2>1, <2>2, <3>1, <3>2
    <3>4. k = i
      BY ONLY <1>6, <3>3, k \in DOMAIN r DEF IsRanking
    <3> QED BY ONLY <3>2, <3>4
  <2>4. Outranks(Ranked, EqualWeights, d, c)
    <3>1. /\ c \in FoundBy(Ranked[a]) /\ d \in FoundBy(Ranked[a])
          /\ Place(Ranked[a], d) < Place(Ranked[a], c)
      BY <1>6, <1>8, <2>2, <2>3
    <3> QED BY <1>1, <1>5, <3>1, EarlierOutranks
  <2>5. d \in Found(Ranked)
    BY <1>6, <2>2 DEF Found
  <2> QED BY <2>2, <2>4, <2>5 DEF Before
<1>12. IsFiniteSet(earlier) /\ Cardinality(earlier) = TopK
  <2> DEFINE f == [i \in 1..TopK |-> r[i]]
  <2>1. f \in Surjection(1..TopK, earlier)
    BY DEF Surjection
  <2>2. \A i, j \in 1..TopK : f[i] = f[j] => i = j
    BY <1>6, <1>7, <1>10 DEF IsRanking
  <2>3. f \in Injection(1..TopK, earlier)
    BY <2>2 DEF Injection, IsInjective
  <2>4. IsFiniteSet(1..TopK) /\ Cardinality(1..TopK) = TopK
    <3> PICK one, k \in Int : one = 1 /\ k = TopK /\ ~(one > k) /\ k - one + 1 = k
      BY <1>1
    <3>1. IsFiniteSet(one..k) /\ Cardinality(one..k) = IF one > k THEN 0 ELSE k - one + 1
      BY FS_Interval, Zenon
    <3> QED BY <3>1
  <2> HIDE DEF f, earlier
  <2> QED BY <2>1, <2>3, <2>4, FS_Surjection
<1> HIDE DEF earlier
<1>13. IsFiniteSet(Before(Ranked, EqualWeights, c))
  <2>1. Before(Ranked, EqualWeights, c) \subseteq Found(Ranked)
    BY DEF Before
  <2> QED BY <1>2, <2>1, FS_Subset
<1>14. TopK <= Rank(Ranked, EqualWeights, c)
  <2>1. Cardinality(earlier) <= Cardinality(Before(Ranked, EqualWeights, c))
    BY <1>11, <1>13, FS_Subset
  <2> QED BY <1>12, <2>1 DEF Rank, Before
<1> HIDE DEF all
<1> QED BY <1>1, <1>2, <1>3, <1>4, <1>14

(* A chunk unique to hybrid is one both arms found, a strategy with        *)
(* nothing of its own can be left out, and what all returned is counted    *)
(* once, for every corpus and top_k (comparison.py:97-113).                *)
THEOREM ComparisonsConclude == Spec => []ComparisonIsConclusive
<1>1. QueryInv => ComparisonIsConclusive
  <2> SUFFICES ASSUME QueryInv, strategy = "hybrid", pc = "ranking"
               PROVE  ComparisonIsConclusive
    BY DEF ComparisonIsConclusive
  <2> DEFINE results == Results(Ranked)
             rows == Rows(results)
             overlap == Overlap(results)
             returned(strategies) == UNION {FoundBy(results[s]) : s \in strategies}
             number == Cardinality(AllReturned)
             own(s) == {i \in DOMAIN rows : rows[i].found_by = {s}}
             common == {i \in DOMAIN rows : rows[i].found_by = DOMAIN results}
             everyones == {c \in Chunks : \A s \in DOMAIN results : c \in FoundBy(results[s])}
  <2>1. TypeOK /\ HitsInv
    BY DEF QueryInv
  <2>2. /\ number \in Nat /\ DOMAIN rows = 1..number /\ AllReturned \subseteq Chunks
        /\ \A i \in DOMAIN rows :
             /\ rows[i].chunk \in AllReturned
             /\ rows[i].found_by = {s \in _COMPARISON_STRATEGIES : rows[i].chunk \in Returned(s)}
        /\ \A i, j \in DOMAIN rows : rows[i].chunk = rows[j].chunk => i = j
        /\ \A c \in AllReturned : \E i \in DOMAIN rows : rows[i].chunk = c
    BY <2>1, RowsAreReturned
  <2>3. /\ DOMAIN results = _COMPARISON_STRATEGIES /\ \A s : FoundBy(results[s]) = Returned(s)
        /\ [a \in Arms |-> ChunksOf(hits[a])] = Ranked
    BY DEF Results, Returned, Ranked
  <2>4. /\ \A s \in DOMAIN results : overlap.unique_to[s] = Cardinality(own(s))
        /\ overlap.found_by_all = Cardinality(common)
    BY DEF Overlap
  <2> HIDE DEF results, rows, overlap, number
  <2>5. ASSUME NEW i \in DOMAIN rows, rows[i].found_by = {"hybrid"}, NEW a \in Arms
        PROVE  FoundIn(rows[i].chunk, a)
    <3>1. rows[i].chunk \in Returned("hybrid") /\ \A b \in Arms : rows[i].chunk \notin Returned(b)
      BY <2>2, <2>5 DEF _COMPARISON_STRATEGIES, Arms
    <3>2. rows[i].chunk \in FoundBy(Ranked[a])
      BY <2>1, <3>1, OneArmIsNotPromoted
    <3> QED BY <3>2 DEF FoundIn, Ranked
  <2>6. ASSUME NEW s \in DOMAIN results
        PROVE  overlap.unique_to[s] = 0 <=> returned(DOMAIN results \ {s}) = returned(DOMAIN results)
    <3>1. IsFiniteSet(own(s))
      <4>1. IsFiniteSet(1..number)
        BY <2>2, FS_Interval
      <4> QED BY <2>2, <4>1, FS_Subset
    <3>2. Cardinality(own(s)) = 0 <=> own(s) = {}
      BY <3>1, FS_EmptySet
    <3>3. returned(DOMAIN results) = AllReturned
          /\ returned(DOMAIN results \ {s}) = UNION {Returned(t) : t \in _COMPARISON_STRATEGIES \ {s}}
      BY <2>3 DEF AllReturned
    <3>4. ASSUME own(s) = {}, NEW c \in AllReturned
          PROVE  \E t \in _COMPARISON_STRATEGIES \ {s} : c \in Returned(t)
      <4>1. PICK i \in DOMAIN rows : rows[i].chunk = c
        BY <2>2
      <4>2. rows[i].found_by # {s} /\ rows[i].found_by = {t \in _COMPARISON_STRATEGIES : c \in Returned(t)}
        BY <2>2, <3>4, <4>1
      <4>3. \E t \in _COMPARISON_STRATEGIES : c \in Returned(t)
        BY DEF AllReturned
      <4> QED BY <4>2, <4>3
    <3>5. ASSUME NEW i \in own(s)
          PROVE  \A t \in _COMPARISON_STRATEGIES \ {s} : rows[i].chunk \notin Returned(t)
      BY <2>2
    <3>6. own(s) = {} <=> UNION {Returned(t) : t \in _COMPARISON_STRATEGIES \ {s}} = AllReturned
      <4>1. ASSUME own(s) = {}
            PROVE  UNION {Returned(t) : t \in _COMPARISON_STRATEGIES \ {s}} = AllReturned
        BY <3>4, <4>1 DEF AllReturned
      <4>2. ASSUME NEW i \in own(s)
            PROVE  UNION {Returned(t) : t \in _COMPARISON_STRATEGIES \ {s}} # AllReturned
        <5>1. rows[i].chunk \in AllReturned
          BY <2>2
        <5>2. rows[i].chunk \notin UNION {Returned(t) : t \in _COMPARISON_STRATEGIES \ {s}}
          BY <3>5
        <5> QED BY <5>1, <5>2
      <4> QED BY <4>1, <4>2
    <3> QED BY <2>4, <3>2, <3>3, <3>6
  <2>7. overlap.found_by_all = Cardinality(everyones)
    <3> DEFINE f == [i \in common |-> rows[i].chunk]
    <3>1. \A i \in DOMAIN rows :
            rows[i].found_by = DOMAIN results
              <=> \A s \in _COMPARISON_STRATEGIES : rows[i].chunk \in Returned(s)
      BY <2>2, <2>3
    <3>2. f \in [common -> everyones]
      BY <2>2, <2>3, <3>1
    <3>3. \A i, j \in common : f[i] = f[j] => i = j
      BY <2>2
    <3>4. ASSUME NEW c \in everyones
          PROVE  \E i \in common : f[i] = c
      <4>1. c \in AllReturned
        BY <2>3 DEF AllReturned, _COMPARISON_STRATEGIES
      <4>2. PICK i \in DOMAIN rows : rows[i].chunk = c
        BY <2>2, <4>1
      <4>3. i \in common
        BY <2>3, <3>1, <4>2
      <4> QED BY <4>2, <4>3
    <3>5. IsFiniteSet(common)
      <4>1. IsFiniteSet(1..number)
        BY <2>2, FS_Interval
      <4> QED BY <2>2, <4>1, FS_Subset
    <3> HIDE DEF common, everyones
    <3>6. f \in Bijection(common, everyones)
      BY <3>2, <3>3, <3>4 DEF Bijection, Injection, Surjection, IsInjective
    <3>7. Cardinality(everyones) = Cardinality(common)
      BY <3>5, <3>6, FS_Bijection DEF ExistsBijection
    <3> QED BY <2>4, <3>7 DEF common
  <2> QED BY <2>5, <2>6, <2>7, Zenon DEF ComparisonIsConclusive, results, rows, overlap, Ranked
<1> QED BY <1>1, QueryInvHolds, PTL
-----------------------------------------------------------------------------
(* The timeline.                                                           *)

\* The stages that ran around one.
Around(r, s) == {p \in DOMAIN r : Encloses(r, p, s)}

\* What Recordings makes of n stages: nested intervals, each with its innermost as parent.
IsRecording(r, n) ==
  /\ DOMAIN r = 1..n
  /\ \A s \in 1..n : r[s].open \in Nat /\ r[s].close \in Nat /\ r[s].open < r[s].close /\ r[s].close <= 2 * n
  /\ Nested(r)
  /\ \A s \in 1..n : r[s].parent = Parent(r, s)

\* What is recorded of nested intervals and their stages.
RecordingOf(n, i, stage) ==
  [s \in 1..n |-> [open |-> i[s].open, close |-> i[s].close, stage |-> stage[s],
                   parent |-> Parent(i, s)]]

\* A recording is what its stages were, with the parents they had.
LEMMA RecordingsAreRecordings ==
  ASSUME NEW n \in Nat, NEW stages, NEW r \in Recordings(n, stages)
  PROVE  IsRecording(r, n)
<1>1. PICK i \in [1..n -> Intervals(n)], stage \in [1..n -> stages] :
        /\ Nested(i)
        /\ r = [s \in 1..n |-> [open |-> i[s].open, close |-> i[s].close, stage |-> stage[s],
                                parent |-> Parent(i, s)]]
  <2>1. Recordings(n, stages) =
          {RecordingOf(n, i, stage) :
             i \in {f \in [1..n -> Intervals(n)] : Nested(f)}, stage \in [1..n -> stages]}
    BY ONLY DEF Recordings, RecordingOf
  <2>2. \E i \in {f \in [1..n -> Intervals(n)] : Nested(f)}, stage \in [1..n -> stages] :
          r = RecordingOf(n, i, stage)
    BY ONLY <2>1, r \in Recordings(n, stages)
  <2> QED BY ONLY <2>2 DEF RecordingOf
<1>2. DOMAIN r = 1..n /\ DOMAIN i = 1..n
  BY <1>1
<1>3. ASSUME NEW s \in 1..n
      PROVE  /\ r[s].open = i[s].open /\ r[s].close = i[s].close /\ r[s].parent = Parent(i, s)
             /\ i[s].open \in 1..2*n /\ i[s].close \in 1..2*n /\ i[s].open < i[s].close
  BY <1>1 DEF Intervals
<1>4. Nested(r)
  BY <1>1, <1>2, <1>3 DEF Nested
<1>5. ASSUME NEW s \in 1..n PROVE Parent(r, s) = Parent(i, s)
  <2> DEFINE InnerOf(S) == IF S = {} THEN 0 ELSE CHOOSE p \in S : \A q \in S : q <= p
  <2>1. Around(r, s) = Around(i, s)
    BY <1>2, <1>3 DEF Encloses, Around
  <2>2. Parent(r, s) = InnerOf(Around(r, s)) /\ Parent(i, s) = InnerOf(Around(i, s))
    BY DEF Parent, Around
  <2> HIDE DEF InnerOf
  <2> QED BY <2>1, <2>2
<1>6. \A s \in 1..n : r[s].parent = Parent(r, s)
  BY <1>3, <1>5
<1>7. \A s \in 1..n : r[s].open \in Nat /\ r[s].close \in Nat /\ r[s].open < r[s].close /\ r[s].close <= 2 * n
  BY <1>3
<1> QED BY <1>2, <1>4, <1>6, <1>7 DEF IsRecording

\* Of stages around another the one that opened last is the innermost.
LEMMA ParentIsInnermost ==
  ASSUME NEW n \in Nat, NEW r, IsRecording(r, n), NEW s \in 1..n, Around(r, s) # {}
  PROVE  /\ r[s].parent \in Around(r, s)
         /\ \A q \in Around(r, s) : q <= r[s].parent
<1> DEFINE left == {n - p : p \in Around(r, s)}
           IsInnermost(p) == \A q \in Around(r, s) : q <= p
<1>1. Around(r, s) \subseteq 1..n
  BY DEF Around, IsRecording
<1>2. left \in SUBSET Nat /\ left # {}
  BY <1>1
<1>3. PICK x \in left : \A y \in left : x <= y
  BY <1>2, LeastIsThere
<1>4. PICK p \in Around(r, s) : x = n - p
  BY <1>3
<1>5. \A q \in Around(r, s) : n - p <= n - q
  BY <1>3, <1>4
<1>6. IsInnermost(p)
  BY <1>1, <1>5
<1>7. r[s].parent = CHOOSE q \in Around(r, s) : IsInnermost(q)
  BY DEF IsRecording, Parent, Around
<1> HIDE DEF IsInnermost
<1>8. r[s].parent \in Around(r, s) /\ IsInnermost(r[s].parent)
  BY <1>6, <1>7
<1> QED BY <1>8 DEF IsInnermost

\* Around the parent run the same stages, except the parent.
LEMMA AroundTheParent ==
  ASSUME NEW n \in Nat, NEW r, IsRecording(r, n), NEW s \in 1..n, Around(r, s) # {}
  PROVE  r[s].parent \in 1..n /\ Around(r, r[s].parent) = Around(r, s) \ {r[s].parent}
<1> DEFINE p == r[s].parent
<1>1. p \in Around(r, s) /\ \A q \in Around(r, s) : q <= p
  BY ParentIsInnermost
<1>2. p \in 1..n /\ r[p].open < r[s].open /\ r[s].close < r[p].close
  BY <1>1 DEF Around, Encloses, IsRecording
<1> HIDE DEF p
<1>3. \A q \in 1..n : r[q].open \in Nat /\ r[q].close \in Nat /\ r[q].open < r[q].close
  BY DEF IsRecording
<1>4. ASSUME NEW q \in Around(r, p) PROVE q \in Around(r, s) \ {p}
  <2>1. q \in 1..n /\ r[q].open < r[p].open /\ r[p].close < r[q].close
    BY DEF Around, Encloses, IsRecording
  <2>2. r[q].open < r[s].open /\ r[s].close < r[q].close /\ q # p
    BY <1>2, <1>3, <2>1
  <2> QED BY <2>1, <2>2 DEF Around, Encloses, IsRecording
<1>5. ASSUME NEW q \in Around(r, s) \ {p} PROVE q \in Around(r, p)
  <2>1. q \in 1..n /\ r[q].open < r[s].open /\ r[s].close < r[q].close
    BY DEF Around, Encloses, IsRecording
  <2>2. q < p
    BY <1>1, <1>2, <2>1
  <2>3. r[q].open < r[p].open /\ (r[q].close < r[p].open \/ r[p].close < r[q].close)
    BY <1>2, <2>1, <2>2 DEF IsRecording, Nested
  <2>4. r[p].close < r[q].close
    BY <1>2, <1>3, <2>1, <2>3
  <2> QED BY <2>1, <2>3, <2>4 DEF Around, Encloses, IsRecording
<1> QED BY <1>2, <1>4, <1>5 DEF p

\* How many stages run around one: fewer than there are, and one fewer around its parent.
LEMMA DepthByParent ==
  ASSUME NEW n \in Nat, NEW r, IsRecording(r, n), NEW s \in 1..n
  PROVE  /\ IsFiniteSet(Around(r, s)) /\ Cardinality(Around(r, s)) \in Nat
         /\ Cardinality(Around(r, s)) <= n
         /\ Cardinality(Around(r, s)) = 0 => r[s].parent = 0
         /\ Cardinality(Around(r, s)) > 0 =>
              /\ r[s].parent \in 1..n
              /\ Cardinality(Around(r, r[s].parent)) = Cardinality(Around(r, s)) - 1
<1>1. IsFiniteSet(1..n) /\ Cardinality(1..n) = n
  BY FS_Interval
<1>2. Around(r, s) \in SUBSET (1..n)
  BY DEF Around, IsRecording
<1>3. IsFiniteSet(Around(r, s)) /\ Cardinality(Around(r, s)) <= n
  BY <1>1, <1>2, FS_Subset
<1>4. Cardinality(Around(r, s)) \in Nat
  BY <1>3, FS_CardinalityType
<1>5. Cardinality(Around(r, s)) = 0 => Around(r, s) = {}
  BY <1>3, FS_EmptySet
<1>6. Around(r, s) = {} => r[s].parent = 0
  BY DEF Around, IsRecording, Parent
<1>7. Cardinality(Around(r, s)) > 0 => Around(r, s) # {}
  BY FS_EmptySet
<1>8. ASSUME Around(r, s) # {}
      PROVE  /\ r[s].parent \in 1..n
             /\ Cardinality(Around(r, r[s].parent)) = Cardinality(Around(r, s)) - 1
  <2>1. r[s].parent \in 1..n /\ Around(r, r[s].parent) = Around(r, s) \ {r[s].parent}
    BY <1>8, AroundTheParent
  <2>2. r[s].parent \in Around(r, s)
    BY <1>8, ParentIsInnermost
  <2>3. PICK S, p : S = Around(r, s) /\ p = r[s].parent
    OBVIOUS
  <2>4. IsFiniteSet(S) /\ p \in S
    BY ONLY <1>3, <2>2, <2>3
  <2>5. Cardinality(S \ {p}) = Cardinality(S) - 1
    BY ONLY <2>4, FS_RemoveElement
  <2> QED BY ONLY <2>1, <2>3, <2>5
<1> QED BY <1>3, <1>4, <1>5, <1>6, <1>7, <1>8

\* A walk is what its definition says.
LEMMA WalkIsDefined ==
  ASSUME NEW rows, NEW n \in Nat, DOMAIN rows = 1..n, NEW s
  PROVE  /\ WalkUp(rows, s)[0] = s
         /\ \A k \in 1..n :
              WalkUp(rows, s)[k] =
                IF WalkUp(rows, s)[k - 1] \in 1..n THEN rows[WalkUp(rows, s)[k - 1]].parent ELSE 0
<1> DEFINE Above(p) == IF p \in DOMAIN rows THEN rows[p].parent ELSE 0
           Step(f, k) == IF k = 0 THEN s ELSE Above(f[k - 1])
           IsUpTo(f, m) == f = [k \in 0..m |-> Step(f, k)]
           bad == {m \in 0..n : ~ \E f : IsUpTo(f, m)}
<1> HIDE DEF Above
<1>1. Cardinality(DOMAIN rows) = n
  BY FS_Interval
<1>2. bad = {}
  <2> SUFFICES ASSUME bad # {} PROVE FALSE
    OBVIOUS
  <2>0. bad \in SUBSET Nat
    OBVIOUS
  <2>1. PICK m \in bad : \A y \in bad : m <= y
    BY <2>0, LeastIsThere
  <2>2. m \in 0..n /\ ~ \E f : IsUpTo(f, m)
    BY <2>1
  <2>3. m # 0
    <3>1. IsUpTo([k \in 0..0 |-> s], 0)
      OBVIOUS
    <3> QED BY <3>1, <2>2
  <2>4. m \in 1..n /\ m - 1 \in 0..n /\ m - 1 \notin bad
    <3>1. m \in 1..n /\ m - 1 \in 0..n /\ ~ (m <= m - 1)
      BY <2>2, <2>3
    <3> QED BY <3>1, <2>1
  <2>5. PICK f : IsUpTo(f, m - 1)
    BY <2>4
  <2> DEFINE g == [k \in 0..m |-> IF k = m THEN Above(f[m - 1]) ELSE f[k]]
  <2>6. ASSUME NEW k \in 0..m PROVE g[k] = Step(g, k)
    <3>1. CASE k = m
      <4>1. g[m - 1] = f[m - 1]
        BY <2>4
      <4> QED BY <3>1, <4>1, <2>4
    <3>2. CASE k # m
      <4>1. k \in 0..(m - 1) /\ f[k] = Step(f, k)
        BY <3>2, <2>4, <2>5
      <4>2. k # 0 => k - 1 \in 0..m /\ k - 1 # m /\ g[k - 1] = f[k - 1]
        BY <4>1, <2>4
      <4> QED BY <3>2, <4>1, <4>2
    <3> QED BY <3>1, <3>2
  <2>7. IsUpTo(g, m)
    BY <2>6
  <2> QED BY <2>7, <2>2
<1>3. \E f : IsUpTo(f, n)
  BY <1>2
<1>4. WalkUp(rows, s) = CHOOSE f : IsUpTo(f, n)
  BY <1>1 DEF WalkUp, Above
<1>5. IsUpTo(WalkUp(rows, s), n)
  BY <1>3, <1>4
<1> HIDE DEF IsUpTo
<1>6. \A k \in 0..n : WalkUp(rows, s)[k] = Step(WalkUp(rows, s), k)
  BY <1>5 DEF IsUpTo
<1>7. WalkUp(rows, s)[0] = s
  BY <1>6
<1>8. ASSUME NEW k \in 1..n
      PROVE  WalkUp(rows, s)[k] = Above(WalkUp(rows, s)[k - 1])
  <2>1. k \in 0..n /\ k # 0
    OBVIOUS
  <2> QED BY <2>1, <1>6
<1> QED BY <1>7, <1>8 DEF Above

\* A walk from a row meets each row around it once, from the inside, and then leaves.
LEMMA WalkGoesOutwards ==
  ASSUME NEW n \in Nat, NEW r, IsRecording(r, n), NEW rows, DOMAIN rows = 1..n,
         \A t \in 1..n : rows[t].parent = r[t].parent, NEW s \in 1..n
  PROVE  LET up == WalkUp(rows, s)
             depth == Cardinality(Around(r, s))
         IN /\ \A k \in 0..depth : up[k] \in 1..n /\ Cardinality(Around(r, up[k])) = depth - k
            /\ depth < n => up[depth + 1] = 0
<1> DEFINE up == WalkUp(rows, s)
           depth == Cardinality(Around(r, s))
           Meets(k) == up[k] \in 1..n /\ Cardinality(Around(r, up[k])) = depth - k
           bad == {k \in 0..depth : ~ Meets(k)}
<1>1. depth \in Nat /\ depth <= n
  BY DepthByParent
<1>2. up[0] = s /\ \A k \in 1..n : up[k] = IF up[k - 1] \in 1..n THEN rows[up[k - 1]].parent ELSE 0
  BY WalkIsDefined
<1> HIDE DEF up, depth
<1>3. Meets(0)
  BY <1>1, <1>2 DEF depth
<1>4. ASSUME NEW k \in 1..depth, Meets(k - 1) PROVE Meets(k)
  <2> DEFINE t == up[k - 1]
  <2>1. k \in 1..n /\ t \in 1..n /\ Cardinality(Around(r, t)) = depth - (k - 1)
    BY <1>1, <1>4
  <2> HIDE DEF t
  <2>2. Cardinality(Around(r, t)) > 0
    BY <1>1, <2>1
  <2>3. r[t].parent \in 1..n /\ Cardinality(Around(r, r[t].parent)) = Cardinality(Around(r, t)) - 1
    BY <2>1, <2>2, DepthByParent
  <2>4. up[k] = r[t].parent
    BY <1>2, <2>1 DEF t
  <2> QED BY <1>1, <2>1, <2>3, <2>4
<1> HIDE DEF Meets
<1>5. bad = {}
  <2> SUFFICES ASSUME bad # {} PROVE FALSE
    OBVIOUS
  <2>0. bad \in SUBSET Nat
    BY <1>1
  <2>1. PICK k \in bad : \A y \in bad : k <= y
    BY <2>0, LeastIsThere
  <2>2. k \in 1..depth
    BY <1>1, <1>3, <2>1
  <2>3. k - 1 \in 0..depth /\ k - 1 \notin bad
    BY <1>1, <2>1, <2>2
  <2> QED BY <1>4, <2>1, <2>2, <2>3
<1>6. \A k \in 0..depth : Meets(k)
  BY <1>5
<1>7. depth < n => up[depth + 1] = 0
  <2>1. up[depth] \in 1..n /\ Cardinality(Around(r, up[depth])) = 0
    BY <1>1, <1>6 DEF Meets
  <2>2. r[up[depth]].parent = 0
    BY <2>1, DepthByParent
  <2>3. depth < n => depth + 1 \in 1..n /\ (depth + 1) - 1 = depth
    BY <1>1
  <2> QED BY <1>2, <2>1, <2>2, <2>3
<1> QED BY <1>6, <1>7 DEF Meets, up, depth

\* Hence depth_of counts the stages around a row.
LEMMA DepthIsNesting ==
  ASSUME NEW n \in Nat, NEW r, IsRecording(r, n), NEW rows, DOMAIN rows = 1..n,
         \A t \in 1..n : rows[t].parent = r[t].parent, NEW s \in 1..n
  PROVE  DepthOf(rows, s) = Cardinality(Around(r, s))
<1> DEFINE up == WalkUp(rows, s)
           depth == Cardinality(Around(r, s))
           Goes(k) == up[k] \in DOMAIN rows /\ \A i \in 0..k - 1 : up[i] # up[k]
           went == {k \in 1..n : \A i \in 1..k : Goes(i)}
<1>1. depth \in Nat /\ depth <= n
  BY DepthByParent
<1>2. /\ \A k \in 0..depth : up[k] \in 1..n /\ Cardinality(Around(r, up[k])) = depth - k
      /\ depth < n => up[depth + 1] = 0
  BY WalkGoesOutwards
<1>3. Cardinality(DOMAIN rows) = n
  BY FS_Interval
<1>4. DepthOf(rows, s) = Cardinality(went)
  BY <1>3 DEF DepthOf
<1> HIDE DEF up, depth
<1>5. \A k \in 1..depth : Goes(k)
  <2> TAKE k \in 1..depth
  <2>1. up[k] \in 1..n /\ Cardinality(Around(r, up[k])) = depth - k
    BY <1>1, <1>2
  <2>2. ASSUME NEW i \in 0..k - 1 PROVE up[i] # up[k]
    <3>1. i \in 0..depth /\ depth - i # depth - k
      BY <1>1
    <3>2. Cardinality(Around(r, up[i])) = depth - i
      BY <1>2, <3>1
    <3> QED BY <2>1, <3>1, <3>2
  <2> QED BY <2>1, <2>2
<1>6. depth < n => ~Goes(depth + 1)
  BY <1>2
<1> HIDE DEF Goes
<1>7. went = 1..depth
  <2>1. \A k \in 1..depth : k \in went
    BY <1>1, <1>5
  <2>2. ASSUME NEW k \in went, k > depth PROVE FALSE
    <3>1. depth < n /\ depth + 1 \in 1..k
      BY <1>1, <2>2
    <3> QED BY <1>6, <3>1
  <2>3. \A k \in went : k \in 1..n /\ ~(k > depth)
    BY <2>2
  <2>4. PICK d \in Nat : d = depth
    BY ONLY <1>1
  <2>5. \A k \in went : k \in 1..d
    BY ONLY <2>3, <2>4, n \in Nat, d \in Nat
  <2> QED BY ONLY <2>1, <2>4, <2>5
<1>8. Cardinality(1..depth) = depth
  BY <1>1, FS_Interval
<1> QED BY <1>4, <1>7, <1>8 DEF depth

-----------------------------------------------------------------------------
\* What the rows of a recording keep.
LEMMA RowsKeep ==
  ASSUME NEW n \in Nat, NEW r, IsRecording(r, n), NEW g \in Nat \ {0}
  PROVE  LET rows == SpanRows(r, g) IN
         /\ DOMAIN rows = 1..n
         /\ \A s \in 1..n :
              /\ rows[s].parent = r[s].parent /\ rows[s].stage = r[s].stage
              /\ rows[s].started_at = Wall(g, r[s].open) /\ rows[s].duration = Duration(r, s)
  BY DEF SpanRows, IsRecording

\* A coarse clock is behind by less than its grain, and never goes back.
LEMMA ClocksAreMonotone ==
  ASSUME NEW g \in Nat \ {0}, NEW t \in Nat
  PROVE  /\ Wall(g, t) \in Nat /\ Wall(g, t) <= t
         /\ \A u \in Nat : t <= u => Wall(g, t) <= Wall(g, u)
<1>1. t \div g \in Nat /\ (t \div g) * g \in Nat
  <2>1. t \div g \in Nat
    BY Z3
  <2> QED BY <2>1
<1>2. (t \div g) * g <= t
  BY Z3
<1>3. ASSUME NEW u \in Nat, t <= u
      PROVE  (t \div g) * g <= (u \div g) * g
  <2>1. t \div g <= u \div g /\ t \div g \in Nat /\ u \div g \in Nat
    BY <1>3, Z3
  <2>2. \A a, b \in Nat : a <= b => a * g <= b * g
    BY Z3
  <2> QED BY <2>1, <2>2
<1> QED BY <1>1, <1>2, <1>3 DEF Wall

\* A listing holds every row once.
LEMMA ListingsAreComplete ==
  ASSUME NEW n \in Nat, NEW order \in Listings(1..n)
  PROVE  /\ DOMAIN order = 1..n
         /\ \A i \in 1..n : order[i] \in 1..n
         /\ \A i, j \in 1..n : order[i] = order[j] => i = j
         /\ \A s \in 1..n : \E i \in 1..n : order[i] = s
<1>1. IsFiniteSet(1..n) /\ Cardinality(1..n) = n
  BY FS_Interval
<1>2. order \in [1..n -> 1..n] /\ \A i, j \in 1..n : order[i] = order[j] => i = j
  BY <1>1 DEF Listings
<1>3. order \in Injection(1..n, 1..n)
  BY <1>2 DEF Injection, IsInjective
<1>4. order \in Surjection(1..n, 1..n)
  BY <1>1, <1>3, FS_Injection
<1> QED BY <1>2, <1>4 DEF Surjection

\* What is read back of a recording lists its stages by what the clock showed.
LEMMA ReadBackIsAListing ==
  ASSUME NEW n \in Nat, NEW r, IsRecording(r, n), NEW g \in Nat \ {0},
         NEW order \in ReadBack(SpanRows(r, g))
  PROVE  /\ order \in Listings(1..n) /\ DOMAIN order = 1..n
         /\ \A i, j \in 1..n : i < j => Wall(g, r[order[i]].open) <= Wall(g, r[order[j]].open)
<1> DEFINE rows == SpanRows(r, g)
<1>1. /\ DOMAIN rows = 1..n
      /\ \A s \in 1..n : rows[s].started_at = Wall(g, r[s].open)
  BY RowsKeep
<1> HIDE DEF rows
<1>2. /\ order \in Listings(1..n)
      /\ \A i, j \in DOMAIN order : i < j => rows[order[i]].started_at <= rows[order[j]].started_at
  BY <1>1 DEF ReadBack, rows
<1>3. DOMAIN order = 1..n /\ \A i \in 1..n : order[i] \in 1..n
  BY <1>2, ListingsAreComplete
<1>4. ASSUME NEW i \in 1..n, NEW j \in 1..n, i < j
      PROVE  Wall(g, r[order[i]].open) <= Wall(g, r[order[j]].open)
  <2>1. rows[order[i]].started_at <= rows[order[j]].started_at
    BY <1>2, <1>3, <1>4
  <2>2. order[i] \in 1..n /\ order[j] \in 1..n
    BY <1>3
  <2>3. /\ rows[order[i]].started_at = Wall(g, r[order[i]].open)
        /\ rows[order[j]].started_at = Wall(g, r[order[j]].open)
    BY <1>1, <2>2
  <2> QED BY <2>1, <2>3
<1> QED BY <1>2, <1>3, <1>4

(* A viewer can indent nested stages without reconstructing the tree       *)
(* (timeline.py:30-33): however many stages ran and however coarse the     *)
(* clock is, a bar is as deep as stages ran around it.                     *)
THEOREM DepthsAlwaysShowNesting ==
  ASSUME NEW recordings, NEW grains \in SUBSET (Nat \ {0}),
         \A r \in recordings : \E n \in Nat : IsRecording(r, n)
  PROVE  DepthsShowNesting(recordings, grains)
<1> SUFFICES ASSUME NEW r \in recordings, NEW g \in grains,
                    NEW order \in ReadBack(SpanRows(r, g)), NEW i \in DOMAIN order
             PROVE  Timeline(SpanRows(r, g), order, 0)[i].depth =
                      Cardinality({p \in DOMAIN r : Encloses(r, p, order[i])})
  BY DEF DepthsShowNesting
<1> DEFINE rows == SpanRows(r, g)
<1>1. PICK n \in Nat : IsRecording(r, n)
  OBVIOUS
<1>2. /\ DOMAIN rows = 1..n
      /\ \A s \in 1..n : rows[s].parent = r[s].parent
  BY <1>1, RowsKeep
<1>3. DOMAIN order = 1..n /\ order \in Listings(1..n)
  BY <1>1, ReadBackIsAListing
<1>4. order[i] \in 1..n
  BY <1>3, ListingsAreComplete
<1>5. Timeline(rows, order, 0)[i].depth = DepthOf(rows, order[i])
  BY DEF Timeline, Bar
<1> HIDE DEF rows
<1>6. DepthOf(rows, order[i]) = Cardinality(Around(r, order[i]))
  BY <1>1, <1>2, <1>4, DepthIsNesting
<1> QED BY <1>5, <1>6 DEF Around, rows

\* A row of a stage is listed here, and none of that stage before.
Lists(order, rows, stage, i) == rows[order[i]].stage = stage

ListsFirst(order, rows, stage, i, n) ==
  /\ Lists(order, rows, stage, i) /\ FirstOf(order, rows, stage) = order[i]
  /\ \A j \in 1..n : Lists(order, rows, stage, j) => i <= j

\* The least position at which a stage is listed is where its first span is.
LEMMA FirstIsThere ==
  ASSUME NEW n \in Nat, NEW order, DOMAIN order = 1..n, NEW rows, NEW stage,
         NEW k \in 1..n, Lists(order, rows, stage, k)
  PROVE  \E i \in 1..n : ListsFirst(order, rows, stage, i, n)
<1> DEFINE at == {i \in 1..n : rows[order[i]].stage = stage}
           IsFirst(i) == \A j \in at : i <= j
<1>1. at \in SUBSET Nat /\ at # {}
  BY DEF Lists
<1>2. \E i \in at : IsFirst(i)
  BY <1>1, LeastIsThere
<1>3. FirstOf(order, rows, stage) = order[CHOOSE i \in at : IsFirst(i)]
  BY <1>1 DEF FirstOf
<1> DEFINE first == CHOOSE i \in at : IsFirst(i)
<1> HIDE DEF IsFirst
<1>4. first \in at /\ IsFirst(first)
  BY <1>2
<1>5. FirstOf(order, rows, stage) = order[first]
  BY <1>3
<1> HIDE DEF first
<1> QED BY <1>4, <1>5 DEF IsFirst, ListsFirst, Lists

\* What the viewer calls the latency of a stage, if the order of its spans was not lost.
LatencyIsShown(r, rows, order, s) ==
  \/ stage_latency(rows, order, r[s].stage) = latency_of(r, r[s].stage)
  \/ \E p, q \in DOMAIN r : /\ p < q /\ {r[p].stage, r[q].stage} = {r[s].stage}
                           /\ rows[p].started_at = rows[q].started_at

\* The latency shown is the one answered with, unless a stage ran twice at one timestamp.
LEMMA LatenciesAgree ==
  ASSUME NEW n \in Nat, NEW r, IsRecording(r, n), NEW g \in Nat \ {0},
         NEW order \in ReadBack(SpanRows(r, g)), NEW s \in 1..n
  PROVE  LatencyIsShown(r, SpanRows(r, g), order, s)
<1> DEFINE rows == SpanRows(r, g)
           ids == [t \in DOMAIN r |-> t]
           stage == r[s].stage
<1>1. /\ DOMAIN rows = 1..n /\ DOMAIN r = 1..n
      /\ \A t \in 1..n : /\ rows[t].stage = r[t].stage /\ rows[t].started_at = Wall(g, r[t].open)
                         /\ rows[t].duration = Duration(r, t)
  BY RowsKeep DEF IsRecording
<1>2. /\ order \in Listings(1..n) /\ DOMAIN order = 1..n
      /\ \A i, j \in 1..n : i < j => Wall(g, r[order[i]].open) <= Wall(g, r[order[j]].open)
  BY ReadBackIsAListing
<1>3. /\ \A i \in 1..n : order[i] \in 1..n
      /\ \A t \in 1..n : \E i \in 1..n : order[i] = t
  BY <1>2, ListingsAreComplete
<1>4. DOMAIN ids = 1..n /\ \A t \in 1..n : ids[t] = t
  BY <1>1
<1>6. PICK k \in 1..n : order[k] = s
  BY <1>3
<1>0. Lists(ids, r, stage, s) /\ Lists(order, rows, stage, k)
  BY <1>1, <1>4, <1>6 DEF Lists
<1> HIDE DEF rows, ids, stage
<1>5. PICK p \in 1..n : ListsFirst(ids, r, stage, p, n)
  BY <1>4, <1>0, FirstIsThere
<1>7. PICK i \in 1..n : ListsFirst(order, rows, stage, i, n)
  BY <1>2, <1>0, FirstIsThere
<1> DEFINE q == order[i]
<1>8. q \in 1..n /\ r[q].stage = stage /\ r[p].stage = stage /\ p <= q
  <2>1. q \in 1..n /\ rows[q].stage = stage
    BY <1>3, <1>7 DEF ListsFirst, Lists
  <2>2. r[q].stage = stage /\ r[p].stage = stage
    BY <1>1, <1>4, <1>5, <2>1 DEF ListsFirst, Lists
  <2>3. Lists(ids, r, stage, q)
    BY <1>4, <2>1, <2>2 DEF Lists
  <2> QED BY <1>5, <2>1, <2>2, <2>3 DEF ListsFirst
<1>9. latency_of(r, stage) = Duration(r, p) /\ stage_latency(rows, order, stage) = Duration(r, q)
  <2>1. FirstOf(ids, r, stage) = p /\ p # 0 /\ FirstOf(order, rows, stage) = q /\ q # 0
    BY <1>4, <1>5, <1>7, <1>8 DEF ListsFirst
  <2>2. latency_of(r, stage) = Duration(r, p)
    BY <2>1 DEF latency_of, ids
  <2>3. stage_latency(rows, order, stage) = Duration(r, q)
    BY <1>1, <1>8, <2>1 DEF stage_latency
  <2> QED BY <2>2, <2>3
<1>10. CASE p = q
  BY <1>9, <1>10 DEF rows, stage, LatencyIsShown
<1>11. CASE p # q
  <2>1. PICK j \in 1..n : order[j] = p
    BY <1>3
  <2>2. i < j
    <3>1. Lists(order, rows, stage, j)
      BY <1>1, <1>8, <2>1 DEF Lists
    <3>2. i <= j /\ i # j
      BY <1>7, <1>11, <2>1, <3>1 DEF ListsFirst
    <3> QED BY <3>2
  <2>3. Wall(g, r[q].open) <= Wall(g, r[p].open)
    BY <1>2, <2>1, <2>2
  <2>4. r[p].open \in Nat /\ r[q].open \in Nat /\ r[p].open < r[q].open
    <3>1. p < q
      BY <1>8, <1>11
    <3>2. \A x, y \in 1..n : x < y => r[x].open < r[y].open
      BY DEF IsRecording, Nested
    <3>3. \A x \in 1..n : r[x].open \in Nat
      BY DEF IsRecording
    <3> QED BY <1>8, <3>1, <3>2, <3>3
  <2>5. Wall(g, r[p].open) <= Wall(g, r[q].open) /\ Wall(g, r[p].open) \in Nat /\ Wall(g, r[q].open) \in Nat
    <3> DEFINE t == r[p].open
               u == r[q].open
    <3>1. t \in Nat /\ u \in Nat /\ t <= u
      BY <2>4
    <3> HIDE DEF t, u
    <3>2. Wall(g, t) \in Nat /\ Wall(g, t) <= Wall(g, u)
      BY <3>1, ClocksAreMonotone
    <3>3. Wall(g, u) \in Nat
      BY <3>1, ClocksAreMonotone
    <3> QED BY <3>2, <3>3 DEF t, u
  <2>6. Wall(g, r[p].open) = Wall(g, r[q].open)
    BY <2>3, <2>5
  <2>7. rows[p].started_at = rows[q].started_at /\ p < q
    BY <1>1, <1>8, <1>11, <2>6
  <2>8. {r[p].stage, r[q].stage} = {stage}
    BY <1>8
  <2> QED BY <1>1, <1>8, <2>7, <2>8 DEF rows, stage, LatencyIsShown
<1> QED BY <1>10, <1>11

(* What is drawn is what happened, as far as the clock tells, for any      *)
(* number of stages and any grain of the clock (recorder.py:186-189,       *)
(* models/trace.py:76).                                                    *)
THEOREM TimelinesAreFaithful ==
  ASSUME NEW recordings, NEW grains \in SUBSET (Nat \ {0}),
         \A r \in recordings : \E n \in Nat : IsRecording(r, n)
  PROVE  TimelineIsFaithful(recordings, grains)
<1> SUFFICES ASSUME NEW r \in recordings, NEW g \in grains, NEW order \in ReadBack(SpanRows(r, g))
             PROVE  LET rows == SpanRows(r, g)
                        bars == Timeline(rows, order, 0) IN
                    /\ \A i \in DOMAIN bars :
                         bars[i].offset >= 0 /\ bars[i].offset + bars[i].duration <= Finish(r) + g
                    /\ \A i, j \in DOMAIN bars :
                         i < j => order[i] < order[j] \/ bars[i].offset = bars[j].offset
                    /\ \A s \in DOMAIN r :
                         \/ stage_latency(rows, order, r[s].stage) = latency_of(r, r[s].stage)
                         \/ \E p, q \in DOMAIN r : /\ p < q /\ {r[p].stage, r[q].stage} = {r[s].stage}
                                                  /\ rows[p].started_at = rows[q].started_at
  BY DEF TimelineIsFaithful
<1> DEFINE rows == SpanRows(r, g)
           bars == Timeline(rows, order, 0)
<1>0. g \in Nat \ {0}
  OBVIOUS
<1>1. PICK n \in Nat : IsRecording(r, n)
  OBVIOUS
<1>2. /\ DOMAIN r = 1..n
      /\ \A s \in 1..n : r[s].open \in Nat /\ r[s].close \in Nat /\ r[s].open < r[s].close /\ r[s].close <= 2 * n
      /\ \A s, t \in 1..n : s < t => r[s].open < r[t].open
  BY <1>1 DEF IsRecording, Nested
<1>3. \A s \in 1..n : rows[s].started_at = Wall(g, r[s].open) /\ rows[s].duration = Duration(r, s)
  BY ONLY <1>0, <1>1, n \in Nat, RowsKeep
<1>4. /\ order \in Listings(1..n) /\ DOMAIN order = 1..n
      /\ \A i, j \in 1..n : i < j => Wall(g, r[order[i]].open) <= Wall(g, r[order[j]].open)
  BY <1>0, <1>1, ReadBackIsAListing
<1>5. /\ \A i \in 1..n : order[i] \in 1..n
      /\ \A i, j \in 1..n : order[i] = order[j] => i = j
  BY <1>4, ListingsAreComplete
<1>6. /\ DOMAIN bars = 1..n
      /\ \A i \in 1..n : /\ bars[i].offset = Wall(g, r[order[i]].open) - 0
                         /\ bars[i].duration = r[order[i]].close - r[order[i]].open
  <2>1. DOMAIN bars = 1..n /\ \A i \in 1..n : bars[i] = Bar(rows, 0, order[i])
    BY <1>4 DEF Timeline
  <2> HIDE DEF bars, rows
  <2> QED BY <1>3, <1>5, <2>1 DEF Bar, Duration
<1>7. Finish(r) = 2 * n + 1
  <2>1. Cardinality(1..n) = n
    BY FS_Interval
  <2> QED BY <1>2, <2>1 DEF Finish
<1> HIDE DEF bars, rows
<1>8. ASSUME NEW i \in 1..n
      PROVE  bars[i].offset >= 0 /\ bars[i].offset + bars[i].duration <= Finish(r) + g
  <2> DEFINE s == order[i]
  <2>1. s \in 1..n /\ r[s].open \in Nat /\ r[s].close \in Nat /\ r[s].close <= 2 * n
    BY <1>2, <1>5
  <2>2. Wall(g, r[s].open) \in Nat /\ Wall(g, r[s].open) <= r[s].open
    BY <2>1, ClocksAreMonotone
  <2>3. bars[i].offset = Wall(g, r[s].open) - 0 /\ bars[i].duration = r[s].close - r[s].open
    BY <1>6
  <2> DEFINE w == Wall(g, r[s].open)
             o == r[s].open
             c == r[s].close
  <2>4. /\ w \in Nat /\ o \in Nat /\ c \in Nat /\ w <= o /\ c <= 2 * n
        /\ bars[i].offset = w - 0 /\ bars[i].duration = c - o
    BY <2>1, <2>2, <2>3
  <2> HIDE DEF w, o, c
  <2>5. w - 0 >= 0 /\ (w - 0) + (c - o) <= 2 * n + 1 + g
    BY <1>0, <2>4
  <2> QED BY <1>7, <2>4, <2>5
<1>9. ASSUME NEW i \in 1..n, NEW j \in 1..n, i < j, ~(order[i] < order[j])
      PROVE  bars[i].offset = bars[j].offset
  <2>1. order[j] < order[i] /\ order[i] \in 1..n /\ order[j] \in 1..n
    BY <1>5, <1>9
  <2>2. r[order[j]].open \in Nat /\ r[order[i]].open \in Nat /\ r[order[j]].open <= r[order[i]].open
    <3>1. PICK p \in 1..n, q \in 1..n : p = order[j] /\ q = order[i]
      BY ONLY <2>1
    <3>2. r[p].open < r[q].open /\ r[p].open \in Nat /\ r[q].open \in Nat
      BY ONLY <1>2, <2>1, <3>1, p \in 1..n, q \in 1..n
    <3>3. r[p].open <= r[q].open
      BY ONLY <3>2
    <3> QED BY ONLY <3>1, <3>2, <3>3
  <2>3. /\ Wall(g, r[order[j]].open) <= Wall(g, r[order[i]].open)
        /\ Wall(g, r[order[j]].open) \in Nat /\ Wall(g, r[order[i]].open) \in Nat
    BY <2>2, ClocksAreMonotone
  <2>4. Wall(g, r[order[i]].open) <= Wall(g, r[order[j]].open)
    BY <1>4, <1>9
  <2> QED BY <1>6, <2>3, <2>4
<1>10. \A s \in DOMAIN r : LatencyIsShown(r, rows, order, s)
  BY <1>0, <1>1, <1>2, LatenciesAgree DEF rows
<1> QED BY <1>6, <1>8, <1>9, <1>10 DEF rows, bars, LatencyIsShown

(* The recordings of the instance are such recordings, on such clocks:     *)
(* stored traces are drawn as deep as their stages were nested, and in the *)
(* order the clock can tell.                                               *)
THEOREM TracesAreDrawnAsTheyHappened == Spec => []TimelineTellsWhatHappened
<1>1. Grains \in SUBSET (Nat \ {0})
  BY DEF Grains
<1>2. ASSUME NEW r \in SomeRecordings PROVE \E n \in Nat : IsRecording(r, n)
  <2>1. PICK n \in 0..3 : r \in Recordings(n, {"retrieval", "generation"})
    BY DEF SomeRecordings
  <2>2. n \in Nat
    OBVIOUS
  <2>3. IsRecording(r, n)
    BY <2>1, <2>2, RecordingsAreRecordings
  <2> QED BY <2>2, <2>3
<1>3. ShowsNesting
  BY <1>1, <1>2, DepthsAlwaysShowNesting DEF ShowsNesting
<1>4. DrawnFaithfully
  BY <1>1, <1>2, TimelinesAreFaithful DEF DrawnFaithfully
<1>5. TimelineTellsWhatHappened
  BY <1>3, <1>4 DEF TimelineTellsWhatHappened
<1> QED BY <1>5, PTL
-----------------------------------------------------------------------------
(* How a query is retrieved for.                                           *)

\* The first rule that applies, from what the signals tell.
TypeBy(signals) ==
  IF "multi_hop_phrase" \in signals THEN "multi_hop"
  ELSE IF "numeric_reasoning" \in signals THEN "numeric"
  ELSE IF signals \cap EntityKinds # {} THEN "exact_entity"
  ELSE IF "comparative_phrase" \in signals THEN "comparative"
  ELSE IF "numeric_token" \in signals THEN "numeric"
  ELSE IF "temporal_marker" \in signals THEN "temporal"
  ELSE IF "technical_vocabulary" \in signals THEN "technical"
  ELSE IF "very_short" \in signals THEN "ambiguous"
  ELSE "conceptual"

\* What Classify may say.
Types == {"multi_hop", "numeric", "exact_entity", "comparative", "temporal", "technical", "ambiguous", "conceptual"}

\* A text with any number of words.
IsQuery(text) == text.words \in Nat /\ text.entities \subseteq EntityKinds /\ IsText(text)

\* What the first rule that applies is called.
LEMMA FirstRule ==
  ASSUME NEW text, NEW i \in 1..10, Rules(text)[i][1], \A j \in 1..(i - 1) : ~Rules(text)[j][1]
  PROVE  Classify(text) = Rules(text)[i][2]
<1> DEFINE rules == Rules(text)
           P(n) == rules[n][1] /\ \A j \in 1..(n - 1) : ~rules[j][1]
<1>1. DOMAIN rules = 1..10
  BY DEF Rules
<1>2. \A n \in DOMAIN rules : P(n) => n = i
  BY <1>1
<1>3. P(i)
  OBVIOUS
<1> HIDE DEF rules, P
<1>4. (CHOOSE n \in DOMAIN rules : P(n)) = i
  BY <1>1, <1>2, <1>3
<1> QED BY <1>4 DEF Classify, P, rules

\* What a rule records, and when.
LEMMA SignalsTell ==
  ASSUME NEW text, IsQuery(text)
  PROVE  LET s == Signals(text) IN
         /\ "multi_hop_phrase" \in s <=> Shows(text, "multihop")
         /\ "numeric_reasoning" \in s <=> Shows(text, "numeric_phrase")
         /\ s \cap EntityKinds = text.entities
         /\ "comparative_phrase" \in s <=> Shows(text, "comparative")
         /\ "numeric_token" \in s <=> Shows(text, "figure") /\ ~Shows(text, "numeric_phrase")
         /\ "temporal_marker" \in s <=> Shows(text, "temporal")
         /\ "technical_vocabulary" \in s <=> Shows(text, "technical")
         /\ "very_short" \in s <=> Ambiguity(text) = 8
<1> USE DEF IsQuery, EntityKinds, When
<1> DEFINE s == Signals(text)
<1>1. "multi_hop_phrase" \in s <=> Shows(text, "multihop")
  BY DEF Signals
<1>2. "numeric_reasoning" \in s <=> Shows(text, "numeric_phrase")
  BY DEF Signals
<1>3. s \cap EntityKinds = text.entities
  BY DEF Signals
<1>4. "comparative_phrase" \in s <=> Shows(text, "comparative")
  BY DEF Signals
<1>5. "numeric_token" \in s <=> Shows(text, "figure") /\ ~Shows(text, "numeric_phrase")
  BY DEF Signals
<1>6. "temporal_marker" \in s <=> Shows(text, "temporal")
  BY DEF Signals
<1>7. "technical_vocabulary" \in s <=> Shows(text, "technical")
  BY DEF Signals
<1>8. "very_short" \in s <=> Ambiguity(text) = 8
  BY DEF Signals
<1> QED BY <1>1, <1>2, <1>3, <1>4, <1>5, <1>6, <1>7, <1>8

\* The type of a text is told by its signals.
LEMMA TypeIsToldBySignals ==
  ASSUME NEW text, IsQuery(text)
  PROVE  Classify(text) = TypeBy(Signals(text)) /\ Classify(text) \in Types
<1> DEFINE s == Signals(text)
           given(i) == Rules(text)[i][1]
<1>1. /\ given(1) <=> text.words = 0
      /\ given(2) <=> Shows(text, "multihop")
      /\ given(3) <=> Shows(text, "numeric_phrase")
      /\ given(4) <=> text.entities # {}
      /\ given(5) <=> Shows(text, "comparative")
      /\ given(6) <=> Shows(text, "figure")
      /\ given(7) <=> Shows(text, "temporal")
      /\ given(8) <=> Shows(text, "technical")
      /\ given(9) <=> Ambiguity(text) >= 8
      /\ given(10)
  BY DEF Rules
<1>2. /\ Rules(text)[1][2] = "ambiguous" /\ Rules(text)[2][2] = "multi_hop" /\ Rules(text)[3][2] = "numeric"
      /\ Rules(text)[4][2] = "exact_entity" /\ Rules(text)[5][2] = "comparative" /\ Rules(text)[6][2] = "numeric"
      /\ Rules(text)[7][2] = "temporal" /\ Rules(text)[8][2] = "technical"
      /\ Rules(text)[9][2] = "ambiguous" /\ Rules(text)[10][2] = "conceptual"
  BY DEF Rules
<1>3. given(1) => Ambiguity(text) = 8 /\ \A i \in 2..8 : ~given(i)
  <2>1. given(1) => text.entities = {} /\ text.patterns = {} /\ Ambiguity(text) = 8
    BY <1>1 DEF IsQuery, IsText, Ambiguity
  <2>2. given(1) => ~given(2) /\ ~given(3) /\ ~given(4) /\ ~given(5) /\ ~given(6) /\ ~given(7) /\ ~given(8)
    BY <2>1, <1>1 DEF Shows
  <2> HIDE DEF given
  <2> QED BY <2>1, <2>2
<1>4. Ambiguity(text) >= 8 <=> Ambiguity(text) = 8
  BY DEF Ambiguity
<1> HIDE DEF given
<1>first. \A i \in 1..10 : given(i) /\ (\A j \in 1..(i - 1) : ~given(j)) => Classify(text) = Rules(text)[i][2]
  BY FirstRule DEF given
<1>told. LET t == Signals(text) IN
         /\ "multi_hop_phrase" \in t <=> given(2)
         /\ "numeric_reasoning" \in t <=> given(3)
         /\ t \cap EntityKinds # {} <=> given(4)
         /\ "comparative_phrase" \in t <=> given(5)
         /\ "numeric_token" \in t <=> given(6) /\ ~given(3)
         /\ "temporal_marker" \in t <=> given(7)
         /\ "technical_vocabulary" \in t <=> given(8)
         /\ "very_short" \in t <=> given(9)
  BY SignalsTell, <1>1, <1>4
<1>5. CASE given(1)
  <2>1. Classify(text) = "ambiguous"
    BY <1>5, <1>first, <1>2
  <2>2. given(9) /\ \A i \in 2..8 : ~given(i)
    BY <1>5, <1>3, <1>1, <1>4
  <2>3. TypeBy(Signals(text)) = "ambiguous"
    BY <1>told, <2>2 DEF TypeBy
  <2> QED BY <2>1, <2>3 DEF Types
<1>6. CASE \E i \in 2..10 : given(i) /\ \A j \in 1..(i - 1) : ~given(j)
  <2> PICK i \in 2..10 : given(i) /\ \A j \in 1..(i - 1) : ~given(j)
    BY <1>6
  <2>1. Classify(text) = Rules(text)[i][2]
    BY <1>first
  <2>2. TypeBy(Signals(text)) = Rules(text)[i][2]
    <3>1. CASE i = 2
      BY <3>1, <1>told, <1>2 DEF TypeBy
    <3>2. CASE i = 3
      BY <3>2, <1>told, <1>2 DEF TypeBy
    <3>3. CASE i = 4
      BY <3>3, <1>told, <1>2 DEF TypeBy
    <3>4. CASE i = 5
      BY <3>4, <1>told, <1>2 DEF TypeBy
    <3>5. CASE i = 6
      BY <3>5, <1>told, <1>2 DEF TypeBy
    <3>6. CASE i = 7
      BY <3>6, <1>told, <1>2 DEF TypeBy
    <3>7. CASE i = 8
      BY <3>7, <1>told, <1>2 DEF TypeBy
    <3>8. CASE i = 9
      BY <3>8, <1>told, <1>2 DEF TypeBy
    <3>9. CASE i = 10
      BY <3>9, <1>told, <1>2 DEF TypeBy
    <3> QED BY <3>1, <3>2, <3>3, <3>4, <3>5, <3>6, <3>7, <3>8, <3>9
  <2> QED BY <2>1, <2>2 DEF TypeBy, Types
<1> QED
  <2>1. given(10)
    BY <1>1
  <2> SUFFICES ASSUME ~given(1), \A i \in 2..10 : given(i) => \E j \in 1..(i - 1) : given(j)
               PROVE  FALSE
    BY <1>5, <1>6
  <2>2. ~given(2)
    OBVIOUS
  <2>3. ~given(3)
    BY <2>2
  <2>4. ~given(4)
    BY <2>2, <2>3
  <2>5. ~given(5)
    BY <2>2, <2>3, <2>4
  <2>6. ~given(6)
    BY <2>2, <2>3, <2>4, <2>5
  <2>7. ~given(7)
    BY <2>2, <2>3, <2>4, <2>5, <2>6
  <2>8. ~given(8)
    BY <2>2, <2>3, <2>4, <2>5, <2>6, <2>7
  <2>9. ~given(9)
    BY <2>2, <2>3, <2>4, <2>5, <2>6, <2>7, <2>8
  <2> QED BY <2>1, <2>2, <2>3, <2>4, <2>5, <2>6, <2>7, <2>8, <2>9

\* Of a text with an exact token, that rule or one before it applied.
LEMMA ExactTypes ==
  ASSUME NEW text, IsQuery(text), text.entities # {}
  PROVE  Classify(text) \in {"multi_hop", "numeric", "exact_entity"}
  BY TypeIsToldBySignals, SignalsTell DEF TypeBy

\* A function relates as many pairs as there are arguments.
LEMMA GraphsHaveOnePairEach ==
  ASSUME NEW G, IsFiniteSet(G), \A e \in G : e = <<e[1], e[2]>>,
         \A e, f \in G : e[1] = f[1] => e[2] = f[2]
  PROVE  Cardinality(G) = Cardinality({e[1] : e \in G})
<1> DEFINE D == {e[1] : e \in G}
           first == [e \in G |-> e[1]]
<1>1. first \in Bijection(G, D)
  BY DEF Bijection, Injection, Surjection, IsInjective
<1>2. ExistsBijection(G, D)
  BY <1>1 DEF ExistsBijection
<1> QED BY <1>2, FS_Bijection

\* Finitely many texts are retrieved for in finitely many ways.
LEMMA FinitelyExplained ==
  ASSUME NEW texts, IsFiniteSet(texts)
  PROVE  IsFiniteSet({<<Signals(t), ProfileFor(t)>> : t \in texts})
<1> DEFINE G == {<<Signals(t), ProfileFor(t)>> : t \in texts}
           of == [t \in texts |-> <<Signals(t), ProfileFor(t)>>]
<1>1. of \in Surjection(texts, G)
  BY DEF Surjection
<1> QED BY <1>1, FS_Surjection

(* A classification that cannot say what triggered it explains nothing     *)
(* (test_query_analyzer.py:117): of any finite number of texts, those with *)
(* the same signals are retrieved for in the same way.                     *)
THEOREM SignalsAlwaysExplain ==
  ASSUME NEW texts, IsFiniteSet(texts), \A t \in texts : IsQuery(t)
  PROVE  SignalsExplain(texts)
<1> DEFINE G == {<<Signals(t), ProfileFor(t)>> : t \in texts}
<1>1. IsFiniteSet(G)
  BY FinitelyExplained
<1>2. \A t \in texts : ProfileFor(t) = DEFAULT_PROFILES[TypeBy(Signals(t))]
  BY TypeIsToldBySignals DEF ProfileFor
<1>3. \A e \in G : e = <<e[1], e[2]>> /\ e[2] = DEFAULT_PROFILES[TypeBy(e[1])]
  BY <1>2
<1> HIDE DEF G
<1>4. Cardinality(G) = Cardinality({e[1] : e \in G})
  BY <1>1, <1>3, GraphsHaveOnePairEach
<1> QED BY <1>4 DEF G, SignalsExplain

(* A text with an exact token is never retrieved for with more weight on   *)
(* the dense arm (query_analyzer.py:216-221).                              *)
THEOREM ExactTextsAlwaysLeanLexical ==
  ASSUME NEW texts, \A t \in texts : IsQuery(t)
  PROVE  ExactTextsLeanLexical(texts)
<1> SUFFICES ASSUME NEW t \in texts, t.entities # {}
             PROVE  ProfileFor(t).weights["semantic"] <= ProfileFor(t).weights["keyword"]
  BY DEF ExactTextsLeanLexical
<1>1. Classify(t) \in {"multi_hop", "numeric", "exact_entity"}
  BY ExactTypes
<1> QED BY <1>1 DEF ProfileFor, DEFAULT_PROFILES, WeightsAndDepth

\* Four things are finitely many.
LEMMA FourAreFinite ==
  ASSUME NEW a, NEW b, NEW c, NEW d
  PROVE  IsFiniteSet({a, b, c, d})
<1>1. IsFiniteSet({a})
  BY FS_Singleton
<1>2. IsFiniteSet({a} \cup {b})
  BY <1>1, FS_AddElement
<1>3. IsFiniteSet(({a} \cup {b}) \cup {c})
  BY <1>2, FS_AddElement
<1>4. IsFiniteSet((({a} \cup {b}) \cup {c}) \cup {d})
  BY <1>3, FS_AddElement
<1>5. {a, b, c, d} = (({a} \cup {b}) \cup {c}) \cup {d}
  OBVIOUS
<1> QED BY <1>4, <1>5

\* Finitely many numbers of words make finitely many texts.
LEMMA TextsAreFinite ==
  ASSUME NEW lengths, IsFiniteSet(lengths)
  PROVE  IsFiniteSet(TextsOf(lengths))
<1> DEFINE shown == (SUBSET EntityKinds) \X (SUBSET Patterns)
           parts == lengths \X shown
           all == [words : lengths, entities : SUBSET EntityKinds, patterns : SUBSET Patterns]
           of == [part \in parts |-> [words |-> part[1], entities |-> part[2][1], patterns |-> part[2][2]]]
<1>1. IsFiniteSet(EntityKinds) /\ IsFiniteSet(Patterns)
  <2>1. IsFiniteSet(EntityKinds)
    BY FourAreFinite DEF EntityKinds
  <2> DEFINE some == {"numeric_phrase", "figure", "comparative", "temporal"}
             others == {"multihop", "technical", "question", "figure"}
  <2>2. IsFiniteSet(some) /\ IsFiniteSet(others)
    BY FourAreFinite
  <2>3. Patterns = some \cup others
    BY DEF Patterns
  <2> HIDE DEF some, others
  <2>4. IsFiniteSet(Patterns)
    BY <2>2, <2>3, FS_Union
  <2> QED BY <2>1, <2>4
<1>2. IsFiniteSet(SUBSET EntityKinds) /\ IsFiniteSet(SUBSET Patterns)
  BY <1>1, FS_SUBSET
<1>3. IsFiniteSet(parts)
  BY <1>2, FS_Product
<1>4. of \in Surjection(parts, all)
  <2>1. of \in [parts -> all]
    OBVIOUS
  <2>2. ASSUME NEW t \in all PROVE \E part \in parts : of[part] = t
    <3>1. <<t.words, <<t.entities, t.patterns>>>> \in parts
      OBVIOUS
    <3>2. of[<<t.words, <<t.entities, t.patterns>>>>] = t
      BY <3>1
    <3> QED BY <3>1, <3>2
  <2> QED BY <2>1, <2>2 DEF Surjection
<1>5. IsFiniteSet(all)
  BY <1>3, <1>4, FS_Surjection
<1>6. TextsOf(lengths) \in SUBSET all
  BY DEF TextsOf
<1> QED BY <1>5, <1>6, FS_Subset

(* The texts of the instance are such texts: the recorded signals say why  *)
(* an adaptive query was retrieved for the way it was, and one for an exact*)
(* token never favours the dense arm.                                      *)
THEOREM ProfilesAlwaysFollowTheText == Spec => []ProfilesFollowTheText
<1>1. IsFiniteSet({0, 1, 3, 4, 16})
  <2>1. {0, 1, 3, 4, 16} \in SUBSET Nat /\ \A n \in {0, 1, 3, 4, 16} : n <= 16
    OBVIOUS
  <2> QED BY <2>1, FS_BoundedSetOfNaturals
<1>2. IsFiniteSet(Texts)
  BY <1>1, TextsAreFinite DEF Texts
<1>3. \A t \in Texts : IsQuery(t)
  BY DEF Texts, TextsOf, IsQuery
<1>4. Explained
  BY <1>2, <1>3, SignalsAlwaysExplain DEF Explained
<1>5. LeanLexical
  BY <1>3, ExactTextsAlwaysLeanLexical DEF LeanLexical
<1>6. ProfilesFollowTheText
  BY <1>4, <1>5 DEF ProfilesFollowTheText
<1> QED BY <1>6, PTL
-----------------------------------------------------------------------------
(* What a query promises.                                                  *)

\* Before a reply nothing is told, an arm has read nothing before its turn, and
\* without evidence the answer abstains.
PromiseInv ==
  /\ pc # "done" => response = Unset
  /\ pc \in {"received", "embedding", "dense"} => hits["semantic"] = <<>>
  /\ pc \in {"received", "embedding", "dense", "keyword"} => hits["keyword"] = <<>>
  /\ HasAnswer /\ evidence = <<>> => answer.abstained

\* It holds at the start.
LEMMA InitPromiseInv == Init => PromiseInv
  BY DEF Init, PromiseInv, HasAnswer, Answered, Arms

\* Every step keeps it.
LEMMA NextPromiseInv ==
  ASSUME QueryInv, PromiseInv, [Next]_vars
  PROVE  PromiseInv'
<1>open. pc # "done" => response = Unset /\ ~Answered
  BY DEF PromiseInv, Answered
<1>done. HasAnswer <=> (pc = "saving" /\ ~failed) \/ pc = "responding" \/ Answered
  BY DEF HasAnswer
<1>1. CASE \/ StartRetrieval \/ EmbedQuery \/ StartGeneration \/ CatchDomainError
           \/ \E kind \in Failures : Fail(kind)
  <2>1. /\ pc # "done" /\ pc' # "done" /\ UNCHANGED <<hits, response>>
        /\ pc' \in {"embedding", "dense"} => pc \in {"received", "embedding"}
        /\ pc' = "keyword" => pc \in {"received", "embedding", "dense"}
        /\ pc' # "received" /\ (pc' = "saving" => failed') /\ pc' # "responding"
    BY <1>1 DEF StartRetrieval, EmbedQuery, StartGeneration, CatchDomainError, Fail
  <2>2. ~HasAnswer'
    BY <1>open, <2>1 DEF HasAnswer, Answered, Unset
  <2> QED BY <1>open, <2>1, <2>2 DEF PromiseInv, Unset
<1>2. CASE ReadDense \/ ReadKeyword \/ EndRetrieval
  <2>1. /\ pc # "done" /\ pc' \in {"keyword", "ranking", "retrieved"} /\ UNCHANGED response
        /\ pc' = "keyword" => ReadDense
    BY <1>2 DEF ReadDense, ReadKeyword, EndRetrieval
  <2>2. ReadDense => hits'["keyword"] = hits["keyword"] /\ pc = "dense"
    BY DEF ReadDense, Arms, QueryInv, TypeOK
  <2>3. ~HasAnswer'
    BY <1>open, <2>1 DEF HasAnswer, Answered, Unset
  <2> QED BY <1>open, <2>1, <2>2, <2>3 DEF PromiseInv, Unset
<1>3. CASE AnswerWithoutEvidence \/ \E p \in Payloads : ModelAnswers(p)
  <2>1. /\ pc = "generating" /\ pc' \in {"saving", "raising"} /\ UNCHANGED <<hits, response, evidence>>
        /\ AnswerWithoutEvidence => answer'.abstained
        /\ ~AnswerWithoutEvidence => evidence # <<>>
    BY <1>3 DEF AnswerWithoutEvidence, ModelAnswers, NoEvidenceAnswer
  <2> QED BY <1>open, <2>1 DEF PromiseInv, Unset
<1>4. CASE SaveTrace
  <2>1. /\ pc = "saving" /\ UNCHANGED <<hits, evidence, answer, failed>>
        /\ \/ failed /\ pc' = "done" /\ response' = [kind |-> "error"]
           \/ ~failed /\ pc' = "responding" /\ response' = response
    BY <1>4 DEF SaveTrace
  <2>2. HasAnswer' => HasAnswer
    BY <2>1 DEF HasAnswer, Answered
  <2> QED BY <1>open, <2>1, <2>2 DEF PromiseInv, Unset
<1>5. CASE Refuse \/ Propagate \/ \E kind \in Failures : LoseSave(kind)
  <2>1. pc' = "done" /\ response' = [kind |-> "error"]
    BY <1>5 DEF Refuse, Propagate, LoseSave
  <2>2. ~HasAnswer'
    BY <2>1 DEF HasAnswer, Answered
  <2> QED BY <2>1, <2>2 DEF PromiseInv
<1>6. CASE Respond
  <2>1. pc = "responding" /\ pc' = "done" /\ UNCHANGED <<evidence, answer>>
    BY <1>6 DEF Respond
  <2> QED BY <2>1 DEF PromiseInv, HasAnswer
<1>7. CASE UNCHANGED vars \/ EmbedChunks \/ \E kept \in SUBSET Chunks, text \in 2..MaxText : ReplaceChunks(kept, text)
  <2>1. UNCHANGED <<pc, hits, evidence, answer, failed, response>>
    BY <1>7 DEF vars, EmbedChunks, ReplaceChunks
  <2> QED BY <2>1 DEF PromiseInv, HasAnswer, Answered, Unset
<1> QED BY <1>1, <1>2, <1>3, <1>4, <1>5, <1>6, <1>7 DEF Next

\* The invariant of the promise, in every reachable state.
LEMMA PromiseInvariance == Spec => []PromiseInv
  BY InitPromiseInv, NextPromiseInv, QueryInvHolds, PTL DEF Spec

\* What was read, shown, stored and told changes with the variables it is of, and no sooner.
LEMMA PromisedStays ==
  /\ UNCHANGED corpus => UNCHANGED Searchable
  /\ UNCHANGED hits => UNCHANGED ReadByArm
  /\ UNCHANGED evidence => UNCHANGED PassagesIn(evidence)
  /\ UNCHANGED traces => UNCHANGED Stored
  /\ UNCHANGED response => UNCHANGED Told
  BY DEF Searchable, ReadByArm, PassagesIn, Stored, FoundBy, Told, Unset

\* An arm that has its turn has read nothing, and reads passages of the table as it is.
LEMMA ArmFinds ==
  ASSUME QueryInv, PromiseInv, ViewsInv, NEW a \in Arms, NEW rows \in SUBSET DOMAIN corpus,
         \/ a = "semantic" /\ pc = "dense"
         \/ a = "keyword" /\ pc = "keyword",
         NEW ranking \in ReadsOf(rows), hits' = [hits EXCEPT ![a] = ranking],
         UNCHANGED <<corpus, evidence, traces, response>>
  PROVE  Promise!Next
<1>1. hits[a] = <<>> /\ evidence = <<>> /\ traces = {} /\ response = Unset
  BY DEF PromiseInv, ViewsInv, SpansInv, StoredInv, Retrieving
<1>2. PassagesIn(ranking) \in SUBSET Searchable
  <2>1. \A i \in DOMAIN ranking : \E c \in rows : ranking[i] = [chunk |-> c, text |-> corpus[c].text]
    BY DEF ReadsOf
  <2> QED BY <2>1 DEF PassagesIn, Searchable
<1>3. ReadByArm' = [ReadByArm EXCEPT ![a] = PassagesIn(ranking)]
  BY DEF ReadByArm, PassagesIn, QueryInv, TypeOK
<1>4. ReadByArm[a] = {} /\ PassagesIn(evidence) = {} /\ Stored = {} /\ Told = {}
  BY <1>1 DEF ReadByArm, PassagesIn, Stored, Told
<1>5. UNCHANGED <<Searchable, PassagesIn(evidence), Stored, Told>>
  BY PromisedStays
<1>6. Promise!Find(a)
  BY ONLY <1>2, <1>3, <1>4, <1>5 DEF Promise!Find
<1> QED BY <1>6 DEF Promise!Next

\* The copy fusion keeps of a chunk is a passage an arm has read.
LEMMA ExemplarWasRead ==
  ASSUME TypeOK, NEW c \in Found(Ranked)
  PROVE  \E a \in Arms : \E i \in DOMAIN hits[a] : Exemplar(c) = hits[a][i]
<1>1. ASSUME NEW a \in Arms, c \in FoundBy(ChunksOf(hits[a]))
      PROVE  Place(ChunksOf(hits[a]), c) \in DOMAIN hits[a]
  BY <1>1 DEF FoundBy, Place, ChunksOf
<1>2. c \in FoundBy(ChunksOf(hits["semantic"])) \/ c \in FoundBy(ChunksOf(hits["keyword"]))
  BY DEF Found, Ranked, Arms
<1> QED BY <1>1, <1>2 DEF Exemplar, Arms

\* Fused retrieval returns such copies.
LEMMA FusedWasFound ==
  ASSUME TypeOK, strategy \notin {"semantic", "keyword"}
  PROVE  \A i \in DOMAIN Retrieved : \E c \in Found(Ranked) : Retrieved[i] = Exemplar(c)
<1> DEFINE fused == Fuse(Ranked, profile.weights)
           n == Cardinality(Found(Ranked))
<1>1. n \in Nat /\ fused \in [1..n -> Found(Ranked)]
  BY RankedIsInput, FusionIsARanking
<1>2. Retrieved = [i \in DOMAIN Cut(fused, TopK) |-> Exemplar(Cut(fused, TopK)[i])]
  BY DEF Retrieved, Ranked
<1> HIDE DEF fused, n
<1> DEFINE m == IF n < TopK THEN n ELSE TopK
<1>top. TopK \in Nat \ {0}
  BY QueryAssumption
<1>m. m = IF n < TopK THEN n ELSE TopK
  OBVIOUS
<1> HIDE DEF m
<1>some. m \in 0..n
  BY ONLY <1>1, <1>top, <1>m
<1>3. Cut(fused, TopK) = [i \in 1..m |-> fused[i]]
  <2>1. m \in Nat
    BY ONLY <1>1, <1>some
  <2> QED BY ONLY <1>1, <1>m, <1>top, <2>1, CutKeeps
<1>4. \A i \in DOMAIN Retrieved : Retrieved[i] = Exemplar(fused[i]) /\ fused[i] \in Found(Ranked)
  BY <1>1, <1>2, <1>3, <1>some
<1> QED BY <1>4

\* Whatever the strategy, what is retrieved was read by an arm.
LEMMA RetrievedWasRead ==
  ASSUME QueryInv
  PROVE  PassagesIn(Retrieved) \subseteq UNION {ReadByArm[a] : a \in Arms}
<1>1. \A a \in Arms : \A i \in DOMAIN hits[a] : hits[a][i] \in UNION {ReadByArm[b] : b \in Arms}
  BY DEF ReadByArm, PassagesIn
<1>2. CASE strategy \in {"semantic", "keyword"}
  <2>1. strategy \in Arms /\ Retrieved = hits[strategy]
    BY <1>2 DEF Retrieved, Arms
  <2> QED BY <1>1, <2>1 DEF PassagesIn
<1>3. CASE strategy \notin {"semantic", "keyword"}
  <2>1. \A c \in Found(Ranked) : \E a \in Arms : \E i \in DOMAIN hits[a] : Exemplar(c) = hits[a][i]
    BY ExemplarWasRead DEF QueryInv
  <2>2. \A i \in DOMAIN Retrieved : \E c \in Found(Ranked) : Retrieved[i] = Exemplar(c)
    BY <1>3, FusedWasFound DEF QueryInv
  <2> QED BY <1>1, <2>1, <2>2 DEF PassagesIn
<1> QED BY <1>2, <1>3

\* The evidence is shown once.
LEMMA EvidenceIsShown ==
  ASSUME QueryInv, PromiseInv, ViewsInv, EndRetrieval
  PROVE  Promise!Next
<1>1. /\ pc = "ranking" /\ evidence' = Retrieved
      /\ UNCHANGED <<corpus, hits, traces, response>>
  BY DEF EndRetrieval
<1>2. evidence = <<>> /\ traces = {} /\ response = Unset
  BY <1>1 DEF PromiseInv, ViewsInv, SpansInv, StoredInv, Retrieving
<1>3. PassagesIn(evidence)' \in SUBSET UNION {ReadByArm[a] : a \in Arms}
  <2>1. PassagesIn(evidence)' = PassagesIn(Retrieved)
    BY <1>1 DEF PassagesIn
  <2> QED BY <2>1, RetrievedWasRead
<1>4. PassagesIn(evidence) = {} /\ Stored = {} /\ Told = {}
  BY <1>2 DEF PassagesIn, Stored, Told
<1>5. UNCHANGED <<Searchable, ReadByArm, Stored, Told>>
  BY <1>1, PromisedStays
<1>6. Promise!Show
  BY ONLY <1>3, <1>4, <1>5 DEF Promise!Show
<1> QED BY <1>6 DEF Promise!Next

\* Shown by chunk, the evidence is what the trace says was retrieved.
LEMMA ShownByChunk ==
  Promise!ChunksIn(PassagesIn(evidence)) = FoundBy(ChunksOf(evidence))
  BY DEF Promise!ChunksIn, PassagesIn, FoundBy, ChunksOf

\* A citation is a passage of the evidence.
LEMMA CitationsAreShown ==
  ASSUME QueryInv, HasAnswer, NEW i \in DOMAIN answer.claims
  PROVE  Citations(answer.claims[i]) \subseteq PassagesIn(evidence)
<1>1. evidence \in Seq(Hit) /\ IsRanking(ChunksOf(evidence))
  BY RetrievedIsRanking DEF QueryInv, ResultsInv, HasEvidence
<1>2. \A c \in FoundBy(ChunksOf(evidence)) : ById(c) \in PassagesIn(evidence)
  <2>1. \A n \in DOMAIN evidence : ById(evidence[n].chunk) = evidence[n]
    BY <1>1, ByIdFinds
  <2> QED BY <2>1 DEF FoundBy, ChunksOf, PassagesIn
<1> QED BY <1>2 DEF Citations

\* What an answer claims can be put on record: numbered claims of chunks that were shown.
LEMMA AnswerIsRecordable ==
  ASSUME QueryInv, PromiseInv, HasAnswer
  PROVE  /\ answer.abstained \in BOOLEAN
         /\ evidence = <<>> => answer.abstained
         /\ answer.claims \in [DOMAIN answer.claims -> SUBSET Promise!ChunksIn(PassagesIn(evidence))]
         /\ DOMAIN answer.claims \subseteq UNION {DOMAIN p.claims : p \in Payloads}
<1>1. Promise!ChunksIn(PassagesIn(evidence)) = FoundBy(ChunksOf(evidence))
  BY ShownByChunk
<1>2. CASE answer = NoEvidenceAnswer
  BY <1>2 DEF NoEvidenceAnswer
<1>3. CASE answer # NoEvidenceAnswer
  <2>1. payload \in Payloads /\ answer = Answer(payload, ChunksOf(evidence))
    BY <1>3 DEF QueryInv, ResultsInv
  <2>2. answer.abstained = payload.abstained /\ answer.claims = Claims(payload, ChunksOf(evidence))
    BY <2>1 DEF Answer
  <2>3. payload.abstained \in BOOLEAN
    BY <2>1, QueryAssumption
  <2>4. DOMAIN answer.claims \subseteq DOMAIN payload.claims
    BY <2>2 DEF Claims, Kept
  <2>5. answer.claims = [i \in DOMAIN answer.claims |-> answer.claims[i]]
    BY <2>2 DEF Claims
  <2>6. answer.claims \in [DOMAIN answer.claims -> SUBSET FoundBy(ChunksOf(evidence))]
    BY <2>5, ClaimsCiteEvidence
  <2> QED BY <1>1, <2>1, <2>2, <2>3, <2>4, <2>6 DEF PromiseInv
<1> QED BY <1>2, <1>3

\* A trace that is committed is a record of the failure, or of the answer, or the
\* commit is lost with the client's connection.
LEMMA TraceIsStored ==
  ASSUME QueryInv, PromiseInv, ViewsInv, SaveTrace \/ \E kind \in Failures : LoseSave(kind)
  PROVE  Promise!Next
<1> DEFINE numbers == UNION {DOMAIN p.claims : p \in Payloads}
           shown == PassagesIn(evidence)
<1>1. /\ pc = "saving" /\ UNCHANGED <<corpus, hits, evidence>>
      /\ traces' \in {traces, traces \cup {Trace}}
      /\ \/ response' = [kind |-> "error"]
         \/ ~failed /\ response' = response /\ traces' = traces \cup {Trace}
  BY DEF SaveTrace, LoseSave
<1>2. traces = {} /\ response = Unset
  BY <1>1 DEF PromiseInv, ViewsInv, StoredInv
<1>3. Stored = {} /\ Told = {} /\ UNCHANGED <<Searchable, ReadByArm, shown>>
  BY <1>1, <1>2, PromisedStays DEF Stored, Told
<1>4. Told' = {Promise!Error} \/ (~failed /\ Told' = {} /\ traces' = {Trace})
  BY <1>1, <1>2 DEF Told, Unset, Promise!Error
<1>5. CASE traces' = {}
  <2>1. Stored' = {} /\ Told' = {Promise!Error}
    BY <1>4, <1>5 DEF Stored
  <2>2. Promise!Fail
    BY ONLY <1>3, <2>1 DEF Promise!Fail
  <2> QED BY <2>2 DEF Promise!Next
<1>6. CASE traces' = {Trace}
  <2>1. Promise!ChunksIn(shown) = FoundBy(ChunksOf(evidence))
    BY ShownByChunk
  <2>2. Stored' = {[failed |-> Trace.failed, abstained |-> Trace.abstained, claims |-> Trace.claims,
                    retrieved |-> FoundBy(Trace.retrieved)]}
    BY <1>6 DEF Stored, FoundBy
  <2>3. /\ Trace.failed = failed /\ Trace.retrieved = ChunksOf(evidence)
        /\ Trace.abstained = (~failed /\ answer.abstained)
        /\ Trace.claims = IF failed THEN <<>> ELSE answer.claims
    BY DEF Trace
  <2>4. failed \in BOOLEAN
    BY DEF QueryInv, TypeOK
  <2>5. ASSUME NEW f \in BOOLEAN, NEW a \in BOOLEAN, NEW made \in SUBSET numbers,
               NEW claims \in [made -> SUBSET Promise!ChunksIn(shown)],
               Trace.failed = f, Trace.abstained = a, Trace.claims = claims, failed = f,
               f => claims = <<>>, ~f /\ shown = {} => a
        PROVE  Promise!Next
    <3>1. Stored' = {[failed |-> f, abstained |-> a, claims |-> claims,
                      retrieved |-> Promise!ChunksIn(shown)]}
      BY <2>1, <2>2, <2>3, <2>5
    <3>2. Told' = {Promise!Error} \/ (~f /\ Told' = {})
      BY <1>4, <2>5
    <3> HIDE DEF shown
    <3>3. Promise!Store(f, a, claims)
      BY <1>3, <2>5, <3>1, <3>2 DEF Promise!Store, shown
    <3> QED BY <3>3 DEF Promise!Next, shown
  <2>6. CASE failed
    <3>1. <<>> \in [{} -> SUBSET Promise!ChunksIn(shown)]
      OBVIOUS
    <3>2. Trace.failed = TRUE /\ Trace.abstained = FALSE /\ Trace.claims = <<>> /\ failed = TRUE
      BY <2>3, <2>4, <2>6
    <3> QED BY <2>5, <3>1, <3>2
  <2>7. CASE ~failed
    <3>1. HasAnswer
      BY <1>1, <2>7 DEF HasAnswer
    <3>2. /\ answer.abstained \in BOOLEAN
          /\ evidence = <<>> => answer.abstained
          /\ answer.claims \in [DOMAIN answer.claims -> SUBSET Promise!ChunksIn(shown)]
          /\ DOMAIN answer.claims \in SUBSET numbers
      BY <3>1, AnswerIsRecordable
    <3>3. /\ Trace.failed = FALSE /\ Trace.abstained = answer.abstained
          /\ Trace.claims = answer.claims /\ failed = FALSE
      BY <2>3, <2>4, <2>7, <3>2
    <3>4. ASSUME shown = {} PROVE answer.abstained
      <4>1. DOMAIN evidence = {}
        BY <3>4 DEF PassagesIn
      <4>2. evidence \in Seq(Hit)
        BY DEF QueryInv, TypeOK
      <4>3. evidence = <<>>
        BY ONLY <4>1, <4>2
      <4> QED BY <3>2, <4>3
    <3> QED BY <2>5, <3>2, <3>3, <3>4
  <2> QED BY <2>6, <2>7
<1> QED BY <1>1, <1>2, <1>5, <1>6

\* The answer is told from the record, its citations word for word.
LEMMA AnswerIsTold ==
  ASSUME QueryInv, PromiseInv, ViewsInv, Respond
  PROVE  Promise!Next
<1> DEFINE shown == PassagesIn(evidence)
           claims == [i \in DOMAIN answer.claims |-> Citations(answer.claims[i])]
           t == [failed |-> Trace.failed, abstained |-> Trace.abstained, claims |-> Trace.claims,
                 retrieved |-> FoundBy(Trace.retrieved)]
<1>1. /\ pc = "responding" /\ UNCHANGED <<corpus, hits, evidence, traces>>
      /\ response'.kind = "answer" /\ response'.abstained = answer.abstained
      /\ response'.claims = claims /\ response' # Unset
  BY DEF Respond, Unset
<1>2. HasAnswer /\ response = Unset /\ Trace \in traces /\ ~failed
  BY <1>1 DEF HasAnswer, PromiseInv, ViewsInv, StoredInv
<1>3. answer.abstained \in BOOLEAN
  BY <1>2, AnswerIsRecordable
<1>4. t \in Stored /\ ~t.failed /\ t.abstained = answer.abstained /\ t.claims = answer.claims
  <2>1. t \in Stored
    BY <1>2 DEF Stored
  <2>2. ~Trace.failed /\ Trace.abstained = answer.abstained /\ Trace.claims = answer.claims
    BY <1>2, <1>3 DEF Trace
  <2> QED BY <2>1, <2>2
<1>5. Told = {} /\ UNCHANGED <<Searchable, ReadByArm, shown, Stored>>
  BY <1>1, <1>2, PromisedStays DEF Told
<1>6. Told' = {[kind |-> "answer", abstained |-> t.abstained, claims |-> claims]}
  BY <1>1, <1>4 DEF Told
<1>7. \A i \in DOMAIN claims : Promise!ChunksIn(claims[i]) = t.claims[i]
  BY <1>2, <1>4, CitationsShowChunks DEF Promise!ChunksIn
<1>8. claims \in [DOMAIN t.claims -> SUBSET shown]
  <2>1. \A i \in DOMAIN answer.claims : Citations(answer.claims[i]) \subseteq shown
    BY <1>2, CitationsAreShown
  <2> QED BY <1>4, <2>1
<1> HIDE DEF t, claims, shown
<1>9. Promise!Tell(t, claims)
  BY <1>4, <1>5, <1>6, <1>7 DEF Promise!Tell, shown
<1> QED BY <1>4, <1>8, <1>9 DEF Promise!Next, shown

\* What the worker does to the chunks changes what can be found, and nothing else.
LEMMA CorpusChanges ==
  ASSUME QueryInv', UNCHANGED <<hits, evidence, traces, response>>
  PROVE  Promise!Next
<1>1. Searchable' \in SUBSET Hit
  BY DEF Searchable, QueryInv, TypeOK, Hit
<1>2. UNCHANGED <<ReadByArm, PassagesIn(evidence), Stored, Told>>
  BY PromisedStays
<1>3. Promise!Change
  BY ONLY <1>1, <1>2 DEF Promise!Change
<1> QED BY <1>3 DEF Promise!Next

\* A query that is refused, or dies of what nobody catches, leaves nothing behind.
LEMMA QueryFails ==
  ASSUME PromiseInv, ViewsInv, Refuse \/ Propagate
  PROVE  Promise!Next
<1>1. /\ pc \in {"received", "raising"} /\ response' = [kind |-> "error"]
      /\ UNCHANGED <<corpus, hits, evidence, traces>>
  BY DEF Refuse, Propagate
<1>2. Stored = {} /\ Told = {} /\ Told' = {Promise!Error}
  BY <1>1 DEF Stored, Told, Unset, PromiseInv, ViewsInv, StoredInv, Promise!Error
<1>3. UNCHANGED <<Searchable, ReadByArm, PassagesIn(evidence), Stored>>
  BY <1>1, PromisedStays
<1>4. Promise!Fail
  BY ONLY <1>2, <1>3 DEF Promise!Fail
<1> QED BY <1>4 DEF Promise!Next

\* Every step of a query keeps the promise.
LEMMA NextImplementsAnswer ==
  ASSUME QueryInv, QueryInv', PromiseInv, ViewsInv, [Next]_vars
  PROVE  [Promise!Next]_<<Searchable, ReadByArm, PassagesIn(evidence), Stored, Told>>
<1>1. CASE UNCHANGED vars \/ StartRetrieval \/ EmbedQuery \/ StartGeneration \/ AnswerWithoutEvidence
           \/ CatchDomainError \/ (\E p \in Payloads : ModelAnswers(p)) \/ \E kind \in Failures : Fail(kind)
  <2>1. UNCHANGED <<corpus, hits, evidence, traces, response>>
    BY <1>1 DEF vars, StartRetrieval, EmbedQuery, StartGeneration, AnswerWithoutEvidence,
                CatchDomainError, ModelAnswers, Fail
  <2> QED BY <2>1, PromisedStays
<1>2. CASE ReadDense
  <2>1. PICK found \in SUBSET {c \in DOMAIN corpus : corpus[c].embedded} :
          \E ranking \in ReadsOf(found) : hits' = [hits EXCEPT !["semantic"] = ranking]
    BY <1>2 DEF ReadDense
  <2>2. PICK ranking \in ReadsOf(found) : hits' = [hits EXCEPT !["semantic"] = ranking]
    BY <2>1
  <2>3. pc = "dense" /\ UNCHANGED <<corpus, evidence, traces, response>>
    BY <1>2 DEF ReadDense
  <2> QED BY <2>2, <2>3, ArmFinds DEF Arms
<1>3. CASE ReadKeyword
  <2>1. PICK matching \in SUBSET DOMAIN corpus :
          \E ranking \in ReadsOf(matching) : hits' = [hits EXCEPT !["keyword"] = ranking]
    BY <1>3 DEF ReadKeyword
  <2>2. PICK ranking \in ReadsOf(matching) : hits' = [hits EXCEPT !["keyword"] = ranking]
    BY <2>1
  <2>3. pc = "keyword" /\ UNCHANGED <<corpus, evidence, traces, response>>
    BY <1>3 DEF ReadKeyword
  <2> QED BY <2>2, <2>3, ArmFinds DEF Arms
<1>4. CASE \/ EmbedChunks
           \/ \E kept \in SUBSET Chunks, text \in 2..MaxText : ReplaceChunks(kept, text)
  BY <1>4, CorpusChanges DEF EmbedChunks, ReplaceChunks
<1> QED BY <1>1, <1>2, <1>3, <1>4, EvidenceIsShown, TraceIsStored, AnswerIsTold, QueryFails DEF Next

(* A query keeps what it promises, whatever fails and whatever the worker  *)
(* does meanwhile: its evidence was in the table when an arm read it, its  *)
(* trace is stored once and before any answer, its answer is the one on    *)
(* the trace, citing what was shown as it was shown, and nothing of this   *)
(* is taken back; for any corpus, payloads, profiles and failures.         *)
THEOREM QueriesKeepTheirPromise == Spec => ImplementsAnswer
<1>1. Init => Promise!Init
  <2> SUFFICES ASSUME Init PROVE Promise!Init
    OBVIOUS
  <2>1. Searchable \in SUBSET Hit
    BY QueryAssumption DEF Init, Searchable, Hit
  <2> QED BY <2>1 DEF Init, Promise!Init, ReadByArm, PassagesIn, Stored, Told
<1> QED BY <1>1, NextImplementsAnswer, QueryInvHolds, ViewsInvHolds, PromiseInvariance, PTL
        DEF Spec, ImplementsAnswer, Promise!Spec
=============================================================================
