------------------------ MODULE QueryExecution_proofs ------------------------
(***************************************************************************)
(* The safety of one query, for every corpus, top_k, profile and set of    *)
(* answers of the model, whatever fails and whatever the worker does.      *)
(*                                                                         *)
(* QueryInv is inductive: Positions gives the shape of the collector at    *)
(* each await, HitsInv makes what the arms read rankings, OneArmInv says   *)
(* which arm a strategy leaves alone, and ResultsInv that evidence, answer *)
(* and response are still what was computed, though the chunks changed.    *)
(***************************************************************************)
EXTENDS QueryExecution, RankFusion_proofs, SequenceTheorems

USE DEF request, retrieval, generation, outcome, collector

Retrieving == pc \in {"embedding", "dense", "keyword", "ranking"}

\* How many spans are open and recorded at each await.
Positions ==
  /\ pc = "received" => sequence = 0 /\ stack = <<>> /\ spans = <<>>
  /\ Retrieving => sequence = 1 /\ (\E s : stack = <<s>>) /\ spans = <<>>
  /\ pc = "retrieved" => sequence = 1 /\ stack = <<>> /\ (\E s : spans = <<s>>)
  /\ pc = "generating" => sequence = 2 /\ (\E s : stack = <<s>>) /\ (\E s : spans = <<s>>)

\* Neither arm repeats a chunk, or returns more than it was asked for.
HitsInv ==
  \A a \in Arms : IsRanking(ChunksOf(hits[a])) /\ Len(hits[a]) <= profile.depth

\* A strategy of one arm leaves the other alone.
OneArmInv ==
  /\ pc \in {"embedding", "dense"} => strategy # "keyword"
  /\ pc = "keyword" => strategy # "semantic"
  /\ strategy = "keyword" => hits["semantic"] = <<>>
  /\ strategy = "semantic" => hits["keyword"] = <<>>

Answered == response # Unset /\ response.kind = "answer"

HasAnswer == (pc = "saving" /\ ~failed) \/ pc = "responding" \/ Answered

HasEvidence == pc \in {"retrieved", "generating"} \/ HasAnswer

ResultsInv ==
  /\ pc \notin {"saving", "done"} => ~failed
  /\ Answered => pc = "done"
  /\ HasEvidence => evidence = Retrieved
  /\ HasAnswer => \/ answer = NoEvidenceAnswer
                  \/ payload \in Payloads /\ answer = Answer(payload, ChunksOf(evidence))
  /\ Answered => response.claims = [i \in DOMAIN answer.claims |-> Citations(answer.claims[i])]

QueryInv == TypeOK /\ Positions /\ HitsInv /\ OneArmInv /\ ResultsInv
-----------------------------------------------------------------------------
(* The collector.                                                          *)

\* Leaving the one open span closes it and records one more.
LEMMA LeaveRecords ==
  ASSUME NEW ending \in Endings, Leave(ending), NEW s, stack = <<s>>
  PROVE  /\ stack' = <<>> /\ sequence' = sequence /\ raised' = ending
         /\ spans = <<>> => \E t : spans' = <<t>>
         /\ \A u : spans = <<u>> => Len(spans') = 2
<1>1. stack' = SubSeq(<<s>>, 1, 0) /\ sequence' = sequence /\ raised' = ending
  BY DEF Leave
<1>2. PICK t : spans' = Append(spans, t)
  BY DEF Leave
<1>3. spans = <<>> => spans' = <<t>>
  BY <1>2
<1>4. ASSUME NEW u, spans = <<u>> PROVE Len(spans') = 2
  <2>1. <<u>> \in Seq({u, t}) /\ Len(<<u>>) = 1
    OBVIOUS
  <2>2. Len(Append(<<u>>, t)) = 2
    BY <2>1, AppendProperties
  <2> QED BY <1>2, <1>4, <2>2
<1> QED BY <1>1, <1>3, <1>4

LEMMA EnterOpens ==
  ASSUME NEW stage, Enter(stage), stack = <<>>
  PROVE  /\ \E s : stack' = <<s>>
         /\ sequence' = sequence + 1 /\ spans' = spans /\ raised' = raised
  BY DEF Enter

(* What is retrieved.                                                      *)

\* A profile weighs both arms, and asks something of them.
LEMMA ProfileIsSound ==
  ASSUME TypeOK
  PROVE  /\ profile.weights \in [Arms -> Nat \ {0}]
         /\ profile.depth \in Nat \ {0}
         /\ strategy \in {"semantic", "keyword"} => profile.depth = TopK
         /\ strategy = "hybrid" => profile.weights = EqualWeights /\ profile.depth = FetchDepth(TopK)
<1>1. EqualWeights \in [Arms -> Nat \ {0}] /\ TopK \in Nat \ {0}
  BY QueryAssumption DEF EqualWeights
<1>2. FetchDepth(TopK) \in Nat \ {0}
  <2>1. TopK * FetchMultiplier \in Nat \ {0} /\ MinFetch \in Nat \ {0}
    BY <1>1, FusionAssumption, ProductIsPositive
  <2> QED BY <2>1 DEF FetchDepth
<1>3. profile \in ProfilesOf(strategy) /\ strategy \in Strategies
  BY DEF TypeOK
<1>4. CASE strategy = "adaptive"
  <2>1. PICK p \in Profiles : profile = [weights |-> p.weights, depth |-> TopK * p.multiplier]
    BY <1>3, <1>4 DEF ProfilesOf
  <2>2. p.weights \in [Arms -> Nat \ {0}] /\ p.multiplier \in Nat \ {0}
    BY QueryAssumption
  <2> QED BY <1>1, <1>4, <2>1, <2>2, ProductIsPositive
<1>5. CASE strategy = "hybrid"
  BY <1>1, <1>2, <1>3, <1>5 DEF ProfilesOf
<1>6. CASE strategy \in {"semantic", "keyword"}
  BY <1>1, <1>3, <1>6 DEF ProfilesOf
<1> QED BY <1>3, <1>4, <1>5, <1>6 DEF Strategies

LEMMA CorpusIsFinite ==
  ASSUME TypeOK, NEW S, S \subseteq DOMAIN corpus
  PROVE  Cardinality(S) \in Nat
<1>1. S \subseteq Chunks
  BY DEF TypeOK
<1> QED BY <1>1, QueryAssumption, FS_Subset, FS_CardinalityType

\* What an arm reads is a ranking no deeper than it was asked for.
LEMMA ReadsAreRankings ==
  ASSUME TypeOK, NEW rows, rows \subseteq DOMAIN corpus, NEW ranking \in ReadsOf(rows)
  PROVE  /\ ranking \in Seq(Hit) /\ IsRanking(ChunksOf(ranking))
         /\ Len(ranking) <= profile.depth
<1> DEFINE size == IF Cardinality(rows) < profile.depth THEN Cardinality(rows) ELSE profile.depth
<1>1. size \in Nat /\ size <= profile.depth
  BY CorpusIsFinite, ProfileIsSound
<1>2. PICK order \in [1..size -> rows] :
        /\ \A i, j \in 1..size : order[i] = order[j] => i = j
        /\ ranking = [i \in 1..size |-> [chunk |-> order[i], text |-> corpus[order[i]].text]]
  BY DEF ReadsOf
<1> HIDE DEF size
<1>3. ASSUME NEW i \in 1..size
      PROVE  ranking[i] \in Hit /\ ranking[i].chunk = order[i]
  <2>1. order[i] \in DOMAIN corpus
    BY <1>2
  <2>2. order[i] \in Chunks /\ corpus[order[i]].text \in 1..MaxText
    BY <2>1 DEF TypeOK
  <2> QED BY <1>2, <2>2 DEF Hit
<1>4. ranking \in [1..size -> Hit]
  BY <1>2, <1>3
<1>5. ranking \in Seq(Hit) /\ Len(ranking) = size /\ DOMAIN ranking = 1..size
  BY <1>1, <1>4
<1>6. IsRanking(ChunksOf(ranking))
  BY <1>2, <1>3, <1>5 DEF IsRanking, ChunksOf
<1> QED BY <1>1, <1>5, <1>6

\* The chunks of an arm, as fusion is given them.
Ranked == [a \in Arms |-> ChunksOf(hits[a])]

LEMMA RankedIsInput ==
  ASSUME TypeOK
  PROVE  /\ IsInput(Ranked, profile.weights)
         /\ Found(Ranked) \subseteq Chunks
         /\ \A a \in Arms : Len(Ranked[a]) = Len(hits[a]) /\ DOMAIN Ranked[a] = DOMAIN hits[a]
<1>1. ASSUME NEW a \in Arms
      PROVE  /\ Ranked[a] \in Seq(Chunks) /\ Len(Ranked[a]) = Len(hits[a])
             /\ DOMAIN Ranked[a] = DOMAIN hits[a] /\ FoundBy(Ranked[a]) \subseteq Chunks
  <2>1. hits[a] \in Seq(Hit) /\ Ranked[a] = [i \in DOMAIN hits[a] |-> hits[a][i].chunk]
    BY DEF TypeOK, Ranked, ChunksOf
  <2>2. Len(hits[a]) \in Nat /\ DOMAIN hits[a] = 1..Len(hits[a])
    BY <2>1
  <2>3. ASSUME NEW i \in DOMAIN hits[a] PROVE hits[a][i].chunk \in Chunks
    <3>1. hits[a][i] \in Hit
      BY <2>1, <2>2
    <3> QED BY <3>1 DEF Hit
  <2>4. Ranked[a] \in [1..Len(hits[a]) -> Chunks]
    BY <2>1, <2>2, <2>3
  <2>5. Ranked[a] \in Seq(Chunks) /\ Len(Ranked[a]) = Len(hits[a])
    BY <2>2, <2>4
  <2> QED BY <2>1, <2>3, <2>5 DEF FoundBy
<1>2. Seq(Chunks) \subseteq Seq(Nat)
  BY QueryAssumption, SeqMonotonic
<1>3. Ranked \in [Arms -> Seq(Nat)]
  BY <1>1, <1>2 DEF Ranked
<1> QED BY <1>1, <1>3, ProfileIsSound DEF IsInput, Found

\* Cutting keeps the beginning.
LEMMA CutKeeps ==
  ASSUME NEW S, NEW n \in Nat, NEW r \in [1..n -> S], NEW k \in Nat \ {0},
         NEW m \in Nat, m = IF n < k THEN n ELSE k
  PROVE  Cut(r, k) = [i \in 1..m |-> r[i]]
<1>1. r \in Seq(S) /\ Len(r) = n
  OBVIOUS
<1>2. Cut(r, k) = SubSeq(r, 1, m)
  BY <1>1 DEF Cut
<1>3. m \in 0..n
  OBVIOUS
<1>4. m \in Int /\ 1 \in Int /\ \A i \in 1..m : r[i] \in S
  BY <1>1, <1>3
<1>5. /\ SubSeq(r, 1, m) \in Seq(S)
      /\ Len(SubSeq(r, 1, m)) = IF 1 <= m THEN m - 1 + 1 ELSE 0
      /\ \A i \in 1..(m - 1 + 1) : SubSeq(r, 1, m)[i] = r[1 + i - 1]
  BY <1>4, SubSeqProperties
<1> DEFINE cut == SubSeq(r, 1, m)
<1>6. cut \in Seq(S) /\ Len(cut) = m /\ \A i \in 1..m : cut[i] = r[i]
  <2>1. m - 1 + 1 = m /\ \A i \in 1..m : 1 + i - 1 = i
    BY <1>3
  <2> QED BY <1>3, <1>5, <2>1
<1> HIDE DEF cut
<1>7. cut = [i \in 1..m |-> r[i]]
  BY <1>6
<1> QED BY <1>2, <1>7 DEF cut

\* The copy fusion keeps of a chunk is one of that chunk.
LEMMA ExemplarIsHit ==
  ASSUME TypeOK, NEW c \in Found(Ranked)
  PROVE  Exemplar(c) \in Hit /\ Exemplar(c).chunk = c
<1>1. ASSUME NEW a \in Arms, c \in FoundBy(ChunksOf(hits[a]))
      PROVE  /\ hits[a][Place(ChunksOf(hits[a]), c)] \in Hit
             /\ hits[a][Place(ChunksOf(hits[a]), c)].chunk = c
  <2>1. hits[a] \in Seq(Hit) /\ DOMAIN ChunksOf(hits[a]) = DOMAIN hits[a]
    BY DEF TypeOK, ChunksOf
  <2>2. /\ Place(ChunksOf(hits[a]), c) \in DOMAIN hits[a]
        /\ ChunksOf(hits[a])[Place(ChunksOf(hits[a]), c)] = c
    BY <1>1, <2>1 DEF FoundBy, Place
  <2> QED BY <2>1, <2>2 DEF ChunksOf
<1>2. c \in FoundBy(ChunksOf(hits["semantic"])) \/ c \in FoundBy(ChunksOf(hits["keyword"]))
  BY DEF Found, Ranked, Arms
<1> QED BY <1>1, <1>2 DEF Exemplar, Arms

\* What fused retrieval returns: the first m chunks of the fused ranking.
LEMMA FusedIsRetrieved ==
  ASSUME TypeOK, strategy \notin {"semantic", "keyword"}
  PROVE  LET fused == Fuse(Ranked, profile.weights)
             n == Cardinality(Found(Ranked))
         IN \E m \in 0..n :
              /\ n \in Nat /\ m = IF n < TopK THEN n ELSE TopK
              /\ Retrieved \in [1..m -> Hit]
              /\ \A i \in 1..m : Retrieved[i].chunk = fused[i]
<1> DEFINE fused == Fuse(Ranked, profile.weights)
           n == Cardinality(Found(Ranked))
<1>1. n \in Nat /\ fused \in [1..n -> Found(Ranked)]
  BY RankedIsInput, FusionIsARanking
<1>2. Retrieved = [i \in DOMAIN Cut(fused, TopK) |-> Exemplar(Cut(fused, TopK)[i])]
  BY DEF Retrieved, Ranked
<1> HIDE DEF fused, n
<1> DEFINE m == IF n < TopK THEN n ELSE TopK
<1>3. m = IF n < TopK THEN n ELSE TopK
  OBVIOUS
<1> HIDE DEF m
<1>4. m \in 0..n /\ Cut(fused, TopK) = [i \in 1..m |-> fused[i]]
  <2>1. TopK \in Nat \ {0}
    BY QueryAssumption
  <2>2. Cut(fused, TopK) = [i \in 1..m |-> fused[i]]
    <3>1. m \in Nat
      BY ONLY <1>1, <1>3, <2>1
    <3> QED BY ONLY <1>1, <1>3, <2>1, <3>1, CutKeeps
  <2> QED BY <1>1, <1>3, <2>1, <2>2
<1>5. ASSUME NEW i \in 1..m
      PROVE  Retrieved[i] \in Hit /\ Retrieved[i].chunk = fused[i]
  <2>1. fused[i] \in Found(Ranked)
    BY <1>1, <1>4
  <2>2. Retrieved[i] = Exemplar(fused[i])
    BY <1>2, <1>4
  <2> QED BY <2>1, <2>2, ExemplarIsHit
<1>6. Retrieved \in [1..m -> Hit]
  BY <1>2, <1>4, <1>5
<1> QED BY <1>1, <1>3, <1>4, <1>5, <1>6 DEF fused, n, m

\* Whatever the strategy, retrieval repeats no chunk and keeps to top_k.
LEMMA RetrievedIsRanking ==
  ASSUME TypeOK, HitsInv
  PROVE  Retrieved \in Seq(Hit) /\ Len(Retrieved) <= TopK /\ IsRanking(ChunksOf(Retrieved))
<1>1. CASE strategy = "semantic"
  <2>1. Retrieved = hits["semantic"]
    BY <1>1 DEF Retrieved
  <2> QED BY <1>1, <2>1, ProfileIsSound DEF TypeOK, HitsInv, Arms
<1>2. CASE strategy = "keyword"
  <2>1. Retrieved = hits["keyword"]
    BY <1>2 DEF Retrieved
  <2> QED BY <1>2, <2>1, ProfileIsSound DEF TypeOK, HitsInv, Arms
<1>3. CASE strategy \notin {"semantic", "keyword"}
  <2> DEFINE fused == Fuse(Ranked, profile.weights)
             n == Cardinality(Found(Ranked))
  <2>1. PICK m \in 0..n : /\ n \in Nat /\ m = IF n < TopK THEN n ELSE TopK
                          /\ Retrieved \in [1..m -> Hit]
                          /\ \A i \in 1..m : Retrieved[i].chunk = fused[i]
    BY <1>3, FusedIsRetrieved
  <2>2. \A i, j \in 1..n : fused[i] = fused[j] => i = j
    BY RankedIsInput, FusionIsARanking
  <2> HIDE DEF fused, n
  <2>3. Retrieved \in Seq(Hit) /\ Len(Retrieved) = m /\ DOMAIN Retrieved = 1..m
    BY <2>1
  <2>4. m <= TopK
    BY <2>1, QueryAssumption
  <2>5. IsRanking(ChunksOf(Retrieved))
    BY <2>1, <2>2, <2>3 DEF IsRanking, ChunksOf
  <2> QED BY <2>3, <2>4, <2>5
<1> QED BY <1>1, <1>2, <1>3
-----------------------------------------------------------------------------
LEMMA NextPositions ==
  ASSUME Positions, [Next]_vars
  PROVE  Positions'
<1>1. CASE StartRetrieval
  BY <1>1, EnterOpens DEF StartRetrieval, Positions, Retrieving
<1>2. CASE EndRetrieval
  BY <1>2, LeaveRecords DEF EndRetrieval, Positions, Retrieving, Endings
<1>3. CASE StartGeneration
  BY <1>3, EnterOpens DEF StartGeneration, Positions, Retrieving
<1>4. CASE AnswerWithoutEvidence
  BY <1>4 DEF AnswerWithoutEvidence, Positions, Retrieving
<1>5. ASSUME NEW p \in Payloads, ModelAnswers(p) PROVE Positions'
  BY <1>5 DEF ModelAnswers, Positions, Retrieving
<1>6. ASSUME NEW kind \in Failures, Fail(kind) \/ LoseSave(kind) PROVE Positions'
  BY <1>6 DEF Fail, LoseSave, Positions, Retrieving
<1>7. CASE Refuse \/ CatchDomainError \/ Propagate \/ SaveTrace \/ Respond
  BY <1>7 DEF Refuse, CatchDomainError, Propagate, SaveTrace, Respond, Positions, Retrieving
<1>8. CASE EmbedQuery \/ ReadDense \/ ReadKeyword
  BY <1>8 DEF EmbedQuery, ReadDense, ReadKeyword, Positions, Retrieving
<1>9. CASE EmbedChunks \/ \E kept \in SUBSET Chunks, text \in 2..MaxText : ReplaceChunks(kept, text)
  BY <1>9 DEF EmbedChunks, ReplaceChunks, Positions, Retrieving
<1>10. CASE UNCHANGED vars
  BY <1>10 DEF vars, Positions, Retrieving
<1> QED BY <1>1, <1>2, <1>3, <1>4, <1>5, <1>6, <1>7, <1>8, <1>9, <1>10 DEF Next
-----------------------------------------------------------------------------
(* The types.                                                              *)

LEMMA InitTypeOK == Init => TypeOK
<1> SUFFICES ASSUME Init PROVE TypeOK
  OBVIOUS
<1>1. \A c \in DOMAIN corpus : corpus[c] \in [text : 1..MaxText, embedded : BOOLEAN]
  BY QueryAssumption DEF Init
<1>2. DOMAIN corpus = Chunks
  BY DEF Init
<1>3. hits \in [Arms -> Seq(Hit)] /\ evidence \in Seq(Hit) /\ Len(evidence) <= TopK
  BY QueryAssumption DEF Init
<1>4. sequence \in 0..2 /\ Len(stack) <= 1 /\ Len(spans) <= 2 /\ raised \in Endings
  BY DEF Init, CollectorInit, Endings
<1> QED BY <1>1, <1>2, <1>3, <1>4 DEF Init, TypeOK

LEMMA ParseEndingIsEnding ==
  ASSUME NEW p
  PROVE  ParseEnding(p) \in Endings
  BY DEF ParseEnding, Endings, Raisable

\* Type correctness relies on the shape of the collector and on the arms.
LEMMA NextTypeOK ==
  ASSUME TypeOK, Positions, HitsInv, [Next]_vars
  PROVE  TypeOK'
<1>1. CASE StartRetrieval
  <2>1. sequence' = 1 /\ (\E s : stack' = <<s>>) /\ UNCHANGED <<spans, raised>>
    BY <1>1, EnterOpens DEF StartRetrieval, Positions
  <2> QED BY <1>1, <2>1 DEF StartRetrieval, TypeOK
<1>2. CASE EndRetrieval
  <2>1. stack' = <<>> /\ sequence' = sequence /\ raised' = "none" /\ \E t : spans' = <<t>>
    BY <1>2, LeaveRecords DEF EndRetrieval, Positions, Retrieving, Endings
  <2>2. evidence' \in Seq(Hit) /\ Len(evidence') <= TopK
    BY <1>2, RetrievedIsRanking DEF EndRetrieval
  <2> QED BY <1>2, <2>1, <2>2 DEF EndRetrieval, TypeOK, Endings
<1>3. CASE StartGeneration
  <2>1. sequence' = 2 /\ (\E s : stack' = <<s>>) /\ UNCHANGED <<spans, raised>>
    BY <1>3, EnterOpens DEF StartGeneration, Positions
  <2> QED BY <1>3, <2>1 DEF StartGeneration, TypeOK
<1>4. ASSUME NEW ending \in Endings, pc = "generating", Leave(ending)
      PROVE  sequence' \in 0..2 /\ Len(stack') <= 1 /\ Len(spans') <= 2 /\ raised' \in Endings
  <2>1. stack' = <<>> /\ sequence' = sequence /\ raised' = ending /\ Len(spans') = 2
    BY <1>4, LeaveRecords DEF Positions
  <2> QED BY <2>1 DEF TypeOK
<1>5. CASE AnswerWithoutEvidence
  BY <1>4, <1>5 DEF AnswerWithoutEvidence, TypeOK, Endings
<1>6. ASSUME NEW p \in Payloads, ModelAnswers(p) PROVE TypeOK'
  <2>1. sequence' \in 0..2 /\ Len(stack') <= 1 /\ Len(spans') <= 2 /\ raised' \in Endings
    BY <1>4, <1>6, ParseEndingIsEnding DEF ModelAnswers
  <2>2. pc' \in {"saving", "raising"} /\ payload' \in Payloads
    BY <1>6 DEF ModelAnswers
  <2> QED BY <1>6, <2>1, <2>2 DEF ModelAnswers, TypeOK
<1>7. ASSUME NEW kind \in Failures, Fail(kind) PROVE TypeOK'
  <2>1. kind \in Endings
    BY QueryAssumption DEF Endings
  <2>2. CASE pc = "generating"
    BY <1>4, <1>7, <2>1, <2>2 DEF Fail, TypeOK
  <2>3. CASE pc # "generating"
    <3>1. stack' = <<>> /\ sequence' = sequence /\ raised' = kind /\ \E t : spans' = <<t>>
      BY <1>7, <2>1, <2>3, LeaveRecords DEF Fail, Positions, Retrieving
    <3> QED BY <1>7, <2>1, <3>1 DEF Fail, TypeOK
  <2> QED BY <2>2, <2>3
<1>8. ASSUME NEW kind \in Failures, LoseSave(kind) PROVE TypeOK'
  BY <1>8 DEF LoseSave, TypeOK
<1>9. CASE ReadDense
  <2>1. \E ranking \in Seq(Hit) : hits' = [hits EXCEPT !["semantic"] = ranking]
    BY <1>9, ReadsAreRankings DEF ReadDense
  <2>2. hits' \in [Arms -> Seq(Hit)]
    BY <2>1 DEF TypeOK
  <2> QED BY <1>9, <2>2 DEF ReadDense, TypeOK
<1>10. CASE ReadKeyword
  <2>1. \E ranking \in Seq(Hit) : hits' = [hits EXCEPT !["keyword"] = ranking]
    BY <1>10, ReadsAreRankings DEF ReadKeyword
  <2>2. hits' \in [Arms -> Seq(Hit)]
    BY <2>1 DEF TypeOK
  <2> QED BY <1>10, <2>2 DEF ReadKeyword, TypeOK
<1>11. CASE CatchDomainError
  BY <1>11 DEF CatchDomainError, Catch, TypeOK, Endings
<1>12. CASE Refuse \/ EmbedQuery \/ Propagate \/ SaveTrace \/ Respond
  BY <1>12 DEF Refuse, EmbedQuery, Propagate, SaveTrace, Respond, TypeOK
<1>13. ASSUME NEW kept \in SUBSET Chunks, NEW text \in 2..MaxText, ReplaceChunks(kept, text)
       PROVE  TypeOK'
  <2>1. text \in 1..MaxText
    BY QueryAssumption
  <2>2. /\ DOMAIN corpus' = kept
        /\ \A c \in kept : corpus'[c] = [text |-> text, embedded |-> FALSE]
    BY <1>13 DEF ReplaceChunks
  <2>3. \A c \in DOMAIN corpus' : corpus'[c] \in [text : 1..MaxText, embedded : BOOLEAN]
    <3>1. FALSE \in BOOLEAN
      OBVIOUS
    <3>2. [text |-> text, embedded |-> FALSE] \in [text : 1..MaxText, embedded : BOOLEAN]
      BY <2>1, <3>1, Zenon
    <3> QED BY <2>2, <3>2, Zenon
  <2> QED BY <1>13, <2>2, <2>3 DEF ReplaceChunks, TypeOK
<1>14. CASE EmbedChunks
  <2>1. /\ DOMAIN corpus' = DOMAIN corpus
        /\ \A c \in DOMAIN corpus : corpus'[c] = [corpus[c] EXCEPT !.embedded = TRUE]
    BY <1>14 DEF EmbedChunks
  <2>2. \A c \in DOMAIN corpus' : corpus'[c] \in [text : 1..MaxText, embedded : BOOLEAN]
    BY <2>1 DEF TypeOK
  <2> QED BY <1>14, <2>1, <2>2 DEF EmbedChunks, TypeOK
<1>15. CASE UNCHANGED vars
  BY <1>15 DEF vars, TypeOK
<1> QED BY <1>1, <1>2, <1>3, <1>5, <1>6, <1>7, <1>8, <1>9, <1>10, <1>11, <1>12, <1>13,
           <1>14, <1>15 DEF Next
-----------------------------------------------------------------------------
(* The arms.                                                               *)

LEMMA NextHitsInv ==
  ASSUME TypeOK, HitsInv, [Next]_vars
  PROVE  HitsInv'
<1>1. ASSUME NEW a \in Arms, NEW ranking, hits' = [hits EXCEPT ![a] = ranking],
             IsRanking(ChunksOf(ranking)), Len(ranking) <= profile.depth, profile' = profile
      PROVE  HitsInv'
  <2>1. hits' \in [Arms -> Seq(Hit) \cup {ranking}] /\ hits'[a] = ranking
        /\ \A b \in Arms \ {a} : hits'[b] = hits[b]
    BY <1>1 DEF TypeOK
  <2> QED BY <1>1, <2>1 DEF HitsInv
<1>2. CASE ReadDense
  <2>1. PICK ranking : /\ hits' = [hits EXCEPT !["semantic"] = ranking]
                       /\ IsRanking(ChunksOf(ranking)) /\ Len(ranking) <= profile.depth
    BY <1>2, ReadsAreRankings DEF ReadDense
  <2> QED BY <1>1, <1>2, <2>1 DEF ReadDense, Arms
<1>3. CASE ReadKeyword
  <2>1. PICK ranking : /\ hits' = [hits EXCEPT !["keyword"] = ranking]
                       /\ IsRanking(ChunksOf(ranking)) /\ Len(ranking) <= profile.depth
    BY <1>3, ReadsAreRankings DEF ReadKeyword
  <2> QED BY <1>1, <1>3, <2>1 DEF ReadKeyword, Arms
<1>4. CASE UNCHANGED <<hits, profile>>
  BY <1>4 DEF HitsInv
<1>5. ReadDense \/ ReadKeyword \/ UNCHANGED <<hits, profile>>
  BY DEF Next, vars, Refuse, StartRetrieval, EmbedQuery, EndRetrieval, StartGeneration,
         AnswerWithoutEvidence, ModelAnswers, Fail, LoseSave, CatchDomainError, Propagate,
         SaveTrace, Respond, ReplaceChunks, EmbedChunks
<1> QED BY <1>2, <1>3, <1>4, <1>5

LEMMA NextOneArmInv ==
  ASSUME TypeOK, OneArmInv, [Next]_vars
  PROVE  OneArmInv'
<1>1. CASE StartRetrieval
  BY <1>1 DEF StartRetrieval, OneArmInv, EMBEDDING_STRATEGIES
<1>2. CASE EmbedQuery
  BY <1>2 DEF EmbedQuery, OneArmInv
<1>3. CASE ReadDense
  <2>1. /\ hits'["keyword"] = hits["keyword"] /\ strategy' = strategy /\ strategy # "keyword"
        /\ pc' = IF strategy = "semantic" THEN "ranking" ELSE "keyword"
    BY <1>3 DEF ReadDense, OneArmInv, TypeOK, Arms
  <2> QED BY <2>1 DEF OneArmInv
<1>4. CASE ReadKeyword
  <2>1. /\ hits'["semantic"] = hits["semantic"] /\ strategy' = strategy /\ strategy # "semantic"
        /\ pc' = "ranking"
    BY <1>4 DEF ReadKeyword, OneArmInv, TypeOK, Arms
  <2> QED BY <2>1 DEF OneArmInv
<1>5. CASE UNCHANGED <<hits, strategy>> /\ pc' \notin {"embedding", "dense", "keyword"}
  BY <1>5 DEF OneArmInv
<1>6. CASE UNCHANGED <<hits, strategy, pc>>
  BY <1>6 DEF OneArmInv
<1>7. \/ StartRetrieval \/ EmbedQuery \/ ReadDense \/ ReadKeyword
      \/ UNCHANGED <<hits, strategy>> /\ pc' \notin {"embedding", "dense", "keyword"}
      \/ UNCHANGED <<hits, strategy, pc>>
  BY DEF Next, vars, Refuse, EndRetrieval, StartGeneration, AnswerWithoutEvidence, ModelAnswers,
         Fail, LoseSave, CatchDomainError, Propagate, SaveTrace, Respond, ReplaceChunks, EmbedChunks
<1> QED BY <1>1, <1>2, <1>3, <1>4, <1>5, <1>6, <1>7
-----------------------------------------------------------------------------
(* The results.                                                            *)

\* What retrieval returns depends on the request and the arms alone.
LEMMA RetrievedStays ==
  ASSUME UNCHANGED <<strategy, profile, hits>>
  PROVE  Retrieved' = Retrieved
  BY DEF Retrieved, Exemplar, ChunksOf, FoundBy, Place

Cited == [i \in DOMAIN answer.claims |-> Citations(answer.claims[i])]

\* What is cited depends on answer and evidence alone.
LEMMA CitedStays ==
  ASSUME UNCHANGED <<evidence, answer>>
  PROVE  Cited' = Cited
  BY DEF Cited, Citations, ById, ChunksOf, FoundBy

\* Once there are results nothing they were computed from changes.
LEMMA ResultsStay ==
  ASSUME ResultsInv, UNCHANGED <<request, hits, evidence, answer, payload, response>>,
         HasEvidence' => HasEvidence, HasAnswer' => HasAnswer,
         pc' \notin {"saving", "done"} => ~failed', Answered => pc' = "done"
  PROVE  ResultsInv'
<1>1. Retrieved' = Retrieved /\ Cited' = Cited
  BY RetrievedStays, CitedStays
<1>2. Answered' = Answered /\ ChunksOf(evidence') = ChunksOf(evidence)
  BY DEF Answered, Unset
<1>3. HasEvidence' => evidence' = Retrieved'
  BY <1>1 DEF ResultsInv
<1>4. HasAnswer' => \/ answer' = NoEvidenceAnswer
                    \/ payload' \in Payloads /\ answer' = Answer(payload', ChunksOf(evidence'))
  BY <1>2 DEF ResultsInv
<1>5. Answered' => response'.claims = Cited'
  BY <1>1, <1>2 DEF ResultsInv, Cited
<1> QED BY <1>2, <1>3, <1>4, <1>5 DEF ResultsInv, Cited

LEMMA NextResultsInv ==
  ASSUME ResultsInv, [Next]_vars
  PROVE  ResultsInv'
<1>1. CASE EndRetrieval
  <2>1. /\ UNCHANGED <<request, hits, response, failed>> /\ evidence' = Retrieved
        /\ pc = "ranking" /\ pc' = "retrieved"
    BY <1>1 DEF EndRetrieval
  <2>2. evidence' = Retrieved' /\ ~failed' /\ ~Answered'
    BY <2>1, RetrievedStays DEF ResultsInv, Answered, Unset
  <2>3. ~HasAnswer'
    BY <2>1, <2>2 DEF HasAnswer
  <2> QED BY <2>1, <2>2, <2>3 DEF ResultsInv
<1>2. ASSUME ~failed, pc = "generating", pc' = "saving", ~Answered, UNCHANGED <<request, hits, evidence, failed, response>>,
             ResultsInv,
             \/ answer' = NoEvidenceAnswer
             \/ payload' \in Payloads /\ answer' = Answer(payload', ChunksOf(evidence'))
      PROVE  ResultsInv'
  <2>1. evidence' = Retrieved' /\ ~Answered' /\ ~failed'
    BY <1>2, RetrievedStays DEF ResultsInv, HasEvidence, Answered, Unset
  <2> QED BY <1>2, <2>1 DEF ResultsInv
<1>3. pc = "generating" => ~failed /\ ~Answered
  BY DEF ResultsInv
<1>4. CASE AnswerWithoutEvidence
  BY <1>2, <1>3, <1>4 DEF AnswerWithoutEvidence
<1>5. ASSUME NEW p \in Payloads, ModelAnswers(p) PROVE ResultsInv'
  <2>1. CASE ParseEnding(p) = "none"
    BY <1>2, <1>3, <1>5, <2>1 DEF ModelAnswers
  <2>2. CASE ParseEnding(p) # "none"
    <3>1. pc' = "raising" /\ UNCHANGED <<failed, response>> /\ pc = "generating"
      BY <1>5, <2>2 DEF ModelAnswers
    <3>2. ~failed' /\ ~Answered' /\ ~HasAnswer' /\ ~HasEvidence'
      BY <1>3, <3>1 DEF Answered, Unset, HasAnswer, HasEvidence
    <3> QED BY <3>1, <3>2 DEF ResultsInv
  <2> QED BY <2>1, <2>2
<1>6. ASSUME response' = [kind |-> "error"], pc' = "done"
      PROVE  ResultsInv'
  <2>1. ~Answered' /\ ~HasAnswer' /\ ~HasEvidence'
    BY <1>6 DEF Answered, HasAnswer, HasEvidence
  <2> QED BY <1>6, <2>1 DEF ResultsInv
<1>7. CASE Refuse \/ Propagate \/ \E kind \in Failures : LoseSave(kind)
  BY <1>6, <1>7 DEF Refuse, Propagate, LoseSave
<1>8. CASE SaveTrace
  <2>1. CASE failed
    BY <1>6, <1>8, <2>1 DEF SaveTrace
  <2>2. CASE ~failed
    <3>1. pc = "saving" /\ pc' = "responding" /\ ~Answered
      BY <1>8, <2>2 DEF SaveTrace, ResultsInv
    <3>2. UNCHANGED <<request, hits, evidence, answer, payload, response, failed>>
      BY <1>8, <2>2 DEF SaveTrace
    <3> QED BY <2>2, <3>1, <3>2, ResultsStay DEF HasEvidence, HasAnswer
  <2> QED BY <2>1, <2>2
<1>9. CASE Respond
  <2>1. /\ pc = "responding" /\ pc' = "done"
        /\ UNCHANGED <<request, hits, evidence, answer, payload, failed>>
        /\ response'.claims = Cited
    BY <1>9 DEF Respond, Cited
  <2>2. evidence' = Retrieved' /\ response'.claims = Cited' /\ ChunksOf(evidence') = ChunksOf(evidence)
    BY <2>1, RetrievedStays, CitedStays DEF ResultsInv, HasEvidence, HasAnswer
  <2>3. \/ answer' = NoEvidenceAnswer
        \/ payload' \in Payloads /\ answer' = Answer(payload', ChunksOf(evidence'))
    BY <2>1, <2>2 DEF ResultsInv, HasAnswer
  <2> QED BY <2>1, <2>2, <2>3 DEF ResultsInv, Cited
<1>10. CASE CatchDomainError
  <2>1. /\ pc = "raising" /\ pc' = "saving" /\ failed' = TRUE /\ UNCHANGED response
    BY <1>10 DEF CatchDomainError
  <2>2. ~Answered' /\ ~HasAnswer' /\ ~HasEvidence'
    BY <2>1 DEF ResultsInv, Answered, Unset, HasAnswer, HasEvidence
  <2> QED BY <2>1, <2>2 DEF ResultsInv
<1>11. CASE StartRetrieval \/ EmbedQuery \/ ReadDense \/ ReadKeyword \/ \E kind \in Failures : Fail(kind)
  <2>1. /\ UNCHANGED <<failed, response>> /\ pc \notin {"saving", "done"}
        /\ pc' \in {"embedding", "dense", "keyword", "ranking", "raising"}
    BY <1>11 DEF StartRetrieval, EmbedQuery, ReadDense, ReadKeyword, Fail
  <2>2. ~failed' /\ ~Answered' /\ ~HasAnswer' /\ ~HasEvidence'
    BY <2>1 DEF ResultsInv, Answered, Unset, HasAnswer, HasEvidence
  <2> QED BY <2>1, <2>2 DEF ResultsInv
<1>12. CASE StartGeneration
  <2>1. /\ pc = "retrieved" /\ pc' = "generating"
        /\ UNCHANGED <<request, hits, evidence, answer, payload, response, failed>>
    BY <1>12 DEF StartGeneration
  <2> QED BY <2>1, ResultsStay DEF ResultsInv, HasEvidence, HasAnswer, Answered, Unset
<1>13. CASE \/ EmbedChunks \/ UNCHANGED vars
            \/ \E kept \in SUBSET Chunks, text \in 2..MaxText : ReplaceChunks(kept, text)
  <2>1. UNCHANGED <<pc, request, hits, evidence, answer, payload, response, failed>>
    BY <1>13 DEF EmbedChunks, ReplaceChunks, vars
  <2> QED BY <2>1, ResultsStay DEF ResultsInv, HasEvidence, HasAnswer, Answered, Unset
<1> QED BY <1>1, <1>4, <1>5, <1>7, <1>8, <1>9, <1>10, <1>11, <1>12, <1>13 DEF Next
-----------------------------------------------------------------------------
(* The theorems.                                                           *)

\* Init is in no state with results.
LEMMA InitQueryInv == Init => QueryInv
<1> SUFFICES ASSUME Init PROVE QueryInv
  OBVIOUS
<1>1. Positions
  BY DEF Init, Positions, Retrieving, CollectorInit
<1>2. HitsInv
  <2>1. TypeOK /\ \A a \in Arms : hits[a] = <<>>
    BY InitTypeOK DEF Init
  <2> QED BY <2>1, ProfileIsSound DEF HitsInv, IsRanking, ChunksOf
<1>3. ResultsInv
  BY DEF Init, ResultsInv, HasEvidence, HasAnswer, Answered
<1>4. OneArmInv
  BY DEF Init, OneArmInv, Arms
<1> QED BY <1>1, <1>2, <1>3, <1>4, InitTypeOK DEF QueryInv

\* One query, whatever fails and whatever happens to the chunks, keeps QueryInv.
THEOREM QueryInvHolds == Spec => []QueryInv
<1>1. QueryInv /\ [Next]_vars => QueryInv'
  BY NextTypeOK, NextPositions, NextHitsInv, NextOneArmInv, NextResultsInv DEF QueryInv
<1> QED BY <1>1, InitQueryInv, PTL DEF Spec

(* Every variable keeps its type: above all retrieval returns hits of the  *)
(* project's chunks and never more than top_k (hybrid.py:66-67).           *)
THEOREM TypeCorrect == Spec => []TypeOK
<1>1. QueryInv => TypeOK
  BY DEF QueryInv
<1> QED BY <1>1, QueryInvHolds, PTL
-----------------------------------------------------------------------------
\* In a ranking the hit of a chunk is the one hit it has.
LEMMA ByIdFinds ==
  ASSUME IsRanking(ChunksOf(evidence)), evidence \in Seq(Hit), NEW n \in DOMAIN evidence
  PROVE  ById(evidence[n].chunk) = evidence[n]
<1>1. DOMAIN ChunksOf(evidence) = DOMAIN evidence
  BY DEF ChunksOf
<1>2. \A j \in DOMAIN evidence : evidence[j].chunk = evidence[n].chunk => j = n
  BY <1>1 DEF IsRanking, ChunksOf
<1>3. n <= n
  OBVIOUS
<1> DEFINE m == CHOOSE i \in DOMAIN evidence :
                  /\ evidence[i].chunk = evidence[n].chunk
                  /\ \A j \in DOMAIN evidence : evidence[j].chunk = evidence[n].chunk => j <= i
<1>4. m \in DOMAIN evidence /\ evidence[m].chunk = evidence[n].chunk
  BY <1>2, <1>3
<1>5. m = n
  BY <1>2, <1>4
<1> QED BY <1>5 DEF ById

\* What a claim is resolved to are chunks at the positions it cites.
LEMMA ResolvedWasCited ==
  ASSUME NEW shown, NEW n \in Nat, Len(shown) = n, DOMAIN shown = 1..n,
         NEW cites \in Seq(Int), NEW c \in Resolved(cites, shown)
  PROVE  \E k \in DOMAIN cites, i \in 1..n : cites[k] = i - 1 /\ c = shown[i]
<1>1. PICK k \in DOMAIN cites : 0 <= cites[k] /\ cites[k] < n /\ c = shown[cites[k] + 1]
  BY DEF Resolved, IsPassage
<1>2. cites[k] \in Int
  OBVIOUS
<1>3. cites[k] + 1 \in 1..n /\ cites[k] = (cites[k] + 1) - 1
  BY <1>1, <1>2
<1> QED BY <1>1, <1>3

(* No answer ever cites what the model was not shown, or did not cite in   *)
(* that claim, whatever it invents and whatever becomes of the chunks      *)
(* (query.py:182-194, grounded.py:149-175).                                *)
THEOREM CitationsAreSound == Spec => []CitationsWereShown
<1>1. QueryInv => CitationsWereShown
  <2>1. SUFFICES ASSUME QueryInv, Answered,
                        NEW i \in DOMAIN response.claims, NEW citation \in response.claims[i]
                 PROVE  \E j \in DOMAIN payload.claims, n \in DOMAIN evidence :
                          /\ \E k \in DOMAIN payload.claims[j].cites : payload.claims[j].cites[k] = n - 1
                          /\ payload.claims[j].text
                          /\ evidence[n] = citation
    BY DEF CitationsWereShown, Answered
  <2>2. /\ evidence \in Seq(Hit) /\ IsRanking(ChunksOf(evidence))
        /\ response.claims = [k \in DOMAIN answer.claims |-> Citations(answer.claims[k])]
    BY <2>1, RetrievedIsRanking DEF QueryInv, ResultsInv, HasEvidence, HasAnswer
  <2>3. i \in DOMAIN answer.claims /\ citation \in Citations(answer.claims[i])
    BY <2>1, <2>2
  <2>4. PICK c \in answer.claims[i] : citation = ById(c)
    BY <2>3 DEF Citations
  <2>5. payload \in Payloads /\ answer = Answer(payload, ChunksOf(evidence))
    <3>1. answer # NoEvidenceAnswer
      BY <2>3 DEF NoEvidenceAnswer
    <3> QED BY <2>1, <3>1 DEF QueryInv, ResultsInv, HasAnswer
  <2>6. answer.claims = Claims(payload, ChunksOf(evidence))
    BY <2>5 DEF Answer
  <2>7. /\ i \in DOMAIN payload.claims /\ payload.claims[i].text
        /\ c \in Resolved(payload.claims[i].cites, ChunksOf(evidence))
    BY <2>3, <2>4, <2>6 DEF Claims, Kept
  <2>8. payload.claims[i].cites \in Seq(Int)
    <3>1. payload.claims \in Seq([text : BOOLEAN, cites : Seq(Int)])
      BY <2>5, QueryAssumption
    <3> DEFINE claims == payload.claims
               T == [text : BOOLEAN, cites : Seq(Int)]
    <3> HIDE DEF T
    <3>2. i \in 1..Len(claims) /\ claims \in Seq(T)
      BY <2>7, <3>1 DEF T
    <3>3. claims[i] \in T
      BY <3>2, ElementOfSeq
    <3>4. payload.claims[i] \in [text : BOOLEAN, cites : Seq(Int)]
      BY <3>3 DEF T
    <3> QED BY <3>4, Zenon
  <2>9. PICK k \in DOMAIN payload.claims[i].cites, n \in 1..Len(evidence) :
          payload.claims[i].cites[k] = n - 1 /\ c = ChunksOf(evidence)[n]
    <3>1. /\ Len(evidence) \in Nat /\ DOMAIN evidence = 1..Len(evidence)
          /\ ChunksOf(evidence) = [m \in 1..Len(evidence) |-> evidence[m].chunk]
      BY <2>2 DEF ChunksOf
    <3>2. DOMAIN ChunksOf(evidence) = 1..Len(evidence) /\ Len(ChunksOf(evidence)) = Len(evidence)
      BY <3>1
    <3> DEFINE shown == ChunksOf(evidence)
               m == Len(evidence)
               cites == payload.claims[i].cites
    <3>3. m \in Nat /\ Len(shown) = m /\ DOMAIN shown = 1..m /\ cites \in Seq(Int) /\ c \in Resolved(cites, shown)
      BY <2>7, <2>8, <3>1, <3>2
    <3> HIDE DEF shown, m, cites
    <3>4. \E k \in DOMAIN cites, n \in 1..m : cites[k] = n - 1 /\ c = shown[n]
      BY <3>3, ResolvedWasCited
    <3> QED BY <3>4 DEF shown, m, cites
  <2>10. n \in DOMAIN evidence /\ c = evidence[n].chunk
    BY <2>2, <2>9 DEF ChunksOf
  <2>11. evidence[n] = citation
    BY <2>2, <2>4, <2>10, ByIdFinds
  <2> QED BY <2>7, <2>9, <2>10, <2>11
<1> QED BY <1>1, QueryInvHolds, PTL

\* Of two chunks found, one that outranks the other is retrieved before it.
LEMMA OutrankingIsRetrievedFirst ==
  ASSUME TypeOK, strategy \notin {"semantic", "keyword"}, evidence = Retrieved,
         NEW c \in Found(Ranked), NEW d \in Found(Ranked), c # d,
         Outranks(Ranked, profile.weights, c, d), InEvidence(d)
  PROVE  Precedes(c, d)
<1> DEFINE fused == Fuse(Ranked, profile.weights)
           n == Cardinality(Found(Ranked))
<1>1. IsInput(Ranked, profile.weights) /\ Found(Ranked) \subseteq Nat
  BY RankedIsInput, FoundIsFinite
<1>2. /\ n \in Nat
      /\ \A b \in Found(Ranked) : \E i \in 1..n : fused[i] = b
      /\ \A i, j \in 1..n : fused[i] = fused[j] => i = j
      /\ \A i, j \in 1..n : i < j => Outranks(Ranked, profile.weights, fused[i], fused[j])
  BY <1>1, FusionIsARanking
<1>3. PICK m \in 0..n : /\ Retrieved \in [1..m -> Hit]
                        /\ \A i \in 1..m : Retrieved[i].chunk = fused[i]
  BY FusedIsRetrieved
<1>4. ~Outranks(Ranked, profile.weights, d, c)
  BY <1>1, OutranksIsTotal
<1> HIDE DEF fused, n
<1>5. PICK i \in 1..n : fused[i] = c
  BY <1>2
<1>6. PICK j \in 1..m : fused[j] = d
  BY <1>3 DEF InEvidence
<1>7. j \in 1..n /\ ~(j < i) /\ i # j
  BY <1>2, <1>3, <1>4, <1>5, <1>6
<1>8. i \in 1..m /\ i < j
  BY <1>2, <1>3, <1>6, <1>7
<1>9. \A k \in 1..i : evidence[k].chunk # d
  BY <1>2, <1>3, <1>6, <1>8
<1> QED BY <1>3, <1>5, <1>8, <1>9 DEF Precedes

(* With hybrid retrieval what both arms found precedes what one arm found, *)
(* for every corpus and top_k, if no arm is deeper than K + 1              *)
(* (fusion.py:34-36, hybrid.py:15-20).                                     *)
THEOREM AgreementAlwaysWins ==
  ASSUME FetchDepth(TopK) <= K + 1
  PROVE  Spec => []AgreementWins
<1>1. QueryInv => AgreementWins
  <2>1. SUFFICES ASSUME QueryInv, IsRetrieved, strategy = "hybrid",
                        NEW c \in Chunks, NEW d \in Chunks,
                        \A a \in Arms : FoundIn(c, a),
                        NEW a1 \in Arms, FoundIn(d, a1),
                        NEW a2 \in Arms, ~FoundIn(d, a2),
                        InEvidence(d)
                 PROVE  Precedes(c, d)
    BY DEF AgreementWins
  <2>2. TypeOK /\ evidence = Retrieved /\ profile.weights = EqualWeights
    BY <2>1, ProfileIsSound DEF QueryInv, ResultsInv, IsRetrieved, HasEvidence, HasAnswer
  <2>3. IsInput(Ranked, EqualWeights) /\ \A a \in Arms : Len(Ranked[a]) <= K + 1
    <3>1. profile.depth = FetchDepth(TopK) /\ profile.depth \in Nat
      BY <2>1, <2>2, ProfileIsSound
    <3>2. \A a \in Arms : Len(hits[a]) \in Nat /\ Len(hits[a]) <= profile.depth
      BY <2>1, <2>2 DEF QueryInv, HitsInv, TypeOK
    <3> QED BY <2>2, <3>1, <3>2, RankedIsInput, FusionAssumption
  <2>4. /\ \A a \in Arms : c \in FoundBy(Ranked[a])
        /\ d \in FoundBy(Ranked[a1]) /\ d \notin FoundBy(Ranked[a2])
    BY <2>1 DEF FoundIn, Ranked
  <2>5. Outranks(Ranked, EqualWeights, c, d)
    BY <2>3, <2>4, AgreementOutranks
  <2>6. c \in Found(Ranked) /\ d \in Found(Ranked) /\ c # d
    BY <2>4 DEF Found
  <2> QED BY <2>1, <2>2, <2>5, <2>6, OutrankingIsRetrievedFirst
<1> QED BY <1>1, QueryInvHolds, PTL

\* A ranking finds as many chunks as it has places.
LEMMA RankingFindsItsLength ==
  ASSUME NEW r \in Seq(Nat), IsRanking(r)
  PROVE  Cardinality(FoundBy(r)) = Len(r)
<1>1. PICK n \in Nat : n = Len(r) /\ DOMAIN r = 1..n /\ r \in [1..n -> Nat]
  OBVIOUS
<1>2. FoundBy(r) = {r[i] : i \in 1..n}
  BY ONLY <1>1 DEF FoundBy
<1>3. \A i, j \in 1..n : r[i] = r[j] => i = j
  BY ONLY <1>1, IsRanking(r) DEF IsRanking
<1>4. r \in [1..n -> FoundBy(r)] /\ \A c \in FoundBy(r) : \E i \in 1..n : r[i] = c
  BY ONLY <1>1, <1>2
<1>5. r \in Injection(1..n, FoundBy(r)) /\ r \in Surjection(1..n, FoundBy(r))
  BY ONLY <1>3, <1>4 DEF Injection, IsInjective, Surjection
<1>6. IsFiniteSet(1..n) /\ Cardinality(1..n) = n
  BY ONLY n \in Nat, FS_Interval
<1>7. Cardinality(FoundBy(r)) = Cardinality(1..n)
  BY ONLY <1>5, <1>6, FS_Surjection
<1> QED BY ONLY <1>1, <1>6, <1>7

\* The place of a hit in its arm.
LEMMA PlaceInArm ==
  ASSUME TypeOK, HitsInv, NEW a \in Arms, NEW i \in DOMAIN hits[a]
  PROVE  /\ hits[a][i].chunk \in FoundBy(Ranked[a])
         /\ Place(Ranked[a], hits[a][i].chunk) = i
<1>1. /\ DOMAIN Ranked[a] = DOMAIN hits[a] /\ Ranked[a][i] = hits[a][i].chunk
      /\ IsRanking(Ranked[a]) /\ Ranked[a] \in Seq(Nat)
  BY RankedIsInput DEF Ranked, ChunksOf, HitsInv, IsInput
<1>2. Ranked[a][i] \in FoundBy(Ranked[a])
  BY <1>1 DEF FoundBy
<1>3. /\ Place(Ranked[a], Ranked[a][i]) \in DOMAIN Ranked[a]
      /\ Ranked[a][Place(Ranked[a], Ranked[a][i])] = Ranked[a][i]
  BY <1>1, <1>2, PlaceIsThere
<1> QED BY <1>1, <1>2, <1>3 DEF IsRanking

(* Whatever the strategy, retrieval repeats no chunk, leaves none out      *)
(* while there is room, and keeps the order of chunks which the same one   *)
(* arm found (hybrid.py:62-67).                                            *)
THEOREM ArmOrderIsKept == Spec => []ArmsKeepTheirOrder
<1>1. QueryInv => ArmsKeepTheirOrder
  <2> SUFFICES ASSUME QueryInv, IsRetrieved PROVE ArmsKeepTheirOrder
    BY DEF ArmsKeepTheirOrder
  <2>1. TypeOK /\ HitsInv /\ OneArmInv /\ evidence = Retrieved
    BY DEF QueryInv, ResultsInv, IsRetrieved, HasEvidence, HasAnswer
  <2>2. \A i, j \in DOMAIN evidence : evidence[i].chunk = evidence[j].chunk => i = j
    BY <2>1, RetrievedIsRanking DEF IsRanking, ChunksOf
  <2> DEFINE found == {c \in Chunks : \E a \in Arms : FoundIn(c, a)}
  <2>3. found = Found(Ranked)
    BY <2>1, RankedIsInput DEF Found, FoundIn, Ranked
  <2>4. ASSUME NEW a \in Arms, evidence = hits[a], profile.depth = TopK,
               \A b \in Arms \ {a} : hits[b] = <<>>
        PROVE  /\ Len(evidence) = IF Cardinality(found) < TopK THEN Cardinality(found) ELSE TopK
               /\ \A b \in Arms : \A i, j \in DOMAIN hits[b] :
                    i < j => Precedes(hits[b][i].chunk, hits[b][j].chunk)
    <3>1. found = FoundBy(Ranked[a])
      <4>1. \A b \in Arms \ {a} : FoundBy(Ranked[b]) = {}
        <5>1. \A b \in Arms \ {a} : hits[b] = <<>> /\ DOMAIN Ranked[b] = DOMAIN hits[b]
          BY <2>4 DEF Ranked, ChunksOf
        <5>2. DOMAIN <<>> = {}
          OBVIOUS
        <5> QED BY <5>1, <5>2 DEF FoundBy
      <4> QED BY <2>3, <4>1 DEF Found
    <3>2. Ranked[a] \in Seq(Nat) /\ IsRanking(Ranked[a]) /\ Len(Ranked[a]) = Len(evidence)
      BY <2>1, <2>4, RankedIsInput DEF IsInput, HitsInv, Ranked
    <3>3. Cardinality(found) = Len(evidence) /\ Len(evidence) \in Nat /\ Len(evidence) <= TopK
      <4>1. Len(evidence) <= TopK
        BY <2>1, <2>4 DEF HitsInv
      <4>2. Len(Ranked[a]) \in Nat
        BY <3>2
      <4>3. Cardinality(FoundBy(Ranked[a])) = Len(Ranked[a])
        BY <3>2, RankingFindsItsLength
      <4> HIDE DEF found
      <4> QED BY <3>1, <3>2, <4>1, <4>2, <4>3
    <3>4. ASSUME NEW b \in Arms, NEW i \in DOMAIN hits[b], NEW j \in DOMAIN hits[b], i < j
          PROVE  Precedes(hits[b][i].chunk, hits[b][j].chunk)
      <4>1. b = a
        BY <2>4
      <4>2. DOMAIN evidence = 1..Len(evidence) /\ i \in DOMAIN evidence /\ j \in DOMAIN evidence
        BY <2>1, <2>4, <4>1 DEF TypeOK
      <4>3. \A k \in 1..i : evidence[k].chunk # evidence[j].chunk
        BY <2>2, <3>3, <3>4, <4>2
      <4> QED BY <2>4, <4>1, <4>2, <4>3 DEF Precedes
    <3>5. TopK \in Nat
      BY QueryAssumption
    <3> HIDE DEF found
    <3>6. Len(evidence) = IF Cardinality(found) < TopK THEN Cardinality(found) ELSE TopK
      BY <3>3, <3>5
    <3> QED BY <3>4, <3>6
  <2>5. CASE strategy \in {"semantic", "keyword"}
    <3>1. strategy \in Arms /\ evidence = hits[strategy] /\ \A b \in Arms \ {strategy} : hits[b] = <<>>
      BY <2>1, <2>5 DEF Retrieved, OneArmInv, Arms
    <3>2. profile.depth = TopK
      BY <2>1, <2>5, ProfileIsSound
    <3> QED BY <2>2, <2>4, <3>1, <3>2 DEF ArmsKeepTheirOrder
  <2>6. CASE strategy \notin {"semantic", "keyword"}
    <3>1. Len(evidence) = IF Cardinality(found) < TopK THEN Cardinality(found) ELSE TopK
      <4> DEFINE n == Cardinality(Found(Ranked))
      <4>1. PICK m \in 0..n : /\ n \in Nat /\ m = IF n < TopK THEN n ELSE TopK
                              /\ Retrieved \in [1..m -> Hit]
        BY <2>1, <2>6, FusedIsRetrieved
      <4>2. Len(Retrieved) = m
        BY <4>1
      <4> QED BY <2>1, <2>3, <4>1, <4>2
    <3>2. ASSUME NEW a \in Arms, NEW i \in DOMAIN hits[a], NEW j \in DOMAIN hits[a], i < j,
                 \A b \in Arms \ {a} : ~FoundIn(hits[a][i].chunk, b) /\ ~FoundIn(hits[a][j].chunk, b),
                 InEvidence(hits[a][j].chunk)
          PROVE  Precedes(hits[a][i].chunk, hits[a][j].chunk)
      <4> DEFINE c == hits[a][i].chunk
                 d == hits[a][j].chunk
      <4>1. /\ c \in FoundBy(Ranked[a]) /\ Place(Ranked[a], c) = i
            /\ d \in FoundBy(Ranked[a]) /\ Place(Ranked[a], d) = j
        BY <2>1, <3>2, PlaceInArm
      <4>2. \A b \in Arms \ {a} : c \notin FoundBy(Ranked[b]) /\ d \notin FoundBy(Ranked[b])
        BY <3>2 DEF FoundIn, Ranked
      <4>3. c \in Found(Ranked) /\ d \in Found(Ranked) /\ IsInput(Ranked, profile.weights)
        BY <2>1, <4>1, RankedIsInput DEF Found
      <4>4. i \in Nat /\ j \in Nat
        BY <2>1 DEF TypeOK
      <4> HIDE DEF c, d
      <4>5. Outranks(Ranked, profile.weights, c, d) /\ c # d
        BY <3>2, <4>1, <4>2, <4>3, <4>4, ArmOrderOutranks
      <4>6. InEvidence(d)
        BY <3>2 DEF d
      <4>7. Precedes(c, d)
        BY <2>1, <2>6, <4>3, <4>5, <4>6, OutrankingIsRetrievedFirst
      <4> QED BY <4>7 DEF c, d
    <3> QED BY <2>2, <3>1, <3>2 DEF ArmsKeepTheirOrder
  <2> QED BY <2>5, <2>6
<1> QED BY <1>1, QueryInvHolds, PTL
=============================================================================
