------------------------------ MODULE SearchHits ------------------------------
(***************************************************************************)
(* POST /search: the same retrieval as POST /query, without a model or a   *)
(* trace.  Of a hit its chunk, its rank and what each arm contributed are  *)
(* kept, of the response also the weights an adaptive search reports.      *)
(***************************************************************************)
EXTENDS QueryExecution

\* Variant: a contribution is kept like the copy of the text, once.
FirstSighting(rankings, c) ==
  LET a == IF c \in FoundBy(rankings["semantic"]) THEN "semantic" ELSE "keyword"
  IN <<[retriever |-> a, rank |-> Place(rankings[a], c) - 1]>>

\* What an arm contributed to a chunk, if it found it: its rank in that arm, from 0.
ContributedBy(rankings, c, a) ==
  IF c \in FoundBy(rankings[a]) THEN <<[retriever |-> a, rank |-> Place(rankings[a], c) - 1]>> ELSE <<>>

\* Fusion reads the dense arm first.
Contributions(rankings, c) ==
  ContributedBy(rankings, c, "semantic") \o ContributedBy(rankings, c, "keyword")

\* The first contribution of an arm, as a set of at most one.
ContributionOf(contributions, a) ==
  {contributions[i] : i \in {n \in DOMAIN contributions :
     /\ contributions[n].retriever = a
     /\ \A m \in 1..(n - 1) : contributions[m].retriever # a}}

\* An item of the response.  Only fusion fills in contributions.
ToEvidence(hit, rank, rankings) ==
  LET contributions == IF strategy \in {"hybrid", "adaptive"} THEN Contributions(rankings, hit.chunk)
                                                               ELSE <<>>
  IN [chunk |-> hit.chunk, text |-> hit.text, rank |-> rank,
      retrieval_source |-> [i \in DOMAIN contributions |-> contributions[i].retriever],
      rank_by |-> [a \in Arms |-> {x.rank : x \in ContributionOf(contributions, a)}]]

\* The profile an adaptive search reports; a hybrid one is known to weigh its arms alike.
ReportedWeights == IF strategy = "adaptive" THEN profile.weights ELSE EqualWeights

\* The response, once the arms have been read.
SearchResponse ==
  LET rankings == [a \in Arms |-> ChunksOf(hits[a])]
  IN [weights |-> ReportedWeights, embedding_model |-> strategy \in EMBEDDING_STRATEGIES,
      results |-> [i \in DOMAIN Retrieved |-> ToEvidence(Retrieved[i], i - 1, rankings)]]

\* What a client adds up for an item, from the ranks it reports.
Recomputed(item, weights) ==
  LET share(a) == IF item.rank_by[a] = {} THEN <<0, 1>>
                  ELSE <<weights[a], K + 1 + CHOOSE n \in item.rank_by[a] : TRUE>>
  IN Plus(share("semantic"), share("keyword"))

(* A fused search can be explained from its response alone: its items are  *)
(* in the order of the scores a client adds up from the ranks and weights  *)
(* they report, and then of their ids, so that what every arm prefers      *)
(* comes first; an item names every arm that found it, so that what one    *)
(* arm missed and the other recovered can be told; and no two items claim  *)
(* one rank of an arm (search.py:8-10, types.py:34-40).  A search by one   *)
(* arm claims no contributions.                                            *)
SearchIsExplained ==
  pc = "ranking" =>
    LET reply == SearchResponse
        results == reply.results
        score(i) == Recomputed(results[i], reply.weights)
        named(i) == {results[i].retrieval_source[n] : n \in DOMAIN results[i].retrieval_source}
    IN \A i \in DOMAIN results :
         IF strategy \in Arms
         THEN named(i) = {} /\ \A a \in Arms : results[i].rank_by[a] = {}
         ELSE /\ named(i) = {a \in Arms : FoundIn(results[i].chunk, a)}
              /\ \A a \in Arms : results[i].rank_by[a] # {} <=> a \in named(i)
              /\ \A j \in DOMAIN results : i < j =>
                   /\ ~Below(score(i), score(j))
                   /\ ~Below(score(j), score(i)) => results[i].chunk < results[j].chunk
                   /\ \A a \in Arms : results[i].rank_by[a] \cap results[j].rank_by[a] = {}
=============================================================================
