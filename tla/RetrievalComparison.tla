------------------------- MODULE RetrievalComparison -------------------------
(***************************************************************************)
(* The comparison of strategies on one query: the keyword, the dense and   *)
(* the hybrid ranking, chunk by chunk.  Every strategy is given what the   *)
(* arms of a hybrid retrieval have read: the comparison of a corpus that   *)
(* does not change between its statements.                                 *)
(***************************************************************************)
EXTENDS QueryExecution

_COMPARISON_STRATEGIES == {"keyword", "semantic", "hybrid"}

\* The ids each strategy returns, from what the arms found.
Results(rankings) ==
  [s \in _COMPARISON_STRATEGIES |->
     Cut(IF s = "hybrid" THEN Fuse(rankings, EqualWeights) ELSE rankings[s], TopK)]

NotReturned == -1

\* Ranks count from 0.
RankOf(ranking, c) == IF c \in FoundBy(ranking) THEN Place(ranking, c) - 1 ELSE NotReturned

\* Variant: a rank of 0 is taken for none.
FoundWithRank(results, c) == {s \in DOMAIN results : RankOf(results[s], c) > 0}

FoundByStrategies(results, c) == {s \in DOMAIN results : RankOf(results[s], c) # NotReturned}

BestRank(results, c) ==
  CHOOSE n \in 0..TopK :
    /\ \E s \in DOMAIN results : RankOf(results[s], c) = n
    /\ \A s \in DOMAIN results : RankOf(results[s], c) # NotReturned => n <= RankOf(results[s], c)

\* By the best rank any strategy gave a chunk, then by id.
RowBefore(results, c, d) ==
  \/ BestRank(results, c) < BestRank(results, d)
  \/ BestRank(results, c) = BestRank(results, d) /\ c < d

\* A row for each chunk, each behind those that come before it.
Rows(results) ==
  LET found == UNION {FoundBy(results[s]) : s \in DOMAIN results}
      place(c) == Cardinality({d \in found : RowBefore(results, d, c)})
      chunk(n) == CHOOSE c \in found : place(c) = n - 1
  IN [n \in 1..Cardinality(found) |->
        [chunk |-> chunk(n), found_by |-> FoundByStrategies(results, chunk(n))]]

\* How many rows a strategy alone found, and how many all of them.
Overlap(results) ==
  LET rows == Rows(results)
  IN [unique_to |-> [s \in DOMAIN results |->
                       Cardinality({i \in DOMAIN rows : rows[i].found_by = {s}})],
      found_by_all |-> Cardinality({i \in DOMAIN rows : rows[i].found_by = DOMAIN results}),
      total_chunks |-> Len(rows)]

(* What a viewer may conclude.  A chunk that is unique to hybrid is one    *)
(* both arms found, each too deep to return it: fusing never promotes what *)
(* one arm alone found beyond what that arm returns itself.  A strategy    *)
(* with nothing of its own could be removed without losing a chunk, and    *)
(* what every strategy found is in hybrid's and both arms' results         *)
(* (comparison.py:97-113, hybrid.py:15-17).                                *)
ComparisonIsConclusive ==
  (pc = "ranking" /\ strategy = "hybrid") =>
    LET rankings == [a \in Arms |-> ChunksOf(hits[a])]
        results == Results(rankings)
        rows == Rows(results)
        overlap == Overlap(results)
        returned(strategies) == UNION {FoundBy(results[s]) : s \in strategies}
    IN /\ \A i \in DOMAIN rows : rows[i].found_by = {"hybrid"} => \A a \in Arms : FoundIn(rows[i].chunk, a)
       /\ \A s \in DOMAIN results :
            overlap.unique_to[s] = 0 <=> returned(DOMAIN results \ {s}) = returned(DOMAIN results)
       /\ overlap.found_by_all =
            Cardinality({c \in Chunks : \A s \in DOMAIN results : c \in FoundBy(results[s])})
=============================================================================
