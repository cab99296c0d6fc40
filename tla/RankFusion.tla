------------------------------ MODULE RankFusion ------------------------------
(***************************************************************************)
(* Reciprocal rank fusion of the dense and the keyword ranking.  A chunk    *)
(* is a number, so that ids have the order ties are broken by; a ranking   *)
(* is a sequence of chunks without repetition, best first; a score is an   *)
(* exact fraction <<numerator, denominator>> where the code has a float.   *)
(***************************************************************************)
EXTENDS Integers, Sequences, FiniteSets

CONSTANTS
  K,              \* RRF_K
  FetchMultiplier,\* how much deeper than top_k each arm fetches
  MinFetch        \* and at least this deep

ASSUME FusionAssumption == {K, FetchMultiplier, MinFetch} \subseteq Nat \ {0}

Arms == {"semantic", "keyword"}

EqualWeights == [a \in Arms |-> 1]

FoundBy(ranking) == {ranking[i] : i \in DOMAIN ranking}

\* The 1-based rank of a chunk in a ranking that holds it.
Place(ranking, c) == CHOOSE i \in DOMAIN ranking : ranking[i] = c

\* Variant: the rank within the arm is lost.
FlatContribution(ranking, weight, c) ==
  IF c \in FoundBy(ranking) THEN <<weight, K>> ELSE <<0, 1>>

Contribution(ranking, weight, c) ==
  IF c \in FoundBy(ranking) THEN <<weight, K + Place(ranking, c)>> ELSE <<0, 1>>

Below(x, y) == x[1] * y[2] < y[1] * x[2]

\* Variant: the better contribution counts alone.
BetterOf(x, y) == IF Below(x, y) THEN y ELSE x

Plus(x, y) == <<x[1] * y[2] + y[1] * x[2], x[2] * y[2]>>

Score(rankings, weights, c) ==
  Plus(Contribution(rankings["semantic"], weights["semantic"], c),
       Contribution(rankings["keyword"], weights["keyword"], c))

\* Whether c comes before d: by score, then by id, never by input order.
Outranks(rankings, weights, c, d) ==
  LET sc == Score(rankings, weights, c)
      sd == Score(rankings, weights, d)
  IN Below(sd, sc) \/ (~Below(sc, sd) /\ c < d)

Found(rankings) == UNION {FoundBy(rankings[a]) : a \in Arms}

\* A chunk's `rank`: how many chunks come before it.
Rank(rankings, weights, c) ==
  Cardinality({d \in Found(rankings) \ {c} : Outranks(rankings, weights, d, c)})

Fuse(rankings, weights) ==
  [n \in 1..Cardinality(Found(rankings)) |->
     CHOOSE c \in Found(rankings) : Rank(rankings, weights, c) = n - 1]

\* Variant: everything fetched is returned.
Uncut(ranking, k) == ranking

Cut(ranking, k) == SubSeq(ranking, 1, IF Len(ranking) < k THEN Len(ranking) ELSE k)

\* How deep each arm of a hybrid retrieval fetches.
FetchDepth(top_k) ==
  IF top_k * FetchMultiplier < MinFetch THEN MinFetch ELSE top_k * FetchMultiplier
=============================================================================
