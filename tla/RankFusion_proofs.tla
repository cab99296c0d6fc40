-------------------------- MODULE RankFusion_proofs --------------------------
(***************************************************************************)
(* Reciprocal rank fusion ranks: the order it sorts by is a strict total   *)
(* order, so the fused sequence holds every chunk found exactly once; it   *)
(* keeps the order of a single arm; and with equal weights, over arms no   *)
(* deeper than K + 1, what both arms found precedes what one arm found.    *)
(***************************************************************************)
EXTENDS RankFusion, FiniteSetTheorems, TLAPS

-----------------------------------------------------------------------------
(* Fractions.                                                              *)

Fraction == Nat \X (Nat \ {0})

LEMMA ProductIsNat ==
  ASSUME NEW a \in Nat, NEW b \in Nat
  PROVE  a * b \in Nat
  OBVIOUS

LEMMA ProductIsPositive ==
  ASSUME NEW a \in Nat \ {0}, NEW b \in Nat \ {0}
  PROVE  a * b \in Nat \ {0}
  OBVIOUS

LEMMA ProductGrows ==
  ASSUME NEW a \in Nat, NEW b \in Nat, NEW c \in Nat \ {0}
  PROVE  (a <= b) <=> (a * c <= b * c)
  OBVIOUS

\* a/b <= c/d and c/d <= e/f give a/b <= e/f.
LEMMA FractionsCompose ==
  ASSUME NEW a \in Nat, NEW c \in Nat, NEW e \in Nat,
         NEW b \in Nat \ {0}, NEW d \in Nat \ {0}, NEW f \in Nat \ {0},
         a * d <= c * b, c * f <= e * d
  PROVE  a * f <= e * b
<1>1. /\ a * d \in Nat /\ c * b \in Nat /\ c * f \in Nat /\ e * d \in Nat
      /\ a * f \in Nat /\ e * b \in Nat
  BY ProductIsNat
<1>2. (a * d) * f <= (c * b) * f
  BY <1>1, ProductGrows
<1>3. (c * f) * b <= (e * d) * b
  BY <1>1, ProductGrows
<1>4. (a * d) * f = (a * f) * d /\ (c * b) * f = (c * f) * b /\ (e * d) * b = (e * b) * d
  OBVIOUS
<1>5. (a * f) * d <= (e * b) * d
  BY <1>1, <1>2, <1>3, <1>4, ProductIsNat
<1> QED BY <1>1, <1>5, ProductGrows

LEMMA AtMostIsTransitive ==
  ASSUME NEW x \in Fraction, NEW y \in Fraction, NEW z \in Fraction,
         ~Below(y, x), ~Below(z, y)
  PROVE  ~Below(z, x)
<1>1. /\ x[1] \in Nat /\ y[1] \in Nat /\ z[1] \in Nat
      /\ x[2] \in Nat \ {0} /\ y[2] \in Nat \ {0} /\ z[2] \in Nat \ {0}
  BY DEF Fraction
<1>2. x[1] * y[2] <= y[1] * x[2] /\ y[1] * z[2] <= z[1] * y[2]
  BY <1>1, ProductIsNat DEF Below
<1>3. x[1] * z[2] <= z[1] * x[2]
  BY <1>1, <1>2, FractionsCompose
<1> QED BY <1>1, <1>3, ProductIsNat DEF Below

LEMMA BelowIsAsymmetric ==
  ASSUME NEW x \in Fraction, NEW y \in Fraction, Below(x, y)
  PROVE  ~Below(y, x)
  BY ProductIsNat DEF Below, Fraction

LEMMA PlusIsFraction ==
  ASSUME NEW x \in Fraction, NEW y \in Fraction
  PROVE  Plus(x, y) \in Fraction
<1>1. /\ x[1] \in Nat /\ y[1] \in Nat /\ x[2] \in Nat \ {0} /\ y[2] \in Nat \ {0}
  BY DEF Fraction
<1>2. x[1] * y[2] \in Nat /\ y[1] * x[2] \in Nat /\ x[2] * y[2] \in Nat \ {0}
  BY <1>1, ProductIsNat, ProductIsPositive
<1>3. x[1] * y[2] + y[1] * x[2] \in Nat
  BY <1>2
<1> QED BY <1>2, <1>3 DEF Plus, Fraction
-----------------------------------------------------------------------------
(* Scores.                                                                 *)

\* What fusion is called with: two finite rankings of ids, and two weights.
IsInput(rankings, weights) ==
  /\ rankings \in [Arms -> Seq(Nat)]
  /\ weights \in [Arms -> Nat \ {0}]

\* Neither ranking repeats a chunk.
IsRanking(ranking) == \A i, j \in DOMAIN ranking : ranking[i] = ranking[j] => i = j

LEMMA PlaceIsThere ==
  ASSUME NEW ranking \in Seq(Nat), NEW c \in FoundBy(ranking)
  PROVE  Place(ranking, c) \in 1..Len(ranking) /\ ranking[Place(ranking, c)] = c
  BY DEF FoundBy, Place

LEMMA ContributionIsFraction ==
  ASSUME NEW ranking \in Seq(Nat), NEW w \in Nat \ {0}, NEW c
  PROVE  Contribution(ranking, w, c) \in Fraction
<1>1. CASE c \in FoundBy(ranking)
  <2>1. Place(ranking, c) \in Nat
    BY <1>1, PlaceIsThere
  <2>2. K + Place(ranking, c) \in Nat \ {0}
    BY <2>1, FusionAssumption
  <2> QED BY <1>1, <2>2 DEF Contribution, Fraction
<1>2. CASE c \notin FoundBy(ranking)
  BY <1>2 DEF Contribution, Fraction
<1> QED BY <1>1, <1>2

LEMMA ScoreIsFraction ==
  ASSUME NEW rankings, NEW weights, IsInput(rankings, weights), NEW c
  PROVE  Score(rankings, weights, c) \in Fraction
<1>1. \A a \in Arms : Contribution(rankings[a], weights[a], c) \in Fraction
  BY ContributionIsFraction DEF IsInput
<1> QED BY <1>1, PlusIsFraction DEF Score, Arms

\* Of two chunks, exactly one outranks the other.
LEMMA OutranksIsTotal ==
  ASSUME NEW rankings, NEW weights, IsInput(rankings, weights),
         NEW c \in Nat, NEW d \in Nat, c # d
  PROVE  Outranks(rankings, weights, c, d) <=> ~Outranks(rankings, weights, d, c)
<1>1. Score(rankings, weights, c) \in Fraction /\ Score(rankings, weights, d) \in Fraction
  BY ScoreIsFraction
<1> QED BY <1>1, BelowIsAsymmetric DEF Outranks

LEMMA OutranksIsTransitive ==
  ASSUME NEW rankings, NEW weights, IsInput(rankings, weights),
         NEW c \in Nat, NEW d \in Nat, NEW e \in Nat,
         Outranks(rankings, weights, c, d), Outranks(rankings, weights, d, e)
  PROVE  Outranks(rankings, weights, c, e)
<1> DEFINE sc == Score(rankings, weights, c)
           sd == Score(rankings, weights, d)
           se == Score(rankings, weights, e)
<1>1. sc \in Fraction /\ sd \in Fraction /\ se \in Fraction
  BY ScoreIsFraction
<1>2. Below(sd, sc) \/ (~Below(sc, sd) /\ c < d)
  BY DEF Outranks
<1>3. Below(se, sd) \/ (~Below(sd, se) /\ d < e)
  BY DEF Outranks
<1> HIDE DEF sc, sd, se
<1>4. ~Below(sc, sd) /\ ~Below(sd, se)
  BY <1>1, <1>2, <1>3, BelowIsAsymmetric
<1>5. ~Below(sc, se)
  BY <1>1, <1>4, AtMostIsTransitive
<1>6. Below(se, sc) \/ c < e
  <2>1. SUFFICES ASSUME ~Below(se, sc) PROVE c < e
    OBVIOUS
  <2>2. ~Below(sd, sc)
    BY <1>1, <1>4, <2>1, AtMostIsTransitive
  <2>3. ~Below(se, sd)
    BY <1>1, <1>4, <2>1, AtMostIsTransitive
  <2> QED BY <1>2, <1>3, <2>2, <2>3
<1> QED BY <1>5, <1>6 DEF Outranks, sc, se
-----------------------------------------------------------------------------
(* Sorting.                                                                *)

LEMMA FoundIsFinite ==
  ASSUME NEW rankings, NEW weights, IsInput(rankings, weights)
  PROVE  /\ IsFiniteSet(Found(rankings)) /\ Found(rankings) \subseteq Nat
         /\ Cardinality(Found(rankings)) \in Nat
<1>1. ASSUME NEW a \in Arms
      PROVE  IsFiniteSet(FoundBy(rankings[a])) /\ FoundBy(rankings[a]) \subseteq Nat
  <2> DEFINE r == rankings[a]
  <2>1. r \in Seq(Nat)
    BY DEF IsInput
  <2>2. r \in Surjection(1..Len(r), FoundBy(r))
    BY <2>1 DEF Surjection, FoundBy
  <2>3. IsFiniteSet(1..Len(r))
    BY <2>1, FS_Interval
  <2> QED BY <2>1, <2>2, <2>3, FS_Surjection DEF FoundBy
<1>2. Found(rankings) = FoundBy(rankings["semantic"]) \cup FoundBy(rankings["keyword"])
  BY DEF Found, Arms
<1>3. IsFiniteSet(Found(rankings))
  BY <1>1, <1>2, FS_Union DEF Arms
<1> QED BY <1>1, <1>2, <1>3, FS_CardinalityType DEF Arms

Before(rankings, weights, c) ==
  {d \in Found(rankings) \ {c} : Outranks(rankings, weights, d, c)}

LEMMA RankIsIndex ==
  ASSUME NEW rankings, NEW weights, IsInput(rankings, weights), NEW c \in Found(rankings)
  PROVE  Rank(rankings, weights, c) + 1 \in 1..Cardinality(Found(rankings))
<1>1. IsFiniteSet(Found(rankings)) /\ Cardinality(Found(rankings)) \in Nat
  BY FoundIsFinite
<1>2. /\ IsFiniteSet(Found(rankings) \ {c})
      /\ Cardinality(Found(rankings) \ {c}) = Cardinality(Found(rankings)) - 1
  BY <1>1, FS_RemoveElement
<1>3. /\ Cardinality(Before(rankings, weights, c)) <= Cardinality(Found(rankings) \ {c})
      /\ Cardinality(Before(rankings, weights, c)) \in Nat
  BY <1>2, FS_Subset, FS_CardinalityType DEF Before
<1> QED BY <1>1, <1>2, <1>3 DEF Rank, Before

\* Ranks follow the order.
LEMMA OutrankingHasLowerRank ==
  ASSUME NEW rankings, NEW weights, IsInput(rankings, weights),
         NEW c \in Found(rankings), NEW d \in Found(rankings), c # d,
         Outranks(rankings, weights, c, d)
  PROVE  Rank(rankings, weights, c) < Rank(rankings, weights, d)
<1> DEFINE C == Before(rankings, weights, c)
           D == Before(rankings, weights, d)
<1>1. IsFiniteSet(Found(rankings)) /\ Found(rankings) \subseteq Nat
  BY FoundIsFinite
<1>2. C \subseteq D
  <2>1. SUFFICES ASSUME NEW e \in Found(rankings) \ {c}, Outranks(rankings, weights, e, c)
                 PROVE  e # d /\ Outranks(rankings, weights, e, d)
    BY DEF Before
  <2>2. c \in Nat /\ d \in Nat /\ e \in Nat
    BY <1>1
  <2>3. e # d
    BY <2>1, <2>2, OutranksIsTotal
  <2> QED BY <2>1, <2>2, <2>3, OutranksIsTransitive
<1>3. c \in D /\ c \notin C
  BY DEF Before
<1>4. IsFiniteSet(D) /\ IsFiniteSet(D \ {c}) /\ Cardinality(D \ {c}) = Cardinality(D) - 1
  <2>1. D \subseteq Found(rankings)
    BY DEF Before
  <2>2. IsFiniteSet(D)
    BY <1>1, <2>1, FS_Subset
  <2> HIDE DEF D
  <2> QED BY <1>3, <2>2, FS_RemoveElement
<1>5. Cardinality(C) <= Cardinality(D \ {c})
  BY <1>2, <1>3, <1>4, FS_Subset
<1>6. Cardinality(C) \in Nat /\ Cardinality(D) \in Nat
  BY <1>2, <1>4, FS_Subset, FS_CardinalityType
<1>7. Cardinality(C) < Cardinality(D)
  BY <1>4, <1>5, <1>6
<1> QED BY <1>7 DEF Rank, Before

LEMMA RanksDiffer ==
  ASSUME NEW rankings, NEW weights, IsInput(rankings, weights),
         NEW c \in Found(rankings), NEW d \in Found(rankings), c # d
  PROVE  Rank(rankings, weights, c) # Rank(rankings, weights, d)
<1>1. c \in Nat /\ d \in Nat
  BY FoundIsFinite
<1>2. Outranks(rankings, weights, c, d) \/ Outranks(rankings, weights, d, c)
  BY <1>1, OutranksIsTotal
<1>3. /\ Rank(rankings, weights, c) \in Int /\ Rank(rankings, weights, d) \in Int
  BY FoundIsFinite, FS_Subset, FS_CardinalityType DEF Rank
<1> QED BY <1>2, <1>3, OutrankingHasLowerRank

\* Every rank is somebody's: the ranks are as many as the chunks.
LEMMA EveryRankIsTaken ==
  ASSUME NEW rankings, NEW weights, IsInput(rankings, weights),
         NEW n \in 1..Cardinality(Found(rankings))
  PROVE  \E c \in Found(rankings) : Rank(rankings, weights, c) = n - 1
<1> DEFINE S == Found(rankings)
           T == 1..Cardinality(S)
           f == [c \in S |-> Rank(rankings, weights, c) + 1]
<1>1. IsFiniteSet(S) /\ Cardinality(S) \in Nat
  BY FoundIsFinite
<1>2. f \in [S -> T]
  BY RankIsIndex
<1>3. ASSUME NEW c \in S, NEW d \in S, f[c] = f[d] PROVE c = d
  <2>1. /\ Rank(rankings, weights, c) \in Int /\ Rank(rankings, weights, d) \in Int
    BY FoundIsFinite, FS_Subset, FS_CardinalityType DEF Rank
  <2>2. Rank(rankings, weights, c) = Rank(rankings, weights, d)
    BY <1>3, <2>1
  <2> QED BY <2>2, RanksDiffer
<1>4. f \in Injection(S, T)
  BY <1>2, <1>3 DEF Injection, IsInjective
<1>5. IsFiniteSet(T) /\ Cardinality(T) = Cardinality(S)
  BY <1>1, FS_Interval
<1>6. f \in Surjection(S, T)
  BY <1>4, <1>5, FS_Injection
<1>7. PICK c \in S : f[c] = n
  BY <1>6 DEF Surjection
<1>8. Rank(rankings, weights, c) \in Int
  BY FoundIsFinite, FS_Subset, FS_CardinalityType DEF Rank
<1> QED BY <1>7, <1>8

(* Fusion repeats no chunk and loses none, and whoever outranks another    *)
(* precedes it, for any rankings, weights and K (fusion.py:65-90).         *)
THEOREM FusionIsARanking ==
  ASSUME NEW rankings, NEW weights, IsInput(rankings, weights)
  PROVE  LET fused == Fuse(rankings, weights)
             n == Cardinality(Found(rankings))
         IN /\ n \in Nat /\ fused \in [1..n -> Found(rankings)]
            /\ \A c \in Found(rankings) : \E i \in 1..n : fused[i] = c
            /\ \A i, j \in 1..n : fused[i] = fused[j] => i = j
            /\ \A i, j \in 1..n : i < j => Outranks(rankings, weights, fused[i], fused[j])
<1> DEFINE n == Cardinality(Found(rankings))
           fused == Fuse(rankings, weights)
<1>1. n \in Nat /\ Found(rankings) \subseteq Nat
  BY FoundIsFinite
<1>2. ASSUME NEW i \in 1..n
      PROVE  fused[i] \in Found(rankings) /\ Rank(rankings, weights, fused[i]) = i - 1
  BY EveryRankIsTaken DEF Fuse
<1>3. fused \in [1..n -> Found(rankings)]
  BY <1>2 DEF Fuse
<1>4. ASSUME NEW c \in Found(rankings)
      PROVE  \E i \in 1..n : fused[i] = c
  <2> DEFINE i == Rank(rankings, weights, c) + 1
  <2>1. i \in 1..n
    BY RankIsIndex
  <2>2. Rank(rankings, weights, c) \in Int
    BY FoundIsFinite, FS_Subset, FS_CardinalityType DEF Rank
  <2>3. Rank(rankings, weights, fused[i]) = Rank(rankings, weights, c)
    BY <1>2, <2>1, <2>2
  <2>4. fused[i] = c
    BY <1>2, <2>1, <2>3, RanksDiffer
  <2> QED BY <2>1, <2>4
<1>5. ASSUME NEW i \in 1..n, NEW j \in 1..n, fused[i] = fused[j]
      PROVE  i = j
  BY <1>1, <1>2, <1>5
<1>6. ASSUME NEW i \in 1..n, NEW j \in 1..n, i < j
      PROVE  Outranks(rankings, weights, fused[i], fused[j])
  <2>1. fused[i] \in Nat /\ fused[j] \in Nat /\ fused[i] # fused[j]
    BY <1>1, <1>2, <1>5, <1>6
  <2>2. ~(Rank(rankings, weights, fused[j]) < Rank(rankings, weights, fused[i]))
    BY <1>1, <1>2, <1>6
  <2> QED BY <1>2, <2>1, <2>2, OutranksIsTotal, OutrankingHasLowerRank
<1> QED BY <1>1, <1>3, <1>4, <1>5, <1>6
-----------------------------------------------------------------------------
(* Agreement.                                                              *)

\* 1/e < 1/a + 1/b when a and b are below 2e.
LEMMA TwoBeatOne ==
  ASSUME NEW a \in Nat \ {0}, NEW b \in Nat \ {0}, NEW e \in Nat \ {0},
         a < 2 * e, b < 2 * e
  PROVE  a * b < b * e + a * e
<1>1. /\ a * b \in Nat /\ a * e \in Nat /\ b * e \in Nat /\ 2 * e \in Nat
      /\ (2 * e) * a \in Nat /\ (2 * e) * b \in Nat
  BY ProductIsNat
<1>2. CASE a <= b
  <2>1. b + 1 <= 2 * e
    BY <1>1
  <2>2. (b + 1) * a <= (2 * e) * a
    BY <1>1, <2>1, ProductGrows
  <2>3. (b + 1) * a = a * b + a /\ (2 * e) * a = a * e + a * e
    BY <1>1
  <2>4. a * e <= b * e
    BY <1>2, ProductGrows
  <2> QED BY <1>1, <2>2, <2>3, <2>4
<1>3. CASE b <= a
  <2>1. a + 1 <= 2 * e
    BY <1>1
  <2>2. (a + 1) * b <= (2 * e) * b
    BY <1>1, <2>1, ProductGrows
  <2>3. (a + 1) * b = a * b + b /\ (2 * e) * b = b * e + b * e
    BY <1>1
  <2>4. b * e <= a * e
    BY <1>3, ProductGrows
  <2> QED BY <1>1, <2>2, <2>3, <2>4
<1> QED BY <1>2, <1>3

\* The denominator of one of the first k + 1 places is less than twice that of any other.
LEMMA LessThanTwice ==
  ASSUME NEW k \in Nat, NEW p \in 1..(k + 1), NEW q \in Nat \ {0}
  PROVE  /\ k + p \in Nat \ {0} /\ k + q \in Nat \ {0}
         /\ k + p < 2 * (k + q)
  OBVIOUS

(* With equal weights and arms no deeper than K + 1, a chunk both arms     *)
(* found outranks a chunk only one arm found (fusion.py:34-36).            *)
THEOREM AgreementOutranks ==
  ASSUME NEW rankings, IsInput(rankings, EqualWeights),
         \A a \in Arms : Len(rankings[a]) <= K + 1,
         NEW c, \A a \in Arms : c \in FoundBy(rankings[a]),
         NEW d, NEW a1 \in Arms, d \in FoundBy(rankings[a1]),
         NEW a2 \in Arms, d \notin FoundBy(rankings[a2])
  PROVE  Outranks(rankings, EqualWeights, c, d)
<1> DEFINE a == K + Place(rankings["semantic"], c)
           b == K + Place(rankings["keyword"], c)
           e == K + Place(rankings[a1], d)
<1>1. rankings["semantic"] \in Seq(Nat) /\ rankings["keyword"] \in Seq(Nat) /\ rankings[a1] \in Seq(Nat)
  BY DEF IsInput, Arms
<1>2. /\ Place(rankings["semantic"], c) \in 1..(K + 1)
      /\ Place(rankings["keyword"], c) \in 1..(K + 1)
      /\ Place(rankings[a1], d) \in Nat \ {0}
  <2>1. /\ Place(rankings["semantic"], c) \in 1..Len(rankings["semantic"])
        /\ Place(rankings["keyword"], c) \in 1..Len(rankings["keyword"])
        /\ Place(rankings[a1], d) \in 1..Len(rankings[a1])
    BY <1>1, PlaceIsThere DEF Arms
  <2>2. /\ Len(rankings["semantic"]) \in Nat /\ Len(rankings["semantic"]) <= K + 1
        /\ Len(rankings["keyword"]) \in Nat /\ Len(rankings["keyword"]) <= K + 1
        /\ Len(rankings[a1]) \in Nat
    BY <1>1 DEF Arms
  <2>3. K \in Nat
    BY FusionAssumption
  <2> QED BY <2>1, <2>2, <2>3
<1>3. /\ a \in Nat \ {0} /\ b \in Nat \ {0} /\ e \in Nat \ {0}
      /\ a < 2 * e /\ b < 2 * e
  <2>1. K \in Nat
    BY ONLY FusionAssumption
  <2> QED BY ONLY <1>2, <2>1, LessThanTwice
<1>4. Score(rankings, EqualWeights, c) = <<1 * b + 1 * a, a * b>>
  BY DEF Score, Contribution, EqualWeights, Arms, Plus
<1>5. Score(rankings, EqualWeights, d) \in {<<1 * 1 + 0 * e, e * 1>>, <<0 * e + 1 * 1, 1 * e>>}
  BY DEF Score, Contribution, EqualWeights, Arms, Plus
<1> HIDE DEF a, b, e
<1>6. a * b < b * e + a * e
  BY <1>3, TwoBeatOne
<1>7. Score(rankings, EqualWeights, c) = <<a + b, a * b>>
  BY <1>3, <1>4
<1>8. Score(rankings, EqualWeights, d) = <<1, e>>
  BY <1>3, <1>5
<1>9. Below(Score(rankings, EqualWeights, d), Score(rankings, EqualWeights, c))
  <2>1. 1 * (a * b) < (a + b) * e
    <3>1. a * b \in Nat /\ a * e \in Nat /\ b * e \in Nat /\ (a + b) * e = a * e + b * e
      BY <1>3, ProductIsNat
    <3> QED BY <1>6, <3>1
  <2> QED BY <1>7, <1>8, <2>1 DEF Below
<1> QED BY <1>9 DEF Outranks

(* Of two chunks which the same single arm found, the one that arm ranks   *)
(* first outranks the other, whatever the weights (hybrid.py:62-63).       *)
THEOREM ArmOrderOutranks ==
  ASSUME NEW rankings, NEW weights, IsInput(rankings, weights),
         NEW a \in Arms, NEW c \in FoundBy(rankings[a]), NEW d \in FoundBy(rankings[a]),
         \A b \in Arms \ {a} : c \notin FoundBy(rankings[b]) /\ d \notin FoundBy(rankings[b]),
         Place(rankings[a], c) < Place(rankings[a], d)
  PROVE  Outranks(rankings, weights, c, d)
<1> DEFINE w == weights[a]
           p == K + Place(rankings[a], c)
           q == K + Place(rankings[a], d)
<1>1. rankings[a] \in Seq(Nat) /\ w \in Nat \ {0}
  BY DEF IsInput
<1>2. p \in Nat \ {0} /\ q \in Nat \ {0} /\ p < q
  <2>1. Place(rankings[a], c) \in Nat /\ Place(rankings[a], d) \in Nat
    BY <1>1, PlaceIsThere
  <2> QED BY <2>1, FusionAssumption
<1>3. /\ Score(rankings, weights, c) \in {<<w * 1 + 0 * p, p * 1>>, <<0 * p + w * 1, 1 * p>>}
      /\ Score(rankings, weights, d) \in {<<w * 1 + 0 * q, q * 1>>, <<0 * q + w * 1, 1 * q>>}
  BY DEF Score, Contribution, Arms, Plus
<1> HIDE DEF w, p, q
<1>4. Score(rankings, weights, c) = <<w, p>> /\ Score(rankings, weights, d) = <<w, q>>
  BY <1>1, <1>2, <1>3
<1>5. w * p < w * q
  <2>1. w * p \in Nat /\ w * q \in Nat /\ w * p = p * w /\ w * q = q * w
    BY <1>1, <1>2, ProductIsNat
  <2>2. ~(q * w <= p * w)
    BY <1>1, <1>2, ProductGrows
  <2> QED BY <2>1, <2>2
<1> QED BY <1>4, <1>5 DEF Outranks, Below
=============================================================================
