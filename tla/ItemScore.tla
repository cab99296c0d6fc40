------------------------------ MODULE ItemScore ------------------------------
(***************************************************************************)
(* What an evaluation makes of one item: metrics of its retrieval and of   *)
(* its citations, and the category of its failure, if it is one.           *)
(*                                                                         *)
(* Quotients are exact, [num, den], where the code has floats.  A metric   *)
(* is named by a pair of its name and its k, 0 if it has none.  Left out:  *)
(* ndcg, which takes logarithms, and tokens, cost and latencies.           *)
(***************************************************************************)
EXTENDS Integers, SequencesExt

CONSTANT K_VALUES   \* DEFAULT_K_VALUES

ASSUME KValuesAssumption == K_VALUES \subseteq Nat \ {0} /\ IsFiniteSet(K_VALUES)

Ratio(num, den) == [num |-> num, den |-> den]

\* None: the metric does not apply.
Undefined == Ratio(0, 0)
IsDefined(value) == value.den # 0

One == Ratio(1, 1)
Zero == Ratio(0, 1)
Flag(b) == IF b THEN One ELSE Zero

Equal(a, b) == a.num * b.den = b.num * a.den
AtMost(a, b) == a.num * b.den <= b.num * a.den
Plus(a, b) == Ratio(a.num * b.den + b.num * a.den, a.den * b.den)

\* A quotient that is undefined unless there is something to divide by.
Fraction(part, whole) ==
  IF whole = {} THEN Undefined ELSE Ratio(Cardinality(part), Cardinality(whole))

Top(retrieved, k) == ToSet(SubSeq(retrieved, 1, Min({k, Len(retrieved)})))

RecallAt(retrieved, gold, k) == Fraction(Top(retrieved, k) \cap gold, gold)

\* Divided by how many results there are, not by k.
PrecisionAt(retrieved, gold, k) ==
  IF gold = {} THEN Undefined
  ELSE IF retrieved = <<>> THEN Zero
  ELSE Fraction(Top(retrieved, k) \cap gold, Top(retrieved, k))

HitRateAt(retrieved, gold, k) ==
  IF gold = {} THEN Undefined ELSE Flag(Top(retrieved, k) \cap gold # {})

\* Variant: the position of the first hit counts from 0, as enumerate does.
ReciprocalRankFromZero(retrieved, gold) ==
  LET hits == {i \in DOMAIN retrieved : retrieved[i] \in gold}
  IN IF gold = {} THEN Undefined
     ELSE IF hits = {} THEN Zero
     ELSE Ratio(1, Max({1, Min(hits) - 1}))

ReciprocalRank(retrieved, gold) ==
  LET hits == {i \in DOMAIN retrieved : retrieved[i] \in gold}
  IN IF gold = {} THEN Undefined
     ELSE IF hits = {} THEN Zero
     ELSE Ratio(1, Min(hits))

CitationPrecision(cited, gold) == IF gold = {} THEN Undefined ELSE Fraction(cited \cap gold, cited)

CitationRecall(cited, gold) == Fraction(cited \cap gold, gold)

EvidenceCoverage(cited, retrieved) == Fraction(cited \cap ToSet(retrieved), ToSet(retrieved))

\* Claims are a function to the chunks each cites.
UnsupportedClaimRate(claims) == Fraction({i \in DOMAIN claims : claims[i] = {}}, DOMAIN claims)

CitationValidity(claims, retrieved) ==
  LET citations(of) == UNION {{i} \X (claims[i] \cap of) : i \in DOMAIN claims}
  IN Fraction(citations(ToSet(retrieved)), citations(UNION {claims[i] : i \in DOMAIN claims}))

MetricNames ==
  ({"recall", "precision", "hit_rate"} \X K_VALUES)
    \cup {<<name, 0>> : name \in {"mrr", "citation_precision", "citation_recall", "citation_validity",
                                  "evidence_coverage", "unsupported_claim_rate",
                                  "abstention_correct", "failed"}}

\* What the claims of an observation cite.
CitedBy(observed) == UNION {observed.claims[i] : i \in DOMAIN observed.claims}

\* Refusing an answerable question and answering an unanswerable one are both wrong.
Metrics(item, observed) ==
  [name \in MetricNames |->
     CASE name[1] = "recall" -> RecallAt(observed.retrieved, item.gold, name[2])
       [] name[1] = "precision" -> PrecisionAt(observed.retrieved, item.gold, name[2])
       [] name[1] = "hit_rate" -> HitRateAt(observed.retrieved, item.gold, name[2])
       [] name[1] = "mrr" -> ReciprocalRank(observed.retrieved, item.gold)
       [] name[1] = "citation_precision" -> CitationPrecision(CitedBy(observed), item.gold)
       [] name[1] = "citation_recall" -> CitationRecall(CitedBy(observed), item.gold)
       [] name[1] = "citation_validity" -> CitationValidity(observed.claims, observed.retrieved)
       [] name[1] = "evidence_coverage" -> EvidenceCoverage(CitedBy(observed), observed.retrieved)
       [] name[1] = "unsupported_claim_rate" -> UnsupportedClaimRate(observed.claims)
       [] name[1] = "abstention_correct" -> Flag(observed.abstained = (item.condition = "incomplete"))
       [] name[1] = "failed" -> Flag(observed.error)]

Exceeds(value, bound) == IsDefined(value) /\ ~AtMost(value, bound)
FallsShort(value, bound) == IsDefined(value) /\ ~AtMost(bound, value)

\* What may be wrong with an item, the most fundamental first.
Causes(item, observed, metrics) ==
  << <<observed.error, "execution_error">>,
     <<item.gold # {} /\ ToSet(observed.retrieved) \cap item.gold = {}, "retrieval_miss">>,
     <<observed.abstained /\ item.condition # "incomplete", "over_abstention">>,
     <<~observed.abstained /\ item.condition = "incomplete", "answered_without_evidence">>,
     <<FallsShort(metrics[<<"citation_validity", 0>>], One), "invented_citation">>,
     <<Exceeds(metrics[<<"unsupported_claim_rate", 0>>], Zero), "unsupported_claim">> >>

FirstOf(causes) ==
  LET present == {i \in DOMAIN causes : causes[i][1]}
  IN IF present = {} THEN "none" ELSE causes[Min(present)][2]

\* The dominant failure.
Category(item, observed, metrics) == FirstOf(Causes(item, observed, metrics))

ScoreItem(item, observed) ==
  LET metrics == Metrics(item, observed)
  IN [metrics |-> metrics, category |-> Category(item, observed, metrics)]

\* The sum of what is defined, up to each position.  Values are a function from positions.
SumTo(values, last) ==
  LET sum[n \in 0..last] ==
        IF n = 0 THEN Zero
        ELSE IF n \in DOMAIN values /\ IsDefined(values[n]) THEN Plus(sum[n - 1], values[n])
        ELSE sum[n - 1]
  IN sum

Total(values) == LET last == Max(DOMAIN values \cup {0}) IN SumTo(values, last)[last]

DefinedCount(values) == Cardinality({i \in DOMAIN values : IsDefined(values[i])})

\* Variant: what is not measurable counts as zero.
MeanOfAll(values) ==
  IF DOMAIN values = {} THEN Undefined
  ELSE Ratio(Total(values).num, Total(values).den * Cardinality(DOMAIN values))

\* The average of what is defined, if anything is.
Mean(values) ==
  IF DefinedCount(values) = 0 THEN Undefined
  ELSE Ratio(Total(values).num, Total(values).den * DefinedCount(values))

\* Each metric's mean and how many items it is over; how often each category occurs.
Aggregate(scores) ==
  LET values(name) == [i \in DOMAIN scores |-> scores[i].metrics[name]]
      failures == {scores[i].category : i \in DOMAIN scores} \ {"none"}
  IN [metrics |-> [name \in MetricNames |->
                     [mean |-> Mean(values(name)), n |-> DefinedCount(values(name))]],
      categories |-> [c \in failures |-> Cardinality({i \in DOMAIN scores : scores[i].category = c})],
      item_count |-> Cardinality(DOMAIN scores)]

\* The same for each evidence condition by itself; `scored` holds items in order.
AggregateBy(scored) ==
  LET at(condition) == {i \in DOMAIN scored : scored[i].condition = condition}
  IN [condition \in {scored[i].condition : i \in DOMAIN scored} |->
        Aggregate([i \in at(condition) |-> scored[i].score])]
=============================================================================
