-------------------------- MODULE EvaluationScores --------------------------
(***************************************************************************)
(* What evaluation runs measure: each run executes the items of a dataset  *)
(* one by one, scores what it observes, and aggregates the scores overall  *)
(* and per evidence condition; the heatmap then shows one metric of all    *)
(* completed runs.  How runs fail, stop and are delivered again is the     *)
(* subject of EvaluationRun.                                               *)
(*                                                                         *)
(*   running    the run being executed, or NoRun                           *)
(*   scored     its items so far: condition, observation and score         *)
(*   completed  the completed runs, the newest first; the worker here      *)
(*              executes them in the order in which they were created      *)
(***************************************************************************)
EXTENDS ItemScore, GroundedAnswer

CONSTANTS
  Items,      \* items of datasets: gold chunks and evidence condition
  Rankings,   \* what retrieval may return: sequences of distinct chunks
  Payloads,   \* what the model may answer
  Strategies, \* of runs
  MaxItems    \* bound: items executed in all

ASSUME ScoresAssumption ==
  /\ \A item \in Items : IsFiniteSet(item.gold)
  /\ \A ranking \in Rankings : ranking \in Seq(ToSet(ranking)) /\ IsInjective(ranking)
  /\ Payloads \subseteq [kind : PayloadKinds, text : BOOLEAN, abstained : BOOLEAN,
                         claims : Seq([text : BOOLEAN, cites : Seq(Int)])]
  /\ MaxItems \in Nat

VARIABLES running, scored, completed

vars == <<running, scored, completed>>

NoRun == [strategy |-> "none"]

Init == running = NoRun /\ scored = <<>> /\ completed = <<>>

ItemsOf(runs) == FoldLeft(LAMBDA n, run : n + run.overall.item_count, 0, runs)

StartRun(strategy, generate) ==
  /\ running = NoRun /\ ItemsOf(completed) < MaxItems
  /\ running' = [strategy |-> strategy, generate |-> generate]
  /\ scored' = <<>>
  /\ UNCHANGED completed

Observation(retrieved, claims, abstained, error) ==
  [retrieved |-> retrieved, claims |-> claims, abstained |-> abstained, error |-> error]

Record(item, observed) ==
  /\ running # NoRun /\ ItemsOf(completed) + Len(scored) < MaxItems
  /\ scored' = Append(scored, [condition |-> item.condition, item |-> item, observed |-> observed,
                               score |-> ScoreItem(item, observed)])
  /\ UNCHANGED <<running, completed>>

\* A DomainError of retrieval or generation, and nothing of what was observed before it.
FailedObservation == Observation(<<>>, <<>>, FALSE, TRUE)

FailItem(item) == Record(item, FailedObservation)

\* With no generator, retrieval is all there is to observe.
RetrieveOnly(item, retrieved) ==
  /\ running # NoRun /\ ~running.generate
  /\ Record(item, Observation(retrieved, <<>>, FALSE, FALSE))

\* With no evidence the model is not asked.
AnswerOf(retrieved, payload) ==
  IF retrieved = <<>> THEN NoEvidenceAnswer ELSE Answer(payload, retrieved)

RetrieveAndAnswer(item, retrieved, payload) ==
  /\ running # NoRun /\ running.generate
  /\ retrieved = <<>> \/ ParseEnding(payload) = "none"
  /\ LET answer == AnswerOf(retrieved, payload)
     IN Record(item, Observation(retrieved, answer.claims, answer.abstained, FALSE))

CompleteRun ==
  /\ running # NoRun /\ scored # <<>>
  /\ completed' = <<[strategy |-> running.strategy,
                     overall |-> Aggregate([i \in DOMAIN scored |-> scored[i].score]),
                     by_condition |-> AggregateBy(scored), items |-> scored]>> \o completed
  /\ running' = NoRun /\ scored' = <<>>

Next ==
  \/ \E strategy \in Strategies, generate \in BOOLEAN : StartRun(strategy, generate)
  \/ \E item \in Items :
       \/ FailItem(item)
       \/ \E retrieved \in Rankings :
            \/ RetrieveOnly(item, retrieved)
            \/ \E payload \in Payloads : RetrieveAndAnswer(item, retrieved, payload)
  \/ CompleteRun

Spec == Init /\ [][Next]_vars
-----------------------------------------------------------------------------
(* The heatmap.                                                            *)

\* Variant: the oldest run that measured a cell is shown.
OldestRun(runs, strategy, condition) ==
  Max({i \in DOMAIN runs : runs[i].strategy = strategy /\ condition \in DOMAIN runs[i].by_condition})

\* Of the runs, newest first, the first that has the condition.
FirstRun(runs, strategy, condition) ==
  Min({i \in DOMAIN runs : runs[i].strategy = strategy /\ condition \in DOMAIN runs[i].by_condition})

Gap == [mean |-> Undefined, n |-> 0, run |-> 0]

Cell(runs, strategy, condition, metric) ==
  IF \E i \in DOMAIN runs : runs[i].strategy = strategy /\ condition \in DOMAIN runs[i].by_condition
  THEN LET i == FirstRun(runs, strategy, condition)
           entry == runs[i].by_condition[condition].metrics[metric]
       IN [mean |-> entry.mean, n |-> entry.n, run |-> i]
  ELSE Gap

Heatmap(runs, metric) ==
  LET rows == {runs[i].strategy : i \in DOMAIN runs}
      columns == UNION {DOMAIN runs[i].by_condition : i \in DOMAIN runs}
  IN [cell \in rows \X columns |-> Cell(runs, cell[1], cell[2], metric)]
-----------------------------------------------------------------------------
\* What a metric sums up to, and how often a category occurs.
SumOf(entry) == Ratio(entry.mean.num * entry.n, entry.mean.den)
Occurrences(categories, c) == IF c \in DOMAIN categories THEN categories[c] ELSE 0

\* The total of natural numbers.
CountOf(numbers) == Total([i \in DOMAIN numbers |-> Ratio(numbers[i], 1)])

\* An aggregate is that of all `groups` together, a sequence of aggregates.
AddsUp(overall, groups) ==
  /\ \A name \in MetricNames :
       LET entry == overall.metrics[name]
       IN /\ CountOf([g \in DOMAIN groups |-> groups[g].metrics[name].n]) = Ratio(entry.n, 1)
          /\ IsDefined(entry.mean) <=> entry.n > 0
          /\ entry.n > 0 =>
               Equal(SumOf(entry), Total([g \in DOMAIN groups |-> SumOf(groups[g].metrics[name])]))
  /\ \A c \in DOMAIN overall.categories :
       CountOf([g \in DOMAIN groups |-> Occurrences(groups[g].categories, c)])
         = Ratio(overall.categories[c], 1)

(* The conditions add up to the whole: for every metric, what the          *)
(* conditions measured by themselves are the items the overall value is    *)
(* over, and their means, weighed by how many items each is over, make the *)
(* overall mean; and every failure is counted under one of them            *)
(* (evaluation_service.py:254-259, scoring.py:154-165).                    *)
ConditionsAddUp ==
  \A r \in DOMAIN completed :
    LET conditions == SetToSeq(DOMAIN completed[r].by_condition)
    IN AddsUp(completed[r].overall,
              [g \in DOMAIN conditions |-> completed[r].by_condition[conditions[g]]])

(* An item without a failure category is a success by every metric: it was *)
(* executed, its evidence was found, and with a generator it was answered  *)
(* or refused as it should be, with no claim that cites nothing and no     *)
(* citation of what was not retrieved (scoring.py:96-121).                 *)
SuccessIsMeasured(score) ==
  LET m(name) == score.metrics[<<name, 0>>] IN
    score.category = "none" =>
      /\ Equal(m("failed"), Zero) /\ Equal(m("abstention_correct"), One)
      /\ IsDefined(m("mrr")) => ~Equal(m("mrr"), Zero)
      /\ IsDefined(m("unsupported_claim_rate")) => Equal(m("unsupported_claim_rate"), Zero)
      /\ IsDefined(m("citation_validity")) => Equal(m("citation_validity"), One)

(* The metrics of one item do not contradict each other: a deeper look     *)
(* finds no less, one finds gold exactly when the reciprocal rank says so, *)
(* and what an answer cites of the gold, retrieval found                   *)
(* (metrics/retrieval.py:26-72, metrics/citation.py:37-41); and an item    *)
(* without a failure category is a success by every metric.                *)
MetricsAgree ==
  \A i \in DOMAIN scored :
    LET m(name, k) == scored[i].score.metrics[<<name, k>>]
        gold == scored[i].item.gold
    IN /\ SuccessIsMeasured(scored[i].score)
       /\ gold # {} => \A k \in K_VALUES :
            /\ \A j \in K_VALUES : j <= k => AtMost(m("recall", j), m("recall", k))
            /\ Equal(m("hit_rate", k), One) <=> AtMost(Ratio(1, k), m("mrr", 0))
            /\ Equal(m("hit_rate", k), Zero) <=> Equal(m("recall", k), Zero)
            /\ Len(scored[i].observed.retrieved) <= k =>
                 AtMost(m("citation_recall", 0), m("recall", k))

(* The heatmap invents nothing: a cell shows what the newest run of its    *)
(* strategy measured on items of its condition, over as many items as the  *)
(* metric applied to, and is a gap exactly if no run had such an item      *)
(* (heatmap.py:8-10 and 33-35).                                            *)
HeatmapIsMeasured ==
  \A metric \in MetricNames :
    LET heatmap == Heatmap(completed, metric) IN
    \A cell \in DOMAIN heatmap :
      LET measured == {r \in DOMAIN completed :
                         /\ completed[r].strategy = cell[1]
                         /\ \E i \in DOMAIN completed[r].items : completed[r].items[i].condition = cell[2]}
          values(r) == {i \in DOMAIN completed[r].items :
                          /\ completed[r].items[i].condition = cell[2]
                          /\ IsDefined(completed[r].items[i].score.metrics[metric])}
      IN IF measured = {} THEN heatmap[cell] = Gap
         ELSE \E r \in measured :
                /\ \A s \in measured : r <= s
                /\ heatmap[cell].run = r /\ heatmap[cell].n = Cardinality(values(r))
                /\ IsDefined(heatmap[cell].mean) <=> values(r) # {}

(* What the module says of a score: "`None` means not measurable, never    *)
(* zero" (scoring.py:48): of an item with gold evidence whose execution    *)
(* failed nothing was retrieved that could be measured, and its recall,    *)
(* precision, hit rate and reciprocal rank are undefined.                  *)
UndefinedIsNotZero ==
  \A i \in DOMAIN scored :
    scored[i].observed.error /\ scored[i].item.gold # {} =>
      \A name \in MetricNames :
        name[1] \in {"recall", "precision", "hit_rate", "mrr"} =>
          ~IsDefined(scored[i].score.metrics[name])
=============================================================================
