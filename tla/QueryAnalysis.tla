---------------------------- MODULE QueryAnalysis ----------------------------
(***************************************************************************)
(* How adaptive retrieval understands a query: from what the query shows   *)
(* to its type, and from the type to the profile the two arms are fused    *)
(* with.  Of a text only this is kept: its number of words, the kinds of   *)
(* exact tokens in it, and which other patterns it matches.                *)
(***************************************************************************)
EXTENDS Integers, FiniteSets

EntityKinds == {"quoted_phrase", "identifier_token", "version_or_decimal", "acronym"}

\* "year" is counted under "temporal", a second question mark under "multihop".
Patterns == {"numeric_phrase", "figure", "comparative", "temporal", "multihop",
             "technical", "question"}

\* What a text can show: without words nothing, and no version without a figure.
IsText(text) ==
  /\ text.words = 0 => text.entities = {} /\ text.patterns = {}
  /\ "version_or_decimal" \in text.entities => "figure" \in text.patterns

Shows(text, pattern) == pattern \in text.patterns

\* In tenths.
Ambiguity(text) ==
  IF text.words <= 2 THEN 8
  ELSE IF ~Shows(text, "question") /\ text.words <= 4 THEN 5 ELSE 1

When(condition, name) == IF condition THEN {name} ELSE {}

(* The rules that fired, as they are recorded on the trace.  The code adds *)
(* `type:<type>` at the end, which is left out: among the signals the      *)
(* conclusion would explain itself, and any classification would do.       *)
Signals(text) ==
  text.entities
    \cup When(Shows(text, "numeric_phrase"), "numeric_reasoning")
    \cup When(Shows(text, "figure") /\ ~Shows(text, "numeric_phrase"), "numeric_token")
    \cup When(Shows(text, "comparative"), "comparative_phrase")
    \cup When(Shows(text, "temporal"), "temporal_marker")
    \cup When(Shows(text, "multihop"), "multi_hop_phrase")
    \cup When(Shows(text, "technical"), "technical_vocabulary")
    \cup When(Ambiguity(text) = 8, "very_short")
    \cup When(Ambiguity(text) = 5, "no_question_word")

\* Variant: a comparison is recognised before the tokens that are compared.
ComparisonsFirst(text) ==
  << <<text.words = 0, "ambiguous">>, <<Shows(text, "multihop"), "multi_hop">>,
     <<Shows(text, "numeric_phrase"), "numeric">>, <<Shows(text, "comparative"), "comparative">>,
     <<text.entities # {}, "exact_entity">>, <<Shows(text, "figure"), "numeric">>,
     <<Shows(text, "temporal"), "temporal">>, <<Shows(text, "technical"), "technical">>,
     <<Ambiguity(text) >= 8, "ambiguous">>, <<TRUE, "conceptual">> >>

\* The order is the policy: the first rule that applies gives the type.
Rules(text) ==
  << <<text.words = 0, "ambiguous">>, <<Shows(text, "multihop"), "multi_hop">>,
     <<Shows(text, "numeric_phrase"), "numeric">>, <<text.entities # {}, "exact_entity">>,
     <<Shows(text, "comparative"), "comparative">>, <<Shows(text, "figure"), "numeric">>,
     <<Shows(text, "temporal"), "temporal">>, <<Shows(text, "technical"), "technical">>,
     <<Ambiguity(text) >= 8, "ambiguous">>, <<TRUE, "conceptual">> >>

Classify(text) ==
  LET rules == Rules(text)
      first == CHOOSE i \in DOMAIN rules : rules[i][1] /\ \A j \in 1..(i - 1) : ~rules[j][1]
  IN rules[first][2]

\* Fusion weights, in twentieths, and how much deeper than top_k the arms fetch.
WeightsAndDepth(semantic, keyword, multiplier) ==
  [weights |-> [arm \in {"semantic", "keyword"} |-> IF arm = "semantic" THEN semantic ELSE keyword],
   multiplier |-> multiplier]

DEFAULT_PROFILES ==
  [conceptual   |-> WeightsAndDepth(15, 5, 3),
   exact_entity |-> WeightsAndDepth(5, 15, 3),
   technical    |-> WeightsAndDepth(10, 10, 3),
   numeric      |-> WeightsAndDepth(10, 10, 3),
   multi_hop    |-> WeightsAndDepth(10, 10, 5),
   comparative  |-> WeightsAndDepth(12, 8, 5),
   temporal     |-> WeightsAndDepth(10, 10, 3),
   ambiguous    |-> WeightsAndDepth(10, 10, 5)]

ProfileFor(text) == DEFAULT_PROFILES[Classify(text)]
-----------------------------------------------------------------------------
\* Every text with these numbers of words.
TextsOf(lengths) ==
  {t \in [words : lengths, entities : SUBSET EntityKinds, patterns : SUBSET Patterns] : IsText(t)}

(* "A classification that cannot say what triggered it explains nothing"   *)
(* (test_query_analyzer.py:117): the recorded signals determine the        *)
(* profile, so no two texts with the same signals are retrieved for in     *)
(* different ways.                                                         *)
SignalsExplain(texts) ==
  LET explained == {<<Signals(t), ProfileFor(t)>> : t \in texts}
  IN Cardinality(explained) = Cardinality({e[1] : e \in explained})

(* A text with a token to be matched literally is never retrieved for with *)
(* more weight on the dense arm, however technical, comparative or         *)
(* ambiguous it looks besides (query_analyzer.py:216-221).                 *)
ExactTextsLeanLexical(texts) ==
  \A t \in texts : t.entities # {} =>
    LET w == ProfileFor(t).weights IN w["semantic"] <= w["keyword"]
=============================================================================
