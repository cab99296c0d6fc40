------------------------- MODULE MCEvaluationScores -------------------------
(* A small instance of EvaluationScores for TLC. *)
EXTENDS EvaluationScores

Chunks == {1, 2, 3}

SomeItems == [gold : {{}, {1}, {1, 2}}, condition : {"clean", "incomplete"}]

SomeRankings == {<<>>, <<1>>, <<3, 2>>, <<2, 3, 1>>}

Claim(cites) == [text |-> TRUE, cites |-> cites]

\* A refusal, and answers with claims that cite one passage, two, an invented one, none.
SomePayloads ==
  {[kind |-> "object", text |-> ~abstained, abstained |-> abstained, claims |-> claims] :
     abstained \in BOOLEAN,
     claims \in {<<>>, <<Claim(<<0>>)>>, <<Claim(<<0, 1>>), Claim(<<5>>)>>}}
=============================================================================
