---------------------------- MODULE GroundedAnswer ----------------------------
(***************************************************************************)
(* What becomes of the model's JSON.  Passages are shown to the model by   *)
(* position, 0 to n-1; a cited value that is not an integer is represented *)
(* by -1, since both are dropped and counted.  A claim's text is present   *)
(* or blank; its citations are the sequence of values under "evidence",    *)
(* empty when that is no list.                                             *)
(***************************************************************************)
EXTENDS Integers, Sequences, FiniteSets

(* What parsing yields of the JSON: "object" has an "answer" key, "bare"   *)
(* has none, and "broken" makes the parser stumble: claims that are a      *)
(* number, or an infinite index, which int() refuses with OverflowError.   *)
PayloadKinds == {"object", "bare", "broken"}

IsPassage(index, evidence) == 0 <= index /\ index < Len(evidence)

\* Variant: a negative position counts from the end, as Python's lists do.
ResolvedFromEnd(cites, evidence) ==
  LET n == Len(evidence)
  IN {evidence[IF cites[i] < 0 THEN n ELSE cites[i] + 1] :
        i \in {j \in DOMAIN cites : cites[j] < n}}

\* The chunks the cited positions stand for, without the invented ones.
Resolved(cites, evidence) ==
  {evidence[cites[i] + 1] : i \in {j \in DOMAIN cites : IsPassage(cites[j], evidence)}}

\* The claims that are kept: the others are dropped with their citations.
Kept(payload) == {j \in DOMAIN payload.claims : payload.claims[j].text}

\* Each claim kept, known by its position in the payload, with the chunks it cites.
Claims(payload, evidence) ==
  [j \in Kept(payload) |-> Resolved(payload.claims[j].cites, evidence)]

InventedCitations(payload, evidence) ==
  LET InventedBy(cites) == {i \in DOMAIN cites : ~IsPassage(cites[i], evidence)}
  IN Cardinality(UNION {{j} \X InventedBy(payload.claims[j].cites) : j \in Kept(payload)})

\* How _parse ends: with an answer, GENERATION_FAILED, or a surprise.
ParseEnding(payload) ==
  CASE payload.kind = "bare" -> "domain"
    [] payload.kind = "broken" -> "exception"
    [] payload.kind = "object" /\ ~payload.text /\ ~payload.abstained -> "domain"
    [] OTHER -> "none"

Answer(payload, evidence) ==
  [abstained |-> payload.abstained, claims |-> Claims(payload, evidence),
   invented |-> InventedCitations(payload, evidence)]

\* With no evidence the model is not called.
NoEvidenceAnswer == [abstained |-> TRUE, claims |-> <<>>, invented |-> 0]

CitedChunks(answer) == UNION {answer.claims[i] : i \in DOMAIN answer.claims}

UnsupportedClaims(answer) == {i \in DOMAIN answer.claims : answer.claims[i] = {}}
=============================================================================
