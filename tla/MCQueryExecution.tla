-------------------------- MODULE MCQueryExecution --------------------------
(* A small instance of QueryExecution for TLC. *)
EXTENDS EvidenceGraph, RetrievalComparison, SearchHits, QueryAnalysis, TraceTimeline

\* Every combination of what texts of no, one, three, four and many words show.
Texts == TextsOf({0, 1, 3, 4, 16})

\* What the rules select for it, with the depths scaled down to a small corpus.
ScaledProfiles ==
  {[weights |-> p.weights, multiplier |-> p.multiplier \div 2] : p \in {ProfileFor(t) : t \in Texts}}
SelectedProfiles == ScaledProfiles

\* Every nesting and order of up to three stages, on clocks that separate all, some and
\* hardly any of the instants.
SomeRecordings == UNION {Recordings(n, {"retrieval", "generation"}) : n \in 0..3}
Grains == {1, 2, 4}

\* Constants, which TLC evaluates once.
ShowsNesting == DepthsShowNesting(SomeRecordings, Grains)
DrawnFaithfully == TimelineIsFaithful(SomeRecordings, Grains)
Explained == SignalsExplain(Texts)
LeanLexical == ExactTextsLeanLexical(Texts)

(* Why an adaptive query was retrieved for the way it was can be told from *)
(* the signals on its trace, and one for an exact token never favours the  *)
(* dense arm (query.py:234-235, query_analyzer.py:216-221, QueryAnalysis). *)
ProfilesFollowTheText == strategy = "adaptive" => Explained /\ LeanLexical

(* The stored traces are drawn as they happened: as deep as their stages   *)
(* were nested, and in the order the clock can tell (timeline.py:30-33,    *)
(* recorder.py:186-189, models/trace.py:76, see TraceTimeline).            *)
TimelineTellsWhatHappened == traces # {} => ShowsNesting /\ DrawnFaithfully

Claim(text, cites) == [text |-> text, cites |-> cites]

\* No claim; passages cited once, twice, out of range, in a blank claim, not at all.
ClaimLists ==
  { <<>>,
    <<Claim(TRUE, <<1, 0, 1>>)>>,
    <<Claim(TRUE, <<-1, 0>>), Claim(TRUE, <<2>>)>>,
    <<Claim(FALSE, <<1>>), Claim(TRUE, <<>>)>> }

SomePayloads ==
  [kind : {"object"}, text : BOOLEAN, abstained : BOOLEAN, claims : ClaimLists]
    \cup {[kind |-> k, text |-> FALSE, abstained |-> FALSE, claims |-> <<>>] : k \in {"bare", "broken"}}

FewPayloads == {p \in SomePayloads : p.claims = <<>>}
=============================================================================
