---------------------------- MODULE EvidenceGraph ----------------------------
(***************************************************************************)
(* The evidence graph of a committed trace, as it is built when somebody   *)
(* asks for it: from what the trace holds and what the corpus still holds, *)
(* query -> document -> chunks -> claims -> answer.  The chunks here are   *)
(* all of one document, which is replaced as a whole.                      *)
(***************************************************************************)
EXTENDS QueryExecution

Query == <<"query", 0>>
Document == <<"document", 0>>
Reply == <<"answer", 0>>
ChunkNode(c) == <<"chunk", c>>
ClaimNode(j) == <<"claim", j>>

\* The chunks of a trace that can still be resolved, each at its place in retrieval order.
Resolvable(trace) ==
  [n \in {i \in DOMAIN trace.retrieved : trace.retrieved[i] \in DOMAIN corpus} |-> trace.retrieved[n]]

\* Variant: a citation needs no chunk to be drawn.
UnguardedCitations(trace) ==
  UNION {{<<ChunkNode(c), ClaimNode(j)>> : c \in trace.claims[j]} : j \in DOMAIN trace.claims}

\* From a chunk to a claim that cites it.
CitationEdges(trace) ==
  UNION {{<<ChunkNode(c), ClaimNode(j)>> :
            c \in {d \in trace.claims[j] : d \in FoundBy(Resolvable(trace))}} : j \in DOMAIN trace.claims}

\* As in the payload, chunk nodes are listed, not a set: a chunk could be shown twice.
Graph(trace) ==
  LET chunks == FoundBy(Resolvable(trace))
      claims == DOMAIN trace.claims
  IN [chunks |-> Resolvable(trace),
      nodes |-> {Query, Reply} \cup {Document : c \in chunks}
                  \cup {ChunkNode(c) : c \in chunks} \cup {ClaimNode(j) : j \in claims},
      edges |-> {<<Query, Document>> : c \in chunks} \cup {<<Document, ChunkNode(c)>> : c \in chunks}
                  \cup CitationEdges(trace) \cup {<<ClaimNode(j), Reply>> : j \in claims},
      cited |-> {c \in chunks : \E j \in claims : c \in trace.claims[j]},
      supported |-> {j \in claims : trace.claims[j] # {}}]

(* The graph of an answer says what the answer said, however the corpus    *)
(* has changed since: it shows each chunk once, cites in each claim what   *)
(* was cited there and can still be resolved, calls the same claims        *)
(* unsupported, counts as unused what no claim cited, and no edge dangles  *)
(* (visualizations.py:113-150, builder.py:48-53 and 124-131).              *)
GraphAgreesWithAnswer ==
  (response # Unset /\ response.kind = "answer") =>
    \E t \in traces :
      LET graph == Graph(t) IN
      /\ \A edge \in graph.edges : edge[1] \in graph.nodes /\ edge[2] \in graph.nodes
      /\ \A i, j \in DOMAIN graph.chunks : graph.chunks[i] = graph.chunks[j] => i = j
      /\ \A i \in DOMAIN response.claims, c \in DOMAIN corpus :
           <<ChunkNode(c), ClaimNode(i)>> \in graph.edges
             <=> \E citation \in response.claims[i] : citation.chunk = c
      /\ DOMAIN response.claims \ graph.supported = response.unsupported
      /\ graph.cited = {c \in DOMAIN corpus : \E i \in DOMAIN response.claims :
                          \E citation \in response.claims[i] : citation.chunk = c}
=============================================================================
