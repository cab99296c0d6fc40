--------------------------- MODULE RetrievalIndex ---------------------------
(***************************************************************************)
(* What the document pipeline promises to retrieval, whatever its jobs do: *)
(* a document is published in whole parses, each replacing the one before  *)
(* in a single step; a published chunk keeps its text, and once it can be  *)
(* found by vector it stays so, until its document is published again or   *)
(* forgotten.                                                              *)
(***************************************************************************)
EXTENDS Naturals

CONSTANTS
  Docs,      \* documents
  Versions,  \* versions of the parsing code
  Sizes      \* how many chunks a parse may have

VARIABLES
  known,  \* the documents registered
  index   \* per document, the published chunks by ordinal

Entry == [text : Versions, dense : BOOLEAN]

Init == known = {} /\ index = [d \in Docs |-> <<>>]

Register(d) ==
  /\ d \in Docs \ known
  /\ known' = known \cup {d}
  /\ UNCHANGED index

Publish(d, v, n) ==
  /\ d \in known
  /\ index' = [index EXCEPT ![d] = [o \in 1..n |-> [text |-> v, dense |-> FALSE]]]
  /\ UNCHANGED known

Vectorise(d, rows) ==
  /\ d \in known
  /\ index' = [index EXCEPT ![d] =
                [o \in DOMAIN @ |-> [text |-> @[o].text, dense |-> @[o].dense \/ o \in rows]]]
  /\ UNCHANGED known

Forget(d) ==
  /\ d \in known
  /\ known' = known \ {d}
  /\ index' = [index EXCEPT ![d] = <<>>]

Next ==
  \E d \in Docs :
    \/ Register(d)
    \/ \E v \in Versions, n \in Sizes : Publish(d, v, n)
    \/ \E rows \in SUBSET DOMAIN index[d] : Vectorise(d, rows)
    \/ Forget(d)

Spec == Init /\ [][Next]_<<known, index>>
=============================================================================
