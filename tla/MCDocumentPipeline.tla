------------------------- MODULE MCDocumentPipeline -------------------------
(* Small instances of DocumentPipeline for TLC. *)
EXTENDS DocumentPipeline, TLC

CONSTANTS d1, d2, d3, report, scan, junk, r1, r2, r3, j1, j2, j3

\* One parser version: a report of two chunks, and a scan nothing can be read from.
OneParser == [v \in {1} |-> [c \in Contents |-> 2]]

\* A better parser that cuts the report differently.
TwoParsers ==
  (1 :> [c \in Contents |-> 2]) @@ (2 :> [c \in Contents |-> 1])

JobSymmetry == Permutations({j1, j2, j3})
UploadSymmetry == Permutations({r1, r2, r3}) \cup Permutations({d1, d2, d3})
=============================================================================
