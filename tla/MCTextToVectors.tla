-------------------------- MODULE MCTextToVectors --------------------------
(* A small instance of TextToVectors for TLC. *)
EXTENDS TextToVectors

Letters == {"x", ".", " ", "\n"}
Few == {<<" ">>, <<"x", " ">>}

\* Every short text, and longer ones of words and spaces only.
Texts == SeqOf(Letters, 6) \cup SeqOf({"x", " "}, 9)

SomeDocuments ==
  {[mime |-> "text", pages |-> <<text>>] : text \in Texts}
    \cup {[mime |-> "pdf", pages |-> <<text, few>>] : text \in SeqOf(Letters, 5), few \in Few}
    \cup {[mime |-> "pdf", pages |-> <<few, text>>] : text \in SeqOf(Letters, 5), few \in Few}

SomeSettings == {[size |-> 4, overlap |-> 1], [size |-> 3, overlap |-> 2]}
=============================================================================
