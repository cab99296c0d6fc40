---------------------------- MODULE AnsweredQuery ----------------------------
(***************************************************************************)
(* What a query promises whoever asks it, while the index changes under it:*)
(* each arm finds passages of the index as it is at one moment, the model  *)
(* is shown passages an arm has found, a record of what became of the query*)
(* is stored once, before any answer is given, and the answer is the one on*)
(* record, each claim citing, word for word, passages that were shown.     *)
(* Nothing that was found, shown, stored or told is changed afterwards.    *)
(***************************************************************************)

CONSTANTS
  Passages,  \* what the index may hold: texts, each under the id of a chunk
  Arms,      \* the arms of retrieval
  Numbers    \* what the claims of an answer may be numbered

VARIABLES
  index,   \* the passages that can be found
  found,   \* per arm, the passages it has found
  shown,   \* the passages the model is shown
  record,  \* the record of the query, if it is stored
  reply    \* what the client is told, if it is told

Error == [kind |-> "error"]

ChunksIn(passages) == {p.chunk : p \in passages}

Init ==
  /\ index \in SUBSET Passages
  /\ found = [a \in Arms |-> {}] /\ shown = {}
  /\ record = {} /\ reply = {}

Change ==
  /\ index' \in SUBSET Passages
  /\ UNCHANGED <<found, shown, record, reply>>

Find(a) ==
  /\ found[a] = {} /\ shown = {} /\ record = {} /\ reply = {}
  /\ \E passages \in SUBSET index : found' = [found EXCEPT ![a] = passages]
  /\ UNCHANGED <<index, shown, record, reply>>

Show ==
  /\ shown = {} /\ record = {} /\ reply = {}
  /\ shown' \in SUBSET UNION {found[a] : a \in Arms}
  /\ UNCHANGED <<index, found, record, reply>>

(* A failure is told as it is stored.  An answer is stored first, and may  *)
(* be lost before it is told; with nothing shown it can only abstain.      *)
Store(failed, abstained, claims) ==
  /\ record = {} /\ reply = {}
  /\ failed => claims = <<>>
  /\ ~failed /\ shown = {} => abstained
  /\ record' = {[failed |-> failed, abstained |-> abstained, claims |-> claims,
                 retrieved |-> ChunksIn(shown)]}
  /\ reply' = {Error} \/ (~failed /\ reply' = {})
  /\ UNCHANGED <<index, found, shown>>

Tell(t, claims) ==
  /\ reply = {} /\ ~t.failed
  /\ \A i \in DOMAIN claims : ChunksIn(claims[i]) = t.claims[i]
  /\ reply' = {[kind |-> "answer", abstained |-> t.abstained, claims |-> claims]}
  /\ UNCHANGED <<index, found, shown, record>>

Fail ==
  /\ record = {} /\ reply = {}
  /\ reply' = {Error}
  /\ UNCHANGED <<index, found, shown, record>>

Next ==
  \/ Change
  \/ \E a \in Arms : Find(a)
  \/ Show
  \/ \E failed, abstained \in BOOLEAN, made \in SUBSET Numbers :
       \E claims \in [made -> SUBSET ChunksIn(shown)] : Store(failed, abstained, claims)
  \/ \E t \in record : \E claims \in [DOMAIN t.claims -> SUBSET shown] : Tell(t, claims)
  \/ Fail

Spec == Init /\ [][Next]_<<index, found, shown, record, reply>>
=============================================================================
