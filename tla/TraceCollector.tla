--------------------------- MODULE TraceCollector ---------------------------
(***************************************************************************)
(* The in-memory trace recorder.  A stage opens a span under the innermost *)
(* open one, and the span is recorded when the stage ends, however it ends.*)
(*                                                                         *)
(*   sequence  how many spans were opened                                  *)
(*   stack     the open spans, innermost last                              *)
(*   spans     the recorded spans, in the order they ended                 *)
(*   raised    the exception on its way through the stages, if any         *)
(*                                                                         *)
(* A span is identified by its sequence number; the code draws a uuid4 for *)
(* it besides.                                                             *)
(***************************************************************************)
EXTENDS Integers, Sequences, FiniteSets

CONSTANTS
  Stages,    \* TraceStage
  MaxSpans   \* bound: spans of one execution

ASSUME SpansAssumption == MaxSpans \in Nat

VARIABLES sequence, stack, spans, raised

collector == <<sequence, stack, spans, raised>>

\* A DomainError, any other Exception, or a cancellation of the task.
Raisable == {"domain", "exception", "cancelled"}
Endings == Raisable \cup {"none"}

NoParent == -1

Innermost == IF stack = <<>> THEN NoParent ELSE stack[Len(stack)].sequence

CollectorInit == sequence = 0 /\ stack = <<>> /\ spans = <<>> /\ raised = "none"

Enter(stage) ==
  /\ raised = "none"
  /\ sequence < MaxSpans
  /\ sequence' = sequence + 1
  /\ stack' = Append(stack, [sequence |-> sequence, parent |-> Innermost, stage |-> stage])
  /\ UNCHANGED <<spans, raised>>

\* Variant: only an exception nobody expected marks its span.
SurpriseStatus(ending) == IF ending = "exception" THEN "error" ELSE "ok"

\* CancelledError is no Exception: the span it ends keeps the status it had.
SpanStatus(ending) == IF ending \in {"domain", "exception"} THEN "error" ELSE "ok"

(* The innermost stage ends: by itself, or by the exception passing through *)
(* it, which goes on from there.                                           *)
Leave(ending) ==
  /\ stack # <<>>
  /\ raised \in {"none", ending}
  /\ LET span == stack[Len(stack)]
     IN spans' = Append(spans, [sequence |-> span.sequence, parent |-> span.parent,
                                stage |-> span.stage, status |-> SpanStatus(ending)])
  /\ stack' = SubSeq(stack, 1, Len(stack) - 1)
  /\ raised' = ending
  /\ UNCHANGED sequence

\* Code around or between the stages handles the exception.
Catch ==
  /\ raised # "none"
  /\ raised' = "none"
  /\ UNCHANGED <<sequence, stack, spans>>

AnyFailed(recorded) == \E i \in DOMAIN recorded : recorded[i].status = "error"

\* The trace's status: failed if it was told so, or if any span did.
FinishStatus(error) == IF error \/ AnyFailed(spans) THEN "error" ELSE "ok"

\* The recorded spans in the order they were opened.
InExecutionOrder ==
  [n \in 1..Len(spans) |->
     spans[CHOOSE i \in DOMAIN spans :
             Cardinality({j \in DOMAIN spans : spans[j].sequence < spans[i].sequence}) = n - 1]]
=============================================================================
