---------------------------- MODULE ProviderCall ----------------------------
(***************************************************************************)
(* One call of the Mistral API: a request, answered, refused or lost, and  *)
(* made again after a pause when the failure is one that may pass.         *)
(*                                                                         *)
(*   call     where the call is                                            *)
(*   attempt  how many requests it made                                    *)
(*   error    what it raised, or NoError                                   *)
(*                                                                         *)
(* The length of the pauses is left out, and so is the request's content.  *)
(***************************************************************************)
EXTENDS Integers

CONSTANTS
  MAX_RETRIES,    \* MODEL_MAX_RETRIES: the requests of a call, the first one included
  Statuses,       \* the HTTP statuses of refusals considered
  DEFAULT_CODE    \* the stage's own code

ASSUME CallAssumption == MAX_RETRIES \in Nat \ {0} /\ Statuses \subseteq 300..599

VARIABLES call, attempt, error

call_vars == <<call, attempt, error>>

_RETRYABLE_STATUS == {408, 409, 429, 500, 502, 503, 504}

\* A ProviderError; a "SURPRISE" is an exception that is none.
Error(code, retryable) == [code |-> code, retryable |-> retryable]
NoError == Error("none", FALSE)
Surprise == Error("SURPRISE", FALSE)

ErrorFor(status) ==
  Error(CASE status \in {401, 403} -> "PROVIDER_NOT_CONFIGURED"
          [] status = 429 -> "MODEL_RATE_LIMIT"
          [] status = 422 -> "MODEL_CONTEXT_EXCEEDED"
          [] status >= 500 -> "MODEL_UNAVAILABLE"
          [] OTHER -> DEFAULT_CODE, status \in _RETRYABLE_STATUS)

\* Every way a request may fail: no answer, none in time, or a refusal.
RequestErrors ==
  {Error("MODEL_TIMEOUT", TRUE), Error("MODEL_UNAVAILABLE", TRUE)}
    \cup {ErrorFor(status) : status \in Statuses}

CallInit == call = "idle" /\ attempt = 0 /\ error = NoError

Post ==
  /\ call = "idle"
  /\ call' = "posted" /\ attempt' = 1
  /\ UNCHANGED error

\* A success, whose body is yet to be understood.
Answered ==
  /\ call = "posted"
  /\ call' = "idle" /\ attempt' = 0
  /\ UNCHANGED error

\* Whatever is raised is no ProviderError that may pass: the caller gets it.
Raise(e) == call' = "raised" /\ error' = e /\ UNCHANGED attempt

\* Variant: the last attempt is taken for one more.
PauseOnceMore(e) == e.retryable /\ attempt <= MAX_RETRIES

MayRetry(e) == e.retryable /\ attempt < MAX_RETRIES

RequestFails(e) ==
  /\ call = "posted"
  /\ IF MayRetry(e) THEN call' = "pausing" /\ UNCHANGED <<attempt, error>> ELSE Raise(e)

\* The body of a success is no JSON: ValueError.
BodyIsNoJson == call = "posted" /\ Raise(Surprise)

Retry ==
  /\ call = "pausing"
  /\ call' = "posted" /\ attempt' = attempt + 1
  /\ UNCHANGED error
=============================================================================
