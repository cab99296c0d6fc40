---------------------------- MODULE MCApiService ----------------------------
(* Small instances of ApiService for TLC. *)
EXTENDS ApiService, TLC

CONSTANTS alpha, beta, foreign, none, a1, a2, r1, r2, r3

Local ==
  [ENVIRONMENT |-> "development", AUTH_MODE |-> "disabled", SECRET_KEY |-> "change-me",
   DEBUG |-> TRUE, LOG_FORMAT |-> "console", MISTRAL_API_KEY |-> "key",
   EMBEDDING_DIMENSIONS |-> 1024]

Deployed ==
  [Local EXCEPT !.ENVIRONMENT = "production", !.AUTH_MODE = "jwt", !.SECRET_KEY = "secret",
                !.DEBUG = FALSE, !.LOG_FORMAT = "json"]

\* A development machine, production, and every single thing wrong with either.
SomeDeployments ==
  { Local, [Local EXCEPT !.EMBEDDING_DIMENSIONS = 768],
    Deployed, [Deployed EXCEPT !.SECRET_KEY = "change-me"], [Deployed EXCEPT !.DEBUG = TRUE],
    [Deployed EXCEPT !.LOG_FORMAT = "console"], [Deployed EXCEPT !.AUTH_MODE = "disabled"],
    [Deployed EXCEPT !.MISTRAL_API_KEY = "blank"] }

Asking(endpoint, id) ==
  [endpoint |-> endpoint, bearer |-> endpoint = "stub", name |-> alpha, project |-> id]

\* Everything a client may do to the project r1 creates, and to another organization's;
\* one of the calls carries a token.
SomeCalls == {Asking(e, r1) : e \in Endpoints} \cup {Asking("read", foreign)}
=============================================================================
