--------------------------- MODULE ProviderErrors ---------------------------
(***************************************************************************)
(* What an error of the Gemini SDK becomes: normalizeGeminiError           *)
(* (ai/providers/gemini/errorMapping.ts) on its way out of the provider,   *)
(* and isRetryableError (ai/providers/gemini/GeminiProvider.ts), by which  *)
(* ModelProviderService marks it for the worker. An error is what the two  *)
(* look at: a numeric status, a status code by name, a network code, and   *)
(* whether the message says that the context is too long.                  *)
(***************************************************************************)
EXTENDS Integers

Unset == 0   \* no status
NoName == "none"

\* GEMINI_ERROR_MAP.
HttpCode ==
    [INVALID_ARGUMENT |-> 400, FAILED_PRECONDITION |-> 400, PERMISSION_DENIED |-> 403,
     NOT_FOUND |-> 404, RESOURCE_EXHAUSTED |-> 429, INTERNAL |-> 500,
     UNAVAILABLE |-> 503, DEADLINE_EXCEEDED |-> 504]

Names == DOMAIN HttpCode

\* The errors that reach the provider. A network error has nothing else; the
\* service names the status it sends, gives one of the two, or neither.
ProviderErrors ==
    [status: {Unset}, name: {NoName}, network: {TRUE}, tooLong: {FALSE}]
    \cup {e \in [status: {Unset, 400, 403, 404, 418, 429, 500, 502, 503, 504},
                 name: Names \cup {NoName}, network: {FALSE}, tooLong: BOOLEAN] :
            e.name = NoName \/ e.status \in {Unset, HttpCode[e.name]}}

\* extractStatus, and the status of the name where there is none.
MappedStatus(e) ==
    IF e.status = Unset /\ e.name # NoName THEN HttpCode[e.name] ELSE e.status

\* Mutant: the friendly message of INTERNAL hides what the service said.
NormalizeHiding(e) ==
    IF MappedStatus(e) = Unset THEN e
    ELSE [status |-> MappedStatus(e), name |-> NoName, network |-> FALSE,
          tooLong |-> e.tooLong /\ e.name = NoName]

\* normalizeGeminiError: an error with a status becomes one with that status and a
\* message of its own, which keeps "context too long" of an INTERNAL error and what
\* the service said only when the error has no name. The name is lost.
Normalize(e) ==
    IF MappedStatus(e) = Unset THEN e
    ELSE [status |-> MappedStatus(e), name |-> NoName, network |-> FALSE,
          tooLong |-> e.tooLong /\ e.name \in {NoName, "INTERNAL"}]

\* isRetryableError.
IsRetryable(e) ==
    LET status == MappedStatus(e)
    IN  \/ e.network
        \/ /\ e.name \notin {"RESOURCE_EXHAUSTED", "INVALID_ARGUMENT", "PERMISSION_DENIED",
                             "FAILED_PRECONDITION", "NOT_FOUND"}
           /\ status \notin 400..499
           /\ ~(e.tooLong /\ status \in {500, Unset})

\* The verdict of ModelProviderService.execute and executeStream.
Retryable(e) == IsRetryable(Normalize(e))

\* What the documents call temporary: the network, the 5xx and what has no status. A
\* client error is fatal, and so is a context that is too long, whatever status came
\* with it (README.md:239-240, RateLimits.md:103, Frontend-Streaming-Retry.md:11-56).
IsTemporary(e) ==
    \/ e.network
    \/ MappedStatus(e) \in {Unset} \cup 500..599 /\ ~e.tooLong

\* A context that is too long, under a 5xx other than 500. It is fatal to the documents;
\* isRetryableError looks at the message of a 500 and of an error without a status only.
Overlong(e) == e.tooLong /\ MappedStatus(e) \in 501..599

\* The documents' verdict on the error.
Verdicts == {"temporary", "fatal", "overlong"}
DocumentedVerdict(e) ==
    IF IsTemporary(e) THEN "temporary" ELSE IF Overlong(e) THEN "overlong" ELSE "fatal"

\* A failure as the worker sees it.
Failures ==
    {[retryable |-> Retryable(e), verdict |-> DocumentedVerdict(e)] : e \in ProviderErrors}
=============================================================================
