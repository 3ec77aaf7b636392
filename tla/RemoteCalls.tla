----------------------------- MODULE RemoteCalls -----------------------------
(***************************************************************************)
(* A call to the inference server: the retry loop of HttpClient             *)
(* (src/core/http_client.cpp) and what KolosalClient, ModelInterface and    *)
(* RetrievalManager make of its result.                                     *)
(*                                                                          *)
(* A reply is what one perform_request comes to: an HTTP status, whether a  *)
(* repetition is recommended, or an exception.  A result is the last reply. *)
(***************************************************************************)
EXTENDS Integers, Sequences

\* is_retryable_error: "mentions" is that the body holds "timeout" or "connection".
IsRetryable(status, mentions) == status \in {429, 502, 503, 504} \/ mentions

Answered(status, mentions) ==
    [status |-> status, retry |-> IsRetryable(status, mentions), thrown |-> FALSE]

\* The transport fails; time-outs and broken connections are worth another try.
TransportFailed(retry) == [status |-> 500, retry |-> retry, thrown |-> FALSE]
Thrown == [status |-> 500, retry |-> FALSE, thrown |-> TRUE]

IsSuccess(reply) == reply.status \in 200..299

-----------------------------------------------------------------------------
(* request_with_retry *)

\* Mutant of Ends: also what is not worth a retry is tried again.
EndsAtLimit(reply, attempts, max) == IsSuccess(reply) \/ attempts >= max

\* Does the loop end after this reply to attempt number attempts (from 0)?  An
\* exception is retried whatever its cause.
Ends(reply, attempts, max) ==
    IsSuccess(reply) \/ attempts >= max \/ (~reply.thrown /\ ~reply.retry)

\* The number of requests made, of a service that would answer with replies.
Requests(replies, max) ==
    CHOOSE n \in 1..(max + 1) :
        /\ Ends(replies[n], n - 1, max)
        /\ \A m \in 1..(n - 1) : ~Ends(replies[m], m - 1, max)

RequestWithRetry(replies, max) == replies[Requests(replies, max)]

\* The pause after an attempt: doubled up to five times, spread by an eighth to both
\* sides, no shorter than the configured delay.  Undefined, a division by zero, when
\* the doubled delay has no quarter.
Undefined == -1
Powers == <<1, 2, 4, 8, 16, 32>>
Backoff(base, attempts) == base * Powers[IF attempts < 5 THEN attempts + 1 ELSE 6]
Delay(base, attempts, rand) ==
    LET b == Backoff(base, attempts)
        jitter == (rand % (b \div 4)) - (b \div 8)
    IN  IF b \div 4 = 0 THEN Undefined ELSE IF b + jitter > base THEN b + jitter ELSE base

\* An exception is followed by the next attempt at once.
Pause(reply, base, attempts, rand) == IF reply.thrown THEN 0 ELSE Delay(base, attempts, rand)

\* HttpClient's constructor, and update_config, which forgets the retries.
Configurable(c) == c.url /\ c.timeout \in 1..300 /\ c.retries \in 0..10
Reconfigurable(c) == c.url /\ c.timeout \in 1..300

\* request: what it refuses itself, before any attempt.
Request(asked, replies, max) ==
    CASE asked = "nothing" -> [status |-> 500, retry |-> FALSE, thrown |-> FALSE]
      [] asked = "too_large" -> [status |-> 400, retry |-> FALSE, thrown |-> FALSE]
      [] asked = "no_url" -> Thrown
      [] OTHER -> RequestWithRetry(replies, max)

\* get_user_friendly_error, by what it is about.
FriendlyError(status) ==
    CASE status = 404 -> "Resource not found" [] status \in 400..499 -> "client error"
      [] status >= 500 -> "server error" [] OTHER -> "unknown error"

-----------------------------------------------------------------------------
(* KolosalClient: a call gives "throws" or what the body of the answer is.  *)

Contents == {"empty", "text", "choices", "content", "other"}

\* make_request, and make_request_with_retry, which is the same.
MakeRequest(result, content) ==
    IF ~IsSuccess(result) \/ content = "text" THEN "throws"
    ELSE IF content = "empty" THEN "other" ELSE content

\* An answer in an unknown form is a text that says so.
ChatWithModel(result, content) ==
    LET answer == MakeRequest(result, content)
    IN  IF answer = "throws" THEN "throws"
        ELSE IF answer = "other" THEN "unexpected format" ELSE "reply"

\* ModelInterface: generate_completion refuses what chat_with_model lets pass.
GenerateCompletion(result, content) ==
    IF MakeRequest(result, content) \in {"choices", "content"} THEN "reply" ELSE "throws"

\* The list of models is empty when it cannot be had.
GetAvailableModels(result, content, models) ==
    IF MakeRequest(result, content) = "throws" THEN {} ELSE models

\* A model that is configured is taken to be there; the server is asked only
\* when no model is configured.
IsModelAvailable(model, configured, served) ==
    IF configured # {} THEN model \in configured ELSE model \in served

IsServerHealthy(result, content, status) ==
    MakeRequest(result, content) # "throws" /\ status \in {"ok", "healthy"}

\* The server may lack a search: it is recognised by words that no friendly message
\* has, so that this answer is never given.
UnavailableMarks == {"HTTP error 404", "Not found"}
SearchInternet(result, content) ==
    IF MakeRequest(result, content) # "throws" THEN "results"
    ELSE IF ~IsSuccess(result) /\ FriendlyError(result.status) \in UnavailableMarks
    THEN "search_not_available" ELSE "throws"

-----------------------------------------------------------------------------
(* RetrievalManager: available once, if the server was healthy when it was  *)
(* built; a configuration that HttpClient refuses makes it unavailable.     *)

Initialize(config, healthy) == Configurable(config) /\ healthy

FromServer(available, result, content) ==
    IF available THEN MakeRequest(result, content) ELSE "throws"

RemoveDocument(available, id, result, content) ==
    IF available /\ id # "" THEN MakeRequest(result, content) ELSE "throws"

ManagedSearch(available, search, result, content) ==
    IF ~available \/ ~search THEN "throws"
    ELSE LET found == SearchInternet(result, content)
         IN  IF found = "search_not_available" THEN "unavailable" ELSE found

\* Both halves are tried, and the failure of one leaves the other.
CombinedSearch(available, search, documents, web) ==
    IF ~available THEN "throws"
    ELSE [local |-> IF FromServer(TRUE, documents.result, documents.content) = "throws"
                    THEN "error" ELSE "results",
          web |-> IF ~search THEN "none"
                  ELSE IF ManagedSearch(TRUE, TRUE, web.result, web.content) = "throws"
                  THEN "error" ELSE "results"]

-----------------------------------------------------------------------------
Replies == {Answered(200, FALSE), Answered(200, TRUE), Answered(404, FALSE), Answered(500, TRUE),
            Answered(503, FALSE), TransportFailed(TRUE), TransportFailed(FALSE), Thrown}

\* Of a service that would answer with replies: the loop ends within its limit, never
\* repeats a request that succeeded or that failed for good, gives up early only on a
\* permanent failure, and returns a success whenever it saw one.
EndsWithin(replies, max) ==
    LET n == Requests(replies, max)
        last == RequestWithRetry(replies, max)
    IN  /\ n \in 1..(max + 1)
        /\ \A m \in 1..(n - 1) : ~IsSuccess(replies[m]) /\ (replies[m].retry \/ replies[m].thrown)
        /\ n <= max => IsSuccess(last) \/ (~last.retry /\ ~last.thrown)
        /\ (\E m \in 1..n : IsSuccess(replies[m])) => IsSuccess(last)

\* The loop pauses between the configured delay and 36 times it.
PausesWithin(base, attempts, rand) == base >= 4 => Delay(base, attempts, rand) \in base..(36 * base)

\* Whatever the server answers, and in whatever order.
RequestsEnd ==
    /\ \A max \in 0..3 : \A replies \in [1..(max + 1) -> Replies] : EndsWithin(replies, max)
    /\ \A base \in {1, 2, 4, 1000}, attempts \in 0..9, rand \in {0, 1, 124, 8000, 32767} :
          PausesWithin(base, attempts, rand)
=============================================================================
