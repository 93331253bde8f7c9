------------------------------- MODULE LlmRetry -------------------------------
(***************************************************************************)
(* One call of OpenAILLMClient.generate_text (app/agent/llm/client.py): a  *)
(* loop of attempts, each answered by the service or ended by an exception *)
(* of its SDK, with a growing pause in between.  The call blocks, and the  *)
(* route handlers are coroutines that never await: as long as it is held,  *)
(* the process serves nobody else.                                         *)
(***************************************************************************)
EXTENDS Integers

CONSTANTS
  MaxAttempts, InitialDelay, Multiplier, MaxDelay, JitterPercent, \* RetryPolicy
  CallTime, \* the longest responses.create takes, the SDK's own retries included
  Raised    \* what the SDK may raise

\* RetryPolicy.__post_init__; time is counted in whole units.
ASSUME PolicyAssumption ==
  /\ MaxAttempts \in Nat \ {0} /\ InitialDelay \in Nat /\ Multiplier \in Nat \ {0}
  /\ MaxDelay \in Nat /\ JitterPercent \in 0 .. 100 /\ CallTime \in Nat
\* Powers of whole numbers are whole numbers.
ASSUME PowersAssumption == \A n \in 1 .. MaxAttempts : Multiplier ^ (n - 1) \in Nat

Category == {"timeout", "connection", "rate_limit", "authentication", "bad_request",
             "server", "unknown"}
Retryable == {"timeout", "connection", "rate_limit", "server"}

\* normalize_llm_error, by what the SDK raised.
Normalized ==
  [x \in {"APITimeoutError", "APIConnectionError", "RateLimitError", "Status429", "Status5xx",
          "AuthenticationError", "Status401", "Status403", "BadRequestError", "OtherStatus",
          "APIError", "Exception"} |->
     CASE x = "APITimeoutError" -> "timeout"
       [] x = "APIConnectionError" -> "connection"
       [] x \in {"RateLimitError", "Status429"} -> "rate_limit"
       [] x = "Status5xx" -> "server"
       [] x \in {"AuthenticationError", "Status401", "Status403"} -> "authentication"
       [] x \in {"BadRequestError", "OtherStatus"} -> "bad_request"
       [] OTHER -> "unknown"]
ASSUME RaisedAssumption == Raised \subseteq DOMAIN Normalized

VARIABLES
  call,     \* "idle", "calling", "answered" or "failed"
  attempt,  \* attempt
  creates,  \* how often responses.create was called
  category, \* the category of the LLMClientError, "none" before
  held      \* how long the call may have held its process by now

callVars == <<call, attempt, creates, category, held>>

\* _retry_delay: the longest pause after the n-th failure.
BaseDelay(n) == InitialDelay * (Multiplier ^ (n - 1))
BoundedDelay(n) == IF BaseDelay(n) < MaxDelay THEN BaseDelay(n) ELSE MaxDelay
Jittered(d) == d + (d * JitterPercent) \div 100
\* Mutant of RetryDelay: the backoff is not bounded.
UnboundedDelay(n) == Jittered(BaseDelay(n))
RetryDelay(n) == Jittered(BoundedDelay(n))

Quiet ==
  /\ call = "idle" /\ attempt = 0 /\ creates = 0 /\ category = "none" /\ held = 0

StartCall ==
  /\ call = "idle" /\ call' = "calling"
  /\ UNCHANGED <<attempt, creates, category, held>>

\* The service answers: with a text, or with none, an error that is our own and
\* is not asked again.
Respond ==
  /\ call = "calling" /\ creates' = creates + 1 /\ held' = held + CallTime
  /\ \/ call' = "answered" /\ UNCHANGED category
     \/ call' = "failed" /\ category' = "unknown"
  /\ UNCHANGED attempt

\* Mutant of GivesUp: one attempt too many.
GivesUpLate(c) == c \notin Retryable \/ attempt > MaxAttempts
GivesUp(c) == c \notin Retryable \/ attempt + 1 >= MaxAttempts

\* The SDK raises, and the loop pauses or gives up.
FailAttempt ==
  /\ call = "calling" /\ creates' = creates + 1 /\ attempt' = attempt + 1
  /\ \E x \in Raised :
       IF GivesUp(Normalized[x])
       THEN call' = "failed" /\ category' = Normalized[x] /\ held' = held + CallTime
       ELSE /\ held' = held + CallTime + RetryDelay(attempt + 1)
            /\ UNCHANGED <<call, category>>

\* generate_text has returned or raised, and its caller has seen it.
Return ==
  /\ call \in {"answered", "failed"}
  /\ call' = "idle" /\ attempt' = 0 /\ creates' = 0 /\ category' = "none" /\ held' = 0

CallNext == StartCall \/ Respond \/ FailAttempt \/ Return
CallSpec == Quiet /\ [][CallNext]_callVars

-----------------------------------------------------------------------------
(* Type correctness of every variable. *)
CallTypeOK ==
  /\ call \in {"idle", "calling", "answered", "failed"}
  /\ attempt \in 0 .. MaxAttempts /\ creates \in 0 .. MaxAttempts
  /\ category \in Category \cup {"none"} /\ held \in Nat

\* The longest pause there can be.
LongestPause == Jittered(MaxDelay)

(* A call does not hold its process longer than its attempts and the pauses *)
(* between them can take, whatever the service does: the pauses grow, but   *)
(* not past their bound, and the jitter is on top of it.                    *)
HeldBriefly == held <= creates * CallTime + attempt * LongestPause

(* A call gives up for a reason: it asked as often as the policy allows, or *)
(* it was refused in a way that asking again would not change.  It never    *)
(* gives up a passing failure early.                                        *)
GivesUpForCause ==
  /\ creates <= MaxAttempts
  /\ call = "failed" => category \notin Retryable \/ creates = MaxAttempts
=============================================================================
