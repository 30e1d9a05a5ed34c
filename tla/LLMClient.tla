----------------------------- MODULE LLMClient -----------------------------
(***************************************************************************)
(* One call of the Gemini adapter (packages/llm/src/gemini-provider.ts):   *)
(* callJson around generateWithRetry.  An API error is the set of the      *)
(* transient-looking tokens in its message, which is all that isRetryable  *)
(* looks at; a response is what text(), JSON.parse and the schema make of  *)
(* it.  The API itself is external.                                        *)
(***************************************************************************)
EXTENDS Domain, Integers, Sequences

CONSTANTS Errors,        \* API errors: sets of tokens
          Responses      \* a subset of {"valid", "invalid", "not-json", "blocked"}

ASSUME ResponsesAssumption == Null \notin Responses

VARIABLES
  at,          \* "request", "backoff", "response", "settled"
  attempt,     \* loop counter, from 0
  response,    \* what generateContent returned
  outcome,     \* how the ResultAsync settles: "ok", "llm-error", "rejected"
  errors       \* API errors met so far (history)

callVars == <<at, attempt, response, outcome, errors>>

Delays == <<2000, 5000>>
TransientTokens == {"500", "502", "503", "504", "overloaded", "unavailable"}

CallInit ==
  /\ at = "request" /\ attempt = 0
  /\ response = Null /\ outcome = Null /\ errors = << >>

\* isRetryable tests the message, not the status.
IsRetryable(err) == err \cap TransientTokens # {}

Responds ==
  /\ at = "request" /\ at' = "response"
  /\ response' \in Responses
  /\ UNCHANGED <<attempt, outcome, errors>>

\* Mutant: the last attempt is not recognized as such.
RequestFailsLate(err) ==
  /\ at = "request"
  /\ errors' = Append(errors, err)
  /\ IF ~IsRetryable(err) \/ attempt = Len(Delays) + 1
       THEN at' = "settled" /\ outcome' = "llm-error"
       ELSE at' = "backoff" /\ UNCHANGED outcome
  /\ UNCHANGED <<attempt, response>>

\* The catch block: give up, or wait for the next attempt.
RequestFails(err) ==
  /\ at = "request"
  /\ errors' = Append(errors, err)
  /\ IF ~IsRetryable(err) \/ attempt = Len(Delays)
       THEN at' = "settled" /\ outcome' = "llm-error"
       ELSE at' = "backoff" /\ UNCHANGED outcome
  /\ UNCHANGED <<attempt, response>>

\* The timer has fired: the loop goes on.
Backoff ==
  /\ at = "backoff" /\ at' = "request" /\ attempt' = attempt + 1
  /\ UNCHANGED <<response, outcome, errors>>

\* text() throws on a blocked response, outside the try block; JSON.parse and
\* safeParse turn the rest into Ok or an LLMError.
ParseResponse ==
  /\ at = "response" /\ at' = "settled"
  /\ outcome' = CASE response = "blocked" -> "rejected"
                  [] response = "valid" -> "ok"
                  [] OTHER -> "llm-error"
  /\ UNCHANGED <<attempt, response, errors>>

CallNext == Responds \/ (\E err \in Errors : RequestFails(err)) \/ Backoff \/ ParseResponse

CallSpec == CallInit /\ [][CallNext]_callVars

-----------------------------------------------------------------------------
Settled == at = "settled"

\* What the retries promise: a transient error of one of the first two attempts is
\* not the end of the call; after an error that is not, or after the third, no
\* request follows.  Transient is what isRetryable takes for it: a 429 whose message
\* names 500 is, and is sent again, although gemini-provider.ts:137-138 has "429 quota
\* errors are NOT retried".
TransientSurvived ==
  /\ Len(errors) <= Len(Delays) + 1
  /\ \A k \in DOMAIN errors :
       /\ k < Len(errors) => IsRetryable(errors[k])
       /\ k <= Len(Delays) /\ IsRetryable(errors[k]) => ~(Settled /\ Len(errors) = k /\ response = Null)

\* The inductive invariant behind it: the attempts count the errors the loop went on
\* after, all of them transient; what settled the call without a response was not, or
\* there was no attempt left.
CallInv ==
  /\ at \in {"request", "backoff", "response", "settled"}
  /\ attempt \in 0..Len(Delays) /\ errors \in Seq(Errors)
  /\ at \in {"request", "backoff"} => response = Null
  /\ at = "response" => response # Null
  /\ Len(errors) = attempt + (IF at = "backoff" \/ (Settled /\ response = Null) THEN 1 ELSE 0)
  /\ \A k \in 1..attempt : IsRetryable(errors[k])
  /\ at = "backoff" => attempt < Len(Delays) /\ IsRetryable(errors[attempt + 1])
  /\ Settled /\ response = Null =>
       attempt = Len(Delays) \/ ~IsRetryable(errors[attempt + 1])
=============================================================================
