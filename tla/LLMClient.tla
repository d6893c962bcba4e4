------------------------------- MODULE LLMClient -------------------------------
(***************************************************************************)
(* OpenRouterLLMClient.complete_json: bounded retries over one process-wide *)
(* semaphore.  An attempt starts its total timeout, then waits for a slot, *)
(* so the wait counts against the timeout; the slot is held while the      *)
(* response streams in, and not while it is parsed or during the backoff.  *)
(***************************************************************************)
EXTENDS Integers, FiniteSets

CONSTANTS
    Callers,      \* the analyses that are running; each makes one call at a time
    Concurrency,  \* Settings.llm_global_concurrency
    MaxRetries,   \* Settings.llm_max_retries
    MaxCalls      \* bound: how many calls a caller makes

ASSUME LLMClientAssumption ==
    /\ IsFiniteSet(Callers)
    /\ Concurrency \in Nat \ {0}
    /\ MaxRetries \in Nat
    /\ MaxCalls \in Nat

VARIABLES
    pc,        \* where each caller is
    attempt,   \* the loop variable of complete_json
    sent,      \* how many requests the current call has sent to the provider
    outcome,   \* how the last call of each caller ended
    slots,     \* the value of the semaphore
    calls      \* how many calls each caller has begun

vars == <<pc, attempt, sent, outcome, slots, calls>>

\* What _parse_response and the streaming loop raise without a retry.
Rejections == {"LLM_PROVIDER_REJECTED", "LLM_RESPONSE_TOO_LARGE",
               "LLM_OUTPUT_TRUNCATED", "LLM_INVALID_RESPONSE"}

\* An exception complete_json does not handle leaves it as it is.
Unhandled == {"HTTP_PROTOCOL_ERROR"}

Outcomes == Rejections \cup Unhandled \cup
            {"none", "completion", "LLM_PROVIDER_UNAVAILABLE", "cancelled"}

Streaming == {c \in Callers : pc[c] = "streaming"}

\* Slip: the slot is kept when the stream ends with an error.
ReleasedNever(c) == slots

\* Leaving the `async with` gives the slot back, whichever way it is left.
Released(c) == IF pc[c] = "streaming" THEN slots + 1 ELSE slots

Init ==
    /\ pc = [c \in Callers |-> "idle"]
    /\ attempt = [c \in Callers |-> 0]
    /\ sent = [c \in Callers |-> 0]
    /\ outcome = [c \in Callers |-> "none"]
    /\ slots = Concurrency
    /\ calls = [c \in Callers |-> 0]

Call(c) ==
    /\ pc[c] \in {"idle", "ended"}
    /\ outcome[c] \notin {"cancelled"}
    /\ calls[c] < MaxCalls
    /\ calls' = [calls EXCEPT ![c] = @ + 1]
    /\ pc' = [pc EXCEPT ![c] = "waiting"]
    /\ attempt' = [attempt EXCEPT ![c] = 0]
    /\ sent' = [sent EXCEPT ![c] = 0]
    /\ outcome' = [outcome EXCEPT ![c] = "none"]
    /\ UNCHANGED slots

SendRequest(c) ==
    /\ pc[c] = "waiting"
    /\ slots > 0
    /\ slots' = slots - 1
    /\ pc' = [pc EXCEPT ![c] = "streaming"]
    /\ sent' = [sent EXCEPT ![c] = @ + 1]
    /\ UNCHANGED <<attempt, outcome, calls>>

\* A completion, an error that is not retried, or one complete_json does not know.
Answer(c) ==
    /\ pc[c] = "streaming"
    /\ \E o \in Rejections \cup Unhandled \cup {"completion"} :
          outcome' = [outcome EXCEPT ![c] = o]
    /\ slots' = Released(c)
    /\ pc' = [pc EXCEPT ![c] = "ended"]
    /\ UNCHANGED <<attempt, sent, calls>>

\* Slip: the last attempt is not made.
RetryOneLess(c) ==
    /\ slots' = Released(c)
    /\ \/ /\ attempt[c] + 1 < MaxRetries
          /\ pc' = [pc EXCEPT ![c] = "backoff"]
          /\ UNCHANGED outcome
       \/ /\ attempt[c] + 1 >= MaxRetries
          /\ pc' = [pc EXCEPT ![c] = "ended"]
          /\ outcome' = [outcome EXCEPT ![c] = "LLM_PROVIDER_UNAVAILABLE"]
    /\ UNCHANGED <<attempt, sent, calls>>

\* What the loop does with a retryable error.
RetryOrRaise(c) ==
    /\ slots' = Released(c)
    /\ \/ /\ attempt[c] < MaxRetries
          /\ pc' = [pc EXCEPT ![c] = "backoff"]
          /\ UNCHANGED outcome
       \/ /\ attempt[c] = MaxRetries
          /\ pc' = [pc EXCEPT ![c] = "ended"]
          /\ outcome' = [outcome EXCEPT ![c] = "LLM_PROVIDER_UNAVAILABLE"]
    /\ UNCHANGED <<attempt, sent, calls>>

\* Status 429 or 5xx, a network error, or a connect or read timeout.
Unavailable(c) ==
    /\ pc[c] = "streaming"
    /\ RetryOrRaise(c)

\* Slip: the timeout covers the wait for a slot, not the stream that follows.
TimeoutInQueueOnly(c) ==
    /\ pc[c] = "waiting" /\ slots = 0
    /\ RetryOrRaise(c)

\* The total timeout of the attempt, in the queue of the semaphore or in the stream.
\* A caller queues only while no slot is free.
AttemptTimeout(c) ==
    /\ \/ pc[c] = "streaming"
       \/ pc[c] = "waiting" /\ slots = 0
    /\ RetryOrRaise(c)

\* Slip: the retry does not count the attempt.
NextAttemptUncounted(c) ==
    /\ pc[c] = "backoff"
    /\ pc' = [pc EXCEPT ![c] = "waiting"]
    /\ UNCHANGED <<attempt, sent, outcome, slots, calls>>

NextAttempt(c) ==
    /\ pc[c] = "backoff"
    /\ pc' = [pc EXCEPT ![c] = "waiting"]
    /\ attempt' = [attempt EXCEPT ![c] = @ + 1]
    /\ UNCHANGED <<sent, outcome, slots, calls>>

\* The analysis timeout cancels whatever complete_json awaits; the analysis is over.
Cancel(c) ==
    /\ pc[c] \in {"waiting", "streaming", "backoff"}
    /\ slots' = Released(c)
    /\ pc' = [pc EXCEPT ![c] = "ended"]
    /\ outcome' = [outcome EXCEPT ![c] = "cancelled"]
    /\ UNCHANGED <<attempt, sent, calls>>

Next ==
    \E c \in Callers :
        \/ Call(c) \/ SendRequest(c) \/ Answer(c) \/ Unavailable(c)
        \/ AttemptTimeout(c) \/ NextAttempt(c) \/ Cancel(c)

Spec == Init /\ [][Next]_vars

\* The event loop and its timers; the provider may stay silent for ever.
Fairness == \A c \in Callers : WF_vars(SendRequest(c) \/ AttemptTimeout(c) \/ NextAttempt(c))

FairSpec == Spec /\ Fairness
-----------------------------------------------------------------------------
TypeOK ==
    /\ pc \in [Callers -> {"idle", "waiting", "streaming", "backoff", "ended"}]
    /\ attempt \in [Callers -> 0 .. MaxRetries]
    /\ sent \in [Callers -> 0 .. MaxRetries + 1]
    /\ outcome \in [Callers -> Outcomes]
    /\ slots \in 0 .. Concurrency
    /\ calls \in [Callers -> 0 .. MaxCalls]

\* No error, timeout, cancellation or backoff keeps a slot of the process-wide semaphore
\* or gives one back twice.
SlotsConserved == slots + Cardinality(Streaming) = Concurrency

\* The provider is reported as unavailable only after every attempt was used, and no call
\* sends more requests than attempts.
UnavailableAfterAllAttempts ==
    \A c \in Callers :
        /\ sent[c] <= attempt[c] + 1
        /\ outcome[c] = "LLM_PROVIDER_UNAVAILABLE" => attempt[c] = MaxRetries

\* As long as no more analyses have called than there are slots, no attempt is spent in
\* the queue of the semaphore: the provider was asked in each attempt before it is
\* reported as unavailable.
ProviderWasAsked ==
    Cardinality({c \in Callers : calls[c] > 0}) <= Concurrency =>
        \A c \in Callers : outcome[c] = "LLM_PROVIDER_UNAVAILABLE" => sent[c] = MaxRetries + 1

\* Every call ends, even if the provider never answers.
CallsEnd == \A c \in Callers : pc[c] = "waiting" ~> pc[c] = "ended"
=============================================================================
