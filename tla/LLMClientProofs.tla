---------------------------- MODULE LLMClientProofs ----------------------------
(***************************************************************************)
(* Proofs about LLMClient for every number of callers, slots and retries.  *)
(***************************************************************************)
EXTENDS LLMClient, FiniteSetTheorems, TLAPS

\* The callers that have called at all.
Active == {c \in Callers : calls[c] > 0}

\* Whoever is not idle has called.
OnlyActive == \A c \in Callers : pc[c] # "idle" => calls[c] > 0

\* An attempt sends at most one request, none before it has a slot, and only the last
\* attempt gives up.
AttemptsUsed ==
    \A c \in Callers :
        /\ sent[c] <= attempt[c] + 1
        /\ pc[c] = "waiting" => sent[c] <= attempt[c]
        /\ pc[c] = "backoff" => attempt[c] < MaxRetries
        /\ outcome[c] = "LLM_PROVIDER_UNAVAILABLE" => pc[c] = "ended" /\ attempt[c] = MaxRetries

\* While no more callers are active than there are slots, every attempt sends its request.
EachAttemptSends ==
    Cardinality(Active) <= Concurrency =>
        \A c \in Callers :
            /\ pc[c] = "waiting" => sent[c] = attempt[c]
            /\ pc[c] \in {"streaming", "backoff"} => sent[c] = attempt[c] + 1
            /\ outcome[c] = "LLM_PROVIDER_UNAVAILABLE" => sent[c] = attempt[c] + 1

IInv == TypeOK /\ SlotsConserved /\ OnlyActive /\ AttemptsUsed /\ EachAttemptSends

\* How a step of one caller moves its slot.
LEMMA StreamingFinite ==
    /\ IsFiniteSet(Streaming) /\ Cardinality(Streaming) \in Nat
    /\ IsFiniteSet(Active) /\ Cardinality(Active) \in Nat
<1>1. IsFiniteSet(Streaming) /\ IsFiniteSet(Active)
  BY FS_Subset, LLMClientAssumption DEF Streaming, Active
<1> QED BY <1>1, FS_CardinalityType

\* A caller that takes a slot joins those that stream.
LEMMA Joins ==
    ASSUME TypeOK, NEW c \in Callers, pc[c] # "streaming",
           pc' = [pc EXCEPT ![c] = "streaming"]
    PROVE  Cardinality(Streaming') = Cardinality(Streaming) + 1
<1>1. Streaming' = Streaming \cup {c} /\ c \notin Streaming
  BY DEF TypeOK, Streaming
<1> QED BY <1>1, StreamingFinite, FS_AddElement

\* A caller that streams and moves on leaves them.
LEMMA Leaves ==
    ASSUME TypeOK, NEW c \in Callers, NEW s, s # "streaming",
           pc' = [pc EXCEPT ![c] = s]
    PROVE  /\ pc[c] = "streaming" => Cardinality(Streaming') = Cardinality(Streaming) - 1
           /\ pc[c] # "streaming" => Streaming' = Streaming
<1>1. CASE pc[c] = "streaming"
  <2>1. Streaming' = Streaming \ {c} /\ c \in Streaming
    BY <1>1 DEF TypeOK, Streaming
  <2> QED BY <1>1, <2>1, StreamingFinite, FS_RemoveElement
<1>2. CASE pc[c] # "streaming"
  BY <1>2 DEF TypeOK, Streaming
<1> QED BY <1>1, <1>2

\* Giving back a slot keeps the sum, and the value of the semaphore in its range.
LEMMA GivesBack ==
    ASSUME TypeOK, SlotsConserved, NEW c \in Callers, NEW s, s # "streaming",
           pc' = [pc EXCEPT ![c] = s], slots' = Released(c)
    PROVE  SlotsConserved' /\ slots' \in 0 .. Concurrency
<1>1. Cardinality(Streaming) \in Nat /\ slots \in Int /\ Concurrency \in Nat
  BY StreamingFinite, LLMClientAssumption DEF TypeOK
<1>2. CASE pc[c] = "streaming"
  <2>1. Cardinality(Streaming') = Cardinality(Streaming) - 1
    BY <1>2, Leaves
  <2>2. c \in Streaming
    BY <1>2 DEF Streaming
  <2>3. Cardinality(Streaming) # 0
    BY <2>2, StreamingFinite, FS_EmptySet
  <2> QED BY <1>1, <1>2, <2>1, <2>3 DEF TypeOK, SlotsConserved, Released
<1>3. CASE pc[c] # "streaming"
  <2>1. Streaming' = Streaming /\ slots' = slots
    BY <1>3, Leaves DEF Released
  <2> QED BY <2>1 DEF TypeOK, SlotsConserved
<1> QED BY <1>2, <1>3

\* A caller that finds no slot free is one more than there are slots.
LEMMA Crowded ==
    ASSUME IInv, NEW c \in Callers, pc[c] = "waiting", slots = 0
    PROVE  Cardinality(Active) > Concurrency
<1>1. Streaming \cup {c} \subseteq Active /\ c \notin Streaming
  BY DEF IInv, OnlyActive, Streaming, Active, TypeOK
<1>2. Cardinality(Streaming \cup {c}) = Cardinality(Streaming) + 1
  BY <1>1, StreamingFinite, FS_AddElement
<1>3. Cardinality(Streaming \cup {c}) <= Cardinality(Active)
  BY <1>1, StreamingFinite, FS_Subset
<1>4. Cardinality(Streaming) = Concurrency
  BY StreamingFinite, LLMClientAssumption DEF IInv, SlotsConserved
<1> QED BY <1>2, <1>3, <1>4, StreamingFinite, LLMClientAssumption

\* The active callers only become more.
LEMMA ActiveGrows ==
    ASSUME TypeOK, [Next]_vars
    PROVE  Cardinality(Active) <= Cardinality(Active')
<1>1. Active \subseteq Active' /\ IsFiniteSet(Active')
  <2>1. Active \subseteq Active'
    BY DEF Next, vars, TypeOK, Active, Call, SendRequest, Answer, Unavailable, AttemptTimeout,
           RetryOrRaise, NextAttempt, Cancel
  <2>2. IsFiniteSet(Active')
    BY FS_Subset, LLMClientAssumption DEF Active
  <2> QED BY <2>1, <2>2
<1> QED BY <1>1, FS_Subset

LEMMA InitIInv == Init => IInv
<1> SUFFICES ASSUME Init PROVE IInv
  OBVIOUS
<1>1. Streaming = {}
  BY DEF Init, Streaming
<1>2. SlotsConserved
  BY <1>1, FS_EmptySet, LLMClientAssumption DEF Init, SlotsConserved
<1> QED BY <1>2, LLMClientAssumption DEF Init, IInv, TypeOK, OnlyActive, AttemptsUsed,
           EachAttemptSends, Outcomes, Rejections, Unhandled

LEMMA TypeStep == ASSUME IInv, [Next]_vars PROVE TypeOK'
<1> USE LLMClientAssumption
<1>1. CASE UNCHANGED vars
  BY <1>1 DEF IInv, TypeOK, vars
<1>2. ASSUME NEW c \in Callers, Call(c) PROVE TypeOK'
  BY <1>2 DEF IInv, TypeOK, Call, Outcomes
<1>3. ASSUME NEW c \in Callers, SendRequest(c) PROVE TypeOK'
  BY <1>3 DEF IInv, TypeOK, SendRequest, AttemptsUsed
<1>4. ASSUME NEW c \in Callers, Answer(c) PROVE TypeOK'
  <2>1. slots' \in 0 .. Concurrency
    BY <1>4, GivesBack DEF IInv, Answer
  <2> QED BY <1>4, <2>1 DEF IInv, TypeOK, Answer, Outcomes
<1>5. ASSUME NEW c \in Callers, RetryOrRaise(c) PROVE TypeOK'
  <2>1. slots' \in 0 .. Concurrency
    BY <1>5, GivesBack DEF IInv, RetryOrRaise
  <2> QED BY <1>5, <2>1 DEF IInv, TypeOK, RetryOrRaise, Outcomes
<1>6. ASSUME NEW c \in Callers, NextAttempt(c) PROVE TypeOK'
  BY <1>6 DEF IInv, TypeOK, NextAttempt, AttemptsUsed
<1>7. ASSUME NEW c \in Callers, Cancel(c) PROVE TypeOK'
  <2>1. slots' \in 0 .. Concurrency
    BY <1>7, GivesBack DEF IInv, Cancel
  <2> QED BY <1>7, <2>1 DEF IInv, TypeOK, Cancel, Outcomes
<1> QED BY <1>1, <1>2, <1>3, <1>4, <1>5, <1>6, <1>7 DEF Next, Unavailable, AttemptTimeout

LEMMA SlotsStep == ASSUME IInv, [Next]_vars PROVE SlotsConserved'
<1> USE DEF IInv
<1>1. CASE UNCHANGED vars
  BY <1>1 DEF SlotsConserved, Streaming, vars
<1>2. ASSUME NEW c \in Callers, Call(c) PROVE SlotsConserved'
  <2>1. Streaming' = Streaming
    BY <1>2, Leaves DEF Call
  <2> QED BY <1>2, <2>1 DEF SlotsConserved, Call
<1>3. ASSUME NEW c \in Callers, SendRequest(c) PROVE SlotsConserved'
  <2>1. Cardinality(Streaming') = Cardinality(Streaming) + 1
    BY <1>3, Joins DEF SendRequest
  <2> QED BY <1>3, <2>1, StreamingFinite, LLMClientAssumption
          DEF SlotsConserved, SendRequest, TypeOK
<1>4. ASSUME NEW c \in Callers, Answer(c) PROVE SlotsConserved'
  BY <1>4, GivesBack DEF Answer
<1>5. ASSUME NEW c \in Callers, RetryOrRaise(c) PROVE SlotsConserved'
  BY <1>5, GivesBack DEF RetryOrRaise
<1>6. ASSUME NEW c \in Callers, NextAttempt(c) PROVE SlotsConserved'
  <2>1. Streaming' = Streaming
    BY <1>6, Leaves DEF NextAttempt
  <2> QED BY <1>6, <2>1 DEF SlotsConserved, NextAttempt
<1>7. ASSUME NEW c \in Callers, Cancel(c) PROVE SlotsConserved'
  BY <1>7, GivesBack DEF Cancel
<1> QED BY <1>1, <1>2, <1>3, <1>4, <1>5, <1>6, <1>7 DEF Next, Unavailable, AttemptTimeout

LEMMA AttemptsStep == ASSUME IInv, [Next]_vars PROVE OnlyActive' /\ AttemptsUsed'
<1> USE LLMClientAssumption DEF IInv, TypeOK, OnlyActive, AttemptsUsed
<1>1. CASE UNCHANGED vars
  BY <1>1 DEF vars
<1>2. ASSUME NEW c \in Callers, Call(c) PROVE OnlyActive' /\ AttemptsUsed'
  BY <1>2 DEF Call
<1>3. ASSUME NEW c \in Callers, SendRequest(c) PROVE OnlyActive' /\ AttemptsUsed'
  BY <1>3 DEF SendRequest
<1>4. ASSUME NEW c \in Callers, Answer(c) PROVE OnlyActive' /\ AttemptsUsed'
  BY <1>4 DEF Answer, Rejections, Unhandled
<1>5. ASSUME NEW c \in Callers, pc[c] \in {"waiting", "streaming"}, RetryOrRaise(c)
      PROVE OnlyActive' /\ AttemptsUsed'
  BY <1>5 DEF RetryOrRaise
<1>6. ASSUME NEW c \in Callers, NextAttempt(c) PROVE OnlyActive' /\ AttemptsUsed'
  BY <1>6 DEF NextAttempt
<1>7. ASSUME NEW c \in Callers, Cancel(c) PROVE OnlyActive' /\ AttemptsUsed'
  BY <1>7 DEF Cancel
<1> QED BY <1>1, <1>2, <1>3, <1>4, <1>5, <1>6, <1>7 DEF Next, Unavailable, AttemptTimeout

LEMMA SendsStep == ASSUME IInv, [Next]_vars PROVE EachAttemptSends'
<1> SUFFICES ASSUME Cardinality(Active') <= Concurrency, NEW d \in Callers
             PROVE  /\ pc'[d] = "waiting" => sent'[d] = attempt'[d]
                    /\ pc'[d] \in {"streaming", "backoff"} => sent'[d] = attempt'[d] + 1
                    /\ outcome'[d] = "LLM_PROVIDER_UNAVAILABLE" => sent'[d] = attempt'[d] + 1
  BY DEF EachAttemptSends
<1> DEFINE Kept == /\ pc'[d] = "waiting" => sent'[d] = attempt'[d]
                   /\ pc'[d] \in {"streaming", "backoff"} => sent'[d] = attempt'[d] + 1
                   /\ outcome'[d] = "LLM_PROVIDER_UNAVAILABLE" => sent'[d] = attempt'[d] + 1
<1>0. Cardinality(Active) <= Concurrency
  <2>1. IsFiniteSet(Active')
    BY FS_Subset, LLMClientAssumption DEF Active
  <2>2. Cardinality(Active') \in Nat
    BY <2>1, FS_CardinalityType
  <2> QED BY <2>2, ActiveGrows, StreamingFinite, LLMClientAssumption DEF IInv
<1>a. /\ pc[d] = "waiting" => sent[d] = attempt[d]
      /\ pc[d] \in {"streaming", "backoff"} => sent[d] = attempt[d] + 1
      /\ outcome[d] = "LLM_PROVIDER_UNAVAILABLE" => sent[d] = attempt[d] + 1
  BY <1>0 DEF IInv, EachAttemptSends
<1>b. outcome[d] = "LLM_PROVIDER_UNAVAILABLE" => pc[d] = "ended"
  BY DEF IInv, AttemptsUsed
<1> USE LLMClientAssumption DEF TypeOK
<1>t. TypeOK
  BY DEF IInv
<1>1. CASE UNCHANGED vars
  BY <1>1, <1>a DEF vars
<1>2. ASSUME NEW c \in Callers, Call(c) PROVE Kept
  BY <1>2, <1>a, <1>t DEF Call
<1>3. ASSUME NEW c \in Callers, SendRequest(c) PROVE Kept
  BY <1>3, <1>a, <1>b, <1>t DEF SendRequest
<1>4. ASSUME NEW c \in Callers, Answer(c) PROVE Kept
  BY <1>4, <1>a, <1>t DEF Answer, Rejections, Unhandled
<1>5. ASSUME NEW c \in Callers, pc[c] = "streaming", RetryOrRaise(c) PROVE Kept
  BY <1>5, <1>a, <1>t DEF RetryOrRaise
<1>6. ASSUME NEW c \in Callers, pc[c] = "waiting", slots = 0 PROVE FALSE
  BY <1>6, <1>0, Crowded, StreamingFinite
<1>7. ASSUME NEW c \in Callers, NextAttempt(c) PROVE Kept
  BY <1>7, <1>a, <1>b, <1>t DEF NextAttempt
<1>8. ASSUME NEW c \in Callers, Cancel(c) PROVE Kept
  BY <1>8, <1>a, <1>t DEF Cancel
<1> QED BY <1>1, <1>2, <1>3, <1>4, <1>5, <1>6, <1>7, <1>8 DEF Next, Unavailable, AttemptTimeout

LEMMA Inductive == Spec => []IInv
<1>1. IInv /\ [Next]_vars => IInv'
  BY TypeStep, SlotsStep, AttemptsStep, SendsStep DEF IInv
<1> QED BY <1>1, InitIInv, PTL DEF Spec
-----------------------------------------------------------------------------
\* The state keeps its types; no call sends more requests than it has attempts.
THEOREM TypeCorrect == Spec => []TypeOK
<1>1. IInv => TypeOK
  BY DEF IInv
<1> QED BY <1>1, Inductive, PTL

\* No path out of complete_json loses a slot of the semaphore or returns one twice.
THEOREM SlotsNeverLeak == Spec => []SlotsConserved
<1>1. IInv => SlotsConserved
  BY DEF IInv
<1> QED BY <1>1, Inductive, PTL

\* A call gives up only after its last attempt.
THEOREM GivesUpAfterLast == Spec => []UnavailableAfterAllAttempts
<1>1. IInv => UnavailableAfterAllAttempts
  BY DEF IInv, AttemptsUsed, UnavailableAfterAllAttempts
<1> QED BY <1>1, Inductive, PTL

\* As many slots as analyses make sure that the provider is asked in every attempt.
THEOREM AskedInEveryAttempt == Spec => []ProviderWasAsked
<1>1. IInv => ProviderWasAsked
  <2> SUFFICES ASSUME IInv, Cardinality(Active) <= Concurrency, NEW c \in Callers,
                      outcome[c] = "LLM_PROVIDER_UNAVAILABLE"
               PROVE  sent[c] = MaxRetries + 1
    BY DEF ProviderWasAsked, Active
  <2> QED BY DEF IInv, EachAttemptSends, AttemptsUsed
<1> QED BY <1>1, Inductive, PTL
-----------------------------------------------------------------------------
(***************************************************************************)
(* What CallsEnd rests on besides the timers.                              *)
(***************************************************************************)
Busy(c) == pc[c] \in {"waiting", "streaming", "backoff"}

\* How many steps a call can still take: three for each attempt.
StepsLeft(place, n) ==
    CASE place = "waiting" -> 3 * (MaxRetries - n) + 3
      [] place = "streaming" -> 3 * (MaxRetries - n) + 2
      [] place = "backoff" -> 3 * (MaxRetries - n) + 1
      [] OTHER -> 0

\* Each step of a call brings its end nearer.
Advances(c) ==
    Busy(c) => \/ pc'[c] = pc[c] /\ attempt'[c] = attempt[c]
               \/ StepsLeft(pc'[c], attempt'[c]) < StepsLeft(pc[c], attempt[c])

LEMMA RetryAdvances ==
    ASSUME IInv, NEW c \in Callers, NEW d \in Callers, Busy(d),
           pc[c] \in {"waiting", "streaming"}, RetryOrRaise(c)
    PROVE  Advances(d)
<1>1. attempt[d] \in 0 .. MaxRetries /\ MaxRetries \in Nat /\ attempt' = attempt
  BY LLMClientAssumption DEF IInv, TypeOK, RetryOrRaise
<1>2. CASE d = c
  <2>1. pc'[c] \in {"backoff", "ended"}
    BY DEF IInv, TypeOK, RetryOrRaise
  <2> QED BY <1>1, <1>2, <2>1 DEF Advances, StepsLeft
<1>3. CASE d # c
  BY <1>1, <1>3 DEF IInv, TypeOK, RetryOrRaise, Advances
<1> QED BY <1>2, <1>3

\* A call takes 3 * (MaxRetries + 1) steps at most, whatever the provider and the other
\* callers do: complete_json neither repeats an attempt nor adds one.
THEOREM CallsAdvance == Spec => [][\A c \in Callers : Advances(c)]_vars
<1>1. ASSUME IInv, Next PROVE \A c \in Callers : Advances(c)
  <2> SUFFICES ASSUME NEW d \in Callers, Busy(d) PROVE Advances(d)
    BY DEF Advances
  <2>t. TypeOK /\ attempt[d] \in 0 .. MaxRetries /\ MaxRetries \in Nat
    BY <1>1, LLMClientAssumption DEF IInv, TypeOK
  <2>1. ASSUME NEW c \in Callers, Call(c) PROVE Advances(d)
    BY <2>1, <2>t DEF TypeOK, Call, Advances, Busy
  <2>2. ASSUME NEW c \in Callers, SendRequest(c) PROVE Advances(d)
    BY <2>2, <2>t DEF TypeOK, SendRequest, Advances, StepsLeft
  <2>3. ASSUME NEW c \in Callers, Answer(c) PROVE Advances(d)
    BY <2>3, <2>t DEF TypeOK, Answer, Advances, StepsLeft
  <2>4. ASSUME NEW c \in Callers, pc[c] \in {"waiting", "streaming"}, RetryOrRaise(c)
        PROVE  Advances(d)
    BY <1>1, <2>4, RetryAdvances
  <2>5. ASSUME NEW c \in Callers, NextAttempt(c) PROVE Advances(d)
    BY <2>5, <2>t DEF TypeOK, NextAttempt, Advances, StepsLeft
  <2>6. ASSUME NEW c \in Callers, Cancel(c) PROVE Advances(d)
    BY <2>6, <2>t DEF TypeOK, Cancel, Advances, Busy, StepsLeft
  <2> QED BY <1>1, <2>1, <2>2, <2>3, <2>4, <2>5, <2>6 DEF Next, Unavailable, AttemptTimeout
<1>2. IInv /\ [Next]_vars => [\A c \in Callers : Advances(c)]_vars
  BY <1>1
<1> QED BY <1>2, Inductive, PTL DEF Spec

\* A caller that waits for a slot finds one, or somebody holds one whose timeout will give
\* it back: the semaphore is never exhausted by calls that are over.
THEOREM WaitsForStreams ==
    Spec => [](\A c \in Callers : pc[c] = "waiting" => slots > 0 \/ Streaming # {})
<1>1. IInv => \A c \in Callers : pc[c] = "waiting" => slots > 0 \/ Streaming # {}
  <2> SUFFICES ASSUME IInv, Streaming = {} PROVE slots > 0
    OBVIOUS
  <2>1. Cardinality(Streaming) = 0
    BY FS_EmptySet
  <2> QED BY <2>1, LLMClientAssumption DEF IInv, SlotsConserved, TypeOK
<1> QED BY <1>1, Inductive, PTL
=============================================================================
