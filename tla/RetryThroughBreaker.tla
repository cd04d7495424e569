------------------------- MODULE RetryThroughBreaker -------------------------
(***************************************************************************)
(* Calls to Revenium that retry through a shared breaker and a shared      *)
(* concurrency limit: retry.go (WithRetry, RetryThroughBreaker) and        *)
(* concurrency_limit.go over the breaker of module CircuitBreaker, whose   *)
(* steps are taken one by one by every attempt of every call.              *)
(*                                                                         *)
(* ShouldTrip and the retry policy ask the same classifier, so the failure *)
(* that counts for the breaker (Fail) is the retryable one and the other   *)
(* one (Refuse) ends the call.                                             *)
(***************************************************************************)
EXTENDS CircuitBreaker

CONSTANTS
    MaxRetries,   \* RetryConfig
    MaxDelay,
    BaseDelay,
    Slots         \* places of the ConcurrencyLimit

ASSUME RetryAssumption ==
    /\ MaxRetries \in Nat
    /\ MaxDelay \in Nat
    /\ BaseDelay \in 0 .. MaxDelay
    /\ Slots \in Nat \ {0}

VARIABLES
    stage,        \* per call: where WithRetry is
    attempt,      \* per call: the loop variable of WithRetry
    delayLeft,    \* per call: ticks of the delay before the next attempt
    lastFailure,  \* per call: the failure RetryThroughBreaker remembers
    result,       \* per call: what it returned
    slots,        \* places taken in the limit
    sent          \* history, per call: requests that went out

callVars == <<stage, attempt, delayLeft, lastFailure, result>>
rvars == <<vars, callVars, slots, sent>>

Stages == {"new", "delay", "queued", "slotted", "calling", "holding", "judging", "done"}
NoFailure == "none"
Failures == {"retryable", "final"}
Results == {"pending", "ok", "failed", "gaveUp", "open", "openAfterFailure", "panic"}

RetryTypeOK ==
    /\ TypeOK
    /\ stage \in [Callers -> Stages]
    /\ attempt \in [Callers -> 0 .. MaxRetries]
    /\ delayLeft \in [Callers -> Nat]
    /\ lastFailure \in [Callers -> Failures \cup {NoFailure}]
    /\ result \in [Callers -> Results]
    /\ slots \in Nat
    /\ sent \in [Callers -> Nat]

RetryInit ==
    /\ Init
    /\ stage = [c \in Callers |-> "new"]
    /\ attempt = [c \in Callers |-> 0]
    /\ delayLeft = [c \in Callers |-> 0]
    /\ lastFailure = [c \in Callers |-> NoFailure]
    /\ result = [c \in Callers |-> "pending"]
    /\ slots = 0
    /\ sent = [c \in Callers |-> 0]

-----------------------------------------------------------------------------

GoTo(c, s) == stage' = [stage EXCEPT ![c] = s]

Return(c, r) ==
    /\ GoTo(c, "done")
    /\ result' = [result EXCEPT ![c] = r]
    /\ UNCHANGED <<attempt, delayLeft>>

\* RetryConfig.retries, for a failure other than an open breaker.
retries(failure, retryAfter) == failure = "retryable" /\ retryAfter <= MaxDelay

\* calculateDelay: the server's wait if it named one, else a backoff whose
\* doubling and throttling stay between BaseDelay and MaxDelay (jitter adds less
\* than a tick).
calculateDelay(retryAfter) == IF retryAfter > 0 THEN {retryAfter} ELSE BaseDelay .. MaxDelay

CanExecute ==
    \/ state = Closed
    \/ state = HalfOpen /\ ~halfOpenInFlight
    \/ state = Open /\ reopenIn = 0

\* A call enters WithRetry.
Start(c) ==
    /\ stage[c] = "new"
    /\ GoTo(c, "queued")
    /\ UNCHANGED <<vars, attempt, delayLeft, lastFailure, result, slots, sent>>

\* The delay before a retry is over.
Wake(c) ==
    /\ stage[c] = "delay"
    /\ delayLeft[c] = 0
    /\ GoTo(c, "queued")
    /\ UNCHANGED <<vars, attempt, delayLeft, lastFailure, result, slots, sent>>

\* ConcurrencyLimit.Run: the attempt takes its place.
TakeSlot(c) ==
    /\ stage[c] = "queued"
    /\ slots < Slots
    /\ slots' = slots + 1
    /\ GoTo(c, "slotted")
    /\ UNCHANGED <<vars, attempt, delayLeft, lastFailure, result, sent>>

\* The breaker lets the attempt through and fn sends its request.
SendRequest(c) ==
    /\ stage[c] = "slotted"
    /\ Admit(c)
    /\ GoTo(c, "calling")
    /\ sent' = [sent EXCEPT ![c] = @ + 1]
    /\ UNCHANGED <<attempt, delayLeft, lastFailure, result, slots>>

\* Mutant: the error of an open breaker never carries the failure before it.
StopAtBreakerForgets(c) ==
    /\ stage[c] = "slotted"
    /\ ~CanExecute
    /\ slots' = slots - 1
    /\ Return(c, "open")
    /\ UNCHANGED <<vars, lastFailure, sent>>

\* The breaker refuses: the place is given back and the call returns
\* ErrCircuitOpen, with the last failure it saw itself, if any.
StopAtBreaker(c) ==
    /\ stage[c] = "slotted"
    /\ ~CanExecute
    /\ slots' = slots - 1
    /\ Return(c, IF lastFailure[c] = NoFailure THEN "open" ELSE "openAfterFailure")
    /\ UNCHANGED <<vars, lastFailure, sent>>

SendSucceeds(c) ==
    /\ stage[c] = "calling"
    /\ Succeed(c)
    /\ slots' = slots - 1
    /\ Return(c, "ok")
    /\ UNCHANGED <<lastFailure, sent>>

\* The request failed; with a Retry-After the place is kept until HoldOpenFor
\* is done.
SendFails(c, failure, retryAfter) ==
    /\ stage[c] = "calling"
    /\ \/ failure = "retryable" /\ Fail(c, retryAfter)
       \/ failure = "final" /\ Refuse(c, retryAfter)
    /\ lastFailure' = [lastFailure EXCEPT ![c] = failure]
    /\ IF retryAfter > 0
         THEN GoTo(c, "holding") /\ UNCHANGED slots
         ELSE GoTo(c, "judging") /\ slots' = slots - 1
    /\ UNCHANGED <<attempt, delayLeft, result, sent>>

\* Mutant: Run gives its place back in no deferred call.
SendPanicsKeepsPlace(c) ==
    /\ stage[c] = "calling"
    /\ Panic(c)
    /\ Return(c, "panic")
    /\ UNCHANGED <<lastFailure, slots, sent>>

\* fn panicked: the place is given back and the panic leaves the call.
SendPanics(c) ==
    /\ stage[c] = "calling"
    /\ Panic(c)
    /\ slots' = slots - 1
    /\ Return(c, "panic")
    /\ UNCHANGED <<lastFailure, sent>>

\* Mutant: one retry too many.
JudgeOneMore(c, retryAfter) ==
    \/ /\ retryAfter = 0 /\ ~CanExecute
       /\ Return(c, "openAfterFailure")
    \/ /\ CanExecute \/ retryAfter > 0
       /\ ~retries(lastFailure[c], retryAfter) \/ attempt[c] > MaxRetries
       /\ Return(c, "failed")
    \/ /\ CanExecute \/ retryAfter > 0
       /\ retries(lastFailure[c], retryAfter) /\ attempt[c] <= MaxRetries
       /\ attempt' = [attempt EXCEPT ![c] = @ + 1]
       /\ \E d \in calculateDelay(retryAfter) : delayLeft' = [delayLeft EXCEPT ![c] = d]
       /\ GoTo(c, "delay")
       /\ UNCHANGED result

\* After a failure that named no wait: a breaker that lets nobody through ends
\* the call; so does a failure that is not retried, and the last attempt.
Judge(c, retryAfter) ==
    \/ /\ retryAfter = 0
       /\ ~CanExecute
       /\ Return(c, "openAfterFailure")
    \/ /\ CanExecute \/ retryAfter > 0
       /\ ~retries(lastFailure[c], retryAfter)
       /\ Return(c, "failed")
    \/ /\ CanExecute \/ retryAfter > 0
       /\ retries(lastFailure[c], retryAfter)
       /\ attempt[c] = MaxRetries
       /\ Return(c, "gaveUp")
    \/ /\ CanExecute \/ retryAfter > 0
       /\ retries(lastFailure[c], retryAfter)
       /\ attempt[c] < MaxRetries
       /\ attempt' = [attempt EXCEPT ![c] = @ + 1]
       /\ \E d \in calculateDelay(retryAfter) : delayLeft' = [delayLeft EXCEPT ![c] = d]
       /\ GoTo(c, "delay")
       /\ UNCHANGED result

JudgeFailure(c) ==
    /\ stage[c] = "judging"
    /\ Judge(c, 0)
    /\ UNCHANGED <<vars, lastFailure, slots, sent>>

\* The answer named a wait: the breaker is held, the place given back, and the
\* failure judged; nothing can come between that changes what it decides.
HoldThenJudge(c) ==
    /\ stage[c] = "holding"
    /\ Hold(c)
    /\ slots' = slots - 1
    /\ Judge(c, asked[c])
    /\ UNCHANGED <<lastFailure, sent>>

PassTime ==
    /\ Tick
    /\ delayLeft' = [c \in Callers |-> Shorter(delayLeft[c])]
    /\ UNCHANGED <<stage, attempt, lastFailure, result, slots, sent>>

Recover == Heal /\ UNCHANGED <<callVars, slots, sent>>

\* The program makes another call.
CallAgain(c) ==
    /\ stage[c] = "done"
    /\ stage' = [stage EXCEPT ![c] = "new"]
    /\ attempt' = [attempt EXCEPT ![c] = 0]
    /\ delayLeft' = [delayLeft EXCEPT ![c] = 0]
    /\ lastFailure' = [lastFailure EXCEPT ![c] = NoFailure]
    /\ result' = [result EXCEPT ![c] = "pending"]
    /\ sent' = [sent EXCEPT ![c] = 0]
    /\ UNCHANGED <<vars, slots>>

Step(c) ==
    \/ Start(c) \/ Wake(c) \/ TakeSlot(c)
    \/ SendRequest(c) \/ StopAtBreaker(c)
    \/ SendSucceeds(c)
    \/ \E failure \in Failures, retryAfter \in RetryAfters : SendFails(c, failure, retryAfter)
    \/ SendPanics(c)
    \/ JudgeFailure(c) \/ HoldThenJudge(c)

RetryNext ==
    \/ \E c \in Callers : Step(c) \/ CallAgain(c)
    \/ PassTime
    \/ Recover

RetrySpec == RetryInit /\ [][RetryNext]_rvars

\* Time passes, requests are answered or time out, every goroutine past a wait
\* goes on, and the limit's channel serves its waiters in turn (Go queues the
\* senders of a full channel), which is the strong fairness on TakeSlot.
RetryFairness ==
    /\ WF_rvars(PassTime)
    /\ \A c \in Callers :
         /\ WF_rvars(Step(c))
         /\ SF_rvars(TakeSlot(c))

RetryLiveSpec == RetrySpec /\ RetryFairness

-----------------------------------------------------------------------------
(* Properties.                                                             *)

HasPlace(c) == stage[c] \in {"slotted", "calling", "holding"}

\* A place is held exactly by the attempts between Run's two channel
\* operations: no outcome, refusal or panic keeps one or gives one back twice.
PlacesAccounted ==
    /\ slots = Cardinality({c \in Callers : HasPlace(c)})
    /\ slots <= Slots

\* Whoever refuses or fails, one call sends at most its first request and
\* MaxRetries more.
RequestsBounded == \A c \in Callers : sent[c] <= MaxRetries + 1

\* What the policy promises of its budgets, the places of the limit and the
\* requests of a call.
BudgetsKept == RetryTypeOK /\ PlacesAccounted /\ RequestsBounded

\* A call stopped by the open breaker hides nothing: if any request of its own
\* failed the error carries that failure, and only a call that never sent one
\* returns the bare ErrCircuitOpen.
OpenErrorKeepsTheFailure ==
    \A c \in Callers :
        /\ result[c] = "open" => sent[c] = 0
        /\ result[c] = "openAfterFailure" => sent[c] > 0 /\ lastFailure[c] # NoFailure

\* Every call returns: no attempt waits for ever for a place or the breaker.
CallsReturn == \A c \in Callers : stage[c] = "queued" ~> stage[c] = "done"
=============================================================================
