--------------------------- MODULE CircuitBreaker ---------------------------
(***************************************************************************)
(* The circuit breaker of core/resilience (circuit_breaker.go) with the    *)
(* Retry-After wrapper every delivery and every jobs call goes through     *)
(* (retry_after.go: ExecuteHonoringRetryAfter).                            *)
(*                                                                         *)
(* One action is one critical section under cb.mu.  Between Execute's      *)
(* admit and its settle the caller runs fn with no lock held, and between  *)
(* settle and HoldOpenFor the lock is free again: pc records where each    *)
(* caller is.                                                              *)
(*                                                                         *)
(* Two abstractions of data keep the model finite with no bound on how     *)
(* long it runs:                                                           *)
(*  - time is relative.  reopenIn is reopenAt - now, 0 once it has passed, *)
(*    and a failure is its age, which stops growing at TimeWindow, where   *)
(*    the code no longer tells ages apart;                                 *)
(*  - a generation is compared for equality only, so moveTo takes one that *)
(*    no call in flight holds instead of counting up.                      *)
(***************************************************************************)
EXTENDS Integers, Sequences, FiniteSets

CONSTANTS
    Callers,             \* goroutines that share the breaker
    Generations,         \* values of the generation counter
    FailureThreshold,    \* CircuitBreakerConfig
    RecoveryTimeout,
    SuccessThreshold,
    TimeWindow,
    ConsecutiveFailures,
    MaxFailureHistory,   \* maxFailureHistory
    MaxRetryAfter,       \* the longest wait ParseRetryAfter lets through
    ManualRecording      \* whether the application calls RecordSuccess/Failure

ASSUME ConfigAssumption ==
    /\ FailureThreshold \in Nat \ {0}
    /\ RecoveryTimeout \in Nat \ {0}
    /\ SuccessThreshold \in Nat \ {0}
    /\ TimeWindow \in Nat \ {0}
    /\ MaxFailureHistory \in Nat \ {0}
    /\ MaxRetryAfter \in Nat
    /\ ConsecutiveFailures \in BOOLEAN
    /\ ManualRecording \in BOOLEAN

\* moveTo always finds a generation no call in flight holds.
ASSUME GenerationsNeverRunOut ==
    IsFiniteSet(Generations) => Cardinality(Generations) >= Cardinality(Callers) + 2

VARIABLES
    state, successCount, reopenIn, failures, halfOpenInFlight, generation,
    pc,        \* per caller: "idle", "running" fn, "holding" before HoldOpenFor
    ticket,    \* per caller: the generation admit returned
    asked,     \* per caller: Retry-After of the answer it carries to HoldOpenFor
    healthy,   \* the service answers every request from now on
    owed,      \* history: ticks the breaker still has to keep calls back
    recent,    \* history: the requests out that began since the breaker last opened
    proven     \* history: successes of such requests, up to SuccessThreshold

breaker == <<state, successCount, reopenIn, failures, halfOpenInFlight, generation>>
evidence == <<recent, proven>>
vars == <<breaker, pc, ticket, asked, healthy, owed, evidence>>

Closed == "CLOSED"
Open == "OPEN"
HalfOpen == "HALF_OPEN"

RetryAfters == 0 .. MaxRetryAfter

Longest(a, b) == IF a >= b THEN a ELSE b
Shorter(n) == IF n = 0 THEN 0 ELSE n - 1

TypeOK ==
    /\ state \in {Closed, Open, HalfOpen}
    /\ successCount \in Nat
    /\ reopenIn \in Nat
    /\ failures \in Seq(Nat)
    /\ halfOpenInFlight \in BOOLEAN
    /\ generation \in Generations
    /\ pc \in [Callers -> {"idle", "running", "holding"}]
    /\ ticket \in [Callers -> Generations]
    /\ asked \in [Callers -> 0 .. MaxRetryAfter]
    /\ healthy \in BOOLEAN
    /\ owed \in Nat
    /\ recent \subseteq Callers
    /\ proven \in 0 .. SuccessThreshold

Init ==
    /\ state = Closed
    /\ successCount = 0
    /\ reopenIn = 0
    /\ failures = <<>>
    /\ halfOpenInFlight = FALSE
    /\ generation \in Generations
    /\ pc = [c \in Callers |-> "idle"]
    /\ ticket = [c \in Callers |-> generation]
    /\ asked = [c \in Callers |-> 0]
    /\ healthy = FALSE
    /\ owed = 0
    /\ recent = {}
    /\ proven = SuccessThreshold

-----------------------------------------------------------------------------
(* The breaker's own steps, each under cb.mu.                              *)

InUse == {generation} \cup {ticket[c] : c \in {d \in Callers : pc[d] = "running"}}

\* Mutant: a move does not begin a new generation.
moveToSameGeneration(s) ==
    /\ state' = s
    /\ UNCHANGED generation

moveTo(s) ==
    /\ state' = s
    /\ generation' \in Generations \ InUse

\* Failures are appended in time order, so the expired ones come first.
Expired(fs) == {i \in 1 .. Len(fs) : fs[i] >= TimeWindow}
cleanupOldFailures(fs) == SubSeq(fs, Cardinality(Expired(fs)) + 1, Len(fs))

trimHistory(fs) ==
    IF Len(fs) > MaxFailureHistory THEN SubSeq(fs, (Len(fs) \div 2) + 1, Len(fs)) ELSE fs

\* The cleanup runs every five minutes or once the history is long: either
\* may be so at any success.
performPeriodicCleanup(fs) == {fs, cleanupOldFailures(fs)}

\* A half-open breaker closes on the success that reaches SuccessThreshold.
onSuccess ==
    /\ UNCHANGED reopenIn
    /\ \/ /\ state = HalfOpen
          /\ halfOpenInFlight' = FALSE
          /\ \/ /\ successCount + 1 >= SuccessThreshold
                /\ moveTo(Closed)
                /\ successCount' = 0
                /\ failures' = <<>>
             \/ /\ successCount + 1 < SuccessThreshold
                /\ successCount' = successCount + 1
                /\ UNCHANGED <<state, generation, failures>>
       \/ /\ state = Closed
          /\ failures' \in IF ConsecutiveFailures THEN {<<>>} ELSE performPeriodicCleanup(failures)
          /\ UNCHANGED <<state, generation, successCount, halfOpenInFlight>>
       \/ /\ state = Open
          /\ UNCHANGED <<state, generation, successCount, halfOpenInFlight, failures>>

onFailure ==
    /\ failures' = cleanupOldFailures(trimHistory(Append(failures, 0)))
    /\ \/ /\ state = HalfOpen
          /\ moveTo(Open)
          /\ halfOpenInFlight' = FALSE
          /\ successCount' = 0
          /\ reopenIn' = RecoveryTimeout
       \/ /\ state = Closed
          /\ Len(failures') >= FailureThreshold
          /\ moveTo(Open)
          /\ successCount' = 0
          /\ reopenIn' = RecoveryTimeout
          /\ UNCHANGED halfOpenInFlight
       \/ /\ state = Open \/ (state = Closed /\ Len(failures') < FailureThreshold)
          /\ UNCHANGED <<state, generation, successCount, reopenIn, halfOpenInFlight>>

\* Mutant: half-open admits whoever comes.
admitEveryProbe ==
    /\ UNCHANGED <<reopenIn, failures>>
    /\ \/ /\ state = Closed
          /\ UNCHANGED <<state, generation, successCount, halfOpenInFlight>>
       \/ /\ state = HalfOpen
          /\ halfOpenInFlight' = TRUE
          /\ UNCHANGED <<state, generation, successCount>>
       \/ /\ state = Open /\ reopenIn = 0
          /\ moveTo(HalfOpen)
          /\ successCount' = 0
          /\ halfOpenInFlight' = TRUE

admit ==
    /\ UNCHANGED <<reopenIn, failures>>
    /\ \/ /\ state = Closed
          /\ UNCHANGED <<state, generation, successCount, halfOpenInFlight>>
       \/ /\ state = HalfOpen
          /\ ~halfOpenInFlight
          /\ halfOpenInFlight' = TRUE
          /\ UNCHANGED <<state, generation, successCount>>
       \/ /\ state = Open
          /\ reopenIn = 0
          /\ moveTo(HalfOpen)
          /\ successCount' = 0
          \* the code asks again here; ProbeSlotNotLeaked: it never refuses
          /\ ~halfOpenInFlight
          /\ halfOpenInFlight' = TRUE

settle(t, failed) ==
    IF t # generation THEN UNCHANGED breaker
    ELSE IF failed THEN onFailure ELSE onSuccess

\* Mutant: a refused outcome leaves the probe slot taken.
releaseProbeNot(t) == UNCHANGED breaker

releaseProbe(t) ==
    /\ halfOpenInFlight' = (halfOpenInFlight /\ t # generation)
    /\ UNCHANGED <<state, successCount, reopenIn, failures, generation>>

\* Mutant: the newest Retry-After replaces a longer wait.
HoldOpenForLatest(d) ==
    /\ reopenIn' = d
    /\ UNCHANGED failures
    /\ \/ state = Open /\ UNCHANGED <<state, generation, successCount, halfOpenInFlight>>
       \/ state # Open /\ moveTo(Open) /\ successCount' = 0 /\ halfOpenInFlight' = FALSE

\* Mutant: holding a half-open breaker forgets its probe slot.
HoldOpenForKeepsProbe(d) ==
    /\ reopenIn' = Longest(reopenIn, d)
    /\ UNCHANGED <<failures, halfOpenInFlight>>
    /\ \/ state = Open /\ UNCHANGED <<state, generation, successCount>>
       \/ state # Open /\ moveTo(Open) /\ successCount' = 0

HoldOpenFor(d) ==
    /\ reopenIn' = Longest(reopenIn, d)
    /\ UNCHANGED failures
    /\ \/ /\ state = Open
          /\ UNCHANGED <<state, generation, successCount, halfOpenInFlight>>
       \/ /\ state # Open
          /\ moveTo(Open)
          /\ successCount' = 0
          /\ halfOpenInFlight' = FALSE

-----------------------------------------------------------------------------
(* Callers.                                                                *)

Opens == state # Open /\ state' = Open

\* A breaker that opens on failures owes its callers RecoveryTimeout.
OweRecovery ==
    owed' = IF Opens THEN Longest(owed, RecoveryTimeout) ELSE owed

\* What was known of the service is forgotten when the breaker opens; until
\* then each success of a request begun since the last time counts for it.
OneMore == IF proven < SuccessThreshold THEN proven + 1 ELSE proven
Witness(c, success) ==
    /\ recent' = IF Opens THEN {} ELSE recent \ {c}
    /\ proven' = IF Opens THEN 0 ELSE IF success /\ c \in recent THEN OneMore ELSE proven

\* Where the caller goes with an answer that asked for a wait of d ticks.
Leave(c, d) ==
    /\ pc' = [pc EXCEPT ![c] = IF d > 0 THEN "holding" ELSE "idle"]
    /\ asked' = [asked EXCEPT ![c] = d]
    /\ UNCHANGED <<ticket, healthy>>

\* Execute: admit returns a ticket and fn starts.
Admit(c) ==
    /\ pc[c] = "idle"
    /\ admit
    /\ pc' = [pc EXCEPT ![c] = "running"]
    /\ ticket' = [ticket EXCEPT ![c] = generation']
    /\ recent' = recent \cup {c}
    /\ UNCHANGED <<asked, healthy, owed, proven>>

\* fn returned nil.
Succeed(c) ==
    /\ pc[c] = "running"
    /\ settle(ticket[c], FALSE)
    /\ Leave(c, 0)
    /\ Witness(c, TRUE)
    /\ UNCHANGED owed

\* fn returned an error that ShouldTrip accepts, with Retry-After d.
Fail(c, d) ==
    /\ pc[c] = "running"
    /\ ~healthy
    /\ settle(ticket[c], TRUE)
    /\ Leave(c, d)
    /\ Witness(c, FALSE)
    /\ OweRecovery

\* fn returned an error that ShouldTrip refuses, with Retry-After d.
Refuse(c, d) ==
    /\ pc[c] = "running"
    /\ ~healthy
    /\ releaseProbe(ticket[c])
    /\ Leave(c, d)
    /\ Witness(c, FALSE)
    /\ UNCHANGED owed

\* fn panicked: the failure is settled and the panic goes on, past HoldOpenFor.
Panic(c) ==
    /\ pc[c] = "running"
    /\ ~healthy
    /\ settle(ticket[c], TRUE)
    /\ Leave(c, 0)
    /\ Witness(c, FALSE)
    /\ OweRecovery

\* ExecuteHonoringRetryAfter: the second critical section.
Hold(c) ==
    /\ pc[c] = "holding"
    /\ HoldOpenFor(asked[c])
    /\ pc' = [pc EXCEPT ![c] = "idle"]
    /\ asked' = [asked EXCEPT ![c] = 0]
    /\ owed' = Longest(owed, asked[c])
    /\ Witness(c, FALSE)
    /\ UNCHANGED <<ticket, healthy>>

RecordSuccess ==
    /\ ManualRecording
    /\ onSuccess
    /\ proven' = OneMore          \* on the application's word
    /\ UNCHANGED <<pc, ticket, asked, healthy, owed, recent>>

RecordFailure ==
    /\ ManualRecording
    /\ ~healthy
    /\ onFailure
    /\ OweRecovery
    /\ IF Opens THEN recent' = {} /\ proven' = 0 ELSE UNCHANGED evidence
    /\ UNCHANGED <<pc, ticket, asked, healthy>>

Reset ==
    /\ moveTo(Closed)
    /\ successCount' = 0
    /\ reopenIn' = 0
    /\ failures' = <<>>
    /\ halfOpenInFlight' = FALSE
    /\ owed' = 0
    /\ proven' = SuccessThreshold
    /\ UNCHANGED <<pc, ticket, asked, healthy, recent>>

Tick ==
    /\ reopenIn' = Shorter(reopenIn)
    /\ failures' = [i \in 1 .. Len(failures) |->
                      IF failures[i] < TimeWindow THEN failures[i] + 1 ELSE failures[i]]
    /\ owed' = Shorter(owed)
    /\ UNCHANGED <<state, successCount, halfOpenInFlight, generation, pc, ticket, asked, healthy, evidence>>

\* The outage ends for good.
Heal ==
    /\ ~healthy
    /\ healthy' = TRUE
    /\ UNCHANGED <<breaker, pc, ticket, asked, owed, evidence>>

Call(c) ==
    \/ Admit(c)
    \/ Succeed(c)
    \/ \E d \in RetryAfters : Fail(c, d) \/ Refuse(c, d)
    \/ Panic(c)
    \/ Hold(c)

Next ==
    \/ \E c \in Callers : Call(c)
    \/ RecordSuccess
    \/ RecordFailure
    \/ Reset
    \/ Tick
    \/ Heal

Spec == Init /\ [][Next]_vars

\* Time passes, a request in flight is answered (every request has a client
\* timeout), a goroutine past fn reaches HoldOpenFor, and callers keep calling.
Fairness ==
    /\ WF_vars(Tick)
    /\ WF_vars(\E c \in Callers : Admit(c))
    /\ \A c \in Callers :
         /\ WF_vars(Succeed(c))
         /\ WF_vars(Hold(c))

LiveSpec == Spec /\ Fairness

-----------------------------------------------------------------------------
(* Properties.                                                             *)

Probing(c) == pc[c] = "running" /\ ticket[c] = generation

\* The wait a server asked for, or the recovery delay of a breaker that
\* opened, is kept whatever outcomes of older calls arrive meanwhile: while
\* any of it is left the breaker is open and will not reopen before its end.
KeepsCallersBack ==
    owed > 0 => state = Open /\ reopenIn >= owed

\* A breaker that is not open has no deadline ahead of it, so opening it
\* again can never shorten a wait (onFailure assigns reopenAt outright).
NoDeadlineUnlessOpen == state # Open => reopenIn = 0

\* The half-open slot is taken only while some call admitted under this very
\* generation is still out: an early return, a panic, a Retry-After hold or a
\* Reset never leaves the breaker refusing every caller for ever.
ProbeSlotNotLeaked ==
    halfOpenInFlight => state = HalfOpen /\ \E c \in Callers : Probing(c)

\* Half-open lets one request out at a time: two probes of one generation
\* never overlap (with no manual RecordSuccess, which frees the slot early).
OneProbeAtATime ==
    state = HalfOpen => \A c, d \in Callers : Probing(c) /\ Probing(d) => c = d

\* An open breaker has no call of its own generation in flight, so nothing
\* that returns while it is open can move it.
OpenHasNoLiveCalls == state = Open => \A c \in Callers : ~Probing(c)

\* A breaker that opened closes again only on proof: as many requests as
\* SuccessThreshold asks for, all begun since it opened, have succeeded (or
\* the application said so).  A slow call admitted before it opened proves
\* nothing of the service since, whenever it is answered and however many
\* probes and re-openings lie between.
ClosedIsProven == state = Closed => proven = SuccessThreshold

\* No call is let through while a wait is owed.
NoCallWhileOwed ==
    [][\A c \in Callers : pc[c] = "idle" /\ pc'[c] = "running" => owed = 0]_vars

\* Once the service answers, the breaker closes and stays closed.
Recovers == healthy ~> [](state = Closed)
=============================================================================
