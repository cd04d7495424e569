---------------------- MODULE RetryThroughBreakerProofs ----------------------
(***************************************************************************)
(* Proofs about CircuitBreaker and RetryThroughBreaker for any set of      *)
(* callers, any thresholds, limits and waits.                              *)
(*                                                                         *)
(* The breaker: one that is not open has no deadline ahead of it, so each  *)
(* way of opening it can only move the deadline later; and moveTo takes a  *)
(* generation no call in flight holds, so after it no call in flight can   *)
(* settle; so what a half-open breaker counts was all begun since it       *)
(* opened (EvidenceInv).                                                   *)
(*                                                                         *)
(* The calls through it: every step of a call that retries is a            *)
(* step of the breaker's own specification or leaves it alone, so what is  *)
(* proved of the breaker holds under it; and where a call is (stage) says  *)
(* how many requests it has sent and whether it has seen a failure, and    *)
(* which calls hold a place of the limit.                                  *)
(***************************************************************************)
EXTENDS RetryThroughBreaker, TLAPS, SequenceTheorems, FiniteSetTheorems

-----------------------------------------------------------------------------
(* The failure history stays a sequence of ages.                           *)

\* Dropping the expired failures keeps a history a sequence of ages.
LEMMA CleanupType ==
    ASSUME NEW fs \in Seq(Nat)
    PROVE  cleanupOldFailures(fs) \in Seq(Nat)
  <1>1. Len(fs) \in Nat BY LenProperties
  <1>2. IsFiniteSet(1 .. Len(fs)) BY <1>1, FS_Interval
  <1>3. Expired(fs) \subseteq 1 .. Len(fs) BY DEF Expired
  <1>4. IsFiniteSet(Expired(fs)) BY <1>2, <1>3, FS_Subset
  <1>5. Cardinality(Expired(fs)) \in Nat BY <1>4, FS_CardinalityType
  <1>6. SubSeq(fs, Cardinality(Expired(fs)) + 1, Len(fs)) \in Seq(Nat)
    BY <1>1, <1>5, SubSeqProperties, SMT
  <1> QED BY <1>6 DEF cleanupOldFailures

\* So does forgetting the older half of a full history.
LEMMA TrimType ==
    ASSUME NEW fs \in Seq(Nat)
    PROVE  trimHistory(fs) \in Seq(Nat)
  <1>1. Len(fs) \in Nat BY LenProperties
  <1>2. (Len(fs) \div 2) + 1 \in Nat BY <1>1
  <1>3. SubSeq(fs, (Len(fs) \div 2) + 1, Len(fs)) \in Seq(Nat)
    BY <1>1, <1>2, SubSeqProperties, SMT
  <1> QED BY <1>3 DEF trimHistory

\* A failure leaves a history of ages behind.
LEMMA FailureHistoryType ==
    ASSUME failures \in Seq(Nat), onFailure
    PROVE  failures' \in Seq(Nat)
  <1>1. Append(failures, 0) \in Seq(Nat) BY AppendProperties
  <1>2. trimHistory(Append(failures, 0)) \in Seq(Nat) BY <1>1, TrimType
  <1>3. cleanupOldFailures(trimHistory(Append(failures, 0))) \in Seq(Nat) BY <1>2, CleanupType
  <1> QED BY <1>3 DEF onFailure

\* So does a success.
LEMMA SuccessHistoryType ==
    ASSUME failures \in Seq(Nat), onSuccess
    PROVE  failures' \in Seq(Nat)
  <1>1. cleanupOldFailures(failures) \in Seq(Nat) BY CleanupType
  <1>2. <<>> \in Seq(Nat) BY EmptySeq
  <1> QED BY <1>1, <1>2 DEF onSuccess, performPeriodicCleanup
-----------------------------------------------------------------------------
(* The critical sections, each on its own.                                 *)

BreakerTypeOK ==
    /\ state \in {Closed, Open, HalfOpen}
    /\ successCount \in Nat
    /\ reopenIn \in Nat
    /\ failures \in Seq(Nat)
    /\ halfOpenInFlight \in BOOLEAN
    /\ generation \in Generations

\* Settling a success keeps the breaker's types; it opens nothing, moves no
\* deadline, and a breaker that changes state takes an unused generation.
LEMMA OnSuccess ==
    ASSUME BreakerTypeOK, onSuccess
    PROVE  /\ BreakerTypeOK'
           /\ reopenIn' = reopenIn
           /\ state = Open <=> state' = Open
           /\ state # HalfOpen => UNCHANGED <<state, generation, halfOpenInFlight>>
           /\ state = HalfOpen => ~halfOpenInFlight'
           /\ UNCHANGED <<state, generation>> \/ generation' \notin InUse
  <1>1. failures' \in Seq(Nat) BY SuccessHistoryType DEF BreakerTypeOK
  <1>2. 0 \in Nat /\ successCount + 1 \in Nat BY DEF BreakerTypeOK
  <1>3. CASE state = HalfOpen
    BY <1>1, <1>2, <1>3, Zenon DEF onSuccess, BreakerTypeOK, moveTo, Closed, Open, HalfOpen
  <1>4. CASE state # HalfOpen
    BY <1>1, <1>2, <1>4, Zenon DEF onSuccess, BreakerTypeOK, moveTo, Closed, Open, HalfOpen
  <1> QED BY <1>3, <1>4

\* Settling a failure keeps the types, and either leaves the breaker as it was
\* or opens it for RecoveryTimeout under an unused generation.
LEMMA OnFailure ==
    ASSUME BreakerTypeOK, onFailure
    PROVE  /\ BreakerTypeOK'
           /\ \/ UNCHANGED <<state, generation, reopenIn, halfOpenInFlight>> /\ state # HalfOpen
              \/ /\ state # Open
                 /\ state' = Open
                 /\ generation' \notin InUse
                 /\ reopenIn' = RecoveryTimeout
                 /\ halfOpenInFlight' => halfOpenInFlight /\ state = Closed
  <1>1. failures' \in Seq(Nat) BY FailureHistoryType DEF BreakerTypeOK
  <1>2. RecoveryTimeout \in Nat BY ConfigAssumption
  <1>0. 0 \in Nat OBVIOUS
  <1>3. CASE state = HalfOpen
    BY <1>0, <1>1, <1>2, <1>3, Zenon DEF onFailure, BreakerTypeOK, moveTo, Closed, Open, HalfOpen
  <1>4. CASE state = Open
    BY <1>1, <1>4 DEF onFailure, BreakerTypeOK, moveTo, Closed, Open, HalfOpen
  <1>5. CASE state = Closed
    <2>1. CASE Len(failures') >= FailureThreshold /\ moveTo(Open)
      BY <1>1, <1>2, <1>5, <2>1 DEF onFailure, BreakerTypeOK, moveTo, Closed, Open, HalfOpen
    <2>2. CASE UNCHANGED <<state, generation, successCount, reopenIn, halfOpenInFlight>>
      BY <1>1, <1>5, <2>2 DEF BreakerTypeOK, Closed, Open, HalfOpen
    <2> QED BY <1>5, <2>1, <2>2 DEF onFailure, Closed, Open, HalfOpen
  <1> QED BY <1>3, <1>4, <1>5 DEF BreakerTypeOK

\* Letting a call in moves no deadline; an open breaker lets one in only when
\* its deadline has passed, and then as the single probe of a new generation.
LEMMA AdmitSection ==
    ASSUME BreakerTypeOK, admit
    PROVE  /\ BreakerTypeOK'
           /\ reopenIn' = reopenIn
           /\ \/ state = Closed /\ UNCHANGED <<state, generation, halfOpenInFlight>>
              \/ state = HalfOpen /\ ~halfOpenInFlight /\ halfOpenInFlight' /\ UNCHANGED <<state, generation>>
              \/ state = Open /\ reopenIn = 0 /\ state' = HalfOpen /\ halfOpenInFlight' /\ generation' \notin InUse
  <1>1. 0 \in Nat OBVIOUS
  <1>2. CASE state = Closed
    BY <1>2, Zenon DEF admit, BreakerTypeOK, Closed, Open, HalfOpen
  <1>3. CASE state = HalfOpen
    BY <1>3, Zenon DEF admit, BreakerTypeOK, Closed, Open, HalfOpen
  <1>4. CASE state = Open
    BY <1>1, <1>4, Zenon DEF admit, BreakerTypeOK, moveTo, Closed, Open, HalfOpen
  <1> QED BY <1>2, <1>3, <1>4 DEF BreakerTypeOK

\* HoldOpenFor ends in an open breaker that reopens no earlier than asked and
\* no earlier than before.
LEMMA HoldSection ==
    ASSUME BreakerTypeOK, NEW d \in RetryAfters, HoldOpenFor(d)
    PROVE  /\ BreakerTypeOK'
           /\ state' = Open
           /\ reopenIn' = Longest(reopenIn, d)
           /\ \/ state = Open /\ UNCHANGED <<generation, halfOpenInFlight>>
              \/ state # Open /\ generation' \notin InUse /\ ~halfOpenInFlight'
  <1>1. 0 \in Nat OBVIOUS
  <1>2. Longest(reopenIn, d) \in Nat
    BY ConfigAssumption DEF BreakerTypeOK, Longest, RetryAfters
  <1>3. CASE state = Open
    BY <1>2, <1>3, Zenon DEF HoldOpenFor, BreakerTypeOK, Open
  <1>4. CASE state # Open
    BY <1>1, <1>2, <1>4, Zenon DEF HoldOpenFor, BreakerTypeOK, moveTo, Open
  <1> QED BY <1>3, <1>4

-----------------------------------------------------------------------------
(* Type correctness.                                                       *)

CallerTypeOK ==
    /\ pc \in [Callers -> {"idle", "running", "holding"}]
    /\ ticket \in [Callers -> Generations]
    /\ asked \in [Callers -> RetryAfters]
    /\ healthy \in BOOLEAN
    /\ owed \in Nat

EvidenceTypeOK ==
    /\ recent \subseteq Callers
    /\ proven \in 0 .. SuccessThreshold

\* The type invariant is the breaker's part, the callers' and the evidence's.
LEMMA TypeParts == TypeOK <=> BreakerTypeOK /\ CallerTypeOK /\ EvidenceTypeOK
  BY DEF TypeOK, BreakerTypeOK, CallerTypeOK, EvidenceTypeOK, RetryAfters

\* The recovery delay added to a debt is a natural number.
LEMMA OweRecoveryType ==
    ASSUME owed \in Nat, OweRecovery
    PROVE  owed' \in Nat
  BY ConfigAssumption DEF OweRecovery, Longest

\* One success more stays within what is asked for.
LEMMA OneMoreType ==
    ASSUME EvidenceTypeOK
    PROVE  OneMore \in 0 .. SuccessThreshold /\ OneMore >= proven
  BY ConfigAssumption DEF EvidenceTypeOK, OneMore

\* Every step keeps the types of the evidence.
LEMMA EvidenceTypeStep ==
    ASSUME EvidenceTypeOK, [Next]_vars
    PROVE  EvidenceTypeOK'
  <1>0. /\ recent \subseteq Callers /\ proven \in 0 .. SuccessThreshold
        /\ 0 \in 0 .. SuccessThreshold /\ SuccessThreshold \in 0 .. SuccessThreshold
        /\ OneMore \in 0 .. SuccessThreshold
    BY OneMoreType, ConfigAssumption DEF EvidenceTypeOK
  <1>1. ASSUME NEW c \in Callers, NEW success, Witness(c, success) PROVE EvidenceTypeOK'
    <2>1. recent' \subseteq Callers BY <1>0, <1>1, Zenon DEF Witness
    <2>2. proven' \in 0 .. SuccessThreshold BY <1>0, <1>1, Zenon DEF Witness
    <2> QED BY <2>1, <2>2, Zenon DEF EvidenceTypeOK
  <1>2. ASSUME NEW c \in Callers, Call(c) PROVE EvidenceTypeOK'
    <2>1. CASE Admit(c)
      BY <1>0, <2>1 DEF Admit, EvidenceTypeOK
    <2>2. CASE \E success : Witness(c, success)
      BY <1>1, <2>2
    <2> QED BY <1>2, <2>1, <2>2 DEF Call, Succeed, Fail, Refuse, Panic, Hold
  <1>3. CASE RecordSuccess \/ Reset
    BY <1>0, <1>3 DEF RecordSuccess, Reset, EvidenceTypeOK
  <1>4. CASE RecordFailure
    BY <1>0, <1>4 DEF RecordFailure, evidence, EvidenceTypeOK
  <1>5. CASE Tick \/ Heal \/ UNCHANGED vars
    BY <1>0, <1>5 DEF Tick, Heal, vars, evidence, EvidenceTypeOK
  <1> QED BY <1>2, <1>3, <1>4, <1>5 DEF Next

\* Leaving Execute keeps the callers' types.
LEMMA LeaveType ==
    ASSUME CallerTypeOK, NEW c \in Callers, NEW d \in RetryAfters, Leave(c, d), owed' \in Nat
    PROVE  CallerTypeOK'
  BY DEF CallerTypeOK, Leave

\* A settled outcome keeps the breaker's types.
LEMMA SettleType ==
    ASSUME BreakerTypeOK, NEW t, NEW failed \in BOOLEAN, settle(t, failed)
    PROVE  BreakerTypeOK'
  <1>1. CASE t # generation
    BY <1>1 DEF settle, breaker, BreakerTypeOK
  <1>2. CASE t = generation /\ failed
    BY <1>2, OnFailure DEF settle
  <1>3. CASE t = generation /\ ~failed
    BY <1>3, OnSuccess DEF settle
  <1> QED BY <1>1, <1>2, <1>3

\* Every step of the breaker and of its callers keeps the types.
LEMMA TypeStep == TypeOK /\ [Next]_vars => TypeOK'
  <1> SUFFICES ASSUME BreakerTypeOK, CallerTypeOK, [Next]_vars
               PROVE  BreakerTypeOK' /\ CallerTypeOK'
    BY TypeParts, EvidenceTypeStep
    DEF TypeOK, BreakerTypeOK, CallerTypeOK, EvidenceTypeOK, RetryAfters
  <1>0. 0 \in Nat /\ 0 \in RetryAfters BY ConfigAssumption DEF RetryAfters
  <1>1. ASSUME NEW c \in Callers, Admit(c) PROVE BreakerTypeOK' /\ CallerTypeOK'
    <2>1. BreakerTypeOK' BY <1>1, AdmitSection DEF Admit
    <2>2. generation' \in Generations BY <2>1 DEF BreakerTypeOK
    <2> QED BY <1>1, <2>1, <2>2 DEF Admit, CallerTypeOK
  <1>2. ASSUME NEW c \in Callers, Succeed(c) PROVE BreakerTypeOK' /\ CallerTypeOK'
    <2>1. BreakerTypeOK' BY <1>2, SettleType DEF Succeed
    <2>2. owed' \in Nat BY <1>2 DEF Succeed, CallerTypeOK
    <2> QED BY <1>0, <1>2, <2>1, <2>2, LeaveType DEF Succeed
  <1>3. ASSUME NEW c \in Callers, NEW d \in RetryAfters, Fail(c, d) PROVE BreakerTypeOK' /\ CallerTypeOK'
    <2>1. BreakerTypeOK' BY <1>3, SettleType DEF Fail
    <2>2. owed' \in Nat BY <1>3, OweRecoveryType DEF Fail, CallerTypeOK
    <2> QED BY <1>3, <2>1, <2>2, LeaveType DEF Fail
  <1>4. ASSUME NEW c \in Callers, NEW d \in RetryAfters, Refuse(c, d) PROVE BreakerTypeOK' /\ CallerTypeOK'
    <2>1. BreakerTypeOK' BY <1>4, Zenon DEF Refuse, releaseProbe, BreakerTypeOK
    <2>2. owed' \in Nat BY <1>4 DEF Refuse, CallerTypeOK
    <2> QED BY <1>4, <2>1, <2>2, LeaveType DEF Refuse
  <1>5. ASSUME NEW c \in Callers, Panic(c) PROVE BreakerTypeOK' /\ CallerTypeOK'
    <2>1. BreakerTypeOK' BY <1>5, SettleType DEF Panic
    <2>2. owed' \in Nat BY <1>5, OweRecoveryType DEF Panic, CallerTypeOK
    <2> QED BY <1>0, <1>5, <2>1, <2>2, LeaveType DEF Panic
  <1>6. ASSUME NEW c \in Callers, Hold(c) PROVE BreakerTypeOK' /\ CallerTypeOK'
    <2>1. asked[c] \in RetryAfters BY DEF CallerTypeOK
    <2>2. BreakerTypeOK' BY <1>6, <2>1, HoldSection DEF Hold
    <2>3. owed' \in Nat
      BY <1>6, <2>1, ConfigAssumption DEF Hold, CallerTypeOK, Longest, RetryAfters
    <2> QED BY <1>0, <1>6, <2>2, <2>3 DEF Hold, CallerTypeOK
  <1>7. CASE RecordSuccess
    BY <1>7, OnSuccess DEF RecordSuccess, CallerTypeOK
  <1>8. CASE RecordFailure
    BY <1>8, OnFailure, OweRecoveryType DEF RecordFailure, CallerTypeOK
  <1>9. CASE Reset
    <2>1. failures' \in Seq(Nat) BY <1>9, EmptySeq DEF Reset
    <2>2. BreakerTypeOK' BY <1>0, <1>9, <2>1, Zenon DEF Reset, moveTo, BreakerTypeOK
    <2>3. CallerTypeOK' BY <1>0, <1>9 DEF Reset, CallerTypeOK
    <2> QED BY <2>2, <2>3
  <1>10. CASE Tick
    <2>1. Len(failures) \in Nat /\ \A i \in 1 .. Len(failures) : failures[i] \in Nat
      BY LenProperties, ElementOfSeq DEF BreakerTypeOK
    <2>2. failures' \in Seq(Nat)
      BY <1>10, <2>1, IsASeq DEF Tick
    <2>3. Shorter(reopenIn) \in Nat /\ Shorter(owed) \in Nat
      BY DEF Shorter, BreakerTypeOK, CallerTypeOK
    <2>4. BreakerTypeOK' BY <1>10, <2>2, <2>3 DEF Tick, BreakerTypeOK
    <2>5. CallerTypeOK' BY <1>10, <2>3 DEF Tick, CallerTypeOK
    <2> QED BY <2>4, <2>5
  <1>11. CASE Heal
    BY <1>11 DEF Heal, breaker, BreakerTypeOK, CallerTypeOK
  <1>12. CASE UNCHANGED vars
    BY <1>12 DEF vars, breaker, BreakerTypeOK, CallerTypeOK
  <1> QED
    BY <1>1, <1>2, <1>3, <1>4, <1>5, <1>6, <1>7, <1>8, <1>9, <1>10, <1>11, <1>12 DEF Next, Call

\* The initial states have the right types.
LEMMA TypeInit == Init => TypeOK
  <1> SUFFICES ASSUME Init PROVE TypeOK
    OBVIOUS
  <1>1. 0 \in Nat /\ 0 \in RetryAfters BY ConfigAssumption DEF RetryAfters
  <1>2. BreakerTypeOK
    <2>1. <<>> \in Seq(Nat) BY EmptySeq
    <2> QED BY <1>1, <2>1, Zenon DEF Init, BreakerTypeOK
  <1>3. CallerTypeOK BY <1>1 DEF Init, CallerTypeOK
  <1>4. EvidenceTypeOK BY ConfigAssumption DEF Init, EvidenceTypeOK
  <1> QED BY <1>2, <1>3, <1>4, TypeParts

\* Every state of the breaker has its type, however long it runs.
THEOREM TypeCorrect == Spec => []TypeOK
  BY TypeInit, TypeStep, PTL DEF Spec

-----------------------------------------------------------------------------
(* The waits a server asked for are kept.                                  *)

Inv ==
    /\ KeepsCallersBack
    /\ NoDeadlineUnlessOpen
    /\ ProbeSlotNotLeaked
    /\ OpenHasNoLiveCalls

\* A new generation strands every call in flight: none of them can settle.
LEMMA NewGeneration ==
    ASSUME generation' \notin InUse,
           \A c \in Callers : pc'[c] = "running" => pc[c] = "running" /\ ticket'[c] = ticket[c]
    PROVE  \A c \in Callers : ~Probing(c)'
  BY DEF InUse, Probing

\* A breaker that is not open owes nothing.
LEMMA NothingOwed ==
    ASSUME TypeOK, Inv, state # Open
    PROVE  owed = 0 /\ reopenIn = 0
  BY DEF TypeOK, Inv, KeepsCallersBack, NoDeadlineUnlessOpen

\* The flag is down unless the breaker is half-open.
LEMMA FlagOnlyInHalfOpen ==
    ASSUME Inv, state # HalfOpen
    PROVE  ~halfOpenInFlight
  BY Zenon DEF Inv, ProbeSlotNotLeaked

\* An answer returning to a breaker that has moved on changes no promise.
LEMMA StaleReturn ==
    ASSUME Inv, NEW c \in Callers, ~Probing(c), UNCHANGED breaker, owed' = owed,
           CallerTypeOK, NEW p, p # "running", pc' = [pc EXCEPT ![c] = p], UNCHANGED ticket
    PROVE  Inv'
  <1>1. \A d \in Callers : Probing(d)' <=> Probing(d)
    BY DEF Probing, breaker, CallerTypeOK
  <1>2. KeepsCallersBack' /\ NoDeadlineUnlessOpen'
    BY DEF Inv, breaker, KeepsCallersBack, NoDeadlineUnlessOpen
  <1>3. ProbeSlotNotLeaked' BY <1>1, Zenon DEF Inv, breaker, ProbeSlotNotLeaked
  <1>4. OpenHasNoLiveCalls' BY <1>1 DEF Inv, breaker, OpenHasNoLiveCalls
  <1> QED BY <1>2, <1>3, <1>4 DEF Inv

\* A success admitted under the current generation keeps the promises.
LEMMA LiveSuccess ==
    ASSUME TypeOK, Inv, state # Open, onSuccess, owed' = owed
    PROVE  Inv'
  <1>1. BreakerTypeOK BY TypeParts
  <1>2. state' # Open /\ reopenIn' = reopenIn BY <1>1, OnSuccess
  <1>3. ~halfOpenInFlight'
    <2>1. CASE state = HalfOpen BY <1>1, <2>1, OnSuccess
    <2>2. CASE state # HalfOpen
      BY <1>1, <2>2, OnSuccess, FlagOnlyInHalfOpen, Zenon
    <2> QED BY <2>1, <2>2
  <1>4. owed' = 0 /\ reopenIn' = 0 BY <1>2, NothingOwed
  <1>5. KeepsCallersBack' /\ NoDeadlineUnlessOpen'
    BY <1>4 DEF KeepsCallersBack, NoDeadlineUnlessOpen
  <1>6. ProbeSlotNotLeaked' BY <1>3, Zenon DEF ProbeSlotNotLeaked
  <1>7. OpenHasNoLiveCalls' BY <1>2 DEF OpenHasNoLiveCalls
  <1> QED BY <1>5, <1>6, <1>7 DEF Inv

\* A recorded failure keeps the promises: it changes nothing but the history,
\* or opens the breaker for RecoveryTimeout when nothing was owed.
LEMMA RecordedFailure ==
    ASSUME TypeOK, Inv, onFailure, OweRecovery,
           \A c \in Callers : pc'[c] = "running" => pc[c] = "running" /\ ticket'[c] = ticket[c]
    PROVE  Inv'
  <1>1. BreakerTypeOK BY TypeParts
  <1>2. CASE UNCHANGED <<state, generation, reopenIn, halfOpenInFlight>> /\ state # HalfOpen
    <2>1. owed' = owed BY <1>2 DEF OweRecovery, Opens
    <2>2. KeepsCallersBack' /\ NoDeadlineUnlessOpen'
      BY <1>2, <2>1 DEF Inv, KeepsCallersBack, NoDeadlineUnlessOpen
    <2>3. ~halfOpenInFlight' BY <1>2, FlagOnlyInHalfOpen, Zenon
    <2>4. ProbeSlotNotLeaked' BY <2>3, Zenon DEF ProbeSlotNotLeaked
    <2>5. OpenHasNoLiveCalls' BY <1>2 DEF Inv, OpenHasNoLiveCalls, Probing
    <2> QED BY <2>2, <2>4, <2>5 DEF Inv
  <1>3. CASE /\ state # Open
             /\ state' = Open
             /\ generation' \notin InUse
             /\ reopenIn' = RecoveryTimeout
             /\ halfOpenInFlight' => halfOpenInFlight /\ state = Closed
    <2>1. owed' = RecoveryTimeout
      BY <1>3, NothingOwed, ConfigAssumption DEF OweRecovery, Opens, Longest
    <2>2. KeepsCallersBack' /\ NoDeadlineUnlessOpen'
      BY <1>3, <2>1, ConfigAssumption DEF KeepsCallersBack, NoDeadlineUnlessOpen
    <2>3. ~halfOpenInFlight'
      BY <1>3, FlagOnlyInHalfOpen, Zenon DEF Closed, HalfOpen
    <2>4. ProbeSlotNotLeaked' BY <2>3, Zenon DEF ProbeSlotNotLeaked
    <2>5. OpenHasNoLiveCalls' BY <1>3, NewGeneration DEF OpenHasNoLiveCalls
    <2> QED BY <2>2, <2>4, <2>5 DEF Inv
  <1> QED BY <1>1, <1>2, <1>3, OnFailure

\* Only the callers named by Leave change where they are.
LEMMA LeaveOthers ==
    ASSUME CallerTypeOK, NEW c \in Callers, NEW d, Leave(c, d)
    PROVE  /\ \A e \in Callers : pc'[e] = "running" => pc[e] = "running" /\ ticket'[e] = ticket[e]
           /\ pc' = [pc EXCEPT ![c] = IF d > 0 THEN "holding" ELSE "idle"]
           /\ UNCHANGED ticket
  BY DEF Leave, CallerTypeOK

\* A call that settles, either way, keeps the promises.
LEMMA SettleStep ==
    ASSUME TypeOK, Inv, NEW c \in Callers, NEW d \in RetryAfters, NEW failed \in BOOLEAN,
           pc[c] = "running", settle(ticket[c], failed), Leave(c, d),
           IF failed THEN OweRecovery ELSE UNCHANGED owed
    PROVE  Inv'
  <1>1. CallerTypeOK /\ BreakerTypeOK BY TypeParts
  <1>2. CASE ~Probing(c)
    <2>1. UNCHANGED breaker BY <1>2 DEF Probing, settle
    <2>2. owed' = owed BY <2>1 DEF OweRecovery, Opens, breaker
    <2> DEFINE p == IF d > 0 THEN "holding" ELSE "idle"
    <2>3. p # "running" /\ pc' = [pc EXCEPT ![c] = p] /\ UNCHANGED ticket
      BY <1>1, LeaveOthers
    <2> HIDE DEF p
    <2> QED BY <1>1, <1>2, <2>1, <2>2, <2>3, StaleReturn
  <1>3. CASE Probing(c) /\ failed
    <2>1. onFailure BY <1>3 DEF Probing, settle
    <2>2. \A e \in Callers : pc'[e] = "running" => pc[e] = "running" /\ ticket'[e] = ticket[e]
      BY <1>1, LeaveOthers
    <2> QED BY <1>3, <2>1, <2>2, RecordedFailure
  <1>4. CASE Probing(c) /\ ~failed
    <2>1. onSuccess BY <1>4 DEF Probing, settle
    <2>2. state # Open BY <1>4 DEF Inv, OpenHasNoLiveCalls
    <2> QED BY <1>4, <2>1, <2>2, LiveSuccess
  <1> QED BY <1>2, <1>3, <1>4

\* Every step keeps the promises.
LEMMA InvStep == TypeOK /\ Inv /\ [Next]_vars => Inv'
  <1> SUFFICES ASSUME TypeOK, Inv, [Next]_vars
               PROVE  Inv'
    OBVIOUS
  <1>0. BreakerTypeOK /\ CallerTypeOK /\ 0 \in RetryAfters
    BY TypeParts, ConfigAssumption DEF RetryAfters
  <1>1. ASSUME NEW c \in Callers, Admit(c) PROVE Inv'
    <2>1. BreakerTypeOK' /\ reopenIn' = reopenIn BY <1>0, <1>1, AdmitSection DEF Admit
    <2>2. state' # Open /\ (state = Open => reopenIn = 0)
      BY <1>0, <1>1, AdmitSection DEF Admit, Closed, Open, HalfOpen
    <2>3. owed = 0 /\ reopenIn = 0
      <3>1. CASE state = Open
        BY <2>2, <3>1 DEF Inv, KeepsCallersBack, TypeOK
      <3>2. CASE state # Open BY <3>2, NothingOwed
      <3> QED BY <3>1, <3>2
    <2>4. KeepsCallersBack' /\ NoDeadlineUnlessOpen'
      BY <1>1, <2>1, <2>3 DEF Admit, KeepsCallersBack, NoDeadlineUnlessOpen
    <2>5. ProbeSlotNotLeaked'
      <3>1. Probing(c)' BY <1>0, <1>1 DEF Admit, Probing, CallerTypeOK
      <3>2. CASE state = Closed
        <4>1. ~halfOpenInFlight'
          BY <1>0, <1>1, <3>2, AdmitSection, FlagOnlyInHalfOpen, Zenon DEF Admit, Closed, Open, HalfOpen
        <4> QED BY <4>1, Zenon DEF ProbeSlotNotLeaked
      <3>3. CASE state # Closed
        <4>1. state' = HalfOpen
          BY <1>0, <1>1, <3>3, AdmitSection DEF Admit
        <4> QED BY <3>1, <4>1, Zenon DEF ProbeSlotNotLeaked
      <3> QED BY <3>2, <3>3
    <2>6. OpenHasNoLiveCalls' BY <2>2 DEF OpenHasNoLiveCalls
    <2> QED BY <2>4, <2>5, <2>6 DEF Inv
  <1>2. ASSUME NEW c \in Callers, Succeed(c) PROVE Inv'
    BY <1>0, <1>2, SettleStep DEF Succeed
  <1>3. ASSUME NEW c \in Callers, NEW d \in RetryAfters, Fail(c, d) PROVE Inv'
    BY <1>3, SettleStep DEF Fail
  <1>4. ASSUME NEW c \in Callers, NEW d \in RetryAfters, Refuse(c, d) PROVE Inv'
    <2>1. CASE ~Probing(c)
      <3>1. UNCHANGED breaker
        BY <1>0, <1>4, <2>1, Zenon DEF Refuse, releaseProbe, Probing, breaker, BreakerTypeOK
      <3> DEFINE p == IF d > 0 THEN "holding" ELSE "idle"
      <3>2. p # "running" /\ pc' = [pc EXCEPT ![c] = p] /\ UNCHANGED ticket
        BY <1>0, <1>4, LeaveOthers DEF Refuse
      <3> HIDE DEF p
      <3> QED BY <1>0, <1>4, <2>1, <3>1, <3>2, StaleReturn DEF Refuse
    <2>2. CASE Probing(c)
      <3>1. UNCHANGED <<state, reopenIn, generation, owed>> BY <1>4 DEF Refuse, releaseProbe
      <3>2. ~halfOpenInFlight' BY <1>4, <2>2, Zenon DEF Refuse, releaseProbe, Probing
      <3>3. state # Open BY <2>2 DEF Inv, OpenHasNoLiveCalls
      <3>4. KeepsCallersBack' /\ NoDeadlineUnlessOpen'
        BY <3>1 DEF Inv, KeepsCallersBack, NoDeadlineUnlessOpen
      <3>5. ProbeSlotNotLeaked' BY <3>2, Zenon DEF ProbeSlotNotLeaked
      <3>6. OpenHasNoLiveCalls' BY <3>1, <3>3 DEF OpenHasNoLiveCalls
      <3> QED BY <3>4, <3>5, <3>6 DEF Inv
    <2> QED BY <2>1, <2>2
  <1>5. ASSUME NEW c \in Callers, Panic(c) PROVE Inv'
    BY <1>0, <1>5, SettleStep DEF Panic
  <1>6. ASSUME NEW c \in Callers, Hold(c) PROVE Inv'
    <2> DEFINE d == asked[c]
    <2>1. d \in RetryAfters BY <1>0 DEF CallerTypeOK
    <2>2. /\ state' = Open
          /\ reopenIn' = Longest(reopenIn, d)
          /\ owed' = Longest(owed, d)
          /\ \/ state = Open /\ UNCHANGED <<generation, halfOpenInFlight>>
             \/ state # Open /\ generation' \notin InUse /\ ~halfOpenInFlight'
      BY <1>0, <1>6, <2>1, HoldSection DEF Hold
    <2>3. \A e \in Callers : pc'[e] = "running" => pc[e] = "running" /\ ticket'[e] = ticket[e]
      BY <1>0, <1>6 DEF Hold, CallerTypeOK
    <2>4. owed > 0 => reopenIn >= owed BY DEF Inv, KeepsCallersBack
    <2>5. reopenIn' >= owed'
      BY <1>0, <2>1, <2>2, <2>4, ConfigAssumption
      DEF Longest, BreakerTypeOK, CallerTypeOK, RetryAfters
    <2>6. KeepsCallersBack' /\ NoDeadlineUnlessOpen'
      BY <2>2, <2>5 DEF KeepsCallersBack, NoDeadlineUnlessOpen
    <2>7. ~halfOpenInFlight' /\ \A e \in Callers : ~Probing(e)'
      <3>1. CASE state = Open /\ UNCHANGED <<generation, halfOpenInFlight>>
        <4>1. \A e \in Callers : ~Probing(e)'
          BY <2>3, <3>1 DEF Inv, OpenHasNoLiveCalls, Probing
        <4>2. ~halfOpenInFlight'
          BY <3>1, FlagOnlyInHalfOpen, Zenon DEF Open, HalfOpen
        <4> QED BY <4>1, <4>2
      <3>2. CASE state # Open /\ generation' \notin InUse /\ ~halfOpenInFlight'
        BY <2>3, <3>2, NewGeneration
      <3> QED BY <2>2, <3>1, <3>2
    <2> QED BY <2>6, <2>7, Zenon DEF Inv, ProbeSlotNotLeaked, OpenHasNoLiveCalls
  <1>7. CASE RecordSuccess
    <2>1. CASE state # Open BY <1>7, <2>1, LiveSuccess DEF RecordSuccess
    <2>2. CASE state = Open
      <3>1. UNCHANGED <<breaker, pc, ticket, owed>>
        BY <1>7, <2>2 DEF RecordSuccess, onSuccess, breaker, Open, Closed, HalfOpen
      <3>2. \A c \in Callers : Probing(c)' <=> Probing(c) BY <3>1 DEF Probing, breaker
      <3> QED BY <3>1, <3>2, Zenon
          DEF Inv, breaker, KeepsCallersBack, NoDeadlineUnlessOpen, ProbeSlotNotLeaked, OpenHasNoLiveCalls
    <2> QED BY <2>1, <2>2
  <1>8. CASE RecordFailure
    BY <1>8, RecordedFailure DEF RecordFailure
  <1>9. CASE Reset
    <2>1. state' # Open /\ reopenIn' = 0 /\ owed' = 0 /\ ~halfOpenInFlight'
      BY <1>9, Zenon DEF Reset, moveTo, Closed, Open
    <2>2. KeepsCallersBack' /\ NoDeadlineUnlessOpen'
      BY <2>1 DEF KeepsCallersBack, NoDeadlineUnlessOpen
    <2> QED BY <2>1, <2>2, Zenon DEF Inv, ProbeSlotNotLeaked, OpenHasNoLiveCalls
  <1>10. CASE Tick
    <2>1. KeepsCallersBack' /\ NoDeadlineUnlessOpen'
      BY <1>0, <1>10 DEF Tick, Inv, KeepsCallersBack, NoDeadlineUnlessOpen, Shorter,
                         BreakerTypeOK, CallerTypeOK
    <2>2. UNCHANGED <<state, halfOpenInFlight, generation, pc, ticket>> BY <1>10 DEF Tick
    <2>3. \A c \in Callers : Probing(c)' <=> Probing(c) BY <2>2 DEF Probing
    <2>4. ProbeSlotNotLeaked' /\ OpenHasNoLiveCalls'
      BY <2>2, <2>3, Zenon DEF Inv, ProbeSlotNotLeaked, OpenHasNoLiveCalls
    <2> QED BY <2>1, <2>4 DEF Inv
  <1>11. CASE UNCHANGED <<breaker, pc, ticket, owed>>
    <2>1. \A c \in Callers : Probing(c)' <=> Probing(c) BY <1>11 DEF Probing, breaker
    <2> QED BY <1>11, <2>1, Zenon
        DEF Inv, breaker, KeepsCallersBack, NoDeadlineUnlessOpen, ProbeSlotNotLeaked, OpenHasNoLiveCalls
  <1> QED
    BY <1>1, <1>2, <1>3, <1>4, <1>5, <1>6, <1>7, <1>8, <1>9, <1>10, <1>11 DEF Next, Call, Heal, vars

\* The promises hold at the start.
LEMMA InvInit == Init => Inv
  <1> SUFFICES ASSUME Init PROVE Inv
    OBVIOUS
  <1>1. state # Open /\ reopenIn = 0 /\ owed = 0 BY DEF Init, Closed, Open
  <1>2. KeepsCallersBack /\ NoDeadlineUnlessOpen
    BY <1>1 DEF KeepsCallersBack, NoDeadlineUnlessOpen
  <1>3. ~halfOpenInFlight BY Zenon DEF Init
  <1> QED BY <1>1, <1>2, <1>3, Zenon DEF Inv, ProbeSlotNotLeaked, OpenHasNoLiveCalls

\* For any callers, thresholds and waits: while a wait the server asked for is
\* running the breaker is open and will not reopen before its end.
THEOREM WaitsAreKept == Spec => []KeepsCallersBack
  BY TypeInit, TypeStep, InvInit, InvStep, PTL DEF Spec, Inv

\* For any callers: the half-open slot is only ever held by a call in flight.
THEOREM SlotIsNeverLeaked == Spec => []ProbeSlotNotLeaked
  BY TypeInit, TypeStep, InvInit, InvStep, PTL DEF Spec, Inv

\* For any callers: no call is let through while a wait is owed.
THEOREM NoneWhileOwed == Spec => NoCallWhileOwed
  <1> DEFINE A == \A c \in Callers : pc[c] = "idle" /\ pc'[c] = "running" => owed = 0
  <1>1. TypeOK /\ Inv /\ [Next]_vars => [A]_vars
    <2> SUFFICES ASSUME TypeOK, Inv, Next, NEW c \in Callers, pc[c] = "idle", pc'[c] = "running"
                 PROVE  owed = 0
      OBVIOUS
    <2>1. BreakerTypeOK /\ CallerTypeOK BY TypeParts
    <2>2. PICK e \in Callers : Admit(e)
      BY <2>1 DEF Next, Call, Succeed, Fail, Refuse, Panic, Hold, Leave, RecordSuccess,
                  RecordFailure, Reset, Tick, Heal, CallerTypeOK
    <2>3. CASE state = Open
      <3>1. reopenIn = 0 BY <2>1, <2>2, <2>3, AdmitSection DEF Admit, Closed, Open, HalfOpen
      <3> QED BY <2>3, <3>1 DEF Inv, KeepsCallersBack, TypeOK
    <2>4. CASE state # Open BY <2>4, NothingOwed
    <2> QED BY <2>3, <2>4
  <1> QED BY <1>1, TypeInit, TypeStep, InvInit, InvStep, PTL DEF Spec, NoCallWhileOwed

-----------------------------------------------------------------------------
(* What a breaker that closes has been shown, and the single probe.        *)

\* The breaker counts no more successes than requests begun since it opened
\* have shown, and a half-open breaker has no other request it would count.
EvidenceInv ==
    /\ ClosedIsProven
    /\ state = HalfOpen =>
         /\ successCount <= proven
         /\ \A c \in Callers : Probing(c) => c \in recent

\* A success the breaker counts was seen as one: it closes on proof, or comes
\* a success nearer to it.
LEMMA EvidenceOfSuccess ==
    ASSUME TypeOK, EvidenceInv, onSuccess, state # Open,
           proven' = OneMore,
           \A c \in Callers : Probing(c)' => Probing(c) /\ (c \in recent => c \in recent')
    PROVE  EvidenceInv'
  <1>1. /\ proven \in Nat /\ proven <= SuccessThreshold /\ successCount \in Nat
        /\ SuccessThreshold \in Nat /\ proven' \in Nat
        /\ proven' = IF proven < SuccessThreshold THEN proven + 1 ELSE proven
    BY ConfigAssumption DEF TypeOK, OneMore
  <1>2. CASE state = HalfOpen /\ state' = Closed
    <2>1. successCount + 1 >= SuccessThreshold
      BY <1>2 DEF onSuccess, Closed, Open, HalfOpen
    <2>2. proven' = SuccessThreshold BY <1>1, <1>2, <2>1 DEF EvidenceInv
    <2> QED BY <1>2, <2>2 DEF EvidenceInv, ClosedIsProven, Closed, HalfOpen
  <1>3. CASE state = HalfOpen /\ state' # Closed
    <2>1. /\ successCount + 1 < SuccessThreshold
          /\ successCount' = successCount + 1
          /\ state' = HalfOpen
      BY <1>3 DEF onSuccess, moveTo, Closed, Open, HalfOpen
    <2>2. successCount' <= proven' BY <1>1, <1>3, <2>1 DEF EvidenceInv
    <2>3. \A c \in Callers : Probing(c)' => c \in recent' BY <1>3 DEF EvidenceInv
    <2> QED BY <2>1, <2>2, <2>3 DEF EvidenceInv, ClosedIsProven, Closed, HalfOpen
  <1>4. CASE state = Closed
    <2>1. state' = Closed BY <1>4 DEF onSuccess, Closed, Open, HalfOpen
    <2>2. proven = SuccessThreshold BY <1>4 DEF EvidenceInv, ClosedIsProven
    <2> QED BY <1>1, <2>1, <2>2 DEF EvidenceInv, ClosedIsProven, Closed, HalfOpen
  <1> QED BY <1>2, <1>3, <1>4 DEF TypeOK

\* A step that changes neither the state nor the count, forgets nothing of the
\* evidence and adds no call to count.
LEMMA EvidenceStays ==
    ASSUME TypeOK, EvidenceInv, UNCHANGED <<state, successCount>>,
           proven' \in 0 .. SuccessThreshold, proven' >= proven,
           \A c \in Callers : Probing(c)' => Probing(c) /\ (c \in recent => c \in recent')
    PROVE  EvidenceInv'
  BY ConfigAssumption DEF TypeOK, EvidenceInv, ClosedIsProven

\* A breaker that is open has nothing to show.
LEMMA EvidenceOpen ==
    ASSUME state' = Open
    PROVE  EvidenceInv'
  BY DEF EvidenceInv, ClosedIsProven, Closed, Open, HalfOpen

\* A settled or refused call keeps the evidence in order.
LEMMA EvidenceReturn ==
    ASSUME TypeOK, Inv, EvidenceInv, NEW c \in Callers, pc[c] = "running",
           NEW d, Leave(c, d), NEW success \in BOOLEAN, Witness(c, success),
           \/ settle(ticket[c], ~success)
           \/ ~success /\ UNCHANGED <<state, successCount, generation>>
    PROVE  EvidenceInv'
  <1>0. CallerTypeOK /\ BreakerTypeOK /\ EvidenceTypeOK BY TypeParts
  <1>1. /\ \A e \in Callers : pc'[e] = "running" =>
              e # c /\ pc[e] = "running" /\ ticket'[e] = ticket[e]
    BY <1>0, LeaveOthers DEF CallerTypeOK, Leave
  <1>2. CASE state' = Open BY <1>2, EvidenceOpen
  <1>3. CASE state' # Open
    <2>1. recent' = recent \ {c} BY <1>3 DEF Witness, Opens
    <2>2. proven' = IF success /\ c \in recent THEN OneMore ELSE proven
      BY <1>3 DEF Witness, Opens
    <2>3. proven' \in 0 .. SuccessThreshold /\ proven' >= proven
      BY <1>0, <2>2, OneMoreType, ConfigAssumption DEF EvidenceTypeOK
    <2>4. CASE UNCHANGED <<state, successCount, generation>>
      <3>1. \A e \in Callers : Probing(e)' => Probing(e) /\ (e \in recent => e \in recent')
        BY <1>1, <2>1, <2>4 DEF Probing
      <3> QED BY <2>3, <2>4, <3>1, EvidenceStays
    <2>5. CASE ticket[c] = generation /\ ~success /\ onFailure
      <3>1. UNCHANGED <<state, generation>> /\ state # HalfOpen
        BY <1>0, <1>3, <2>5, OnFailure
      <3> QED BY <3>1, <2>2, <2>5 DEF EvidenceInv, ClosedIsProven, Closed, HalfOpen
    <2>6. CASE ticket[c] = generation /\ success /\ onSuccess
      <3>1. Probing(c) BY <2>6 DEF Probing
      <3>2. state # Open BY <3>1 DEF Inv, OpenHasNoLiveCalls
      <3>3. UNCHANGED <<state, generation>> \/ generation' \notin InUse
        BY <1>0, <2>6, OnSuccess
      <3>4. \A e \in Callers : Probing(e)' => Probing(e) /\ (e \in recent => e \in recent')
        <4>1. CASE UNCHANGED generation BY <1>1, <2>1, <4>1 DEF Probing
        <4>2. CASE generation' \notin InUse
          BY <1>1, <4>2, NewGeneration
        <4> QED BY <3>3, <4>1, <4>2
      <3>5. CASE state = HalfOpen
        <4>1. c \in recent BY <3>1, <3>5 DEF EvidenceInv
        <4>2. proven' = OneMore BY <2>2, <2>6, <4>1
        <4> QED BY <2>6, <3>2, <3>4, <4>2, EvidenceOfSuccess
      <3>6. CASE state = Closed
        <4>1. state' = Closed BY <2>6, <3>6 DEF onSuccess, Closed, Open, HalfOpen
        <4>2. proven = SuccessThreshold BY <3>6 DEF EvidenceInv, ClosedIsProven
        <4>3. proven' = SuccessThreshold
          BY <1>0, <2>3, <4>2, ConfigAssumption DEF EvidenceTypeOK
        <4> QED BY <4>1, <4>3 DEF EvidenceInv, ClosedIsProven, Closed, HalfOpen
      <3> QED BY <1>0, <3>2, <3>5, <3>6 DEF BreakerTypeOK
    <2> QED BY <2>4, <2>5, <2>6 DEF settle, breaker
  <1> QED BY <1>2, <1>3

\* Every step keeps the evidence in order.
LEMMA EvidenceStep == TypeOK /\ Inv /\ EvidenceInv /\ [Next]_vars => EvidenceInv'
  <1> SUFFICES ASSUME TypeOK, Inv, EvidenceInv, [Next]_vars
               PROVE  EvidenceInv'
    OBVIOUS
  <1>0. BreakerTypeOK /\ CallerTypeOK /\ EvidenceTypeOK BY TypeParts
  <1>1. ASSUME NEW c \in Callers, Admit(c) PROVE EvidenceInv'
    <2>1. /\ \A e \in Callers : e # c => pc'[e] = pc[e] /\ ticket'[e] = ticket[e]
          /\ recent' = recent \cup {c} /\ proven' = proven
      BY <1>0, <1>1 DEF Admit, CallerTypeOK
    <2>2. CASE state = Closed
      <3>1. state' = Closed BY <1>1, <2>2 DEF Admit, admit, Closed, Open, HalfOpen
      <3> QED BY <2>1, <2>2, <3>1 DEF EvidenceInv, ClosedIsProven, Closed, HalfOpen
    <2>3. CASE state = HalfOpen
      <3>1. UNCHANGED <<state, generation, successCount>>
        BY <1>1, <2>3 DEF Admit, admit, Closed, Open, HalfOpen
      <3>2. \A e \in Callers : Probing(e)' => e \in recent'
        BY <2>1, <2>3, <3>1 DEF Probing, EvidenceInv
      <3> QED BY <2>1, <2>3, <3>1, <3>2 DEF EvidenceInv, ClosedIsProven, Closed, HalfOpen
    <2>4. CASE state = Open
      <3>1. state' = HalfOpen /\ successCount' = 0 /\ generation' \notin InUse
        BY <1>1, <2>4 DEF Admit, admit, moveTo, Closed, Open, HalfOpen
      <3>2. \A e \in Callers : Probing(e)' => e \in recent'
        BY <2>1, <3>1 DEF Probing, InUse
      <3>3. successCount' <= proven' BY <1>0, <2>1, <3>1 DEF EvidenceTypeOK
      <3> QED BY <3>1, <3>2, <3>3 DEF EvidenceInv, ClosedIsProven, Closed, HalfOpen
    <2> QED BY <1>0, <2>2, <2>3, <2>4 DEF BreakerTypeOK
  <1>2. ASSUME NEW c \in Callers, Succeed(c) PROVE EvidenceInv'
    <2>1. settle(ticket[c], ~TRUE) /\ Leave(c, 0) /\ Witness(c, TRUE) /\ pc[c] = "running"
      BY <1>2 DEF Succeed, settle
    <2> QED BY <2>1, EvidenceReturn
  <1>3. ASSUME NEW c \in Callers, NEW d \in RetryAfters, Fail(c, d) \/ Refuse(c, d)
        PROVE  EvidenceInv'
    BY <1>3, EvidenceReturn DEF Fail, Refuse, releaseProbe
  <1>4. ASSUME NEW c \in Callers, Panic(c) PROVE EvidenceInv'
    BY <1>4, EvidenceReturn DEF Panic
  <1>5. ASSUME NEW c \in Callers, Hold(c) PROVE EvidenceInv'
    BY <1>5, EvidenceOpen DEF Hold, HoldOpenFor, moveTo
  <1>6. CASE RecordSuccess
    <2>1. UNCHANGED <<pc, ticket, recent>> /\ proven' = OneMore BY <1>6 DEF RecordSuccess
    <2>2. UNCHANGED <<state, generation>> \/ generation' \notin InUse
      BY <1>0, <1>6, OnSuccess DEF RecordSuccess
    <2>3. \A e \in Callers : Probing(e)' => Probing(e) /\ (e \in recent => e \in recent')
      <3>1. CASE UNCHANGED generation BY <2>1, <3>1 DEF Probing
      <3>2. CASE generation' \notin InUse BY <2>1, <3>2, NewGeneration
      <3> QED BY <2>2, <3>1, <3>2
    <2>4. CASE state = Open
      BY <1>6, <2>4, EvidenceOpen DEF RecordSuccess, onSuccess, Closed, Open, HalfOpen
    <2> QED BY <1>6, <2>1, <2>3, <2>4, EvidenceOfSuccess DEF RecordSuccess
  <1>7. CASE RecordFailure
    <2>1. CASE state' = Open BY <2>1, EvidenceOpen
    <2>2. CASE state' # Open
      <3>1. UNCHANGED <<state, generation>> /\ state # HalfOpen
        BY <1>0, <1>7, <2>2, OnFailure DEF RecordFailure
      <3>2. proven' = proven BY <1>7, <2>2 DEF RecordFailure, Opens, evidence
      <3> QED BY <3>1, <3>2 DEF EvidenceInv, ClosedIsProven, HalfOpen
    <2> QED BY <2>1, <2>2
  <1>8. CASE Reset
    BY <1>8 DEF Reset, moveTo, EvidenceInv, ClosedIsProven, Closed, HalfOpen
  <1>9. CASE UNCHANGED <<state, successCount, generation, pc, ticket, evidence>>
    <2>1. proven' \in 0 .. SuccessThreshold /\ proven' >= proven /\ recent' = recent
      BY <1>0, <1>9, ConfigAssumption DEF evidence, EvidenceTypeOK
    <2>2. \A e \in Callers : Probing(e)' => Probing(e) BY <1>9 DEF Probing
    <2> QED BY <1>9, <2>1, <2>2, EvidenceStays
  <1>10. CASE Tick \/ Heal \/ UNCHANGED vars
    BY <1>9, <1>10 DEF Tick, Heal, vars, breaker
  <1> QED
    BY <1>1, <1>2, <1>3, <1>4, <1>5, <1>6, <1>7, <1>8, <1>10 DEF Next, Call

\* For any callers, thresholds and waits: a breaker that opened closes again
\* only on SuccessThreshold successes of requests begun since, or on the
\* application's word, however many calls of before it are answered meanwhile.
THEOREM ClosesOnProof == Spec => []ClosedIsProven
  <1>1. Init => EvidenceInv
    BY DEF Init, EvidenceInv, ClosedIsProven, Closed, HalfOpen
  <1>2. EvidenceInv => ClosedIsProven BY DEF EvidenceInv
  <1> QED BY <1>1, <1>2, TypeInit, TypeStep, InvInit, InvStep, EvidenceStep, PTL DEF Spec

\* In half-open, a call of the current generation is the one in the slot.
SlotInv ==
    state = HalfOpen => \A c, d \in Callers :
        Probing(c) => halfOpenInFlight /\ (Probing(d) => c = d)

\* A step that strands every call in flight, or leaves half-open, has no
\* probe to share the slot.
LEMMA SlotFree ==
    ASSUME state' # HalfOpen \/ \A c \in Callers : ~Probing(c)'
    PROVE  SlotInv'
  BY DEF SlotInv

\* When the one probe returns the slot is free; any other return leaves it.
LEMMA SlotReturn ==
    ASSUME TypeOK, Inv, SlotInv, NEW c \in Callers, pc[c] = "running", NEW d, Leave(c, d),
           \/ UNCHANGED breaker /\ ~Probing(c)
           \/ UNCHANGED <<state, generation>> /\ Probing(c)
           \/ state' # HalfOpen
           \/ generation' \notin InUse
    PROVE  SlotInv'
  <1>0. CallerTypeOK BY TypeParts
  <1>1. /\ \A e \in Callers : pc'[e] = "running" => pc[e] = "running" /\ ticket'[e] = ticket[e]
        /\ pc'[c] # "running"
    BY <1>0, LeaveOthers DEF CallerTypeOK
  <1>2. CASE UNCHANGED breaker /\ ~Probing(c)
    <2>1. \A e \in Callers : Probing(e)' => Probing(e) BY <1>1, <1>2 DEF Probing, breaker
    <2>2. state' = state /\ halfOpenInFlight' = halfOpenInFlight BY <1>2 DEF breaker
    <2> QED BY <2>1, <2>2, Zenon DEF SlotInv
  <1>3. CASE UNCHANGED <<state, generation>> /\ Probing(c)
    <2>1. \A e \in Callers : Probing(e)' => Probing(e) /\ e # c BY <1>1, <1>3 DEF Probing
    <2>2. state' = HalfOpen => \A e \in Callers : ~Probing(e)'
      BY <1>3, <2>1, Zenon DEF SlotInv
    <2> QED BY <2>2, SlotFree
  <1>4. CASE state' # HalfOpen BY <1>4, SlotFree
  <1>5. CASE generation' \notin InUse BY <1>1, <1>5, NewGeneration, SlotFree
  <1> QED BY <1>2, <1>3, <1>4, <1>5

\* Every step keeps the slot, when outcomes are recorded by Execute alone.
LEMMA SlotStep ==
    ASSUME ManualRecording = FALSE
    PROVE  TypeOK /\ Inv /\ SlotInv /\ [Next]_vars => SlotInv'
  <1> SUFFICES ASSUME TypeOK, Inv, SlotInv, [Next]_vars
               PROVE  SlotInv'
    OBVIOUS
  <1>0. BreakerTypeOK /\ CallerTypeOK BY TypeParts
  <1>1. ASSUME NEW c \in Callers, Admit(c) PROVE SlotInv'
    <2>1. \A e \in Callers : e # c => pc'[e] = pc[e] /\ ticket'[e] = ticket[e]
      BY <1>0, <1>1 DEF Admit, CallerTypeOK
    <2>2. CASE state = Closed
      BY <1>0, <1>1, <2>2, AdmitSection, SlotFree DEF Admit, Closed, Open, HalfOpen
    <2>3. CASE state = HalfOpen
      <3>1. ~halfOpenInFlight /\ halfOpenInFlight' /\ UNCHANGED <<state, generation>>
        BY <1>0, <1>1, <2>3, AdmitSection DEF Admit, Closed, Open, HalfOpen
      <3>2. \A e \in Callers : ~Probing(e) BY <2>3, <3>1, Zenon DEF SlotInv
      <3>3. \A e \in Callers : Probing(e)' => e = c BY <2>1, <3>1, <3>2 DEF Probing
      <3> QED BY <3>1, <3>3, Zenon DEF SlotInv
    <2>4. CASE state = Open
      <3>1. halfOpenInFlight' /\ generation' \notin InUse
        BY <1>0, <1>1, <2>4, AdmitSection DEF Admit, Closed, Open, HalfOpen
      <3>2. \A e \in Callers : Probing(e)' => e = c BY <2>1, <3>1 DEF Probing, InUse
      <3> QED BY <3>1, <3>2, Zenon DEF SlotInv
    <2> QED BY <1>0, <2>2, <2>3, <2>4 DEF BreakerTypeOK
  <1>2. ASSUME NEW c \in Callers, NEW d \in RetryAfters, NEW failed \in BOOLEAN,
               pc[c] = "running", settle(ticket[c], failed), Leave(c, d)
        PROVE  SlotInv'
    <2>1. CASE ~Probing(c)
      <3>1. UNCHANGED breaker BY <1>2, <2>1 DEF settle, Probing
      <3> QED BY <1>2, <2>1, <3>1, SlotReturn
    <2>2. CASE Probing(c) /\ failed
      <3>1. onFailure BY <1>2, <2>2 DEF settle, Probing
      <3>2. state' # HalfOpen BY <1>0, <3>1, OnFailure DEF Open, HalfOpen
      <3> QED BY <1>2, <3>2, SlotReturn
    <2>3. CASE Probing(c) /\ ~failed
      <3>1. onSuccess BY <1>2, <2>3 DEF settle, Probing
      <3>2. UNCHANGED <<state, generation>> \/ generation' \notin InUse
        BY <1>0, <3>1, OnSuccess
      <3> QED BY <1>2, <2>3, <3>2, SlotReturn
    <2> QED BY <2>1, <2>2, <2>3
  <1>3. ASSUME NEW c \in Callers, NEW d \in RetryAfters, Refuse(c, d) PROVE SlotInv'
    <2>1. CASE ~Probing(c)
      <3>1. UNCHANGED breaker
        BY <1>0, <1>3, <2>1, Zenon DEF Refuse, releaseProbe, Probing, breaker, BreakerTypeOK
      <3> QED BY <1>3, <2>1, <3>1, SlotReturn DEF Refuse
    <2>2. CASE Probing(c)
      BY <1>3, <2>2, SlotReturn DEF Refuse, releaseProbe
    <2> QED BY <2>1, <2>2
  <1>4. ASSUME NEW c \in Callers, Hold(c) PROVE SlotInv'
    <2>1. state' = Open BY <1>4 DEF Hold, HoldOpenFor, moveTo
    <2> QED BY <2>1, SlotFree DEF Open, HalfOpen
  <1>5. CASE Reset
    <2>1. state' # HalfOpen BY <1>5 DEF Reset, moveTo, Closed, HalfOpen
    <2> QED BY <2>1, SlotFree
  <1>6. CASE UNCHANGED <<state, halfOpenInFlight, generation, pc, ticket>>
    <2>1. \A e \in Callers : Probing(e)' <=> Probing(e) BY <1>6 DEF Probing
    <2> QED BY <1>6, <2>1, Zenon DEF SlotInv
  <1>7. 0 \in RetryAfters BY ConfigAssumption DEF RetryAfters
  <1>8. \A c \in Callers : Succeed(c) \/ Panic(c) => SlotInv'
    BY <1>2, <1>7 DEF Succeed, Panic
  <1>9. \A c \in Callers, d \in RetryAfters : Fail(c, d) => SlotInv'
    BY <1>2 DEF Fail
  <1>10. CASE Tick \/ Heal \/ UNCHANGED vars
    BY <1>6, <1>10 DEF Tick, Heal, vars, breaker
  <1>11. ~RecordSuccess /\ ~RecordFailure BY DEF RecordSuccess, RecordFailure
  <1> QED BY <1>1, <1>3, <1>4, <1>5, <1>8, <1>9, <1>10, <1>11 DEF Next, Call

\* For any callers, when outcomes are recorded by Execute alone: a half-open
\* breaker has at most one request out.
THEOREM SingleProbe ==
    ASSUME ManualRecording = FALSE
    PROVE  Spec => []OneProbeAtATime
  <1>1. Init => SlotInv BY DEF Init, SlotInv, Closed, HalfOpen
  <1>2. SlotInv => OneProbeAtATime BY DEF SlotInv, OneProbeAtATime
  <1> QED BY <1>1, <1>2, TypeInit, TypeStep, InvInit, InvStep, SlotStep, PTL DEF Spec

-----------------------------------------------------------------------------
(* The breaker under the calls.                                            *)

\* Every step of the calls is a step of the breaker or leaves it alone.
LEMMA RetryStepIsBreakerStep == RetryNext => [Next]_vars
  <1> SUFFICES ASSUME RetryNext PROVE [Next]_vars
    OBVIOUS
  <1>1. ASSUME NEW c \in Callers, Start(c) \/ Wake(c) \/ TakeSlot(c) \/ StopAtBreaker(c)
                                  \/ JudgeFailure(c) \/ CallAgain(c)
        PROVE  UNCHANGED vars
    BY <1>1 DEF Start, Wake, TakeSlot, StopAtBreaker, JudgeFailure, CallAgain
  <1>2. ASSUME NEW c \in Callers,
               SendRequest(c) \/ SendSucceeds(c) \/ SendPanics(c) \/ HoldThenJudge(c)
        PROVE  Call(c)
    BY <1>2 DEF SendRequest, SendSucceeds, SendPanics, HoldThenJudge, Call
  <1>3. ASSUME NEW c \in Callers, NEW failure \in Failures, NEW retryAfter \in RetryAfters,
               SendFails(c, failure, retryAfter)
        PROVE  Call(c)
    BY <1>3 DEF SendFails, Call
  <1>4. CASE PassTime \/ Recover
    BY <1>4 DEF PassTime, Recover, Next
  <1> QED BY <1>1, <1>2, <1>3, <1>4 DEF RetryNext, Step, Next

\* For any callers and limits: calls that retry use the breaker as its own
\* specification allows, so the breaker's theorems hold under them.
THEOREM RetriesKeepTheBreaker == RetrySpec => Spec
  <1>1. RetryInit => Init BY DEF RetryInit
  <1>2. UNCHANGED rvars => UNCHANGED vars BY DEF rvars
  <1> QED BY <1>1, <1>2, RetryStepIsBreakerStep, PTL DEF RetrySpec, Spec

\* For any callers and limits: while retries hammer it, the breaker keeps the
\* waits the server asked for and never leaks its half-open slot.
THEOREM RetriesKeepWaits == RetrySpec => []KeepsCallersBack /\ []ProbeSlotNotLeaked
  BY RetriesKeepTheBreaker, WaitsAreKept, SlotIsNeverLeaked, PTL

-----------------------------------------------------------------------------
(* One call.                                                               *)

\* What where a call is says of its requests and its failures.
CallInv(c) ==
    /\ stage[c] \in {"new", "delay", "queued", "slotted"} =>
         /\ sent[c] = attempt[c]
         /\ sent[c] > 0 => lastFailure[c] # NoFailure
         /\ lastFailure[c] # NoFailure => sent[c] > 0
    /\ stage[c] \in {"calling", "holding", "judging"} => sent[c] = attempt[c] + 1
    /\ stage[c] \in {"holding", "judging"} => lastFailure[c] # NoFailure
    /\ stage[c] = "done" => sent[c] <= attempt[c] + 1
    /\ stage[c] # "done" => result[c] = "pending"
    /\ result[c] = "open" => sent[c] = 0
    /\ result[c] = "openAfterFailure" => sent[c] > 0 /\ lastFailure[c] # NoFailure

CallTypes ==
    /\ stage \in [Callers -> Stages]
    /\ attempt \in [Callers -> 0 .. MaxRetries]
    /\ delayLeft \in [Callers -> Nat]
    /\ lastFailure \in [Callers -> Failures \cup {NoFailure}]
    /\ result \in [Callers -> Results]
    /\ sent \in [Callers -> Nat]

RetryInv == CallTypes /\ \A c \in Callers : CallInv(c)

\* A new call has sent nothing.
LEMMA RetryInvInit == RetryInit => RetryInv
  <1> SUFFICES ASSUME RetryInit PROVE RetryInv
    OBVIOUS
  <1>1. CallTypes
    BY RetryAssumption DEF RetryInit, CallTypes, Stages, Failures, Results, NoFailure
  <1>2. \A c \in Callers : CallInv(c) BY DEF RetryInit, CallInv, NoFailure
  <1> QED BY <1>1, <1>2 DEF RetryInv

\* A step of one call leaves what is known of the others.
LEMMA OneCallMoves ==
    ASSUME RetryInv, NEW c \in Callers, CallTypes', CallInv(c)',
           \A e \in Callers : e # c =>
             /\ stage'[e] = stage[e]
             /\ attempt'[e] = attempt[e]
             /\ lastFailure'[e] = lastFailure[e]
             /\ result'[e] = result[e]
             /\ sent'[e] = sent[e]
    PROVE  RetryInv'
  <1>1. ASSUME NEW e \in Callers, e # c PROVE CallInv(e)'
    BY <1>1 DEF RetryInv, CallInv
  <1> QED BY <1>1 DEF RetryInv

\* The verdict on a failure: the call ends, or retries with one attempt more.
LEMMA JudgeKeeps ==
    ASSUME RetryInv, NEW c \in Callers, stage[c] \in {"holding", "judging"},
           NEW retryAfter \in RetryAfters, Judge(c, retryAfter), UNCHANGED <<lastFailure, sent>>
    PROVE  RetryInv'
  <1>0. CallTypes /\ CallInv(c) BY DEF RetryInv
  <1>1. ASSUME NEW r \in {"openAfterFailure", "failed", "gaveUp"}, Return(c, r)
        PROVE  RetryInv'
    <2>1. CallTypes' BY <1>0, <1>1 DEF Return, GoTo, CallTypes, Stages, Results
    <2>2. CallInv(c)'
      <3>1. stage'[c] = "done" /\ result'[c] = r /\ attempt'[c] = attempt[c]
        BY <1>0, <1>1 DEF Return, GoTo, CallTypes
      <3>2. attempt[c] \in Nat /\ sent[c] = attempt[c] + 1 /\ lastFailure[c] # NoFailure
        BY <1>0, RetryAssumption DEF CallTypes, CallInv
      <3> QED BY <3>1, <3>2 DEF CallInv
    <2>3. \A e \in Callers : e # c =>
             stage'[e] = stage[e] /\ attempt'[e] = attempt[e] /\ result'[e] = result[e]
      BY <1>0, <1>1 DEF Return, GoTo, CallTypes
    <2> QED BY <2>1, <2>2, <2>3, OneCallMoves
  <1>2. ASSUME attempt[c] < MaxRetries, attempt' = [attempt EXCEPT ![c] = @ + 1],
               NEW d \in calculateDelay(retryAfter), delayLeft' = [delayLeft EXCEPT ![c] = d],
               GoTo(c, "delay"), UNCHANGED result
        PROVE  RetryInv'
    <2>1. d \in Nat
      BY RetryAssumption, ConfigAssumption DEF calculateDelay, RetryAfters
    <2>2. CallTypes' BY <1>0, <1>2, <2>1, RetryAssumption DEF GoTo, CallTypes, Stages
    <2>3. CallInv(c)' BY RetryAssumption, <1>0, <1>2 DEF GoTo, CallTypes, CallInv
    <2>4. \A e \in Callers : e # c =>
             stage'[e] = stage[e] /\ attempt'[e] = attempt[e] /\ result'[e] = result[e]
      BY <1>0, <1>2 DEF GoTo, CallTypes
    <2> QED BY <2>2, <2>3, <2>4, OneCallMoves
  <1> QED BY <1>1, <1>2 DEF Judge

\* Every step keeps what is known of every call.
LEMMA RetryInvStep == TypeOK /\ RetryInv /\ [RetryNext]_rvars => RetryInv'
  <1> SUFFICES ASSUME CallerTypeOK, RetryInv, [RetryNext]_rvars PROVE RetryInv'
    BY TypeParts
  <1> DEFINE Others(c) ==
        \A e \in Callers : e # c =>
          /\ stage'[e] = stage[e]
          /\ attempt'[e] = attempt[e]
          /\ lastFailure'[e] = lastFailure[e]
          /\ result'[e] = result[e]
          /\ sent'[e] = sent[e]
  <1>0. CallTypes /\ 0 \in RetryAfters BY ConfigAssumption DEF RetryInv, RetryAfters
  <1>1. ASSUME NEW c \in Callers, Start(c) \/ Wake(c) \/ TakeSlot(c) PROVE RetryInv'
    <2>1. CallTypes' /\ Others(c)
      BY <1>0, <1>1 DEF Start, Wake, TakeSlot, GoTo, CallTypes, Stages
    <2>2. CallInv(c)' BY RetryAssumption, <1>0, <1>1 DEF RetryInv, Start, Wake, TakeSlot, GoTo, CallTypes, CallInv
    <2> QED BY <2>1, <2>2, OneCallMoves
  <1>2. ASSUME NEW c \in Callers, SendRequest(c) PROVE RetryInv'
    <2>1. CallTypes' /\ Others(c) BY <1>0, <1>2 DEF SendRequest, GoTo, CallTypes, Stages
    <2>2. CallInv(c)' BY RetryAssumption, <1>0, <1>2 DEF RetryInv, SendRequest, GoTo, CallTypes, CallInv
    <2> QED BY <2>1, <2>2, OneCallMoves
  <1>3. ASSUME NEW c \in Callers, StopAtBreaker(c) PROVE RetryInv'
    <2>1. PICK r \in {"open", "openAfterFailure"} :
            /\ Return(c, r)
            /\ r = "open" <=> lastFailure[c] = NoFailure
      BY <1>3 DEF StopAtBreaker
    <2>2. stage[c] = "slotted" /\ UNCHANGED <<lastFailure, sent>> BY <1>3 DEF StopAtBreaker
    <2>3. CallTypes' /\ Others(c)
      BY <1>0, <2>1, <2>2 DEF Return, GoTo, CallTypes, Stages, Results
    <2>4. CallInv(c)' BY RetryAssumption, <1>0, <2>1, <2>2 DEF RetryInv, Return, GoTo, CallTypes, CallInv
    <2> QED BY <2>3, <2>4, OneCallMoves
  <1>4. ASSUME NEW c \in Callers, SendSucceeds(c) \/ SendPanics(c) PROVE RetryInv'
    <2>1. PICK r \in {"ok", "panic"} : Return(c, r) BY <1>4 DEF SendSucceeds, SendPanics
    <2>2. stage[c] = "calling" /\ UNCHANGED <<lastFailure, sent>>
      BY <1>4 DEF SendSucceeds, SendPanics
    <2>3. CallTypes' /\ Others(c)
      BY <1>0, <2>1, <2>2 DEF Return, GoTo, CallTypes, Stages, Results
    <2>4. CallInv(c)' BY RetryAssumption, <1>0, <2>1, <2>2 DEF RetryInv, Return, GoTo, CallTypes, CallInv
    <2> QED BY <2>3, <2>4, OneCallMoves
  <1>5. ASSUME NEW c \in Callers, NEW failure \in Failures, NEW retryAfter \in RetryAfters,
               SendFails(c, failure, retryAfter)
        PROVE  RetryInv'
    <2>1. PICK s \in {"holding", "judging"} : GoTo(c, s) BY <1>5 DEF SendFails
    <2>2. /\ stage[c] = "calling"
          /\ lastFailure' = [lastFailure EXCEPT ![c] = failure]
          /\ UNCHANGED <<attempt, delayLeft, result, sent>>
      BY <1>5 DEF SendFails
    <2>3. CallTypes' /\ Others(c) BY <1>0, <2>1, <2>2 DEF GoTo, CallTypes, Stages
    <2>4. CallInv(c)'
      BY <1>0, <2>1, <2>2 DEF RetryInv, GoTo, CallTypes, CallInv, Failures, NoFailure
    <2> QED BY <2>3, <2>4, OneCallMoves
  <1>6. ASSUME NEW c \in Callers, JudgeFailure(c) \/ HoldThenJudge(c) PROVE RetryInv'
    <2>1. asked[c] \in RetryAfters BY DEF CallerTypeOK
    <2> QED BY <1>0, <1>6, <2>1, JudgeKeeps DEF JudgeFailure, HoldThenJudge
  <1>7. ASSUME NEW c \in Callers, CallAgain(c) PROVE RetryInv'
    <2>1. CallTypes' /\ Others(c)
      BY <1>0, <1>7, RetryAssumption DEF CallAgain, CallTypes, Stages, Results, Failures
    <2>2. CallInv(c)' BY <1>0, <1>7 DEF CallAgain, CallTypes, CallInv, NoFailure
    <2> QED BY <2>1, <2>2, OneCallMoves
  <1>8. CASE UNCHANGED <<stage, attempt, lastFailure, result, sent>> /\ delayLeft' \in [Callers -> Nat]
    <2>1. CallTypes' BY <1>0, <1>8 DEF CallTypes
    <2>2. \A c \in Callers : CallInv(c)' BY <1>8 DEF RetryInv, CallInv
    <2> QED BY <2>1, <2>2 DEF RetryInv
  <1>9. CASE PassTime
    <2>1. delayLeft' \in [Callers -> Nat] BY <1>0, <1>9 DEF PassTime, CallTypes, Shorter
    <2> QED BY <1>8, <1>9, <2>1 DEF PassTime
  <1>10. CASE Recover \/ UNCHANGED rvars
    BY <1>0, <1>8, <1>10 DEF Recover, rvars, callVars, CallTypes
  <1> QED BY <1>1, <1>2, <1>3, <1>4, <1>5, <1>6, <1>7, <1>9, <1>10 DEF RetryNext, Step

\* For any callers, limits and waits: an open breaker hides no failure of the
\* call's own requests.
THEOREM OpenErrorsTellTheFailure == RetrySpec => []OpenErrorKeepsTheFailure
  <1>1. RetryInv => OpenErrorKeepsTheFailure
    BY DEF RetryInv, CallInv, OpenErrorKeepsTheFailure
  <1>2. RetryInit => Init BY DEF RetryInit
  <1>3. [RetryNext]_rvars => [Next]_vars
    BY RetryStepIsBreakerStep DEF rvars
  <1> QED BY <1>1, <1>2, <1>3, TypeInit, TypeStep, RetryInvInit, RetryInvStep, PTL DEF RetrySpec

-----------------------------------------------------------------------------
(* The places of the limit.                                                *)

\* The calls that hold a place of the limit.
Holders == {c \in Callers : HasPlace(c)}

PlacesInv ==
    /\ IsFiniteSet(Holders)
    /\ slots = Cardinality(Holders)
    /\ slots <= Slots

\* A place is taken: one more call holds one.
LEMMA PlaceTaken ==
    ASSUME PlacesInv, NEW c \in Callers, ~HasPlace(c), HasPlace(c)',
           \A e \in Callers : e # c => stage'[e] = stage[e],
           slots < Slots, slots' = slots + 1
    PROVE  PlacesInv'
  <1>1. Holders' = Holders \cup {c} /\ c \notin Holders BY DEF Holders, HasPlace
  <1>2. IsFiniteSet(Holders) /\ slots = Cardinality(Holders) BY DEF PlacesInv
  <1>3. IsFiniteSet(Holders') /\ Cardinality(Holders') = Cardinality(Holders) + 1
    BY <1>1, <1>2, FS_AddElement
  <1>4. slots \in Nat BY <1>2, FS_CardinalityType
  <1> QED BY <1>2, <1>3, <1>4, RetryAssumption DEF PlacesInv

\* A place is given back by a call that held one.
LEMMA PlaceGiven ==
    ASSUME PlacesInv, NEW c \in Callers, HasPlace(c), ~HasPlace(c)',
           \A e \in Callers : e # c => stage'[e] = stage[e],
           slots' = slots - 1
    PROVE  PlacesInv'
  <1>1. Holders' = Holders \ {c} /\ c \in Holders BY DEF Holders, HasPlace
  <1>2. IsFiniteSet(Holders) /\ slots = Cardinality(Holders) /\ slots <= Slots BY DEF PlacesInv
  <1>3. IsFiniteSet(Holders') /\ Cardinality(Holders') = Cardinality(Holders) - 1
    BY <1>1, <1>2, FS_RemoveElement
  <1>4. slots \in Nat BY <1>2, FS_CardinalityType
  <1> QED BY <1>2, <1>3, <1>4, RetryAssumption DEF PlacesInv

\* A step that neither takes nor gives a place.
LEMMA PlacesStay ==
    ASSUME PlacesInv, UNCHANGED slots, \A e \in Callers : HasPlace(e)' <=> HasPlace(e)
    PROVE  PlacesInv'
  <1>1. Holders' = Holders BY DEF Holders
  <1> QED BY <1>1 DEF PlacesInv

\* Every step keeps the count of the places.
LEMMA PlacesStep == RetryInv /\ PlacesInv /\ [RetryNext]_rvars => PlacesInv'
  <1> SUFFICES ASSUME RetryInv, PlacesInv, [RetryNext]_rvars PROVE PlacesInv'
    OBVIOUS
  <1>0. stage \in [Callers -> Stages] BY DEF RetryInv, CallTypes
  <1>1. ASSUME NEW c \in Callers, TakeSlot(c) PROVE PlacesInv'
    BY <1>0, <1>1, PlaceTaken DEF TakeSlot, GoTo, HasPlace
  <1>2. ASSUME NEW c \in Callers, StopAtBreaker(c) \/ SendSucceeds(c) \/ SendPanics(c)
        PROVE  PlacesInv'
    BY <1>0, <1>2, PlaceGiven DEF StopAtBreaker, SendSucceeds, SendPanics, Return, GoTo, HasPlace
  <1>3. ASSUME NEW c \in Callers, NEW failure \in Failures, NEW retryAfter \in RetryAfters,
               SendFails(c, failure, retryAfter)
        PROVE  PlacesInv'
    <2>1. stage[c] = "calling" BY <1>3 DEF SendFails
    <2>2. CASE retryAfter > 0
      BY <1>0, <1>3, <2>1, <2>2, PlacesStay DEF SendFails, GoTo, HasPlace
    <2>3. CASE ~(retryAfter > 0)
      BY <1>0, <1>3, <2>1, <2>3, PlaceGiven DEF SendFails, GoTo, HasPlace
    <2> QED BY <2>2, <2>3
  <1>4. ASSUME NEW c \in Callers, stage[c] \in {"judging", "holding"},
               NEW retryAfter, Judge(c, retryAfter)
        PROVE  /\ ~HasPlace(c)'
               /\ \A e \in Callers : e # c => stage'[e] = stage[e]
    BY <1>0, <1>4 DEF Judge, Return, GoTo, HasPlace
  <1>5. ASSUME NEW c \in Callers, JudgeFailure(c) PROVE PlacesInv'
    <2>1. stage[c] = "judging" /\ Judge(c, 0) /\ UNCHANGED slots BY <1>5 DEF JudgeFailure
    <2>2. ~HasPlace(c)' /\ \A e \in Callers : e # c => stage'[e] = stage[e] BY <1>4, <2>1
    <2> QED BY <2>1, <2>2, PlacesStay DEF HasPlace
  <1>6. ASSUME NEW c \in Callers, HoldThenJudge(c) PROVE PlacesInv'
    <2>1. stage[c] = "holding" /\ Judge(c, asked[c]) /\ slots' = slots - 1
      BY <1>6 DEF HoldThenJudge
    <2>2. ~HasPlace(c)' /\ \A e \in Callers : e # c => stage'[e] = stage[e] BY <1>4, <2>1
    <2> QED BY <2>1, <2>2, PlaceGiven DEF HasPlace
  <1>7. ASSUME NEW c \in Callers, Start(c) \/ Wake(c) \/ SendRequest(c) \/ CallAgain(c)
        PROVE  PlacesInv'
    BY <1>0, <1>7, PlacesStay DEF Start, Wake, SendRequest, CallAgain, GoTo, HasPlace
  <1>8. CASE PassTime \/ Recover \/ UNCHANGED rvars
    BY <1>8, PlacesStay DEF PassTime, Recover, rvars, callVars, HasPlace
  <1> QED BY <1>1, <1>2, <1>3, <1>5, <1>6, <1>7, <1>8 DEF RetryNext, Step

\* At the start nobody holds a place.
LEMMA PlacesInit == RetryInit => PlacesInv
  <1> SUFFICES ASSUME RetryInit PROVE PlacesInv
    OBVIOUS
  <1>1. Holders = {} BY DEF RetryInit, Holders, HasPlace
  <1> QED BY <1>1, FS_EmptySet, RetryAssumption DEF PlacesInv, RetryInit

\* For any callers, limits and waits: a call sends its first request and at
\* most MaxRetries more, and every place of the limit is accounted for.
THEOREM BudgetsAreKept == RetrySpec => []BudgetsKept
  <1>1. TypeOK /\ RetryInv /\ PlacesInv => BudgetsKept
    <2> SUFFICES ASSUME TypeOK, RetryInv, PlacesInv PROVE BudgetsKept
      OBVIOUS
    <2>1. slots \in Nat BY FS_CardinalityType DEF PlacesInv
    <2>2. RetryTypeOK BY <2>1 DEF RetryInv, CallTypes, RetryTypeOK
    <2>3. PlacesAccounted BY DEF PlacesInv, PlacesAccounted, Holders
    <2>4. ASSUME NEW c \in Callers PROVE sent[c] <= MaxRetries + 1
      <3>1. /\ stage[c] \in Stages
            /\ attempt[c] \in Nat /\ attempt[c] <= MaxRetries
            /\ sent[c] \in Nat
        BY RetryAssumption DEF RetryInv, CallTypes
      <3>2. sent[c] <= attempt[c] + 1 BY <3>1 DEF RetryInv, CallInv, Stages
      <3> QED BY <3>1, <3>2, RetryAssumption
    <2> QED BY <2>2, <2>3, <2>4 DEF BudgetsKept, RequestsBounded
  <1>2. RetryInit => Init BY DEF RetryInit
  <1>3. [RetryNext]_rvars => [Next]_vars
    BY RetryStepIsBreakerStep DEF rvars
  <1> QED
    BY <1>1, <1>2, <1>3, TypeInit, TypeStep, RetryInvInit, RetryInvStep, PlacesInit, PlacesStep, PTL
    DEF RetrySpec
=============================================================================
