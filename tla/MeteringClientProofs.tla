------------------------- MODULE MeteringClientProofs -------------------------
(***************************************************************************)
(* Proofs about MeteringClient for any records, pool and drains: it takes  *)
(* only steps of the buffer it holds its records in, so what the buffer    *)
(* promises carries over, and the counts and answers of Close are right    *)
(* however sends, flushes and Close interleave.                            *)
(***************************************************************************)
EXTENDS MeteringClient, MeteringBufferProofs

-----------------------------------------------------------------------------
(* The inductive invariant.                                                *)

\* Sends activity counts.
Running == {r \in Records : pc[r] \notin {"idle", "reserved", "done"}}
BeforeDone == \A r \in before : pc[r] = "done"

\* Where a record is while its goroutine is at a step.
StepOf(r) ==
    /\ pc[r] \in {"idle", "syncSending", "syncSent"} => place[r] = "new"
    /\ pc[r] \in {"reserved", "overflow", "pooled", "sending", "sent"} => place[r] = "reserved"
    /\ pc[r] \in {"idle", "reserved", "overflow", "pooled", "sending", "syncSending"} => ended[r] = "none"
    /\ pc[r] \in {"settled", "ending", "done"} =>
         /\ place[r] \notin {"new", "reserved"}
         /\ ended[r] \in {"retry", "open"} => place[r] # "released"
         /\ ended[r] \in {"ok", "refused", "panic"} => place[r] = "released"
StepInv == \A r \in Records : StepOf(r)

SendsInv == IsFiniteSet(Running) /\ sends = Cardinality(Running)

\* What Close has seen ended.
CloseInv ==
    /\ \A r \in before : pc[r] \notin {"idle", "reserved"}
    /\ finished \/ sent \/ released \/ releaser \in {"locking", "done"} => BeforeDone
    /\ closer = "open" => before = {} /\ ~sent /\ ~released /\ releaser = "none"
    /\ closer = "counting" => Cardinality(Running \cap before) <= running

\* The steps of a record's goroutine.
RecordStep(r) ==
    \/ SendReserves(r) \/ SendSubmits(r) \/ SendOverflows(r)
    \/ WorkerTakes(r) \/ SendPanics(r) \/ SettleQueuedSend(r) \/ SendEnds(r)
    \/ SyncBegins(r) \/ HoldIfRetryable(r)
    \/ \E o \in Outcomes : Deliver(r, o)

ClientInv == ClientTypeOK /\ BufferInv /\ StepInv /\ SendsInv /\ CloseInv

-----------------------------------------------------------------------------
(* Where the buffer's steps leave a record.                                *)

\* A record a step of the buffer was not about stays, unless it was held.
Left(x) ==
    \/ place'[x] = place[x]
    \/ place[x] = "held" /\ place'[x] \in {"dropped", "delivered", "refused"}

\* The oldest records of a part of the line are held ones.
LEMMA OldestAreHeld ==
    ASSUME BufferInv, NEW s \in Seq(Records), Ordered(s, Ahead), ToSet(s) \subseteq Held,
           NEW n \in 0 .. Len(s), NEW x \in Records
    PROVE  Placed(SubSeq(s, 1, n), "dropped")[x] # place[x]
             => place[x] = "held" /\ Placed(SubSeq(s, 1, n), "dropped")[x] = "dropped"
  <1> DEFINE p == SubSeq(s, 1, n)
             q == SubSeq(s, n + 1, Len(s))
  <1>1. ToSet(s) = ToSet(p) \cup ToSet(q) BY CutRecords
  <1> HIDE DEF p, q
  <1>2. x \in ToSet(p) => place[x] = "held" BY <1>1 DEF Held
  <1>3. Placed(p, "dropped")[x] = IF x \in ToSet(p) THEN "dropped" ELSE place[x]
    BY DEF Placed
  <1> QED BY <1>2, <1>3 DEF p

\* push leaves its record held or dropped.
LEMMA PushMoves ==
    ASSUME BufferInv, NEW r \in Records, NEW sending, push(r, sending)
    PROVE  place'[r] \in {"held", "dropped"} /\ \A x \in Records \ {r} : Left(x)
  <1>0. /\ place \in [Records -> Places] /\ events \in Seq(Records)
        /\ Ordered(events, Ahead) /\ ToSet(events) \subseteq Held
    BY PartFacts DEF BufferInv, BufferTypeOK, ShapeInv, LineInv
  <1>1. CASE ~fitsBesideUndroppable(sending, Size[r])
    <2>1. place' = [place EXCEPT ![r] = "dropped"] BY <1>1 DEF push
    <2> QED BY <1>0, <2>1 DEF Left
  <1>2. CASE fitsBesideUndroppable(sending, Size[r])
    <2> DEFINE n == evictOldestUntil(events, queuedBytes, inFlightBytes + sending, RecordLimit - 1, ByteLimit - Size[r])
               base == Placed(SubSeq(events, 1, n), "dropped")
    <2>1. place' = [base EXCEPT ![r] = "held"] BY <1>2 DEF push
    <2>2. n \in 0 .. Len(events) BY <1>0, EvictionStops
    <2>3. DOMAIN base = Records BY DEF Placed
    <2> HIDE DEF n
    <2>4. \A x \in Records : base[x] # place[x] => place[x] = "held" /\ base[x] = "dropped"
      BY <1>0, <2>2, OldestAreHeld
    <2> HIDE DEF base
    <2>5. place'[r] = "held" /\ \A x \in Records \ {r} : place'[x] = base[x] BY <2>1, <2>3
    <2> QED BY <2>4, <2>5 DEF Left
  <1> QED BY <1>1, <1>2

\* Where the client's requests leave the record they are about.
LEMMA RequestMoves ==
    ASSUME BufferInv, NEW r \in Records
    PROVE  /\ Reserve(r) => place'[r] = "reserved"
           /\ RefuseReservation(r) => place'[r] = "dropped"
           /\ ReleaseSend(r) \/ NeverHeld(r) => place'[r] = "released"
           /\ HoldSent(r) \/ Push(r) => place'[r] \in {"held", "dropped"}
           /\ \/ Reserve(r) \/ RefuseReservation(r) \/ ReleaseSend(r)
              \/ HoldSent(r) \/ Push(r) \/ NeverHeld(r)
              => \A x \in Records \ {r} : Left(x)
  <1>0. /\ place \in [Records -> Places] /\ events \in Seq(Records)
        /\ Ordered(events, Ahead) /\ ToSet(events) \subseteq Held
    BY PartFacts DEF BufferInv, BufferTypeOK, ShapeInv, LineInv
  <1>1. ASSUME Reserve(r) PROVE place'[r] = "reserved" /\ \A x \in Records \ {r} : Left(x)
    <2> DEFINE n == evictOldestUntil(events, queuedBytes, inFlightBytes + sendingBytes,
                                     Len(events), ByteLimit - Size[r])
               base == Placed(SubSeq(events, 1, n), "dropped")
    <2>1. place' = [base EXCEPT ![r] = "reserved"] BY <1>1 DEF Reserve
    <2>2. n \in 0 .. Len(events) BY <1>0, EvictionStops
    <2>3. DOMAIN base = Records BY DEF Placed
    <2> HIDE DEF n
    <2>4. \A x \in Records : base[x] # place[x] => place[x] = "held" /\ base[x] = "dropped"
      BY <1>0, <2>2, OldestAreHeld
    <2> HIDE DEF base
    <2>5. place'[r] = "reserved" /\ \A x \in Records \ {r} : place'[x] = base[x] BY <2>1, <2>3
    <2> QED BY <2>4, <2>5 DEF Left
  <1>2. ASSUME RefuseReservation(r) PROVE place'[r] = "dropped" /\ \A x \in Records \ {r} : Left(x)
    BY <1>0, <1>2 DEF RefuseReservation, Left
  <1>3. ASSUME ReleaseSend(r) \/ NeverHeld(r)
        PROVE  place'[r] = "released" /\ \A x \in Records \ {r} : Left(x)
    <2>1. place' = [place EXCEPT ![r] = "released"] BY <1>3 DEF ReleaseSend, NeverHeld
    <2> QED BY <1>0, <2>1 DEF Left
  <1>4. ASSUME HoldSent(r) \/ Push(r)
        PROVE  place'[r] \in {"held", "dropped"} /\ \A x \in Records \ {r} : Left(x)
    <2>1. push(r, sendingBytes') \/ push(r, sendingBytes) BY <1>4 DEF HoldSent, Push
    <2> QED BY <2>1, PushMoves
  <1> QED BY <1>1, <1>2, <1>3, <1>4

\* A flush, or a step of the loop or of Close, moves held records only.
LEMMA FlushMoves ==
    ASSUME BufferInv, Flush
    PROVE  \A x \in Records : Left(x)
  <1>0. place \in [Records -> Places] BY DEF BufferInv, BufferTypeOK
  <1>1. CASE UNCHANGED place BY <1>1 DEF Left
  <1>2. ASSUME NEW f, TakePending(f) PROVE \A x \in Records : Left(x)
    <2> DEFINE o == Old(events)
    <2>1. ToSet(o) \subseteq Held
      <3>1. ToSet(o) \subseteq ToSet(events) BY Expiry
      <3> QED BY <3>1, PartFacts
    <2>2. place' = Placed(o, "dropped") BY <1>2 DEF TakePending
    <2> HIDE DEF o
    <2> QED BY <2>1, <2>2 DEF Placed, Left, Held
  <1>3. ASSUME ResendWindow PROVE \A x \in Records : Left(x)
    <2>1. ToSet(batch) \subseteq Held
      BY <1>3 DEF ResendWindow, BufferInv, ShapeInv, PlaceInv, Kept
    <2>2. PICK out \in [1 .. Len(batch) -> Outcomes] :
            place' = [r \in Records |->
                         IF \E i \in With(out, "ok") : batch[i] = r THEN "delivered"
                         ELSE IF \E i \in With(out, "refused") : batch[i] = r THEN "refused"
                         ELSE place[r]]
      BY <1>3 DEF ResendWindow
    <2>3. \A o : \A i \in With(out, o) : batch[i] \in ToSet(batch) BY DEF With, ToSet
    <2> QED BY <2>1, <2>2, <2>3 DEF Left, Held
  <1>4. ASSUME PutBack PROVE \A x \in Records : Left(x)
    <2> DEFINE n == evictOldestUntil(Requeued, queuedBytes + totalHeldBytes(Returned),
                                     inFlightBytes - totalHeldBytes(Returned) + sendingBytes,
                                     RecordLimit, ByteLimit)
    <2>1. UNCHANGED place \/ place' = Placed(SubSeq(Requeued, 1, n), "dropped") BY <1>4 DEF PutBack
    <2>2. stage = "ending" BY <1>4 DEF PutBack
    <2>3. Requeued \in Seq(Records) /\ Ordered(Requeued, Ahead) /\ ToSet(Requeued) \subseteq Held
      BY <2>2, Requeue
    <2>4. n \in 0 .. Len(Requeued) BY <2>3, EvictionStops
    <2> HIDE DEF n
    <2> QED BY <2>1, <2>3, <2>4, OldestAreHeld DEF Left
  <1> QED BY <1>1, <1>2, <1>3, <1>4
          DEF Flush, LoopTicks, LoopWakes, LoopEnds, StartDrain, ReleaseSettled

-----------------------------------------------------------------------------
(* Every step of the client is one of its buffer, or leaves it alone.      *)

LEMMA RecordStepIsBufferStep ==
    ASSUME ClientInv, NEW r \in Records, RecordStep(r)
    PROVE  [BufferNext]_bvars
  <1>1. ASSUME \/ Reserve(r) \/ RefuseReservation(r) \/ ReleaseSend(r)
               \/ HoldSent(r) \/ Push(r) \/ NeverHeld(r)
        PROVE  BufferNext
    BY <1>1 DEF BufferNext
  <1>2. ASSUME NEW o \in Outcomes, Deliver(r, o) PROVE BufferNext
    <2>1. place[r] \in {"new", "reserved"}
      BY <1>2 DEF Deliver, ClientInv, StepInv, StepOf
    <2> QED BY <1>2, <2>1 DEF Deliver, BufferNext
  <1> QED BY <1>1, <1>2
          DEF RecordStep, SendReserves, SendSubmits, SendOverflows, WorkerTakes, SendPanics,
              SettleQueuedSend, SendEnds, SyncBegins, HoldIfRetryable

LEMMA ClientStepIsBufferStep ==
    ASSUME ClientInv, [ClientNext]_cvars
    PROVE  [BufferNext]_bvars
  <1>1. ASSUME NEW r \in Records, RecordStep(r) PROVE [BufferNext]_bvars
    BY <1>1, RecordStepIsBufferStep
  <1>2. CASE CloseClient
    <2>1. CASE StopBuffer BY <2>1 DEF StopBuffer, BufferNext
    <2>2. CASE DrainStopped
      BY <2>2, ClientAssumption DEF DrainStopped, BufferNext, Flush
    <2> QED BY <1>2, <2>1, <2>2
            DEF CloseClient, CloseBegins, WaitForSends, WaitForDrain, ReleaseBreakerWhenIdle,
                SampleRunning, CountHeld, ReleaserWaits, ReleaserReleases
  <1>3. CASE BufferSteps
    <2>1. Flush BY <1>3 DEF BufferSteps, Flush
    <2> QED BY <2>1 DEF BufferNext
  <1>4. CASE UNCHANGED cvars BY <1>4 DEF cvars
  <1> QED BY <1>1, <1>2, <1>3, <1>4 DEF ClientNext, RecordStep

-----------------------------------------------------------------------------
(* Where a record's goroutine leaves its record.                           *)

\* A step about another record.
LEMMA StepOfOthers ==
    ASSUME NEW x, StepOf(x), pc'[x] = pc[x], ended'[x] = ended[x], Left(x)
    PROVE  StepOf(x)'
  BY DEF StepOf, Left

LEMMA RecordStepSettles ==
    ASSUME ClientInv, NEW r \in Records, RecordStep(r)
    PROVE  StepInv'
  <1>0. /\ pc \in [Records -> Steps] /\ BufferInv /\ StepOf(r)
        /\ DOMAIN ended = Records
        /\ ended[r] \in {"none", "ok", "retry", "open", "refused", "panic"}
    BY DEF ClientInv, ClientTypeOK, StepInv
  <1>1. ASSUME StepOf(r)', NEW where, pc' = [pc EXCEPT ![r] = where],
               NEW how, \/ ended' = [ended EXCEPT ![r] = how]
                        \/ ended' = ended,
               \A x \in Records \ {r} : Left(x)
        PROVE  StepInv'
    <2>1. ASSUME NEW x \in Records, x # r PROVE StepOf(x)'
      <3>1. pc'[x] = pc[x] /\ ended'[x] = ended[x] /\ Left(x) /\ StepOf(x)
        BY <1>0, <1>1, <2>1 DEF ClientInv, StepInv
      <3> QED BY <3>1, StepOfOthers
    <2> QED BY <1>1, <2>1 DEF StepInv
  <1>2. ASSUME UNCHANGED place PROVE \A x \in Records \ {r} : Left(x) BY <1>2 DEF Left
  <1>3. CASE SendReserves(r)
    <2>1. \/ place'[r] = "reserved" /\ pc' = [pc EXCEPT ![r] = "reserved"]
          \/ place'[r] = "dropped" /\ pc' = [pc EXCEPT ![r] = "done"]
      BY <1>0, <1>3, RequestMoves DEF SendReserves, GoTo
    <2>2. \A x \in Records \ {r} : Left(x) BY <1>0, <1>3, RequestMoves DEF SendReserves
    <2>3. pc[r] = "idle" /\ ended' = ended BY <1>3 DEF SendReserves, At
    <2>4. StepOf(r)' BY <1>0, <2>1, <2>3 DEF StepOf
    <2> QED BY <1>1, <2>1, <2>2, <2>3, <2>4
  <1>4. CASE SendSubmits(r)
    <2>1. /\ pc[r] = "reserved" /\ ended' = ended /\ place' = place
          /\ \/ pc' = [pc EXCEPT ![r] = "pooled"]
             \/ pc' = [pc EXCEPT ![r] = "overflow"]
      BY <1>4 DEF SendSubmits, At, GoTo, bvars
    <2>2. StepOf(r)' BY <1>0, <2>1 DEF StepOf
    <2> QED BY <1>1, <1>2, <2>1, <2>2
  <1>5. CASE SendOverflows(r)
    <2>1. place'[r] \in {"held", "dropped"} /\ \A x \in Records \ {r} : Left(x)
      BY <1>0, <1>5, RequestMoves DEF SendOverflows
    <2>2. pc[r] = "overflow" /\ pc' = [pc EXCEPT ![r] = "ending"] /\ ended' = ended
      BY <1>5 DEF SendOverflows, At, GoTo
    <2>3. StepOf(r)' BY <1>0, <2>1, <2>2 DEF StepOf
    <2> QED BY <1>1, <2>1, <2>2, <2>3
  <1>6. CASE WorkerTakes(r)
    <2>1. pc[r] = "pooled" /\ pc' = [pc EXCEPT ![r] = "sending"] /\ ended' = ended /\ place' = place
      BY <1>6 DEF WorkerTakes, At, GoTo, bvars
    <2>2. StepOf(r)' BY <1>0, <2>1 DEF StepOf
    <2> QED BY <1>1, <1>2, <2>1, <2>2
  <1>7. CASE SendPanics(r)
    <2>1. place'[r] = "released" /\ \A x \in Records \ {r} : Left(x)
      BY <1>0, <1>7, RequestMoves DEF SendPanics
    <2>2. pc' = [pc EXCEPT ![r] = "settled"] /\ ended' = [ended EXCEPT ![r] = "panic"]
      BY <1>7 DEF SendPanics, GoTo
    <2>3. StepOf(r)' BY <1>0, <2>1, <2>2 DEF StepOf
    <2> QED BY <1>1, <2>1, <2>2, <2>3
  <1>8. CASE SettleQueuedSend(r)
    <2>1. \/ ended[r] \in {"retry", "open"} /\ place'[r] \in {"held", "dropped"}
          \/ ended[r] \notin {"retry", "open"} /\ place'[r] = "released"
      BY <1>0, <1>8, RequestMoves DEF SettleQueuedSend, isBufferable
    <2>2. \A x \in Records \ {r} : Left(x) BY <1>0, <1>8, RequestMoves DEF SettleQueuedSend
    <2>3. pc' = [pc EXCEPT ![r] = "settled"] /\ ended' = ended
      BY <1>8 DEF SettleQueuedSend, GoTo
    <2>4. StepOf(r)' BY <1>0, <2>1, <2>3 DEF StepOf
    <2> QED BY <1>1, <2>2, <2>3, <2>4
  <1>9. CASE SendEnds(r)
    <2>1. /\ pc[r] \in {"settled", "ending"} /\ pc' = [pc EXCEPT ![r] = "done"]
          /\ ended' = ended /\ place' = place
      BY <1>9 DEF SendEnds, GoTo, bvars
    <2>2. StepOf(r)' BY <1>0, <2>1 DEF StepOf
    <2> QED BY <1>1, <1>2, <2>1, <2>2
  <1>10. CASE SyncBegins(r)
    <2>1. /\ pc[r] = "idle" /\ pc' = [pc EXCEPT ![r] = "syncSending"]
          /\ ended' = ended /\ place' = place
      BY <1>10 DEF SyncBegins, At, GoTo, bvars
    <2>2. StepOf(r)' BY <1>0, <2>1 DEF StepOf
    <2> QED BY <1>1, <1>2, <2>1, <2>2
  <1>11. CASE HoldIfRetryable(r)
    <2>1. \/ ended[r] \in {"retry", "open"} /\ place'[r] \in {"held", "dropped"}
          \/ ended[r] \notin {"retry", "open"} /\ place'[r] = "released"
      BY <1>0, <1>11, RequestMoves DEF HoldIfRetryable, isBufferable
    <2>2. \A x \in Records \ {r} : Left(x) BY <1>0, <1>11, RequestMoves DEF HoldIfRetryable
    <2>3. pc' = [pc EXCEPT ![r] = "ending"] /\ ended' = ended
      BY <1>11 DEF HoldIfRetryable, GoTo
    <2>4. StepOf(r)' BY <1>0, <2>1, <2>3 DEF StepOf
    <2> QED BY <1>1, <2>2, <2>3, <2>4
  <1>12. ASSUME NEW o \in Outcomes, Deliver(r, o) PROVE StepInv'
    <2>1. /\ pc[r] \in {"sending", "syncSending"} /\ place' = place
          /\ ended' = [ended EXCEPT ![r] = o]
          /\ pc' = [pc EXCEPT ![r] = IF pc[r] = "sending" THEN "sent" ELSE "syncSent"]
      BY <1>12 DEF Deliver, FirstSend, At, GoTo
    <2>2. StepOf(r)' BY <1>0, <2>1 DEF StepOf
    <2> QED BY <1>1, <1>2, <2>1, <2>2
  <1> QED BY <1>3, <1>4, <1>5, <1>6, <1>7, <1>8, <1>9, <1>10, <1>11, <1>12 DEF RecordStep

-----------------------------------------------------------------------------
(* activity and Close.                                                     *)

\* What a step of a record's goroutine does to the count of sends.
LEMMA RecordStepCounts ==
    ASSUME ClientInv, NEW r \in Records, RecordStep(r)
    PROVE  /\ pc' \in [Records -> Steps]
           /\ \A x \in Records \ {r} : pc'[x] = pc[x]
           /\ pc[r] # "done" /\ (pc[r] \notin {"idle", "reserved"} => pc'[r] \notin {"idle", "reserved"})
           /\ UNCHANGED closeLocals
           /\ \/ Running' = Running /\ UNCHANGED <<sends, finished>>
              \/ r \notin Running /\ Running' = Running \cup {r} /\ sends' = sends + 1 /\ UNCHANGED finished
              \/ /\ r \in Running /\ Running' = Running \ {r} /\ sends' = sends - 1
                 /\ finished' = (finished \/ sends' = 0)
  <1>0. pc \in [Records -> Steps] BY DEF ClientInv, ClientTypeOK
  <1>1. ASSUME NEW where \in Steps, pc' = [pc EXCEPT ![r] = where]
        PROVE  /\ pc' \in [Records -> Steps]
               /\ \A x \in Records \ {r} : pc'[x] = pc[x]
               /\ pc'[r] = where
               /\ Running' = IF where \in {"idle", "reserved", "done"} THEN Running \ {r} ELSE Running \cup {r}
    BY <1>0, <1>1 DEF Running
  <1>2. r \in Running <=> pc[r] \notin {"idle", "reserved", "done"} BY DEF Running
  <1>3. CASE SendReserves(r)
    <2>1. pc[r] = "idle" /\ UNCHANGED <<sends, closeVars>> BY <1>3 DEF SendReserves, At
    <2>2. PICK where \in {"reserved", "done"} : pc' = [pc EXCEPT ![r] = where]
      BY <1>3 DEF SendReserves, GoTo
    <2>3. where \in Steps BY DEF Steps
    <2> QED BY <1>1, <1>2, <2>1, <2>2, <2>3 DEF closeVars
  <1>4. CASE SendSubmits(r)
    <2>1. pc[r] = "reserved" /\ sends' = sends + 1 /\ UNCHANGED <<finished, closeLocals>>
      BY <1>4 DEF SendSubmits, At, begin
    <2>2. PICK where \in {"pooled", "overflow"} : pc' = [pc EXCEPT ![r] = where]
      BY <1>4 DEF SendSubmits, GoTo
    <2>3. where \in Steps BY DEF Steps
    <2> QED BY <1>1, <1>2, <2>1, <2>2, <2>3
  <1>5. CASE SyncBegins(r)
    <2>1. pc[r] = "idle" /\ sends' = sends + 1 /\ UNCHANGED <<finished, closeLocals>>
      BY <1>5 DEF SyncBegins, At, begin
    <2>2. pc' = [pc EXCEPT ![r] = "syncSending"] BY <1>5 DEF SyncBegins, GoTo
    <2>3. "syncSending" \in Steps BY DEF Steps
    <2> QED BY <1>1, <1>2, <2>1, <2>2, <2>3
  <1>6. CASE SendEnds(r)
    <2>1. /\ pc[r] \in {"settled", "ending"} /\ sends' = sends - 1
          /\ finished' = (finished \/ sends' = 0) /\ UNCHANGED closeLocals
      BY <1>6 DEF SendEnds, end
    <2>2. pc' = [pc EXCEPT ![r] = "done"] BY <1>6 DEF SendEnds, GoTo
    <2>3. "done" \in Steps BY DEF Steps
    <2> QED BY <1>1, <1>2, <2>1, <2>2, <2>3
  <1>7. CASE \/ SendOverflows(r) \/ WorkerTakes(r) \/ SendPanics(r) \/ SettleQueuedSend(r)
             \/ HoldIfRetryable(r) \/ \E o \in Outcomes : Deliver(r, o)
    <2>1. /\ pc[r] \in {"overflow", "pooled", "sending", "sent", "syncSending", "syncSent"}
          /\ UNCHANGED <<sends, closeVars>>
      BY <1>7 DEF SendOverflows, WorkerTakes, SendPanics, SettleQueuedSend, HoldIfRetryable, Deliver, At
    <2>2. PICK where \in {"sending", "sent", "settled", "ending", "syncSent"} : pc' = [pc EXCEPT ![r] = where]
      BY <1>7 DEF SendOverflows, WorkerTakes, SendPanics, SettleQueuedSend, HoldIfRetryable, Deliver, GoTo
    <2>3. where \in Steps BY DEF Steps
    <2> QED BY <1>1, <1>2, <2>1, <2>2, <2>3 DEF closeVars
  <1> QED BY <1>3, <1>4, <1>5, <1>6, <1>7 DEF RecordStep

\* The count stays the number of sends under way.
LEMMA SendsCount ==
    ASSUME SendsInv, NEW r,
           \/ Running' = Running /\ UNCHANGED sends
           \/ r \notin Running /\ Running' = Running \cup {r} /\ sends' = sends + 1
           \/ r \in Running /\ Running' = Running \ {r} /\ sends' = sends - 1
    PROVE  SendsInv' /\ sends' \in Nat
  <1>1. IsFiniteSet(Running) /\ sends = Cardinality(Running) BY DEF SendsInv
  <1>2. SendsInv'
    <2>1. CASE Running' = Running /\ UNCHANGED sends BY <1>1, <2>1 DEF SendsInv
    <2>2. CASE r \notin Running /\ Running' = Running \cup {r} /\ sends' = sends + 1
      BY <1>1, <2>2, FS_AddElement DEF SendsInv
    <2>3. CASE r \in Running /\ Running' = Running \ {r} /\ sends' = sends - 1
      BY <1>1, <2>3, FS_RemoveElement DEF SendsInv
    <2> QED BY <2>1, <2>2, <2>3
  <1> QED BY <1>2, FS_CardinalityType DEF SendsInv

\* A step of a record's goroutine keeps what Close knows.
LEMMA RecordStepKeeps ==
    ASSUME ClientInv, NEW r \in Records, RecordStep(r)
    PROVE  SendsInv' /\ sends' \in Nat /\ CloseInv'
  <1>1. /\ \A x \in Records \ {r} : pc'[x] = pc[x]
        /\ pc[r] # "done" /\ (pc[r] \notin {"idle", "reserved"} => pc'[r] \notin {"idle", "reserved"})
        /\ UNCHANGED closeLocals
        /\ \/ Running' = Running /\ UNCHANGED <<sends, finished>>
           \/ r \notin Running /\ Running' = Running \cup {r} /\ sends' = sends + 1 /\ UNCHANGED finished
           \/ /\ r \in Running /\ Running' = Running \ {r} /\ sends' = sends - 1
              /\ finished' = (finished \/ sends' = 0)
    BY RecordStepCounts
  <1>2. SendsInv' /\ sends' \in Nat
    <2>1. SendsInv BY DEF ClientInv
    <2> QED BY <1>1, <2>1, SendsCount
  <1>3. /\ UNCHANGED <<closer, sent, running, releaser, released, before>>
        /\ before \in SUBSET Records /\ running \in Nat
    BY <1>1 DEF closeLocals, ClientInv, ClientTypeOK
  <1>4. \A x \in before : pc[x] \notin {"idle", "reserved"} BY DEF ClientInv, CloseInv
  <1>5. \A x \in before : pc'[x] \notin {"idle", "reserved"} BY <1>1, <1>3, <1>4
  <1>6. BeforeDone => BeforeDone'
    <2> SUFFICES ASSUME BeforeDone, NEW x \in before PROVE pc'[x] = "done"
      BY <1>3 DEF BeforeDone
    <2>1. pc[x] = "done" /\ x # r /\ x \in Records BY <1>1, <1>3 DEF BeforeDone
    <2> QED BY <1>1, <2>1
  <1>7. finished' => BeforeDone'
    <2>1. CASE UNCHANGED finished BY <1>6, <2>1 DEF ClientInv, CloseInv
    <2>2. CASE finished' = (finished \/ sends' = 0)
      <3>1. CASE finished BY <1>6, <3>1 DEF ClientInv, CloseInv
      <3>2. ASSUME sends' = 0, NEW x \in before PROVE pc'[x] = "done"
        <4>1. Running' = {} BY <1>2, <3>2, FS_EmptySet DEF SendsInv
        <4>2. x \in Records /\ x \notin Running' BY <1>3, <3>2, <4>1
        <4> QED BY <1>5, <3>2, <4>2 DEF Running
      <3> QED BY <1>3, <2>2, <3>1, <3>2 DEF BeforeDone
    <2> QED BY <1>1, <2>1, <2>2
  <1>8. closer = "counting" => Cardinality(Running' \cap before) <= running
    <2> SUFFICES ASSUME closer = "counting" PROVE Cardinality(Running' \cap before) <= running
      OBVIOUS
    <2> DEFINE A == Running \cap before
               B == Running' \cap before
    <2>1. Running' \cap before \subseteq Running \cap before
      <3>1. r \notin Running => pc[r] \in {"idle", "reserved"} BY <1>1 DEF Running
      <3>2. r \notin Running => r \notin before BY <1>4, <3>1
      <3> QED BY <1>1, <3>2
    <2>2. IsFiniteSet(Running) BY DEF ClientInv, SendsInv
    <2>3. IsFiniteSet(A)
      <3>1. A \in SUBSET Running OBVIOUS
      <3> QED BY <2>2, <3>1, FS_Subset
    <2>4. Cardinality(A) <= running BY DEF ClientInv, CloseInv
    <2>5. B \in SUBSET A BY <2>1
    <2> HIDE DEF A, B
    <2>6. IsFiniteSet(B) /\ Cardinality(B) <= Cardinality(A) BY <2>3, <2>5, FS_Subset
    <2>7. Cardinality(A) \in Nat /\ Cardinality(B) \in Nat BY <2>3, <2>6, FS_CardinalityType
    <2>8. Cardinality(B) <= running BY <1>3, <2>4, <2>6, <2>7
    <2> QED BY <2>8 DEF B
  <1>9. CloseInv'
    <2>1. sent' \/ released' \/ releaser' \in {"locking", "done"} => BeforeDone'
      BY <1>3, <1>6 DEF ClientInv, CloseInv
    <2>2. closer' = "open" => before' = {} /\ ~sent' /\ ~released' /\ releaser' = "none"
      BY <1>3 DEF ClientInv, CloseInv
    <2>3. \A x \in before' : pc'[x] \notin {"idle", "reserved"} BY <1>3, <1>5
    <2>4. closer' = "counting" => Cardinality(Running' \cap before') <= running' BY <1>3, <1>8
    <2> QED BY <1>7, <2>1, <2>2, <2>3, <2>4 DEF CloseInv
  <1> QED BY <1>2, <1>9

\* So does a step of Close and of the goroutine it leaves behind.
LEMMA CloseStepKeeps ==
    ASSUME ClientInv, CloseClient
    PROVE  SendsInv' /\ CloseInv' /\ UNCHANGED sendVars
  <1>1. UNCHANGED sendVars
    BY DEF CloseClient, CloseBegins, WaitForSends, StopBuffer, DrainStopped, WaitForDrain,
           ReleaseBreakerWhenIdle, SampleRunning, CountHeld, ReleaserWaits, ReleaserReleases
  <1>2. pc' = pc /\ sends' = sends BY <1>1 DEF sendVars
  <1>3. Running' = Running BY <1>2 DEF Running
  <1>4. SendsInv' BY <1>2, <1>3 DEF ClientInv, SendsInv
  <1>5. sends = 0 => Running = {} BY FS_EmptySet DEF ClientInv, SendsInv
  <1>6. before \in SUBSET Records BY DEF ClientInv, ClientTypeOK
  <1>7. CloseInv BY DEF ClientInv
  <1>8. ASSUME UNCHANGED before PROVE BeforeDone' <=> BeforeDone BY <1>2, <1>8 DEF BeforeDone
  <1>9. ASSUME UNCHANGED before, sends = 0 PROVE BeforeDone'
    <2>1. \A x \in before : pc[x] = "done" BY <1>5, <1>6, <1>7, <1>9 DEF CloseInv, Running
    <2> QED BY <1>2, <1>9, <2>1 DEF BeforeDone
  <1>10. CASE CloseBegins
    <2>1. /\ closer' = "waiting" /\ finished' = (sends = 0) /\ before' = Submitted
          /\ UNCHANGED <<sent, released, releaser>> /\ closer = "open"
      BY <1>10 DEF CloseBegins, TakeFinished
    <2>2. \A x \in before' : x \in Records /\ pc'[x] \notin {"idle", "reserved"}
      BY <1>2, <2>1 DEF Submitted
    <2>3. finished' => BeforeDone'
      BY <1>2, <1>5, <2>1, <2>2 DEF BeforeDone, Running
    <2>4. ~sent' /\ ~released' /\ releaser' = "none" BY <1>7, <2>1 DEF CloseInv
    <2> QED BY <1>1, <1>4, <2>1, <2>2, <2>3, <2>4 DEF CloseInv
  <1>11. CASE WaitForSends
    <2>1. /\ closer' = "stopping" /\ sent' \in {FALSE, finished} /\ closer = "waiting"
          /\ UNCHANGED <<finished, released, releaser, before>>
      BY <1>11 DEF WaitForSends
    <2>2. sent' => finished BY <2>1, Zenon
    <2> QED BY <1>1, <1>2, <1>4, <1>7, <1>8, <2>1, <2>2 DEF CloseInv
  <1>12. CASE StopBuffer \/ DrainStopped
    <2>1. /\ closer' \in {"stopped", "draining"}
          /\ UNCHANGED <<sent, finished, released, releaser, before>>
      BY <1>12 DEF StopBuffer, DrainStopped
    <2> QED BY <1>1, <1>2, <1>4, <1>7, <1>8, <2>1 DEF CloseInv
  <1>13. CASE WaitForDrain
    <2>1. closer' = "releasing" /\ UNCHANGED <<sent, finished, released, releaser, before>>
      BY <1>13 DEF WaitForDrain
    <2> QED BY <1>1, <1>2, <1>4, <1>7, <1>8, <2>1 DEF CloseInv
  <1>14. CASE ReleaseBreakerWhenIdle
    <2>1. /\ closer' = "sampling" /\ sent' = FALSE /\ UNCHANGED before
          /\ \/ sent /\ released' = TRUE /\ UNCHANGED <<releaser, finished>>
             \/ releaser' = "waiting" /\ finished' = (sends = 0) /\ UNCHANGED released
      BY <1>14 DEF ReleaseBreakerWhenIdle, TakeFinished
    <2>2. CASE sent /\ released' = TRUE /\ UNCHANGED <<releaser, finished>>
      <3>1. BeforeDone' BY <1>7, <1>8, <2>1, <2>2 DEF CloseInv
      <3> QED BY <1>1, <1>2, <1>4, <1>7, <2>1, <2>2, <3>1 DEF CloseInv
    <2>3. CASE releaser' = "waiting" /\ finished' = (sends = 0) /\ UNCHANGED released
      BY <1>1, <1>2, <1>4, <1>7, <1>8, <1>9, <2>1, <2>3 DEF CloseInv
    <2> QED BY <2>1, <2>2, <2>3
  <1>15. CASE SampleRunning
    <2>1. /\ closer' = "counting" /\ running' = sends
          /\ UNCHANGED <<sent, finished, released, releaser, before>>
      BY <1>15 DEF SampleRunning
    <2>2. Cardinality(Running \cap before) <= sends
      <3>1. IsFiniteSet(Running) /\ sends = Cardinality(Running) BY DEF ClientInv, SendsInv
      <3>2. Running \cap before \in SUBSET Running OBVIOUS
      <3> QED BY <3>1, <3>2, FS_Subset
    <2>3. Cardinality(Running' \cap before') <= running' BY <1>3, <2>1, <2>2
    <2> QED BY <1>1, <1>2, <1>4, <1>7, <1>8, <2>1, <2>3 DEF CloseInv
  <1>16. CASE CountHeld
    <2>1. closer' = "closed" /\ UNCHANGED <<sent, finished, released, releaser, before>>
      BY <1>16 DEF CountHeld
    <2> QED BY <1>1, <1>2, <1>4, <1>7, <1>8, <2>1 DEF CloseInv
  <1>17. CASE ReleaserWaits \/ ReleaserReleases
    <2>1. /\ releaser # "none" /\ UNCHANGED <<closer, sent, finished, before, running>>
          /\ finished \/ releaser = "locking"
      BY <1>17 DEF ReleaserWaits, ReleaserReleases
    <2>2. BeforeDone' BY <1>7, <1>8, <2>1 DEF CloseInv
    <2>3. closer # "open" BY <1>7, <2>1 DEF CloseInv
    <2>4. closer' = "counting" => Cardinality(Running' \cap before') <= running'
      BY <1>3, <1>7, <2>1 DEF CloseInv
    <2> QED BY <1>1, <1>2, <1>4, <1>7, <2>1, <2>2, <2>3, <2>4 DEF CloseInv
  <1> QED BY <1>10, <1>11, <1>12, <1>13, <1>14, <1>15, <1>16, <1>17 DEF CloseClient

-----------------------------------------------------------------------------
(* The invariant holds at every step.                                      *)

LEMMA ClientTypeStep ==
    ASSUME ClientInv, [ClientNext]_cvars, BufferTypeOK', sends' \in Nat
    PROVE  ClientTypeOK'
  <1>0. ClientTypeOK BY DEF ClientInv
  <1>1. ASSUME NEW r \in Records, RecordStep(r) PROVE ClientTypeOK'
    <2>1. pc' \in [Records -> Steps] /\ UNCHANGED closeLocals /\ finished' \in BOOLEAN
      <3>1. finished \in BOOLEAN BY <1>0 DEF ClientTypeOK
      <3> QED BY <1>1, <3>1, RecordStepCounts
    <2>2. \A o \in Outcomes : o \in {"ok", "retry", "open", "refused"} BY DEF Outcomes
    <2>3. \/ ended' = ended
          \/ \E o \in {"ok", "retry", "open", "refused", "panic"} : ended' = [ended EXCEPT ![r] = o]
      BY <1>1, <2>2
      DEF RecordStep, SendReserves, SendSubmits, SendOverflows, WorkerTakes, SendPanics,
          SettleQueuedSend, SendEnds, SyncBegins, HoldIfRetryable, Deliver
    <2>4. ended' \in [Records -> {"none", "ok", "retry", "open", "refused", "panic"}]
      BY <1>0, <2>3 DEF ClientTypeOK
    <2> QED BY <1>0, <2>1, <2>4 DEF ClientTypeOK, closeLocals
  <1>2. ASSUME CloseClient PROVE ClientTypeOK'
    <2>1. UNCHANGED <<pc, ended>> BY <1>2, CloseStepKeeps DEF sendVars
    <2>2. before' \in SUBSET Records
      BY <1>0, <1>2
      DEF CloseClient, CloseBegins, WaitForSends, StopBuffer, DrainStopped, WaitForDrain,
          ReleaseBreakerWhenIdle, SampleRunning, CountHeld, ReleaserWaits, ReleaserReleases,
          ClientTypeOK, Submitted
    <2>3. running' \in Nat /\ undelivered' \in Nat
      <3>1. Undelivered \in Nat
        <4>1. events \in Seq(Records) /\ inFlight \in Nat BY <1>0 DEF ClientTypeOK, BufferTypeOK
        <4>2. Len(events) \in Nat BY <4>1, LenProperties
        <4> QED BY <4>1, <4>2 DEF Undelivered
      <3>2. /\ running' = running \/ running' = sends \/ running' = 0
            /\ undelivered' = undelivered \/ undelivered' = running + Undelivered
        BY <1>2
        DEF CloseClient, CloseBegins, WaitForSends, StopBuffer, DrainStopped, WaitForDrain,
            ReleaseBreakerWhenIdle, SampleRunning, CountHeld, ReleaserWaits, ReleaserReleases
      <3>3. running \in Nat /\ sends \in Nat /\ undelivered \in Nat BY <1>0 DEF ClientTypeOK
      <3> HIDE DEF Undelivered
      <3> QED BY <3>1, <3>2, <3>3
    <2>4. /\ finished' \in BOOLEAN /\ sent' \in BOOLEAN /\ drained' \in BOOLEAN /\ released' \in BOOLEAN
      BY <1>0, <1>2
      DEF CloseClient, CloseBegins, WaitForSends, StopBuffer, DrainStopped, WaitForDrain,
          ReleaseBreakerWhenIdle, SampleRunning, CountHeld, ReleaserWaits, ReleaserReleases,
          ClientTypeOK, TakeFinished
    <2>5. /\ releaser' \in {"none", "waiting", "locking", "done"}
          /\ closer' \in {"open", "waiting", "stopping", "stopped", "draining", "releasing",
                          "sampling", "counting", "closed"}
      BY <1>0, <1>2
      DEF CloseClient, CloseBegins, WaitForSends, StopBuffer, DrainStopped, WaitForDrain,
          ReleaseBreakerWhenIdle, SampleRunning, CountHeld, ReleaserWaits, ReleaserReleases,
          ClientTypeOK
    <2> QED BY <1>0, <2>1, <2>2, <2>3, <2>4, <2>5 DEF ClientTypeOK
  <1>3. ASSUME UNCHANGED <<sendVars, closeVars>> PROVE ClientTypeOK'
    BY <1>0, <1>3 DEF ClientTypeOK, sendVars, closeVars, closeLocals
  <1> QED BY <1>1, <1>2, <1>3 DEF ClientNext, RecordStep, cvars

LEMMA ClientStepKeeps ==
    ASSUME ClientInv, [ClientNext]_cvars
    PROVE  ClientInv'
  <1>0. BufferInv BY DEF ClientInv
  <1>1. BufferInv'
    <2>1. [BufferNext]_bvars BY ClientStepIsBufferStep
    <2> QED BY <1>0, <2>1, BufferStepKeeps
  <1> DEFINE Goal == SendsInv' /\ sends' \in Nat /\ CloseInv' /\ StepInv'
  <1>2. Goal
    <2>1. ASSUME NEW r \in Records, RecordStep(r) PROVE Goal
      BY <2>1, RecordStepKeeps, RecordStepSettles
    <2>2. ASSUME UNCHANGED sendVars, \A x \in Records : Left(x) PROVE StepInv'
      <3>1. ASSUME NEW x \in Records PROVE StepOf(x)'
        BY <2>2, StepOfOthers DEF sendVars, ClientInv, StepInv
      <3> QED BY <3>1 DEF StepInv
    <2>3. ASSUME CloseClient PROVE Goal
      <3>1. SendsInv' /\ CloseInv' /\ UNCHANGED sendVars BY <2>3, CloseStepKeeps
      <3>2. UNCHANGED place
        BY <2>3
        DEF CloseClient, CloseBegins, WaitForSends, StopBuffer, DrainStopped, WaitForDrain,
            ReleaseBreakerWhenIdle, SampleRunning, CountHeld, ReleaserWaits, ReleaserReleases,
            CloseStopCh, StartDrain, bvars
      <3>3. StepInv' BY <2>2, <3>1, <3>2 DEF Left
      <3>4. sends' \in Nat BY <3>1, FS_CardinalityType DEF SendsInv
      <3> QED BY <3>1, <3>3, <3>4
    <2>4. ASSUME UNCHANGED <<sendVars, closeVars>>, \A x \in Records : Left(x) PROVE Goal
      <3>1. SendsInv' BY <2>4 DEF ClientInv, SendsInv, Running, sendVars
      <3>2. CloseInv'
        BY <2>4 DEF ClientInv, CloseInv, BeforeDone, Running, sendVars, closeVars, closeLocals
      <3>3. sends' \in Nat BY <3>1, FS_CardinalityType DEF SendsInv
      <3> QED BY <2>2, <2>4, <3>1, <3>2, <3>3
    <2>5. ASSUME BufferSteps, UNCHANGED <<sendVars, closeVars>> PROVE Goal
      <3>1. Flush BY <2>5 DEF BufferSteps, Flush
      <3> QED BY <1>0, <2>4, <2>5, <3>1, FlushMoves
    <2>6. ASSUME UNCHANGED cvars PROVE Goal
      <3>1. \A x \in Records : Left(x) BY <2>6 DEF cvars, bvars, Left
      <3> QED BY <2>4, <2>6, <3>1 DEF cvars
    <2> QED BY <2>1, <2>3, <2>5, <2>6 DEF ClientNext, RecordStep
  <1>3. BufferTypeOK' BY <1>1 DEF BufferInv
  <1>4. ClientTypeOK' BY <1>2, <1>3, ClientTypeStep
  <1> QED BY <1>1, <1>2, <1>4 DEF ClientInv

LEMMA ClientStarts == ClientInit => ClientInv
  <1> SUFFICES ASSUME ClientInit PROVE ClientInv
    OBVIOUS
  <1>1. BufferInit /\ BufferInv BY BufferStarts DEF ClientInit
  <1>2. \A r \in Records : pc[r] = "idle" /\ ended[r] = "none" /\ place[r] = "new"
    BY <1>1 DEF ClientInit, BufferInit
  <1>3. StepInv BY <1>2 DEF StepInv, StepOf
  <1>4. Running = {} BY <1>2 DEF Running
  <1>5. SendsInv BY <1>4, FS_EmptySet DEF SendsInv, ClientInit
  <1>6. CloseInv BY DEF CloseInv, ClientInit, BeforeDone
  <1>7. ClientTypeOK
    <2>1. pc \in [Records -> Steps] BY DEF ClientInit, Steps
    <2>2. ended \in [Records -> {"none", "ok", "retry", "open", "refused", "panic"}] BY DEF ClientInit
    <2>3. /\ sends = 0 /\ running = 0 /\ undelivered = 0 /\ before = {}
          /\ closer = "open" /\ releaser = "none"
          /\ finished = FALSE /\ sent = FALSE /\ drained = FALSE /\ released = FALSE
      BY DEF ClientInit
    <2> QED BY <1>1, <2>1, <2>2, <2>3 DEF ClientTypeOK, BufferInv
  <1> QED BY <1>1, <1>3, <1>5, <1>6, <1>7 DEF ClientInv

LEMMA ClientStands == ClientSpec => []ClientInv
  <1> QED BY ClientStarts, ClientStepKeeps, PTL DEF ClientSpec

-----------------------------------------------------------------------------
(* What follows.                                                           *)

\* The client uses its buffer as the buffer may be used: every one of its
\* steps is a step of the buffer or none, so the two components compose.
THEOREM ClientKeepsToTheBuffer == ClientSpec => BufferSpec
  <1>1. ClientInit => BufferInit BY DEF ClientInit
  <1>2. ClientInv /\ [ClientNext]_cvars => [BufferNext]_bvars BY ClientStepIsBufferStep
  <1> QED BY ClientStands, <1>1, <1>2, PTL DEF ClientSpec, BufferSpec

\* So what the buffer promises of bytes, of its queue and of its losses holds
\* in a client, whatever its senders, workers, flushes and Close do.
THEOREM RecordsAreKept == ClientSpec => [](BytesKept /\ QueueKept /\ LossesTold)
  BY ClientKeepsToTheBuffer, BytesAreKept, QueueIsKept, LossesAreTold, PTL

\* For any records, pool and drains: a send is counted while it runs and only
\* then, leaves its record somewhere definite, and has its breaker to the end.
THEOREM SendsAreKept == ClientSpec => []SendsKept
  <1>1. ASSUME ClientInv PROVE SendsKept
    <2>1. SendsCounted BY <1>1 DEF ClientInv, SendsInv, SendsCounted, Running
    <2>2. EndedSendsSettled BY <1>1 DEF ClientInv, StepInv, StepOf, EndedSendsSettled
    <2>3. BreakerOutlivesSends BY <1>1 DEF ClientInv, CloseInv, BeforeDone, BreakerOutlivesSends
    <2> QED BY <1>1, <2>1, <2>2, <2>3 DEF ClientInv, SendsKept
  <1> QED BY ClientStands, <1>1, PTL

\* A record submitted before Close and still in memory is running or held.
LEMMA OutstandingFound ==
    ASSUME ClientInv, closer = "counting"
    PROVE  Cardinality(Outstanding) <= running + Undelivered
  <1> DEFINE A == Running \cap before
             E == ToSet(events)
  <1>1. Outstanding \subseteq A \cup (E \cup Flying)
    <2>1. \A r \in before : r \in Records /\ pc[r] \notin {"idle", "reserved"}
      BY DEF ClientInv, ClientTypeOK, CloseInv
    <2>2. ASSUME NEW r \in before, place[r] = "reserved" PROVE r \in A
      BY <2>1, <2>2 DEF ClientInv, StepInv, StepOf, Running
    <2>3. ASSUME NEW r \in before, place[r] = "held" PROVE r \in E \cup Flying
      BY <2>1, <2>3, PartFacts DEF ClientInv, BufferInv, ShapeInv, PlaceInv, Held
    <2>4. ASSUME NEW r \in before, pc[r] \in {"syncSending", "syncSent"} PROVE r \in A
      BY <2>1, <2>4 DEF Running
    <2> QED BY <2>2, <2>3, <2>4 DEF Outstanding
  <1>2. IsFiniteSet(A)
    <2>1. IsFiniteSet(Running) BY DEF ClientInv, SendsInv
    <2>2. A \in SUBSET Running OBVIOUS
    <2> QED BY <2>1, <2>2, FS_Subset
  <1>3. IsFiniteSet(E) /\ IsFiniteSet(Flying) /\ Flying \cap E = {} BY PartFacts DEF ClientInv
  <1>4. Cardinality(A) <= running BY DEF ClientInv, CloseInv
  <1>5. Cardinality(E) = Len(events) /\ Len(events) \in Nat
    BY PartCounts DEF ClientInv, BufferInv, BufferTypeOK, ShapeInv, LineInv
  <1>6. Cardinality(Flying) = inFlight /\ inFlight \in Nat
    BY DEF ClientInv, BufferInv, BytesInv, BufferTypeOK
  <1> HIDE DEF A, E
  <1>7. IsFiniteSet(E \cup Flying) /\ Cardinality(E \cup Flying) = Len(events) + inFlight
    BY <1>3, <1>5, <1>6, CountAdds
  <1> DEFINE M == E \cup Flying
  <1> HIDE DEF M
  <1>8. IsFiniteSet(M) /\ Cardinality(M) = Len(events) + inFlight BY <1>7 DEF M
  <1>9. IsFiniteSet(A \cup M) /\ Cardinality(A \cup M) <= Cardinality(A) + Cardinality(M)
    <2>1. /\ IsFiniteSet(A \cup M)
          /\ Cardinality(A \cup M) = Cardinality(A) + Cardinality(M) - Cardinality(A \cap M)
      BY <1>2, <1>8, FS_Union
    <2>2. IsFiniteSet(A \cap M)
      <3>1. A \cap M \in SUBSET A OBVIOUS
      <3> QED BY <1>2, <3>1, FS_Subset
    <2>3. Cardinality(A \cap M) \in Nat /\ Cardinality(A) \in Nat /\ Cardinality(M) \in Nat
      BY <1>2, <1>8, <2>2, FS_CardinalityType
    <2> QED BY <2>1, <2>3
  <1> DEFINE U == A \cup M
  <1>10. Outstanding \in SUBSET U BY <1>1 DEF M
  <1> HIDE DEF U
  <1>11. IsFiniteSet(U) /\ Cardinality(U) <= Cardinality(A) + Cardinality(M) BY <1>9 DEF U
  <1>12. IsFiniteSet(Outstanding) /\ Cardinality(Outstanding) <= Cardinality(U)
    BY <1>10, <1>11, FS_Subset
  <1>13. /\ Cardinality(U) \in Nat /\ Cardinality(A) \in Nat /\ Cardinality(M) \in Nat
         /\ Cardinality(Outstanding) \in Nat /\ running \in Nat
    BY <1>2, <1>8, <1>11, <1>12, FS_CardinalityType DEF ClientInv, ClientTypeOK
  <1>14. Cardinality(Outstanding) <= running + (Len(events) + inFlight)
    BY <1>4, <1>5, <1>6, <1>8, <1>11, <1>12, <1>13
  <1> QED BY <1>14 DEF Undelivered

\* Close never returns a count that misses a record it was handed before: the
\* sends are sampled before the held records, and a record only moves from the
\* first to the second.
THEOREM CloseMissesNothing == ClientSpec => CloseNeverMissesARecord
  <1>1. ASSUME ClientInv, [ClientNext]_cvars
        PROVE  [closer = "counting" /\ closer' = "closed" => Cardinality(Outstanding) <= undelivered']_cvars
    <2> SUFFICES ASSUME closer = "counting", closer' = "closed", ClientNext
                 PROVE  Cardinality(Outstanding) <= undelivered'
      BY <1>1 DEF cvars, closeVars, closeLocals
    <2>1. ASSUME NEW r \in Records, RecordStep(r) PROVE FALSE
      BY <1>1, <2>1, RecordStepCounts DEF closeLocals
    <2>2. CountHeld
      BY <2>1
      DEF ClientNext, RecordStep, CloseClient, CloseBegins, WaitForSends, StopBuffer, DrainStopped,
          WaitForDrain, ReleaseBreakerWhenIdle, SampleRunning, ReleaserWaits, ReleaserReleases,
          closeVars, closeLocals
    <2>3. undelivered' = running + Undelivered BY <2>2 DEF CountHeld
    <2> QED BY <1>1, <2>3, OutstandingFound
  <1> QED BY ClientStands, <1>1, PTL DEF ClientSpec, CloseNeverMissesARecord
=============================================================================
