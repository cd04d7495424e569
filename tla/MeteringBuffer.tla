--------------------------- MODULE MeteringBuffer ---------------------------
(***************************************************************************)
(* The retry buffer of core/metering (buffer.go, delivery_monitor.go): the *)
(* queue of held records, its byte budget shared with the records still in *)
(* their first send, the replay loop, and the flushes that resend.         *)
(*                                                                         *)
(* One action is one critical section under b.mu, or one window of resends *)
(* (whose records are sent concurrently and settled together).  flushMu is *)
(* flushBy: the goroutine whose flush is under way.                        *)
(*                                                                         *)
(* A record is a value with a size; what the breaker and the retries make  *)
(* of one send is its outcome: "ok", "retry" (a failure worth retrying),   *)
(* "open" (the breaker refused it before anything was sent) or "refused"   *)
(* (a failure no retry can mend).                                          *)
(***************************************************************************)
EXTENDS Selections, SequencesExt

CONSTANTS
    Records,
    Size,               \* BufferedEvent.heldBytes of each record
    RecordLimit,        \* bufferLimits
    ByteLimit,
    ReplayConcurrency,  \* replayConcurrency
    Drainers,           \* goroutines a drain can be started in
    Loop,               \* the replayLoop goroutine
    Nobody,
    MayExpire           \* whether a record can stay held for maxEventAge

ASSUME BufferAssumption ==
    /\ Size \in [Records -> Nat \ {0}]
    /\ RecordLimit \in Nat \ {0}
    /\ ByteLimit \in Nat \ {0}
    /\ ReplayConcurrency \in Nat \ {0}
    /\ Loop \notin Drainers
    /\ Nobody \notin Drainers \cup {Loop}
    /\ MayExpire \in BOOLEAN

VARIABLES
    events, queuedBytes, inFlightBytes, sendingBytes, inFlight,
    full, resendFull,         \* the two once-per-outage latches
    eventsReplayed, eventsEvicted,
    failing, wake,            \* deliveryMonitor.failing, the wake channel
    loop,                     \* replayLoop: "off", "on", "ended"
    stopped,                  \* stopCh is closed
    asking,                   \* goroutines inside flush, flushMu held or not
    flushBy,                  \* the one that holds flushMu
    batch, kept, pending,     \* its current window, what that keeps, the rest
    stage,                    \* its step: "none", "sending", "settled", "ending"
    place,                    \* where each record is
    dayOld,                   \* records held for longer than maxEventAge
    service,                  \* whether Revenium answers
    pushed                    \* history: records in the order they were held

queue == <<events, queuedBytes, sendingBytes>>
flight == <<inFlight, inFlightBytes, batch, kept, pending, stage, flushBy>>
counters == <<eventsReplayed, eventsEvicted>>
latches == <<full, resendFull>>
monitor == <<failing, wake>>
world == <<dayOld, service>>
bvars == <<queue, flight, counters, latches, monitor, loop, stopped, asking, place, world, pushed>>

Flushers == Drainers \cup {Loop}
Gone == {"delivered", "refused", "dropped"}
Places == {"new", "reserved", "held", "released"} \cup Gone

BufferTypeOK ==
    /\ events \in Seq(Records) /\ batch \in Seq(Records)
    /\ kept \in Seq(Records) /\ pending \in Seq(Records) /\ pushed \in Seq(Records)
    /\ {queuedBytes, inFlightBytes, sendingBytes, inFlight} \subseteq Nat
    /\ eventsReplayed \in Nat /\ eventsEvicted \in Nat
    /\ {full, resendFull, failing, wake, stopped} \subseteq BOOLEAN
    /\ loop \in {"off", "on", "ended"}
    /\ asking \subseteq Flushers
    /\ flushBy \in asking \cup {Nobody}
    /\ stage \in {"none", "sending", "settled", "ending"}
    /\ place \in [Records -> Places]
    /\ dayOld \subseteq Records
    /\ service \in {"up", "down"}

BufferInit ==
    /\ events = <<>> /\ batch = <<>> /\ kept = <<>> /\ pending = <<>> /\ pushed = <<>>
    /\ queuedBytes = 0 /\ inFlightBytes = 0 /\ sendingBytes = 0
    /\ inFlight = 0
    /\ eventsReplayed = 0 /\ eventsEvicted = 0
    /\ full = FALSE /\ resendFull = FALSE /\ failing = FALSE /\ wake = FALSE
    /\ stopped = FALSE
    /\ loop = "off"
    /\ asking = {}
    /\ flushBy = Nobody
    /\ stage = "none"
    /\ place = [r \in Records |-> "new"]
    /\ dayOld = {}
    /\ service = "down"

Outcomes == IF service = "up" THEN {"ok", "refused"} ELSE {"ok", "retry", "open", "refused"}

-----------------------------------------------------------------------------
(* The byte budget.                                                        *)

totalHeldBytes(s) == Weight(Size, ToSet(s))

heldBytes == queuedBytes + inFlightBytes + sendingBytes

\* Given the bytes sending holds: does a record of this size fit beside what
\* cannot be dropped?
fitsBesideUndroppable(sending, size) == inFlightBytes + sending + size <= ByteLimit

\* How many of the oldest in evs have to go for the limits to hold, when
\* beside is what the other holders of the budget have.
evictOldestUntil(evs, queued, beside, maxRecords, maxBytes) ==
    Min({n \in 0 .. Len(evs) :
           \/ n = Len(evs)
           \/ /\ Len(evs) - n <= maxRecords
              /\ queued - totalHeldBytes(SubSeq(evs, 1, n)) + beside <= maxBytes})

\* The queue without its n oldest records, and the once-per-outage warning.
DropOldest(evs, queued, n) ==
    /\ events' = SubSeq(evs, n + 1, Len(evs))
    /\ queuedBytes' = queued - totalHeldBytes(SubSeq(evs, 1, n))
    /\ full' = (full \/ n > 0)

Placed(s, where) == [r \in Records |-> IF r \in ToSet(s) THEN where ELSE place[r]]

\* endOutage, when sending is what the first sends will then hold.
endOutage(sending) ==
    LET over == sending <= ByteLimit \div 2 IN
    /\ full' = (full /\ ~over)
    /\ resendFull' = (resendFull /\ ~over)

\* push: hold a record for the next flush, or drop it when it does not fit
\* beside what is being sent.  The first record held starts the replay loop.
push(r, sending) ==
    \/ /\ fitsBesideUndroppable(sending, Size[r])
       /\ LET beside == inFlightBytes + sending
              n == evictOldestUntil(events, queuedBytes, beside, RecordLimit - 1, ByteLimit - Size[r])
          IN /\ events' = Append(SubSeq(events, n + 1, Len(events)), r)
             /\ queuedBytes' = queuedBytes - totalHeldBytes(SubSeq(events, 1, n)) + Size[r]
             /\ full' = (full \/ n > 0)
             /\ eventsEvicted' = eventsEvicted + n
             /\ place' = [Placed(SubSeq(events, 1, n), "dropped") EXCEPT ![r] = "held"]
       /\ loop' = IF loop = "off" THEN "on" ELSE loop
       /\ pushed' = Append(pushed, r)
       /\ UNCHANGED resendFull
    \/ /\ ~fitsBesideUndroppable(sending, Size[r])
       \* dropNewest: only a record that could fit latches the warning
       /\ resendFull' = (resendFull \/ Size[r] <= ByteLimit)
       /\ eventsEvicted' = eventsEvicted + 1
       /\ place' = [place EXCEPT ![r] = "dropped"]
       /\ UNCHANGED <<events, queuedBytes, full, loop, pushed>>

-----------------------------------------------------------------------------
(* What the client asks of the buffer.                                     *)

\* reserveForSend grants the bytes of a record about to be queued for its
\* first send, evicting held records to make room.
Reserve(r) ==
    /\ place[r] = "new"
    /\ fitsBesideUndroppable(sendingBytes, Size[r])
    /\ LET n == evictOldestUntil(events, queuedBytes, inFlightBytes + sendingBytes,
                                 Len(events), ByteLimit - Size[r])
       IN /\ DropOldest(events, queuedBytes, n)
          /\ eventsEvicted' = eventsEvicted + n
          /\ place' = [Placed(SubSeq(events, 1, n), "dropped") EXCEPT ![r] = "reserved"]
    /\ sendingBytes' = sendingBytes + Size[r]
    /\ UNCHANGED <<flight, resendFull, eventsReplayed, monitor, loop, stopped, asking, world, pushed>>

\* Mutant: a refused record is lost without a trace.
RefuseReservationUncounted(r) ==
    /\ place[r] = "new"
    /\ ~fitsBesideUndroppable(sendingBytes, Size[r])
    /\ full' = (full \/ Size[r] <= ByteLimit)
    /\ place' = [place EXCEPT ![r] = "dropped"]
    /\ UNCHANGED <<queue, flight, resendFull, counters, monitor, loop, stopped, asking, world, pushed>>

\* reserveForSend refuses: the caller drops the record.
RefuseReservation(r) ==
    /\ place[r] = "new"
    /\ ~fitsBesideUndroppable(sendingBytes, Size[r])
    /\ eventsEvicted' = eventsEvicted + 1
    /\ full' = (full \/ Size[r] <= ByteLimit)
    /\ place' = [place EXCEPT ![r] = "dropped"]
    /\ UNCHANGED <<queue, flight, resendFull, eventsReplayed, monitor, loop, stopped, asking, world, pushed>>

\* sendReservation.release: the record was delivered, or lost for good.
ReleaseSend(r) ==
    /\ place[r] = "reserved"
    /\ sendingBytes' = sendingBytes - Size[r]
    /\ IF events = <<>> /\ inFlight = 0 THEN endOutage(sendingBytes') ELSE UNCHANGED latches
    /\ place' = [place EXCEPT ![r] = "released"]
    /\ UNCHANGED <<events, queuedBytes, flight, counters, monitor, loop, stopped, asking, world, pushed>>

\* Mutant: a record that is held keeps its reservation too.
HoldSentKeepsReservation(r) ==
    /\ place[r] = "reserved"
    /\ push(r, sendingBytes)
    /\ UNCHANGED <<sendingBytes, flight, eventsReplayed, monitor, stopped, asking, world>>

\* sendReservation.hold: holdSent moves the bytes from sending to held in one
\* critical section.
HoldSent(r) ==
    /\ place[r] = "reserved"
    /\ sendingBytes' = sendingBytes - Size[r]
    /\ push(r, sendingBytes')
    /\ UNCHANGED <<flight, eventsReplayed, monitor, stopped, asking, world>>

\* Push: a SendSync record, which never had a reservation.
Push(r) ==
    /\ place[r] = "new"
    /\ push(r, sendingBytes)
    /\ UNCHANGED <<sendingBytes, flight, eventsReplayed, monitor, stopped, asking, world>>

\* A SendSync record whose send ended with nothing to hold.
NeverHeld(r) ==
    /\ place[r] = "new"
    /\ place' = [place EXCEPT ![r] = "released"]
    /\ UNCHANGED <<queue, flight, counters, latches, monitor, loop, stopped, asking, world, pushed>>

\* deliveryMonitor.record for the outcome of a first send.  A breaker that
\* refused before anything was sent says nothing; one that refused a retry
\* returns the failure before it, which is a "retry".
RecordOutcome(outcome) ==
    /\ failing' = ((failing \/ outcome = "retry") /\ outcome # "ok")
    /\ wake' = (wake \/ (failing /\ outcome = "ok"))

FirstSend(outcome) ==
    /\ outcome \in Outcomes
    /\ RecordOutcome(outcome)
    /\ UNCHANGED <<queue, flight, counters, latches, loop, stopped, asking, place, world, pushed>>

-----------------------------------------------------------------------------
(* Flushes.                                                                *)

\* drain: a goroutine of its own calls flush; whoever started it waits for it
\* no longer than flushTimeout.
StartDrain(f) ==
    /\ f \in Drainers \ asking
    /\ asking' = asking \cup {f}
    /\ UNCHANGED <<queue, flight, counters, latches, monitor, loop, stopped, place, world, pushed>>

\* replayLoop: the ticker fires, or a recovery asked for a flush.
LoopTicks ==
    /\ loop = "on" /\ Loop \notin asking
    /\ asking' = asking \cup {Loop}
    /\ UNCHANGED <<queue, flight, counters, latches, monitor, loop, stopped, place, world, pushed>>

LoopWakes ==
    /\ loop = "on" /\ Loop \notin asking
    /\ wake
    /\ wake' = FALSE
    /\ asking' = asking \cup {Loop}
    /\ UNCHANGED <<queue, flight, counters, latches, failing, loop, stopped, place, world, pushed>>

\* A loop between flushes that sees stopCh closed ends.  select picks any case
\* that is ready, so a tick or a wake-up may still win.
LoopEnds ==
    /\ loop = "on" /\ Loop \notin asking
    /\ stopped
    /\ loop' = "ended"
    /\ UNCHANGED <<queue, flight, counters, latches, monitor, stopped, asking, place, world, pushed>>

CloseStopCh ==
    /\ ~stopped
    /\ stopped' = TRUE
    /\ UNCHANGED <<queue, flight, counters, latches, monitor, loop, asking, place, world, pushed>>

\* evictExpired keeps the records of the last maxEventAge.
Young(s) == Chosen(s, {i \in DOMAIN s : s[i] \notin dayOld})
Old(s) == Chosen(s, {i \in DOMAIN s : s[i] \in dayOld})

\* flush, up to its first send: takePending under flushMu.  Nothing left to
\* take ends the outage and the flush.
TakePending(f) ==
    /\ f \in asking
    /\ flushBy = Nobody
    /\ events' = <<>>
    /\ queuedBytes' = 0
    /\ place' = Placed(Old(events), "dropped")
    /\ eventsEvicted' = eventsEvicted + Len(Old(events))
    /\ \/ /\ Young(events) = <<>>
          /\ endOutage(sendingBytes)
          /\ asking' = asking \ {f}
          /\ UNCHANGED flight
       \/ /\ Young(events) # <<>>
          /\ flushBy' = f
          /\ inFlight' = Len(Young(events))
          /\ inFlightBytes' = queuedBytes - totalHeldBytes(Old(events))
          /\ resendFull' = FALSE
          /\ batch' = <<Head(Young(events))>>
          /\ pending' = Tail(Young(events))
          /\ stage' = "sending"
          /\ UNCHANGED <<full, kept, asking>>
    /\ UNCHANGED <<sendingBytes, eventsReplayed, monitor, loop, stopped, world, pushed>>

\* deliveryMonitor.record over the window's outcomes in order: failing as it is
\* when the outcome at i is recorded.
Decisive(out, i) == out[i] \in {"ok", "retry"}
FailingBefore(out, i) ==
    LET told == {j \in 1 .. i - 1 : Decisive(out, j)} IN
    IF told = {} THEN failing ELSE out[Max(told)] = "retry"

With(out, o) == {i \in DOMAIN batch : out[i] = o}

\* sendAll and settle: every record of the window is sent, then the outcomes
\* are recorded and counted.
ResendWindow ==
    /\ stage = "sending"
    /\ \E out \in [1 .. Len(batch) -> Outcomes] :
         /\ kept' = Chosen(batch, With(out, "retry") \cup With(out, "open"))
         /\ place' = [r \in Records |->
                         IF \E i \in With(out, "ok") : batch[i] = r THEN "delivered"
                         ELSE IF \E i \in With(out, "refused") : batch[i] = r THEN "refused"
                         ELSE place[r]]
         /\ eventsReplayed' = eventsReplayed + Cardinality(With(out, "ok"))
         /\ eventsEvicted' = eventsEvicted + Cardinality(With(out, "refused"))
         /\ failing' = FailingBefore(out, Len(batch) + 1)
         /\ wake' = (wake \/ \E i \in With(out, "ok") : FailingBefore(out, i))
    /\ stage' = "settled"
    /\ UNCHANGED <<queue, inFlight, inFlightBytes, batch, pending, flushBy, latches,
                   loop, stopped, asking, world, pushed>>

\* releaseSettled; a window that kept a record ends the replay, and so does the
\* last one.
ReleaseSettled ==
    /\ stage = "settled"
    /\ inFlight' = inFlight - (Len(batch) - Len(kept))
    /\ inFlightBytes' = inFlightBytes - (totalHeldBytes(batch) - totalHeldBytes(kept))
    /\ \/ /\ kept # <<>> \/ pending = <<>>
          /\ stage' = "ending"
          /\ batch' = <<>>
          /\ UNCHANGED <<kept, pending>>
       \/ /\ kept = <<>> /\ pending # <<>>
          /\ LET w == Min({ReplayConcurrency, Len(pending)}) IN
               /\ batch' = SubSeq(pending, 1, w)
               /\ pending' = SubSeq(pending, w + 1, Len(pending))
          /\ stage' = "sending"
          /\ UNCHANGED kept
    /\ UNCHANGED <<queue, flushBy, counters, latches, monitor, loop, stopped, asking, place, world, pushed>>

\* Mutant: the windows not sent are forgotten.
ReturnedWithoutRest == kept

\* What replay returns: the window's retryable failures and the unsent windows.
Returned == kept \o pending

\* Mutant: what comes back queues behind what arrived meanwhile.
RequeuedLast == events \o Returned

Requeued == Returned \o events

\* putBack, and flush returns.
PutBack ==
    LET returned == Returned
        queued == queuedBytes + totalHeldBytes(returned)
        n == evictOldestUntil(Requeued, queued,
                              inFlightBytes - totalHeldBytes(returned) + sendingBytes,
                              RecordLimit, ByteLimit)
    IN
    /\ stage = "ending"
    /\ inFlight' = inFlight - Len(returned)
    /\ \/ /\ returned = <<>>
          /\ endOutage(sendingBytes)
          /\ UNCHANGED <<events, queuedBytes, inFlightBytes, eventsEvicted, place>>
       \/ /\ returned # <<>>
          /\ inFlightBytes' = inFlightBytes - totalHeldBytes(returned)
          /\ DropOldest(Requeued, queued, n)
          /\ eventsEvicted' = eventsEvicted + n
          /\ place' = Placed(SubSeq(Requeued, 1, n), "dropped")
          /\ UNCHANGED resendFull
    /\ kept' = <<>> /\ pending' = <<>>
    /\ stage' = "none"
    /\ flushBy' = Nobody
    /\ asking' = asking \ {flushBy}
    /\ UNCHANGED <<sendingBytes, batch, eventsReplayed, monitor, loop, stopped, world, pushed>>

-----------------------------------------------------------------------------
(* The world: records age in the order they were held, Revenium comes back.  *)

Age(r) ==
    /\ MayExpire
    /\ r \in ToSet(pushed) \ dayOld
    /\ \A i, j \in DOMAIN pushed : i < j /\ pushed[j] = r => pushed[i] \in dayOld
    /\ dayOld' = dayOld \cup {r}
    /\ UNCHANGED <<queue, flight, counters, latches, monitor, loop, stopped, asking, place, service, pushed>>

Heal ==
    /\ service = "down"
    /\ service' = "up"
    /\ UNCHANGED <<queue, flight, counters, latches, monitor, loop, stopped, asking, place, dayOld, pushed>>

Flush ==
    \/ LoopTicks \/ LoopWakes \/ LoopEnds
    \/ \E f \in Drainers : StartDrain(f)
    \/ \E f \in Flushers : TakePending(f)
    \/ ResendWindow \/ ReleaseSettled \/ PutBack

BufferNext ==
    \/ \E r \in Records :
         \/ Reserve(r) \/ RefuseReservation(r)
         \/ ReleaseSend(r) \/ HoldSent(r) \/ Push(r) \/ NeverHeld(r)
         \/ Age(r)
    \/ /\ \E r \in Records : place[r] \in {"new", "reserved"}
       /\ \E outcome \in Outcomes : FirstSend(outcome)
    \/ Flush
    \/ CloseStopCh
    \/ Heal

BufferSpec == BufferInit /\ [][BufferNext]_bvars

\* The ticker keeps firing, and a flush under way makes progress: requests are
\* answered or time out, and goroutines past a lock go on.
BufferFairness ==
    /\ WF_bvars(LoopTicks)
    /\ WF_bvars(\E f \in Flushers : TakePending(f))
    /\ WF_bvars(ResendWindow)
    /\ WF_bvars(ReleaseSettled)
    /\ WF_bvars(PutBack)

BufferLiveSpec == BufferSpec /\ BufferFairness

-----------------------------------------------------------------------------
(* Properties.                                                             *)

\* The three counters are what they stand for at every step: a record's bytes
\* are never free while it is in memory, nor charged after it is gone, however
\* evictions, expiries, holds, releases and flushes interleave.
Unsettled == IF stage = "settled" THEN ToSet(batch) ELSE ToSet(batch) \cup ToSet(kept)
BytesAccounted ==
    /\ queuedBytes = totalHeldBytes(events)
    /\ inFlightBytes = Weight(Size, Unsettled \cup ToSet(pending))
    /\ sendingBytes = Weight(Size, {r \in Records : place[r] = "reserved"})
    /\ inFlight = Cardinality(Unsettled \cup ToSet(pending))

\* The memory bound the buffer promises holds at every instant, not only after
\* a push: queued, resent and first-send bytes together stay within ByteLimit,
\* and the queue within RecordLimit.
WithinLimits ==
    /\ heldBytes <= ByteLimit
    /\ Len(events) <= RecordLimit

\* A record held is in the queue or in the flush, once; a record that is
\* neither is not.
EachRecordOnce ==
    LET inFlush == IF stage = "settled" THEN kept \o pending ELSE batch \o kept \o pending IN
    /\ IsInjective(events \o inFlush)
    /\ ToSet(events \o inFlush) = {r \in Records : place[r] = "held"}

\* No record is lost without being counted: whatever the buffer took and no
\* longer has was replayed or is in eventsEvicted.
LossesAreCounted ==
    /\ eventsEvicted = Cardinality({r \in Records : place[r] \in {"dropped", "refused"}})
    /\ eventsReplayed = Cardinality({r \in Records : place[r] = "delivered"})

\* Records keep the order they were held in through any number of failed
\* flushes, so room is made by dropping the oldest.
PushedBefore(a, b) == \E i, j \in DOMAIN pushed : i < j /\ pushed[i] = a /\ pushed[j] = b
OldestFirst ==
    LET inFlush == IF stage = "settled" THEN kept \o pending ELSE batch \o kept \o pending
        order == inFlush \o events
    IN \A i, j \in DOMAIN order : i < j => PushedBefore(order[i], order[j])

\* Once nothing is held, being resent or in a first send, the next outage will
\* warn: no interleaving leaves a latch set.
WarningsRearmed ==
    events = <<>> /\ sendingBytes = 0 /\ flushBy = Nobody => ~full /\ ~resendFull

\* What the buffer promises of bytes, of its queue and of what it loses: every
\* part holds at every step, however reservations, holds, pushes, evictions,
\* expiries, drains and the replay loop interleave.
BytesKept  == BufferTypeOK /\ BytesAccounted /\ WithinLimits
QueueKept  == EachRecordOnce /\ OldestFirst
LossesTold == LossesAreCounted /\ WarningsRearmed

\* Once Revenium answers and the client stays open, every held record leaves
\* the buffer: no failed flush, missed wake-up or full limit strands one.
HeldRecordsLeave ==
    \A r \in Records : (service = "up" /\ place[r] = "held") ~> (place[r] # "held" \/ stopped)

=============================================================================
