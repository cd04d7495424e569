--------------------------- MODULE MeteringClient ---------------------------
(***************************************************************************)
(* MeteringClient (core/metering/client.go, delivery_pool.go and the       *)
(* activity counter of delivery_path.go) over the buffer of module         *)
(* MeteringBuffer: Send's way through reservation, delivery pool, worker   *)
(* and hold, SendSync on the caller's goroutine, and Close.                *)
(*                                                                         *)
(* Every record has one goroutine at a time working on it, so its steps    *)
(* are numbered by pc.  The buffer's own steps are those of                *)
(* MeteringBuffer, taken here by whoever calls them.                       *)
(***************************************************************************)
EXTENDS MeteringBuffer

CONSTANTS
    Workers,      \* deliveryWorkers
    QueueSize,    \* deliveryQueueSize
    CloseDrain,   \* the goroutine of the drain Close starts
    UsedAfterClose  \* whether the application still sends once it called Close

ASSUME ClientAssumption ==
    /\ Workers \in Nat \ {0}
    /\ QueueSize \in Nat
    /\ CloseDrain \in Drainers
    /\ UsedAfterClose \in BOOLEAN

VARIABLES
    pc,           \* per record: the step of the goroutine that handles it
    ended,        \* per record: how its first send ended
    sends,        \* activity.count
    closer,       \* where Close is
    finished,     \* the idle channel Close, then the releaser, holds is closed
    sent, drained,
    running,      \* what undelivered sampled first
    undelivered,  \* what Close reports
    releaser,     \* the goroutine of releaseBreakerWhenIdle
    released,     \* the breaker has been given back
    before        \* history: records whose Send had returned, or whose SendSync had begun, when Close was called

sendVars == <<pc, ended, sends>>
closeLocals == <<closer, sent, drained, running, undelivered, releaser, released, before>>
closeVars == <<closeLocals, finished>>
cvars == <<bvars, sendVars, closeVars>>

Steps == {"idle", "reserved", "overflow", "pooled", "sending", "sent",
          "settled", "syncSending", "syncSent", "ending", "done"}

ClientTypeOK ==
    /\ BufferTypeOK
    /\ pc \in [Records -> Steps]
    /\ ended \in [Records -> {"none", "ok", "retry", "open", "refused", "panic"}]
    /\ sends \in Nat
    /\ closer \in {"open", "waiting", "stopping", "stopped", "draining", "releasing", "sampling", "counting", "closed"}
    /\ {finished, sent, drained, released} \subseteq BOOLEAN
    /\ running \in Nat /\ undelivered \in Nat
    /\ releaser \in {"none", "waiting", "locking", "done"}
    /\ before \subseteq Records

ClientInit ==
    /\ BufferInit
    /\ pc = [r \in Records |-> "idle"]
    /\ ended = [r \in Records |-> "none"]
    /\ sends = 0
    /\ closer = "open"
    /\ finished = FALSE /\ sent = FALSE /\ drained = FALSE /\ released = FALSE
    /\ running = 0 /\ undelivered = 0
    /\ releaser = "none"
    /\ before = {}

-----------------------------------------------------------------------------
(* activity: a count of sends under way, and a channel that end closes when *)
(* the count comes back to zero.  A waiter holds the channel it was handed,  *)
(* so what begins later does not hold it up.                                 *)

begin == sends' = sends + 1 /\ UNCHANGED finished

\* Mutant: the count comes back to zero and nobody is told.
endQuietly == sends' = sends - 1 /\ UNCHANGED finished

end ==
    /\ sends' = sends - 1
    /\ finished' = (finished \/ sends' = 0)

\* The channel handed to a waiter is closed at once when nothing is under way.
TakeFinished == finished' = (sends = 0)

At(r, step) == pc[r] = step
GoTo(r, step) == pc' = [pc EXCEPT ![r] = step]

InUse == UsedAfterClose \/ closer = "open"

\* Records a worker of the pool has taken and not yet finished.
Busy == {r \in Records : pc[r] \in {"sending", "sent", "settled"}}
Pooled == {r \in Records : pc[r] = "pooled"}

-----------------------------------------------------------------------------
(* Send.                                                                   *)

\* enqueue: the bytes are reserved, then the send is counted and its job offered
\* to the pool.
SendReserves(r) ==
    /\ At(r, "idle") /\ InUse
    /\ \/ Reserve(r) /\ GoTo(r, "reserved")
       \/ RefuseReservation(r) /\ GoTo(r, "done")
    /\ UNCHANGED <<ended, sends, closeVars>>

\* trySubmit: a full queue sends the record to the buffer unsent.
SendSubmits(r) ==
    /\ At(r, "reserved")
    /\ begin
    /\ GoTo(r, IF Cardinality(Pooled) < QueueSize THEN "pooled" ELSE "overflow")
    /\ UNCHANGED <<bvars, ended, closeLocals>>

\* Mutant: the record is pushed beside the bytes it still has reserved.
SendOverflowsUnreserved(r) ==
    /\ At(r, "overflow")
    /\ push(r, sendingBytes)
    /\ GoTo(r, "ending")
    /\ UNCHANGED <<sendingBytes, flight, eventsReplayed, monitor, stopped, asking, world,
                   ended, sends, closeVars>>

SendOverflows(r) ==
    /\ At(r, "overflow")
    /\ HoldSent(r)
    /\ GoTo(r, "ending")
    /\ UNCHANGED <<ended, sends, closeVars>>

\* A worker takes the job.
WorkerTakes(r) ==
    /\ At(r, "pooled")
    /\ Cardinality(Busy) < Workers
    /\ GoTo(r, "sending")
    /\ UNCHANGED <<bvars, ended, sends, closeVars>>

\* deliver: the send with its retries, then the monitor hears of it.
Deliver(r, o) ==
    /\ pc[r] \in {"sending", "syncSending"}
    /\ FirstSend(o)
    /\ ended' = [ended EXCEPT ![r] = o]
    /\ GoTo(r, IF At(r, "sending") THEN "sent" ELSE "syncSent")
    /\ UNCHANGED <<sends, closeVars>>

\* The job panicked, in the send or in what runs once it is delivered; its
\* deferred calls still return the bytes and end the send.
SendPanics(r) ==
    /\ At(r, "sending") \/ (At(r, "sent") /\ ended[r] = "ok")
    /\ ReleaseSend(r)
    /\ ended' = [ended EXCEPT ![r] = "panic"]
    /\ GoTo(r, "settled")
    /\ UNCHANGED <<sends, closeVars>>

isBufferable(o) == o \in {"retry", "open"}

\* settleQueuedSend
SettleQueuedSend(r) ==
    /\ At(r, "sent")
    /\ \/ isBufferable(ended[r]) /\ HoldSent(r)
       \/ ~isBufferable(ended[r]) /\ ReleaseSend(r)
    /\ GoTo(r, "settled")
    /\ UNCHANGED <<ended, sends, closeVars>>

\* The deferred sends.end, after everything else.
SendEnds(r) ==
    /\ pc[r] \in {"settled", "ending"}
    /\ end
    /\ GoTo(r, "done")
    /\ UNCHANGED <<bvars, ended, closeLocals>>

-----------------------------------------------------------------------------
(* SendSync: no reservation; the caller's goroutine sends and holds.       *)

SyncBegins(r) ==
    /\ At(r, "idle") /\ InUse
    /\ begin
    /\ GoTo(r, "syncSending")
    /\ UNCHANGED <<bvars, ended, closeLocals>>

HoldIfRetryable(r) ==
    /\ At(r, "syncSent")
    /\ \/ isBufferable(ended[r]) /\ Push(r)
       \/ ~isBufferable(ended[r]) /\ NeverHeld(r)
    /\ GoTo(r, "ending")
    /\ UNCHANGED <<ended, sends, closeVars>>

-----------------------------------------------------------------------------
(* Close.  Every wait may also end by its timeout.                         *)

Submitted == {r \in Records : pc[r] \notin {"idle", "reserved"}}

CloseBegins ==
    /\ closer = "open"
    /\ closer' = "waiting"
    /\ TakeFinished
    /\ before' = Submitted
    /\ UNCHANGED <<bvars, sendVars, sent, drained, running, undelivered, releaser, released>>

WaitForSends ==
    /\ closer = "waiting"
    /\ sent' \in {FALSE, finished}
    /\ closer' = "stopping"
    /\ UNCHANGED <<bvars, sendVars, finished, drained, running, undelivered, releaser, released, before>>

\* buffer.stop closes stopCh, then starts a drain.
StopBuffer ==
    /\ closer = "stopping"
    /\ CloseStopCh
    /\ closer' = "stopped"
    /\ UNCHANGED <<sendVars, finished, sent, drained, running, undelivered, releaser, released, before>>

DrainStopped ==
    /\ closer = "stopped"
    /\ StartDrain(CloseDrain)
    /\ closer' = "draining"
    /\ UNCHANGED <<sendVars, finished, sent, drained, running, undelivered, releaser, released, before>>

WaitForDrain ==
    /\ closer = "draining"
    /\ drained' \in {FALSE, CloseDrain \notin asking}
    /\ closer' = "releasing"
    /\ UNCHANGED <<bvars, sendVars, finished, sent, running, undelivered, releaser, released, before>>

\* releaseBreakerWhenIdle
ReleaseBreakerWhenIdle ==
    /\ closer = "releasing"
    /\ \/ sent /\ drained /\ released' = TRUE /\ UNCHANGED <<releaser, finished>>
       \/ ~(sent /\ drained) /\ releaser' = "waiting" /\ TakeFinished /\ UNCHANGED released
    /\ closer' = "sampling"
    /\ sent' = FALSE /\ drained' = FALSE     \* not read again
    /\ UNCHANGED <<bvars, sendVars, running, undelivered, before>>

\* undelivered: the sends under way are sampled before the held records.
SampleRunning ==
    /\ closer = "sampling"
    /\ running' = sends
    /\ closer' = "counting"
    /\ UNCHANGED <<bvars, sendVars, finished, sent, drained, undelivered, releaser, released, before>>

\* Mutant: the records a timed-out drain is resending are forgotten.
UndeliveredQueuedOnly == Len(events)

\* Records the buffer still answers for, those of a drain under way included.
Undelivered == Len(events) + inFlight

CountHeld ==
    /\ closer = "counting"
    /\ undelivered' = running + Undelivered
    /\ closer' = "closed"
    /\ running' = 0     \* not read again
    /\ UNCHANGED <<bvars, sendVars, finished, sent, drained, releaser, released, before>>

\* Mutant: the releaser does not wait for the sends.
ReleaserWaitsNot ==
    /\ releaser = "waiting"
    /\ releaser' = "locking"
    /\ UNCHANGED <<bvars, sendVars, closer, finished, sent, drained, running, undelivered, released, before>>

\* The releaser waits for the sends, then for flushMu, then gives back.
ReleaserWaits ==
    /\ releaser = "waiting"
    /\ finished
    /\ releaser' = "locking"
    /\ UNCHANGED <<bvars, sendVars, closer, finished, sent, drained, running, undelivered, released, before>>

ReleaserReleases ==
    /\ releaser = "locking"
    /\ flushBy = Nobody
    /\ releaser' = "done"
    /\ released' = TRUE
    /\ UNCHANGED <<bvars, sendVars, closer, finished, sent, drained, running, undelivered, before>>

CloseClient ==
    \/ CloseBegins \/ WaitForSends \/ StopBuffer \/ DrainStopped \/ WaitForDrain
    \/ ReleaseBreakerWhenIdle \/ SampleRunning \/ CountHeld
    \/ ReleaserWaits \/ ReleaserReleases

\* Flush waits for the sends, or no longer than it may, and starts a drain; it
\* keeps nothing of either wait.  The other steps are the loop's and a flush's.
BufferSteps ==
    \/ \E f \in Drainers \ {CloseDrain} : InUse /\ StartDrain(f)
    \/ LoopTicks \/ LoopWakes \/ LoopEnds
    \/ \E f \in Flushers : TakePending(f)
    \/ ResendWindow \/ ReleaseSettled \/ PutBack

ClientNext ==
    \/ \E r \in Records :
         \/ SendReserves(r) \/ SendSubmits(r) \/ SendOverflows(r)
         \/ WorkerTakes(r) \/ SendPanics(r) \/ SettleQueuedSend(r) \/ SendEnds(r)
         \/ SyncBegins(r) \/ HoldIfRetryable(r)
         \/ \E o \in Outcomes : Deliver(r, o)
    \/ CloseClient
    \/ BufferSteps /\ UNCHANGED <<sendVars, closeVars>>

ClientSpec == ClientInit /\ [][ClientNext]_cvars

\* A record on its way is sent on (requests time out, the pool's workers take
\* jobs in turn), Close goes on past its waits, a flush under way ends, a loop
\* that keeps finding stopCh closed ends, and flushMu serves its waiters.
ClientFairness ==
    /\ \A r \in Records : WF_cvars(SendSubmits(r) \/ SendOverflows(r)
                                   \/ WorkerTakes(r) \/ SettleQueuedSend(r) \/ SendEnds(r)
                                   \/ HoldIfRetryable(r) \/ \E o \in Outcomes : Deliver(r, o))
    /\ WF_cvars(WaitForSends \/ StopBuffer \/ DrainStopped \/ WaitForDrain
                \/ ReleaseBreakerWhenIdle \/ SampleRunning \/ CountHeld)
    /\ WF_cvars((ResendWindow \/ ReleaseSettled \/ PutBack) /\ UNCHANGED <<sendVars, closeVars>>)
    /\ WF_cvars(ReleaserWaits)
    /\ SF_cvars(ReleaserReleases)

ClientLiveSpec == ClientSpec /\ ClientFairness

-----------------------------------------------------------------------------
(* Properties.                                                             *)

\* Submitted before Close and neither delivered nor lost since.
Outstanding == {r \in before : place[r] \in {"reserved", "held"} \/ pc[r] \in {"syncSending", "syncSent"}}

\* Close never returns a count that misses a record: whatever was handed to
\* the client before Close and is still in memory when Close counts is in the
\* number it reports, though a send may fail and hold its record, and a flush
\* take or put back records, between the two samples.
CloseNeverMissesARecord ==
    [][closer = "counting" /\ closer' = "closed" => Cardinality(Outstanding) <= undelivered']_cvars

\* The breaker is not given back while a send that Close waited for is still
\* under way, timed out or not.
BreakerOutlivesSends == released => \A r \in before : pc[r] = "done"

\* Every send counted by activity is one that will end, and only those: a
\* panic, a refused job or a failed hold neither leaks nor repeats an end.
SendsCounted ==
    sends = Cardinality({r \in Records : pc[r] \notin {"idle", "reserved", "done"}})

\* A send that is over left its record somewhere definite: nothing it reserved
\* is still charged, and a retryable failure was held, not forgotten.
EndedSendsSettled ==
    \A r \in Records :
        pc[r] \in {"settled", "ending", "done"} =>
            /\ place[r] \notin {"new", "reserved"}
            /\ ended[r] \in {"retry", "open"} => place[r] # "released"
            /\ ended[r] \in {"ok", "refused", "panic"} => place[r] = "released"

\* What the client promises of a send: it is counted while it runs and only
\* then, leaves its record somewhere definite, and has its breaker to the end.
SendsKept == ClientTypeOK /\ SendsCounted /\ EndedSendsSettled /\ BreakerOutlivesSends

\* The breaker of a closed client is given back in the end, however Close's
\* waits went, so its registry entry does not outlive the client for ever.
BreakerGivenBack == closer = "closed" ~> released

\* global.go:76: "the breaker is forgotten once its last user is done".  When
\* both of Close's waits succeed and it gives the breaker back at once, the
\* replay loop is not about to resend held records through it.
ForgottenOnceDone ==
    [][sent /\ drained /\ released' => ~(Loop \in asking /\ ToSet(events) \cap before # {})]_cvars

=============================================================================
