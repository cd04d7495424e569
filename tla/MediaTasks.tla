---------------------------- MODULE MediaTasks ----------------------------
(* Long-running media jobs: Runway tasks (runway/task.go) and fal queue       *)
(* requests (fal/queue.go).  A call creates a job, polls it and sends its one *)
(* usage record; a job its caller stops waiting for is polled on in the       *)
(* background (core/background_waits.go) because the provider still runs and  *)
(* bills it, until the client that owns it closes.                            *)
EXTENDS Naturals, Sequences

CONSTANTS RunwayTasks, FalJobs,
          MaxAttempts      \* PollingConfig.MaxAttempts
Jobs == RunwayTasks \cup FalJobs
ASSUME MediaAssumption == RunwayTasks \cap FalJobs = {} /\ MaxAttempts \in Nat \ {0}

VARIABLES provider,   \* what the provider has made of each job
          stage,      \* where the call that made it is
          by,         \* who polls it: the caller, a goroutine, or, after Stop, the caller again
          attempts,   \* polls this wait has made
          overtime,   \* this wait has outlasted its limit
          ctx,        \* the caller's context has ended
          answer,     \* what is to be recorded
          records,    \* the records sent of each job
          closing,    \* how far Close has got
          enabled     \* fal's Enable and Disable
mvars == <<provider, stage, by, attempts, overtime, ctx, answer, records, closing, enabled>>
job == <<provider, by, attempts, overtime, ctx>>

MediaInit == /\ provider = [j \in Jobs |-> "none"] /\ stage = [j \in Jobs |-> "start"]
             /\ by = [j \in Jobs |-> "caller"] /\ attempts = [j \in Jobs |-> 0]
             /\ overtime = [j \in Jobs |-> FALSE] /\ ctx = [j \in Jobs |-> FALSE]
             /\ answer = [j \in Jobs |-> "none"] /\ records = [j \in Jobs |-> <<>>]
             /\ closing = "open" /\ enabled = TRUE

toRecord(j, what) == /\ stage' = [stage EXCEPT ![j] = "recording"]
                     /\ answer' = [answer EXCEPT ![j] = what]
leave(j) == stage' = [stage EXCEPT ![j] = "done"] /\ UNCHANGED answer

(* ------------------------------ the call ---------------------------------- *)
(* Cost controls may refuse the call before anything is sent. *)
CheckCostControls(j) ==
  /\ stage[j] = "start"
  /\ \E next \in {"creating", "done"} : stage' = [stage EXCEPT ![j] = next]
  /\ UNCHANGED <<job, answer, records, closing, enabled>>
(* Creating a job: accepted, refused with a 4xx, or not confirmed - then the  *)
(* provider may or may not have created it, and only a refusal is recorded.   *)
Accepted(j) ==
  /\ stage[j] = "creating"
  /\ provider' = [provider EXCEPT ![j] = "running"]
  /\ stage' = [stage EXCEPT ![j] = "polling"]
  /\ UNCHANGED <<by, attempts, overtime, ctx, answer, records, closing, enabled>>
recordCreateFailure(j) ==
  /\ stage[j] = "creating"
  /\ toRecord(j, "rejected")
  /\ UNCHANGED <<job, records, closing, enabled>>
(* Mutant: a job that may have been created is written off.                   *)
UnconfirmedWrittenOff(j) ==
  /\ stage[j] = "creating" /\ toRecord(j, "rejected")
  /\ \E made \in {"none", "running"} : provider' = [provider EXCEPT ![j] = made]
  /\ UNCHANGED <<by, attempts, overtime, ctx, records, closing, enabled>>

Unconfirmed(j) ==
  /\ stage[j] = "creating" /\ leave(j)
  /\ \E made \in {"none", "running"} : provider' = [provider EXCEPT ![j] = made]
  /\ UNCHANGED <<by, attempts, overtime, ctx, records, closing, enabled>>

(* ------------------------------- polling ---------------------------------- *)
ctxEnded(j) == CASE by[j] = "caller"     -> ctx[j]
                 [] by[j] = "goroutine"  -> overtime[j] \/ closing # "open"
                 [] by[j] = "after stop" -> TRUE
(* A Runway wait is also bounded by its own timeout and number of attempts.   *)
exhausted(j) == j \in RunwayTasks /\ (overtime[j] \/ attempts[j] >= MaxAttempts)
(* settleUnfinishedWait, settleUnresolvedJob: handed to the background, which *)
(* after Stop is this goroutine with a context that has ended.                *)
Start(j) ==
  /\ by' = [by EXCEPT ![j] = IF closing = "open" THEN "goroutine" ELSE "after stop"]
  /\ attempts' = [attempts EXCEPT ![j] = 0] /\ overtime' = [overtime EXCEPT ![j] = FALSE]
  /\ stage' = [stage EXCEPT ![j] = "polling"]
  /\ UNCHANGED <<provider, ctx, answer>>
(* Mutant: a background wait that ends without an outcome leaves no record.   *)
noOutcomeSilently(j) ==
  IF by[j] = "caller" /\ (j \in FalJobs \/ ctx[j]) THEN Start(j) ELSE leave(j) /\ UNCHANGED job

(* The wait ends with no outcome.  Runway's caller that is still there gets   *)
(* an unfinished record at once.                                              *)
noOutcome(j) ==
  IF by[j] = "caller" /\ (j \in FalJobs \/ ctx[j]) THEN Start(j)
  ELSE toRecord(j, "unfinished") /\ UNCHANGED job
StopPolling(j) ==
  /\ \/ stage[j] \in {"polling", "fetching"} /\ ctxEnded(j)
     \/ stage[j] = "polling" /\ exhausted(j)
  /\ noOutcome(j)
  /\ UNCHANGED <<records, closing, enabled>>
polled(j) == attempts' = [attempts EXCEPT ![j] = IF j \in RunwayTasks THEN @ + 1 ELSE @]
(* GetTaskStatus, pollQueueStatus: a status, of which the final ones end the  *)
(* wait; fal's result is one more request.                                    *)
Status(j) ==
  /\ stage[j] = "polling" /\ ~ctxEnded(j) /\ ~exhausted(j)
  /\ polled(j)
  /\ \/ provider[j] = "running" /\ UNCHANGED <<stage, answer>>
     \/ /\ provider[j] = "succeeded" /\ j \in FalJobs
        /\ stage' = [stage EXCEPT ![j] = "fetching"] /\ UNCHANGED answer
     \/ provider[j] # "running" /\ ~(provider[j] = "succeeded" /\ j \in FalJobs) /\ toRecord(j, provider[j])
  /\ UNCHANGED <<provider, by, overtime, ctx, records, closing, enabled>>
Result(j) ==
  /\ stage[j] = "fetching" /\ ~ctxEnded(j) /\ toRecord(j, "succeeded")
  /\ UNCHANGED <<job, records, closing, enabled>>
(* A poll that fails: Runway's counts as an attempt and is repeated; a fal    *)
(* caller's ends its wait, and the background starts that wait over.          *)
RequestFails(j) ==
  /\ stage[j] \in {"polling", "fetching"} /\ ~ctxEnded(j) /\ ~exhausted(j)
  /\ \/ j \in RunwayTasks /\ polled(j) /\ UNCHANGED <<stage, answer, provider, by, overtime, ctx>>
     \/ j \in FalJobs /\ by[j] = "caller" /\ Start(j)
     \/ j \in FalJobs /\ by[j] # "caller"
        /\ stage' = [stage EXCEPT ![j] = "polling"] /\ UNCHANGED <<job, answer>>
  /\ UNCHANGED <<records, closing, enabled>>
(* The record is sent; fal's only while metering is enabled. *)
Send(j) ==
  /\ stage[j] = "recording" /\ leave(j)
  /\ records' = IF j \in FalJobs /\ ~enabled THEN records
                ELSE [records EXCEPT ![j] = Append(@, [what |-> answer[j], open |-> closing # "closed"])]
  /\ UNCHANGED <<job, closing, enabled>>

(* ----------------------------- surroundings ------------------------------- *)
Provider(j) == /\ provider[j] = "running"
               /\ \E end \in {"succeeded", "failed"} \cup (IF j \in RunwayTasks THEN {"canceled"} ELSE {}) :
                    provider' = [provider EXCEPT ![j] = end]
               /\ UNCHANGED <<stage, by, attempts, overtime, ctx, answer, records, closing, enabled>>
CallerGivesUp(j) == /\ ~ctx[j] /\ by[j] = "caller" /\ stage[j] \in {"polling", "fetching"}
                    /\ ctx' = [ctx EXCEPT ![j] = TRUE]
                    /\ UNCHANGED <<provider, stage, by, attempts, overtime, answer, records, closing, enabled>>
LimitPasses(j) == /\ ~overtime[j] /\ stage[j] \in {"polling", "fetching"}
                  /\ overtime' = [overtime EXCEPT ![j] = TRUE]
                  /\ UNCHANGED <<provider, stage, by, attempts, ctx, answer, records, closing, enabled>>
Disable == /\ enabled /\ FalJobs # {} /\ enabled' = FALSE
           /\ UNCHANGED <<job, stage, answer, records, closing>>
(* Close: Stop refuses new waits and ends the running ones, and returns when  *)
(* they have; only then is the metering client closed.                        *)
StopWaits == /\ closing = "open" /\ closing' = "stopping"
             /\ UNCHANGED <<job, stage, answer, records, enabled>>
running == {j \in Jobs : by[j] = "goroutine" /\ stage[j] # "done"}
(* Mutant: the metering client is closed before the waits have ended.         *)
CloseAtOnce == /\ closing = "stopping" /\ closing' = "closed"
               /\ UNCHANGED <<job, stage, answer, records, enabled>>

Close == /\ closing = "stopping" /\ running = {} /\ closing' = "closed"
         /\ UNCHANGED <<job, stage, answer, records, enabled>>

WaitStep(j) == StopPolling(j) \/ Status(j) \/ Result(j) \/ Send(j)
MediaNext == \/ \E j \in Jobs : \/ CheckCostControls(j) \/ Accepted(j) \/ recordCreateFailure(j)
                                \/ Unconfirmed(j) \/ WaitStep(j) \/ RequestFails(j)
                                \/ Provider(j) \/ CallerGivesUp(j) \/ LimitPasses(j)
             \/ Disable \/ StopWaits \/ Close
(* A wait goes on, its limit passes, and a result that can be had is got in   *)
(* the end; the caller need never give up and the provider need never finish. *)
MediaFairness == /\ \A j \in Jobs : WF_mvars(WaitStep(j)) /\ WF_mvars(LimitPasses(j)) /\ WF_mvars(Send(j))
                 /\ WF_mvars(Close)
MediaSpec == MediaInit /\ [][MediaNext]_mvars /\ MediaFairness

(* ------------------------------- properties ------------------------------- *)
(* However a wait ends - outcome, timeout, caller gone, client closed - and   *)
(* wherever it was continued, a job is recorded as UsageOnce promises: once,  *)
(* as failed, canceled or succeeded only when the provider said so, and as    *)
(* rejected only when none was created, then or later.                        *)
Once == INSTANCE UsageOnce WITH
  Work <- Jobs, Ends <- {"succeeded", "failed", "canceled"}, outcome <- provider,
  recorded <- [j \in Jobs |-> [i \in DOMAIN records[j] |-> records[j][i].what]]
OnceSpec == Once!Spec

(* The record of a job polled in the background reaches a metering client     *)
(* that is still open: Close waits for the goroutines, and no new one starts. *)
BackgroundRecordsReachMetering ==
  \A j \in Jobs : /\ closing = "closed" => j \notin running
                  /\ by[j] = "goroutine" => \A i \in DOMAIN records[j] : records[j][i].open

(* A job its caller stopped waiting for is recorded in the end, whatever its  *)
(* provider does and whether or not the client closes meanwhile; only fal's   *)
(* Disable leaves it out.                                                     *)
AbandonedIsRecorded ==
  \A j \in Jobs : ctx[j] ~> (records[j] # <<>> \/ (j \in FalJobs /\ ~enabled))
=============================================================================
