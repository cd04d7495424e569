--------------------------- MODULE MediaTasksProofs ---------------------------
(* Theorems about the media jobs.  MediaTasks: for any Runway tasks and fal    *)
(* jobs and any limit on the polls, the media tasks implement UsageOnce, and a *)
(* record made in the background reaches a metering client that is still open. *)
(* VideoTracker: for any callers, operations and limits, an operation the      *)
(* tracker was told is finished is recorded once, as its submission asked for. *)
EXTENDS MediaTasks, VideoTracker, TLAPS, FiniteSetTheorems, SequenceTheorems

Endings == {"succeeded", "failed", "canceled"}
Made == {"none", "running"} \cup Endings
MadeStages == {"polling", "fetching"}
Stages == {"start", "creating", "recording", "done"} \cup MadeStages
Answers == Endings \cup {"none", "rejected", "unfinished"}

(* What may be recorded of a job as things stand. *)
Truth(made) == IF made = "none" THEN {"rejected"} ELSE {"unfinished"} \cup (Endings \cap {made})
Entry == [what : Answers, open : BOOLEAN]

(* The provider's state and the stage of a call have their types, a job whose  *)
(* call waits for it exists, and the answer about to be recorded is true.      *)
MediaTypeOK ==
  /\ provider \in [Jobs -> Made] /\ stage \in [Jobs -> Stages]
  /\ by \in [Jobs -> {"caller", "goroutine", "after stop"}]
  /\ answer \in [Jobs -> Answers] /\ records \in [Jobs -> Seq(Entry)]
  /\ closing \in {"open", "stopping", "closed"}
StageFits(j) ==
  /\ stage[j] \in {"start", "creating"} => provider[j] = "none"
  /\ stage[j] \in MadeStages => provider[j] # "none"
  /\ stage[j] = "fetching" => provider[j] = "succeeded"
  /\ stage[j] = "recording" => answer[j] \in Truth(provider[j])
  /\ stage[j] # "done" => records[j] = <<>>
MediaInv == MediaTypeOK /\ \A j \in Jobs : StageFits(j)

LEMMA InitMediaInv == MediaInit => MediaInv
  BY DEF MediaInit, MediaInv, MediaTypeOK, StageFits, Made, Stages, Answers, MadeStages, Endings

(* A step that keeps the types and moves one job only need be looked at there. *)
LEMMA OneJobMoves ==
  ASSUME MediaInv, NEW j \in Jobs, MediaTypeOK', StageFits(j)',
         \A k \in Jobs \ {j} : /\ provider'[k] = provider[k] /\ stage'[k] = stage[k]
                               /\ answer'[k] = answer[k] /\ records'[k] = records[k]
  PROVE  MediaInv'
  BY DEF MediaInv, StageFits

(* Where a call goes next, job by job. *)
LEMMA Recording ==
  ASSUME MediaInv, NEW j \in Jobs, NEW what \in Truth(provider[j]), records[j] = <<>>,
         toRecord(j, what), UNCHANGED <<provider, by, records, closing>>
  PROVE  MediaInv'
<1>1. what \in Answers
  BY DEF Truth, Answers
<1>2. MediaTypeOK'
  BY <1>1 DEF MediaInv, MediaTypeOK, toRecord, Stages
<1>3. StageFits(j)'
  BY DEF MediaInv, MediaTypeOK, StageFits, toRecord, MadeStages
<1> QED
  BY <1>2, <1>3, OneJobMoves DEF MediaInv, MediaTypeOK, toRecord

LEMMA Polling ==
  ASSUME MediaInv, NEW j \in Jobs, NEW next \in MadeStages, provider[j] # "none",
         next = "fetching" => provider[j] = "succeeded", records[j] = <<>>,
         stage' = [stage EXCEPT ![j] = next],
         by' \in [Jobs -> {"caller", "goroutine", "after stop"}],
         UNCHANGED <<provider, answer, records, closing>>
  PROVE  MediaInv'
<1>1. MediaTypeOK'
  BY DEF MediaInv, MediaTypeOK, Stages
<1>2. StageFits(j)'
  BY DEF MediaInv, MediaTypeOK, StageFits, MadeStages
<1> QED
  BY <1>1, <1>2, OneJobMoves DEF MediaInv, MediaTypeOK

LEMMA Leaving ==
  ASSUME MediaInv, NEW j \in Jobs, leave(j), provider' \in [Jobs -> Made], records' \in [Jobs -> Seq(Entry)],
         \A k \in Jobs \ {j} : provider'[k] = provider[k] /\ records'[k] = records[k],
         UNCHANGED <<by, closing>>
  PROVE  MediaInv'
<1>1. MediaTypeOK'
  BY DEF MediaInv, MediaTypeOK, leave, Stages
<1>2. StageFits(j)'
  BY DEF MediaInv, MediaTypeOK, StageFits, leave, MadeStages
<1> QED
  BY <1>1, <1>2, OneJobMoves DEF MediaInv, MediaTypeOK, leave

LEMMA Restarting ==
  ASSUME MediaInv, NEW j \in Jobs, stage[j] \in MadeStages, Start(j), UNCHANGED <<records, closing>>
  PROVE  MediaInv'
<1>1. by' \in [Jobs -> {"caller", "goroutine", "after stop"}]
  BY DEF MediaInv, MediaTypeOK, Start
<1>2. provider[j] # "none" /\ records[j] = <<>>
  BY DEF MediaInv, StageFits, MadeStages
<1> QED
  BY <1>1, <1>2, Polling DEF Start, MadeStages

LEMMA StepMediaInv == MediaInv /\ [MediaNext]_mvars => MediaInv'
<1> SUFFICES ASSUME MediaInv, [MediaNext]_mvars PROVE MediaInv'
  OBVIOUS
<1>1. ASSUME NEW j \in Jobs, CheckCostControls(j) PROVE MediaInv'
  <2>1. PICK next \in {"creating", "done"} : stage' = [stage EXCEPT ![j] = next]
    BY <1>1 DEF CheckCostControls
  <2>2. stage[j] = "start" /\ UNCHANGED <<provider, by, answer, records, closing>>
    BY <1>1 DEF CheckCostControls, job
  <2>3. MediaTypeOK'
    BY <2>1, <2>2 DEF MediaInv, MediaTypeOK, Stages
  <2>4. StageFits(j)'
    BY <2>1, <2>2 DEF MediaInv, MediaTypeOK, StageFits, MadeStages
  <2> QED
    BY <2>1, <2>2, <2>3, <2>4, OneJobMoves DEF MediaInv, MediaTypeOK
<1>2. ASSUME NEW j \in Jobs, Accepted(j) PROVE MediaInv'
  <2>1. MediaTypeOK'
    BY <1>2 DEF Accepted, MediaInv, MediaTypeOK, Stages, MadeStages, Made
  <2>2. StageFits(j)'
    BY <1>2 DEF Accepted, MediaInv, MediaTypeOK, StageFits, MadeStages
  <2> QED
    BY <1>2, <2>1, <2>2, OneJobMoves DEF Accepted, MediaInv, MediaTypeOK
<1>3. ASSUME NEW j \in Jobs, recordCreateFailure(j) PROVE MediaInv'
  <2>1. "rejected" \in Truth(provider[j]) /\ records[j] = <<>>
    BY <1>3 DEF recordCreateFailure, MediaInv, StageFits, Truth
  <2> QED
    BY <1>3, <2>1, Recording DEF recordCreateFailure, job
<1>4. ASSUME NEW j \in Jobs, Unconfirmed(j) PROVE MediaInv'
  <2>1. PICK made \in {"none", "running"} : provider' = [provider EXCEPT ![j] = made]
    BY <1>4 DEF Unconfirmed
  <2>2. provider' \in [Jobs -> Made] /\ \A k \in Jobs \ {j} : provider'[k] = provider[k]
    BY <2>1 DEF MediaInv, MediaTypeOK, Made
  <2>3. leave(j) /\ UNCHANGED <<by, records, closing>>
    BY <1>4 DEF Unconfirmed
  <2> QED
    BY <2>2, <2>3, Leaving DEF MediaInv, MediaTypeOK
<1>5. ASSUME NEW j \in Jobs, StopPolling(j) PROVE MediaInv'
  <2>1. stage[j] \in MadeStages /\ UNCHANGED <<records, closing>>
    BY <1>5 DEF StopPolling, MadeStages
  <2>2. CASE Start(j)
    BY <2>1, <2>2, Restarting
  <2>3. CASE toRecord(j, "unfinished") /\ UNCHANGED job
    <3>1. "unfinished" \in Truth(provider[j]) /\ records[j] = <<>>
      BY <2>1 DEF MediaInv, StageFits, Truth, MadeStages
    <3> QED
      BY <2>1, <2>3, <3>1, Recording DEF job
  <2> QED
    BY <1>5, <2>2, <2>3 DEF StopPolling, noOutcome
<1>6. ASSUME NEW j \in Jobs, Status(j) PROVE MediaInv'
  <2>1. stage[j] = "polling" /\ provider[j] # "none" /\ records[j] = <<>> /\ provider[j] \in Made
    BY <1>6 DEF Status, MediaInv, MediaTypeOK, StageFits, MadeStages
  <2>2. UNCHANGED <<provider, by, records, closing>>
    BY <1>6 DEF Status
  <2>3. CASE UNCHANGED <<stage, answer>>
    BY <2>2, <2>3 DEF MediaInv, MediaTypeOK, StageFits
  <2>4. CASE provider[j] = "succeeded" /\ stage' = [stage EXCEPT ![j] = "fetching"] /\ UNCHANGED answer
    BY <2>1, <2>2, <2>4, Polling DEF MadeStages, MediaInv, MediaTypeOK
  <2>5. CASE provider[j] # "running" /\ toRecord(j, provider[j])
    <3>1. provider[j] \in Truth(provider[j])
      BY <2>1, <2>5 DEF Truth, Made
    <3> QED
      BY <2>1, <2>2, <2>5, <3>1, Recording
  <2> QED
    BY <1>6, <2>3, <2>4, <2>5 DEF Status
<1>7. ASSUME NEW j \in Jobs, Result(j) PROVE MediaInv'
  <2>1. "succeeded" \in Truth(provider[j]) /\ records[j] = <<>>
    BY <1>7 DEF Result, MediaInv, StageFits, Truth, Endings
  <2> QED
    BY <1>7, <2>1, Recording DEF Result, job
<1>8. ASSUME NEW j \in Jobs, Send(j) PROVE MediaInv'
  <2>1. records[j] = <<>> /\ answer[j] \in Answers
    BY <1>8 DEF Send, MediaInv, MediaTypeOK, StageFits
  <2> DEFINE entry == [what |-> answer[j], open |-> closing # "closed"]
  <2>2. entry \in Entry
    BY <2>1 DEF Entry
  <2>3. Append(records[j], entry) \in Seq(Entry)
    <3> HIDE DEF entry
    <3> QED BY <2>1, <2>2
  <2>4. \/ records' = records
        \/ records' = [records EXCEPT ![j] = Append(@, entry)]
    BY <1>8 DEF Send
  <2> HIDE DEF entry
  <2>5. /\ records' \in [Jobs -> Seq(Entry)]
        /\ \A k \in Jobs \ {j} : records'[k] = records[k]
    BY <2>3, <2>4 DEF MediaInv, MediaTypeOK
  <2>6. leave(j) /\ UNCHANGED <<provider, by, closing>>
    BY <1>8 DEF Send, job
  <2> QED
    BY <2>5, <2>6, Leaving DEF MediaInv, MediaTypeOK
<1>9. ASSUME NEW j \in Jobs, RequestFails(j) PROVE MediaInv'
  <2>1. stage[j] \in MadeStages /\ UNCHANGED <<records, closing>>
    BY <1>9 DEF RequestFails, MadeStages
  <2>2. CASE UNCHANGED <<stage, answer, provider, by>>
    BY <2>1, <2>2 DEF MediaInv, MediaTypeOK, StageFits
  <2>3. CASE Start(j)
    BY <2>1, <2>3, Restarting
  <2>4. CASE stage' = [stage EXCEPT ![j] = "polling"] /\ UNCHANGED <<job, answer>>
    <3>1. provider[j] # "none" /\ records[j] = <<>>
      BY <2>1 DEF MediaInv, StageFits, MadeStages
    <3> QED
      BY <2>1, <2>4, <3>1, Polling DEF MadeStages, MediaInv, MediaTypeOK, job
  <2> QED
    BY <1>9, <2>2, <2>3, <2>4 DEF RequestFails
<1>10. ASSUME NEW j \in Jobs, Provider(j) PROVE MediaInv'
  <2>1. PICK end \in Endings : provider' = [provider EXCEPT ![j] = end]
    <3>1. {"succeeded", "failed"} \cup (IF j \in RunwayTasks THEN {"canceled"} ELSE {}) \subseteq Endings
      BY DEF Endings
    <3> QED BY <1>10, <3>1 DEF Provider
  <2>2. provider[j] = "running" /\ UNCHANGED <<stage, by, answer, records, closing>>
    BY <1>10 DEF Provider
  <2>3. MediaTypeOK'
    BY <2>1, <2>2 DEF MediaInv, MediaTypeOK, Made
  <2>4. StageFits(j)'
    BY <2>1, <2>2 DEF MediaInv, MediaTypeOK, StageFits, MadeStages, Truth, Endings
  <2> QED
    BY <2>1, <2>2, <2>3, <2>4, OneJobMoves DEF MediaInv, MediaTypeOK
<1>11. ASSUME NEW j \in Jobs, CallerGivesUp(j) \/ LimitPasses(j) PROVE MediaInv'
  BY <1>11 DEF CallerGivesUp, LimitPasses, MediaInv, MediaTypeOK, StageFits
<1>12. CASE Disable \/ StopWaits \/ Close
  BY <1>12 DEF Disable, StopWaits, Close, job, MediaInv, MediaTypeOK, StageFits
<1>13. CASE UNCHANGED mvars
  BY <1>13 DEF mvars, MediaInv, MediaTypeOK, StageFits
<1> QED
  BY <1>1, <1>2, <1>3, <1>4, <1>5, <1>6, <1>7, <1>8, <1>9, <1>10, <1>11, <1>12, <1>13
     DEF MediaNext, WaitStep

(* A job's record tells the truth, and a job at work is not yet recorded.      *)
THEOREM MediaInvariant == MediaSpec => []MediaInv
  BY InitMediaInv, StepMediaInv, PTL DEF MediaSpec

(* ------------------------ records of background waits --------------------- *)
LEMMA InitBackground == MediaInit => BackgroundRecordsReachMetering
  BY DEF MediaInit, BackgroundRecordsReachMetering, running

(* Only Send adds a record, and a goroutine that sends holds Close back. *)
LEMMA StepBackground ==
  MediaInv /\ BackgroundRecordsReachMetering /\ [MediaNext]_mvars => BackgroundRecordsReachMetering'
<1> SUFFICES ASSUME MediaInv, BackgroundRecordsReachMetering, [MediaNext]_mvars, NEW k \in Jobs
             PROVE  /\ closing' = "closed" => k \notin running'
                    /\ by'[k] = "goroutine" => \A i \in DOMAIN records'[k] : records'[k][i].open
  BY DEF BackgroundRecordsReachMetering
<1>1. /\ closing = "closed" => ~(by[k] = "goroutine" /\ stage[k] # "done")
      /\ by[k] = "goroutine" => \A i \in DOMAIN records[k] : records[k][i].open
  BY DEF BackgroundRecordsReachMetering, running
<1>2. SUFFICES /\ closing' = "closed" => ~(by'[k] = "goroutine" /\ stage'[k] # "done")
               /\ by'[k] = "goroutine" => \A i \in DOMAIN records'[k] : records'[k][i].open
  BY DEF running
<1>3. /\ by \in [Jobs -> {"caller", "goroutine", "after stop"}] /\ stage \in [Jobs -> Stages]
      /\ stage[k] # "done" => records[k] = <<>>
  BY DEF MediaInv, MediaTypeOK, StageFits
(* A step that leaves the waits where they are, and does not close. *)
<1>4. ASSUME UNCHANGED <<by, records, closing>>, stage[k] = "done" => stage'[k] = "done"
      PROVE  /\ closing' = "closed" => ~(by'[k] = "goroutine" /\ stage'[k] # "done")
             /\ by'[k] = "goroutine" => \A i \in DOMAIN records'[k] : records'[k][i].open
  BY <1>1, <1>4
(* A wait that starts in the background has no record yet. *)
<1>5. ASSUME NEW j \in Jobs, stage[j] # "done", Start(j), UNCHANGED <<records, closing>>
      PROVE  /\ closing' = "closed" => ~(by'[k] = "goroutine" /\ stage'[k] # "done")
             /\ by'[k] = "goroutine" => \A i \in DOMAIN records'[k] : records'[k][i].open
  <2>1. CASE k # j
    <3>1. by'[k] = by[k] /\ stage'[k] = stage[k] /\ records'[k] = records[k]
      BY <1>3, <1>5, <2>1 DEF Start
    <3> QED BY <1>1, <1>5, <3>1
  <2>2. CASE k = j
    <3>1. DOMAIN records'[k] = {}
      <4>1. records'[k] = <<>>
        BY <1>3, <1>5, <2>2
      <4> QED BY <4>1
    <3>2. by'[k] = IF closing = "open" THEN "goroutine" ELSE "after stop"
      BY <1>3, <1>5, <2>2 DEF Start
    <3>3. by'[k] = "goroutine" => closing' # "closed"
      BY <1>5, <3>2
    <3>4. \A i \in DOMAIN records'[k] : records'[k][i].open
      BY <3>1
    <3> QED BY <3>3, <3>4
  <2> QED BY <2>1, <2>2
<1>6. ASSUME NEW j \in Jobs, CheckCostControls(j) PROVE stage[k] = "done" => stage'[k] = "done"
  BY <1>3, <1>6 DEF CheckCostControls
<1>7. ASSUME NEW j \in Jobs, NEW what, stage[j] # "done", toRecord(j, what)
      PROVE  stage[k] = "done" => stage'[k] = "done"
  BY <1>3, <1>7 DEF toRecord
<1>8. ASSUME NEW j \in Jobs, NEW next, stage[j] # "done", stage' = [stage EXCEPT ![j] = next]
      PROVE  stage[k] = "done" => stage'[k] = "done"
  BY <1>3, <1>8
<1>9. ASSUME NEW j \in Jobs, leave(j) PROVE stage[k] = "done" => stage'[k] = "done"
  BY <1>3, <1>9 DEF leave
<1>10. ASSUME NEW j \in Jobs,
              CheckCostControls(j) \/ Accepted(j) \/ recordCreateFailure(j) \/ Unconfirmed(j)
       PROVE  UNCHANGED <<by, records, closing>> /\ (stage[k] = "done" => stage'[k] = "done")
  BY <1>6, <1>7, <1>8, <1>9, <1>10
     DEF CheckCostControls, Accepted, recordCreateFailure, Unconfirmed, job
<1>11. ASSUME NEW j \in Jobs, StopPolling(j)
       PROVE  \/ stage[j] # "done" /\ Start(j) /\ UNCHANGED <<records, closing>>
              \/ UNCHANGED <<by, records, closing>> /\ (stage[k] = "done" => stage'[k] = "done")
  BY <1>7, <1>11 DEF StopPolling, noOutcome, job
<1>12. ASSUME NEW j \in Jobs, Status(j)
       PROVE  UNCHANGED <<by, records, closing>> /\ (stage[k] = "done" => stage'[k] = "done")
  BY <1>7, <1>8, <1>12 DEF Status
<1>13. ASSUME NEW j \in Jobs, Result(j)
       PROVE  UNCHANGED <<by, records, closing>> /\ (stage[k] = "done" => stage'[k] = "done")
  BY <1>7, <1>13 DEF Result, job
<1>14. ASSUME NEW j \in Jobs, RequestFails(j)
       PROVE  \/ stage[j] # "done" /\ Start(j) /\ UNCHANGED <<records, closing>>
              \/ UNCHANGED <<by, records, closing>> /\ (stage[k] = "done" => stage'[k] = "done")
  BY <1>8, <1>14 DEF RequestFails, job
<1>15. ASSUME NEW j \in Jobs, Send(j)
       PROVE  /\ closing' = "closed" => ~(by'[k] = "goroutine" /\ stage'[k] # "done")
              /\ by'[k] = "goroutine" => \A i \in DOMAIN records'[k] : records'[k][i].open
  <2>1. UNCHANGED <<by, closing>> /\ stage[j] = "recording" /\ records[j] = <<>> /\ leave(j)
    BY <1>15 DEF Send, job, MediaInv, StageFits
  <2>2. stage'[k] = "done" \/ stage'[k] = stage[k]
    BY <1>3, <2>1 DEF leave
  <2>3. CASE records'[k] = records[k]
    BY <1>1, <1>9, <2>1, <2>2, <2>3
  <2>4. CASE k = j /\ records'[k] = <<[what |-> answer[j], open |-> closing # "closed"]>>
    <3>1. by'[k] = "goroutine" => closing # "closed"
      BY <1>1, <2>1, <2>4
    <3>2. stage'[k] = "done"
      BY <1>3, <2>1, <2>4 DEF leave
    <3>3. DOMAIN records'[k] = {1} /\ records'[k][1].open = (closing # "closed")
      BY <2>4
    <3> QED BY <2>1, <3>1, <3>2, <3>3
  <2>5. \/ records'[k] = records[k]
        \/ k = j /\ records'[k] = Append(records[j], [what |-> answer[j], open |-> closing # "closed"])
    BY <1>15 DEF Send, MediaInv, MediaTypeOK
  <2> QED
    BY <2>1, <2>3, <2>4, <2>5
<1>16. ASSUME NEW j \in Jobs, Provider(j) \/ CallerGivesUp(j) \/ LimitPasses(j)
       PROVE  UNCHANGED <<by, records, closing, stage>>
  BY <1>16 DEF Provider, CallerGivesUp, LimitPasses
<1>17. CASE Disable \/ StopWaits
  BY <1>1, <1>17 DEF Disable, StopWaits, job
<1>18. CASE Close
  BY <1>1, <1>18 DEF Close, job, running
<1>19. CASE UNCHANGED mvars
  BY <1>4, <1>19 DEF mvars
<1> QED
  BY <1>4, <1>5, <1>10, <1>11, <1>12, <1>13, <1>14, <1>15, <1>16, <1>17, <1>18, <1>19
     DEF MediaNext, WaitStep

(* The record of a job polled in the background reaches an open client. *)
THEOREM BackgroundRecords == MediaSpec => []BackgroundRecordsReachMetering
  BY MediaInvariant, InitBackground, StepBackground, PTL DEF MediaSpec

(* ------------------------------ refinement -------------------------------- *)
Told == [j \in Jobs |-> [i \in DOMAIN records[j] |-> records[j][i].what]]

LEMMA MediaInitOnce == MediaInit => Once!Init
  BY DEF MediaInit, Once!Init

LEMMA ToldUnchanged == UNCHANGED records => Told' = Told
  BY DEF Told

LEMMA MediaStepOnce == MediaInv /\ [MediaNext]_mvars => [Once!Next]_<<provider, Told>>
<1> SUFFICES ASSUME MediaInv, [MediaNext]_mvars PROVE Once!Next \/ UNCHANGED <<provider, Told>>
  OBVIOUS
<1>1. ASSUME NEW j \in Jobs, provider[j] = "none", records[j] = <<>>,
             provider' = [provider EXCEPT ![j] = "running"], UNCHANGED records
      PROVE  Once!Next
  <2>1. Told[j] = <<>>
    BY <1>1 DEF Told
  <2> QED
    BY <1>1, <2>1, ToldUnchanged DEF Once!Next, Once!Begin, Told
<1>2. ASSUME NEW j \in Jobs, Accepted(j) PROVE Once!Next
  BY <1>1, <1>2 DEF Accepted, MediaInv, StageFits
<1>3. ASSUME NEW j \in Jobs, Unconfirmed(j) PROVE Once!Next \/ UNCHANGED <<provider, Told>>
  <2>1. PICK made \in {"none", "running"} : provider' = [provider EXCEPT ![j] = made]
    BY <1>3 DEF Unconfirmed
  <2>2. UNCHANGED records /\ provider[j] = "none" /\ records[j] = <<>>
    BY <1>3 DEF Unconfirmed, MediaInv, StageFits
  <2>3. CASE made = "none"
    BY <2>1, <2>2, <2>3, ToldUnchanged DEF MediaInv, MediaTypeOK
  <2>4. CASE made = "running"
    BY <1>1, <2>1, <2>2, <2>4
  <2> QED
    BY <2>3, <2>4
<1>4. ASSUME NEW j \in Jobs, Provider(j) PROVE Once!Next
  <2>1. {"succeeded", "failed"} \cup (IF j \in RunwayTasks THEN {"canceled"} ELSE {}) \subseteq Endings
    BY DEF Endings
  <2>2. \E e \in Endings : provider' = [provider EXCEPT ![j] = e]
    BY <1>4, <2>1 DEF Provider
  <2>3. provider[j] = "running" /\ UNCHANGED records
    BY <1>4 DEF Provider
  <2> QED
    BY <2>2, <2>3, ToldUnchanged DEF Once!Next, Once!Finish, Told, Endings
<1>5. ASSUME NEW j \in Jobs, Send(j) PROVE Once!Next \/ UNCHANGED <<provider, Told>>
  <2>1. UNCHANGED provider /\ records[j] = <<>> /\ answer[j] \in Truth(provider[j])
    BY <1>5 DEF Send, job, MediaInv, StageFits
  <2> DEFINE entry == [what |-> answer[j], open |-> closing # "closed"]
  <2>2. CASE records' = records
    BY <2>1, <2>2, ToldUnchanged
  <2>3. CASE records' = [records EXCEPT ![j] = Append(@, entry)]
    <3>1. entry.what = answer[j]
      OBVIOUS
    <3> HIDE DEF entry
    <3>2. records'[j] = <<entry>> /\ \A k \in Jobs \ {j} : records'[k] = records[k]
      <4>1. records'[j] = Append(records[j], entry) /\ \A k \in Jobs \ {j} : records'[k] = records[k]
        BY <2>3 DEF MediaInv, MediaTypeOK
      <4>2. Append(<<>>, entry) = <<entry>>
        OBVIOUS
      <4> QED BY <2>1, <4>1, <4>2
    <3>3. DOMAIN records'[j] = {1} /\ records'[j][1] = entry
      BY <3>2
    <3>4. [i \in DOMAIN records'[j] |-> records'[j][i].what] = <<answer[j]>>
      BY <3>1, <3>3
    <3>5. Told' = [Told EXCEPT ![j] = <<answer[j]>>]
      BY <3>2, <3>4 DEF Told
    <3>6. Told[j] = <<>>
      BY <2>1 DEF Told
    <3>7. answer[j] \in Once!True(j)
      BY <2>1 DEF Truth, Endings, Once!True
    <3> QED
      BY <2>1, <3>5, <3>6, <3>7 DEF Once!Next, Once!Record, Told
  <2> QED
    BY <1>5, <2>2, <2>3 DEF Send
<1>6. ASSUME NEW j \in Jobs,
             \/ CheckCostControls(j) \/ recordCreateFailure(j) \/ StopPolling(j) \/ Status(j)
             \/ Result(j) \/ RequestFails(j) \/ CallerGivesUp(j) \/ LimitPasses(j)
      PROVE  UNCHANGED <<provider, records>>
  BY <1>6 DEF CheckCostControls, recordCreateFailure, StopPolling, noOutcome, Start, toRecord, Status,
              Result, RequestFails, CallerGivesUp, LimitPasses, job
<1>7. CASE Disable \/ StopWaits \/ Close \/ UNCHANGED mvars
  BY <1>7, ToldUnchanged DEF Disable, StopWaits, Close, job, mvars
<1> QED
  BY <1>2, <1>3, <1>4, <1>5, <1>6, <1>7, ToldUnchanged DEF MediaNext, WaitStep

(* The media tasks implement UsageOnce: a job is recorded at most once, and    *)
(* what its record says is true when it is sent.                               *)
THEOREM MediaImplementsUsageOnce == MediaSpec => OnceSpec
<1>1. MediaInit => Once!Init
  BY MediaInitOnce
<1>2. MediaInv /\ [MediaNext]_mvars => [Once!Next]_Once!onceVars
  BY MediaStepOnce DEF Once!onceVars, Told
<1> QED
  BY <1>1, <1>2, MediaInvariant, PTL DEF MediaSpec, OnceSpec, Once!Spec

(* ----------------------------- VideoTracker ----------------------------- *)
(* The shapes of what the callers do, of what is pending and what was sent.  *)
Froms == {"submit", "wait", "poll"}
Requests == [settings : Froms, fields : Froms]
Onward == {Idle} \cup [pc : {"settle"}, op : Ops]
Doing == {Idle} \cup [pc : {"track", "settle", "wait"}, op : Ops]
                \cup [pc : {"report"}, op : Ops, request : Requests, next : Onward]
Records == [op : Ops \cup {""}, request : Requests]
Sending == {c \in Callers : call[c].pc = "report"}
TrackerTypeOK ==
  /\ google \in [Ops -> {"absent", "running", "done"}] /\ call \in [Callers -> Doing]
  /\ DOMAIN pending \subseteq Ops /\ pending \in [DOMAIN pending -> Requests]
  /\ settledOrder \in Seq(Ops) /\ forgotten \in Seq(Ops) /\ sent \in Seq(Records)
  /\ IsFiniteSet(Sending)

(* A name the tracker had to forget, dropped unseen or recorded before; a name *)
(* it has recorded or had to forget; a name it has been told of.               *)
Gone(o) == o \in evicted \/ timesForgotten(o) > 0
Ended(o) == o \in settled \/ Gone(o)
Tracked(o) == o \in DOMAIN pending \/ Ended(o)

(* The names recorded are those in the order kept, each once, none pending.    *)
RecordedNames ==
  /\ settled = Names(settledOrder) /\ DOMAIN pending \cap settled = {}
  /\ \A i, j \in DOMAIN settledOrder : settledOrder[i] = settledOrder[j] => i = j
(* A record, sent or about to be, for each time the name was put among settled.*)
RecordsCounted ==
  \A o \in Ops : recordsOf(o) + Cardinality(reporting(o))
                   = timesForgotten(o) + (IF o \in settled THEN 1 ELSE 0)
ToldEnded == \A o \in told : o \in Ops /\ Ended(o)
(* A submission of this process is known once its caller has tracked it.       *)
KnownTracked ==
  \A o \in Ops \ Foreign : google[o] # "absent"
    => Tracked(o) \/ \E c \in Callers : call[c].pc = "track" /\ call[c].op = o
(* Settings other than a submission's are used where there was none to keep. *)
Excused(o, request) == request.settings = "submit" \/ o \in Foreign \/ Gone(o)
PendingExcused == \A o \in DOMAIN pending : Excused(o, pending[o])
SentExcused == \A i \in DOMAIN sent : sent[i].op = "" \/ Excused(sent[i].op, sent[i].request)
Fits(doing) ==
  /\ doing.pc \in {"wait", "settle", "report"} => Tracked(doing.op)
  /\ doing.pc = "report" => /\ doing.next # Idle => doing.next.op = doing.op
                            /\ Excused(doing.op, doing.request)
CallersFit == \A c \in Callers : Fits(call[c])
(* Recorded or not, the records of a name are accounted for; and whoever acts   *)
(* on a name, or was told it is finished, can rely on the tracker's having it. *)
TrackerInv == /\ TrackerTypeOK /\ RecordedNames /\ RecordsCounted /\ ToldEnded
              /\ KnownTracked /\ PendingExcused /\ SentExcused /\ CallersFit

(* ------------------------------- counting -------------------------------- *)
(* How often a name was forgotten or reported so far is a number. *)
LEMMA CountsAreNumbers ==
  ASSUME TrackerTypeOK, NEW o
  PROVE  /\ timesForgotten(o) \in Nat /\ recordsOf(o) \in Nat
         /\ IsFiniteSet(reporting(o)) /\ Cardinality(reporting(o)) \in Nat
<1>1. IsFiniteSet(DOMAIN forgotten) /\ IsFiniteSet(DOMAIN sent)
  <2>1. Len(forgotten) \in Nat /\ DOMAIN forgotten = 1 .. Len(forgotten)
    BY LenProperties DEF TrackerTypeOK
  <2>2. Len(sent) \in Nat /\ DOMAIN sent = 1 .. Len(sent)
    BY LenProperties DEF TrackerTypeOK
  <2> QED
    BY <2>1, <2>2, FS_Interval
<1>2. IsFiniteSet({i \in DOMAIN forgotten : forgotten[i] = o})
  BY <1>1, FS_Subset
<1>3. IsFiniteSet({i \in DOMAIN sent : sent[i].op = o})
  BY <1>1, FS_Subset
<1>4. IsFiniteSet(reporting(o))
  <2>1. reporting(o) \subseteq Sending
    BY DEF reporting, Sending
  <2> QED
    BY <2>1, FS_Subset DEF TrackerTypeOK
<1> QED
  BY <1>2, <1>3, <1>4, FS_CardinalityType DEF timesForgotten, recordsOf

(* The records sent, one by one. *)
LEMMA RecordTypes ==
  ASSUME TrackerTypeOK, NEW i \in DOMAIN sent
  PROVE  sent[i] \in Records /\ sent[i].op \in Ops \cup {""}
<1>1. sent[i] \in Records
  BY ElementOfSeq, LenProperties DEF TrackerTypeOK
<1> QED
  BY <1>1 DEF Records

(* A name forgotten once more, or not. *)
LEMMA ForgottenOnceMore ==
  ASSUME TrackerTypeOK, NEW p \in Ops, forgotten' = Append(forgotten, p), NEW o
  PROVE  timesForgotten(o)' = timesForgotten(o) + (IF o = p THEN 1 ELSE 0)
<1> DEFINE before == {i \in DOMAIN forgotten : forgotten[i] = o}
           after == {i \in DOMAIN forgotten' : forgotten'[i] = o}
           n == Len(forgotten) + 1
<1>1. /\ Len(forgotten) \in Nat /\ DOMAIN forgotten = 1 .. Len(forgotten)
      /\ DOMAIN forgotten' = 1 .. n /\ forgotten'[n] = p
      /\ \A i \in 1 .. Len(forgotten) : forgotten'[i] = forgotten[i]
  BY AppendProperties, LenProperties DEF TrackerTypeOK
<1>2. IsFiniteSet(before) /\ Cardinality(before) \in Nat
  <2>1. IsFiniteSet(1 .. Len(forgotten)) /\ before \subseteq 1 .. Len(forgotten)
    BY <1>1, FS_Interval
  <2> QED
    BY <2>1, FS_Subset, FS_CardinalityType
<1>5. timesForgotten(o) = Cardinality(before) /\ timesForgotten(o)' = Cardinality(after)
  BY DEF timesForgotten
<1>3. CASE o = p
  <2>1. after = before \cup {n} /\ n \notin before
    BY <1>1, <1>3
  <2>2. Cardinality(after) = Cardinality(before) + 1
    BY <2>1, <1>2, FS_AddElement
  <2> QED
    BY <2>2, <1>5, <1>3
<1>4. CASE o # p
  <2>1. after = before
    BY <1>1, <1>4
  <2> HIDE DEF before, after
  <2> QED
    BY <2>1, <1>5, <1>2, <1>4
<1> QED
  BY <1>3, <1>4

(* The records after one more. *)
LEMMA SentOnceMore ==
  ASSUME TrackerTypeOK, NEW record \in Records, sent' = Append(sent, record)
  PROVE  /\ Len(sent) \in Nat /\ DOMAIN sent = 1 .. Len(sent) /\ sent' \in Seq(Records)
         /\ DOMAIN sent' = 1 .. Len(sent) + 1 /\ sent'[Len(sent) + 1] = record
         /\ \A i \in 1 .. Len(sent) : sent'[i] = sent[i]
         /\ \A i \in DOMAIN sent' : sent'[i] = record \/ (i \in DOMAIN sent /\ sent'[i] = sent[i])
<1>1. /\ Len(sent) \in Nat /\ DOMAIN sent = 1 .. Len(sent) /\ sent' \in Seq(Records)
      /\ DOMAIN sent' = 1 .. Len(sent) + 1 /\ sent'[Len(sent) + 1] = record
      /\ \A i \in 1 .. Len(sent) : sent'[i] = sent[i]
  BY AppendProperties, LenProperties DEF TrackerTypeOK
<1>2. PICK n \in Nat : n = Len(sent)
  BY <1>1
<1>3. \A i \in 1 .. n + 1 : i = n + 1 \/ i \in 1 .. n
  BY <1>2
<1> QED
  BY <1>1, <1>2, <1>3

(* A record sent adds one to its operation's. *)
LEMMA RecordedOnceMore ==
  ASSUME TrackerTypeOK, NEW record \in Records, sent' = Append(sent, record), NEW o
  PROVE  recordsOf(o)' = recordsOf(o) + (IF o = record.op THEN 1 ELSE 0)
<1> DEFINE before == {i \in DOMAIN sent : sent[i].op = o}
           after == {i \in DOMAIN sent' : sent'[i].op = o}
           n == Len(sent) + 1
<1>1. /\ Len(sent) \in Nat /\ DOMAIN sent = 1 .. Len(sent)
      /\ DOMAIN sent' = 1 .. n /\ sent'[n] = record
      /\ \A i \in 1 .. Len(sent) : sent'[i] = sent[i]
  BY SentOnceMore
<1>2. IsFiniteSet(before) /\ Cardinality(before) \in Nat
  <2>1. IsFiniteSet(1 .. Len(sent)) /\ before \subseteq 1 .. Len(sent)
    BY <1>1, FS_Interval
  <2> QED
    BY <2>1, FS_Subset, FS_CardinalityType
<1>5. recordsOf(o) = Cardinality(before) /\ recordsOf(o)' = Cardinality(after)
  BY DEF recordsOf
<1>3. CASE o = record.op
  <2>1. after = before \cup {n} /\ n \notin before
    BY <1>1, <1>3
  <2>2. Cardinality(after) = Cardinality(before) + 1
    BY <2>1, <1>2, FS_AddElement
  <2> QED
    BY <2>2, <1>5, <1>3
<1>4. CASE o # record.op
  <2>1. after = before
    BY <1>1, <1>4
  <2> HIDE DEF before, after
  <2> QED
    BY <2>1, <1>5, <1>2, <1>4
<1> QED
  BY <1>3, <1>4

(* What a caller does next decides whether it is reporting, and what. *)
LEMMA Reporting ==
  ASSUME TrackerTypeOK, NEW c \in Callers, NEW d \in Doing, call' = [call EXCEPT ![c] = d]
  PROVE  /\ IsFiniteSet(Sending)' /\ call' \in [Callers -> Doing]
         /\ \A o : reporting(o)' = (reporting(o) \ {c})
                                    \cup (IF d.pc = "report" /\ d.op = o THEN {c} ELSE {})
<1>1. call' \in [Callers -> Doing] /\ call'[c] = d /\ \A k \in Callers \ {c} : call'[k] = call[k]
  BY DEF TrackerTypeOK
<1>2. Sending' \subseteq Sending \cup {c}
  BY <1>1 DEF Sending
<1>3. IsFiniteSet(Sending')
  BY <1>2, FS_AddElement, FS_Subset DEF TrackerTypeOK
<1>4. ASSUME NEW o
      PROVE  reporting(o)' = (reporting(o) \ {c}) \cup (IF d.pc = "report" /\ d.op = o THEN {c} ELSE {})
  BY <1>1 DEF reporting
<1> QED
  BY <1>1, <1>3, <1>4

(* --------------------------- under the lock ------------------------------ *)
(* A name joins the pending ones, or is one the tracker knows; those it had to *)
(* drop to make room are gone.                                                 *)
Remembers(o, from) ==
  /\ UNCHANGED <<settled, settledOrder, forgotten>> /\ evicted \subseteq evicted'
  /\ DOMAIN pending' \subseteq Ops \ settled /\ pending' \in [DOMAIN pending' -> Requests]
  /\ DOMAIN pending \cup {o} \subseteq DOMAIN pending' \cup evicted' \cup settled
  /\ \A x \in DOMAIN pending' :
       \/ x \in DOMAIN pending /\ pending'[x].settings = pending[x].settings
       \/ x = o /\ o \notin DOMAIN pending /\ o \notin settled /\ pending'[o].settings = from

(* Registering a name, evicting the oldest ones if there are too many. *)
LEMMA RegisterRemembers ==
  ASSUME TrackerTypeOK, RecordedNames, NEW o \in Ops, NEW from \in Froms,
         register(o, Request(from))
  PROVE  Remembers(o, from)
<1>1. UNCHANGED <<settled, settledOrder, forgotten>>
  BY DEF register
<1>2. CASE o \in settled \cup DOMAIN pending
  BY <1>1, <1>2 DEF register, Remembers, TrackerTypeOK, RecordedNames
<1>3. CASE o \notin settled \cup DOMAIN pending
  <2> DEFINE p == With(pending, o, Request(from))
             gone == Names(SubSeq(Append(pendingOrder, o), 1, popped(p, Append(pendingOrder, o))))
                       \cap DOMAIN p
  <2>1. pending' = Drop(p, gone) /\ evicted' = evicted \cup gone
    BY <1>3 DEF register, evictOldestPending
  <2>2. PICK dropped : dropped = gone
    OBVIOUS
  <2>3. pending' = Drop(p, dropped) /\ evicted' = evicted \cup dropped /\ dropped \subseteq DOMAIN p
    BY <2>1, <2>2
  <2>4. /\ DOMAIN p = DOMAIN pending \cup {o}
        /\ \A x \in DOMAIN p : p[x] = IF x = o THEN Request(from) ELSE pending[x]
    BY DEF With
  <2>5. Request(from) \in Requests /\ Request(from).settings = from
    BY DEF Request, Requests
  <2> HIDE DEF p, gone
  <2>6. /\ DOMAIN pending' = DOMAIN p \ dropped
        /\ \A x \in DOMAIN p \ dropped : pending'[x] = p[x]
        /\ pending' = [x \in DOMAIN pending' |-> pending'[x]]
    BY <2>3 DEF Drop
  <2>7. \A x \in DOMAIN pending' : pending'[x] = IF x = o THEN Request(from) ELSE pending[x]
    BY <2>4, <2>6
  <2>8. pending' \in [DOMAIN pending' -> Requests]
    BY <2>4, <2>5, <2>6, <2>7 DEF TrackerTypeOK
  <2>9. DOMAIN pending' \subseteq Ops \ settled
    BY <2>4, <2>6, <1>3 DEF TrackerTypeOK, RecordedNames
  <2>10. DOMAIN pending \cup {o} \subseteq DOMAIN pending' \cup evicted' \cup settled
    BY <2>3, <2>4, <2>6
  <2>11. \A x \in DOMAIN pending' :
           \/ x \in DOMAIN pending /\ pending'[x].settings = pending[x].settings
           \/ x = o /\ o \notin DOMAIN pending /\ o \notin settled /\ pending'[o].settings = from
    BY <2>4, <2>5, <2>6, <2>7, <1>3
  <2> QED
    BY <1>1, <2>3, <2>8, <2>9, <2>10, <2>11 DEF Remembers
<1> QED
  BY <1>2, <1>3

(* A wait attaches its fields to the submission it finds, or registers one.   *)
LEMMA WaitRemembers ==
  ASSUME TrackerTypeOK, RecordedNames, NEW o \in Ops, trackWait(o)
  PROVE  Remembers(o, "wait")
<1>1. CASE o \in DOMAIN pending
  <2>1. /\ pending' = [pending EXCEPT ![o].fields = "wait"]
        /\ UNCHANGED <<settled, settledOrder, forgotten, evicted>>
    BY <1>1 DEF trackWait
  <2>2. /\ DOMAIN pending' = DOMAIN pending
        /\ \A x \in DOMAIN pending : pending'[x] \in Requests /\ pending'[x].settings = pending[x].settings
        /\ pending' \in [DOMAIN pending' -> Requests]
    BY <1>1, <2>1 DEF TrackerTypeOK, Requests, Froms
  <2> QED
    BY <2>1, <2>2 DEF Remembers, TrackerTypeOK, RecordedNames
<1>2. CASE o \notin DOMAIN pending
  BY <1>2, RegisterRemembers DEF trackWait, Froms
<1> QED
  BY <1>1, <1>2

(* A name is recorded; the tracker may have to forget an older one.            *)
Settles(o) ==
  /\ o \notin settled /\ UNCHANGED evicted
  /\ DOMAIN pending' = DOMAIN pending \ {o} /\ pending' \in [DOMAIN pending' -> Requests]
  /\ \A x \in DOMAIN pending' : pending'[x] = pending[x]
  /\ \/ UNCHANGED forgotten /\ settled' = settled \cup {o}
     \/ \E p \in settled : forgotten' = Append(forgotten, p) /\ settled' = (settled \cup {o}) \ {p}
  /\ settledOrder' \in Seq(Ops) /\ RecordedNames'

(* Remembering a recorded name, at the limit in place of the oldest.          *)
LEMMA RememberSettles ==
  ASSUME TrackerTypeOK, RecordedNames, NEW o \in Ops, o \notin settled,
         pending' = Drop(pending, {o}), rememberSettled(o), UNCHANGED evicted
  PROVE  Settles(o)
<1> DEFINE order == Append(settledOrder, o)
<1>1. /\ Len(settledOrder) \in Nat /\ DOMAIN settledOrder = 1 .. Len(settledOrder)
      /\ order \in Seq(Ops) /\ Len(order) = Len(settledOrder) + 1
      /\ DOMAIN order = 1 .. Len(settledOrder) + 1 /\ order[Len(settledOrder) + 1] = o
      /\ \A i \in 1 .. Len(settledOrder) : order[i] = settledOrder[i]
  BY AppendProperties, LenProperties DEF TrackerTypeOK
<1>2. \A i \in DOMAIN settledOrder : settledOrder[i] \in settled /\ settledOrder[i] # o
  BY DEF RecordedNames, Names
<1>3. \A i, j \in DOMAIN order : order[i] = order[j] => i = j
  BY <1>1, <1>2 DEF RecordedNames
<1>4. Names(order) = settled \cup {o}
  BY <1>1 DEF RecordedNames, Names
<1>5. /\ DOMAIN pending' = DOMAIN pending \ {o} /\ \A x \in DOMAIN pending' : pending'[x] = pending[x]
      /\ pending' \in [DOMAIN pending' -> Requests]
  BY DEF Drop, TrackerTypeOK
<1>6. CASE ~(Len(order) > SettledLimit)
  <2>1. settledOrder' = order /\ settled' = settled \cup {o} /\ UNCHANGED forgotten
    BY <1>6 DEF rememberSettled
  <2>2. RecordedNames'
    BY <1>3, <1>4, <1>5, <2>1 DEF RecordedNames
  <2> QED
    BY <1>1, <1>5, <2>1, <2>2 DEF Settles
<1>7. CASE Len(order) > SettledLimit
  <2>1. /\ settledOrder' = Tail(order) /\ settled' = (settled \cup {o}) \ {order[1]}
        /\ forgotten' = Append(forgotten, order[1])
    BY <1>7 DEF rememberSettled
  <2>2. Len(settledOrder) >= 1
    <3>1. SettledLimit \in Nat /\ SettledLimit # 0
      BY VideoLimits
    <3> HIDE DEF order
    <3> QED
      BY <1>1, <1>7, <3>1
  <2>3. order[1] \in settled
    BY <1>1, <1>2, <2>2
  <2>4. /\ Tail(order) \in Seq(Ops) /\ Len(Tail(order)) = Len(settledOrder)
        /\ DOMAIN Tail(order) = 1 .. Len(settledOrder)
        /\ \A i \in 1 .. Len(settledOrder) : Tail(order)[i] = order[i + 1]
    BY <1>1, HeadTailProperties, LenProperties
  <2> HIDE DEF order
  <2>5. \A i, j \in DOMAIN Tail(order) : Tail(order)[i] = Tail(order)[j] => i = j
    BY <1>1, <1>3, <2>4
  <2>6. Names(Tail(order)) = Names(order) \ {order[1]}
    <3>1. ASSUME NEW x \in Names(Tail(order)) PROVE x \in Names(order) \ {order[1]}
      <4>1. PICK i \in 1 .. Len(settledOrder) : x = order[i + 1]
        BY <2>4, <3>1 DEF Names
      <4> QED
        BY <1>1, <1>3, <4>1 DEF Names
    <3>2. ASSUME NEW x \in Names(order) \ {order[1]} PROVE x \in Names(Tail(order))
      <4>1. PICK i \in DOMAIN order : x = order[i] /\ i # 1
        BY <3>2 DEF Names
      <4>2. i - 1 \in 1 .. Len(settledOrder) /\ Tail(order)[i - 1] = order[i]
        BY <1>1, <2>4, <4>1
      <4> QED
        BY <2>4, <4>1, <4>2 DEF Names
    <3> QED
      BY <3>1, <3>2
  <2>7. RecordedNames'
    BY <1>4, <1>5, <2>1, <2>5, <2>6 DEF RecordedNames
  <2> QED
    BY <1>5, <2>1, <2>3, <2>4, <2>7 DEF Settles
<1> QED
  BY <1>6, <1>7

(* What the tracker knows of a name it does not lose. *)
NothingLost ==
  \A o \in Ops : (Gone(o) => Gone(o)') /\ (Ended(o) => Ended(o)') /\ (Tracked(o) => Tracked(o)')

(* No step loses what the tracker knows of a name. *)
LEMMA UnchangedLosesNothing == TrackerTypeOK /\ UNCHANGED tracker => NothingLost
  BY DEF NothingLost, tracker, Gone, Ended, Tracked, timesForgotten

(* Eviction moves names from the pending to the gone. *)
LEMMA RemembersLosesNothing ==
  ASSUME TrackerTypeOK, NEW o \in Ops, NEW from, Remembers(o, from)
  PROVE  NothingLost /\ Tracked(o)'
<1>1. \A x : timesForgotten(x)' = timesForgotten(x)
  BY DEF Remembers, timesForgotten
<1>2. \A x \in Ops : (Gone(x) => Gone(x)') /\ (Ended(x) => Ended(x)')
  BY <1>1 DEF Remembers, Gone, Ended
<1>3. \A x \in Ops : Tracked(x) => Tracked(x)'
  BY <1>2 DEF Remembers, Gone, Ended, Tracked
<1>4. Tracked(o)'
  BY DEF Remembers, Gone, Ended, Tracked
<1> QED
  BY <1>2, <1>3, <1>4 DEF NothingLost

(* Recording moves one name to the recorded, and may move one to the gone.     *)
LEMMA SettlesLosesNothing ==
  ASSUME TrackerTypeOK, RecordedNames, NEW o \in Ops, Settles(o)
  PROVE  /\ NothingLost /\ Ended(o)'
         /\ \A x \in Ops : timesForgotten(x)' + (IF x \in settled' THEN 1 ELSE 0)
              = timesForgotten(x) + (IF x \in settled THEN 1 ELSE 0) + (IF x = o THEN 1 ELSE 0)
<1>0. \A x : timesForgotten(x) \in Nat
  BY CountsAreNumbers
<1>1. CASE UNCHANGED forgotten /\ settled' = settled \cup {o}
  <2>1. \A x : timesForgotten(x)' = timesForgotten(x)
    BY <1>1 DEF timesForgotten
  <2>2. \A x \in Ops : (Gone(x) => Gone(x)') /\ (Ended(x) => Ended(x)')
    BY <1>1, <2>1 DEF Settles, Gone, Ended
  <2>3. Ended(o)'
    BY <1>1 DEF Ended
  <2>4. \A x \in Ops : Tracked(x) => Tracked(x)'
    BY <2>2, <2>3 DEF Settles, Tracked
  <2> QED
    BY <1>0, <1>1, <2>1, <2>2, <2>3, <2>4 DEF NothingLost, Settles
<1>2. ASSUME NEW p \in settled, forgotten' = Append(forgotten, p), settled' = (settled \cup {o}) \ {p}
      PROVE  /\ NothingLost /\ Ended(o)'
             /\ \A x \in Ops : timesForgotten(x)' + (IF x \in settled' THEN 1 ELSE 0)
                  = timesForgotten(x) + (IF x \in settled THEN 1 ELSE 0) + (IF x = o THEN 1 ELSE 0)
  <2>0. p \in Ops /\ p # o
    BY DEF TrackerTypeOK, RecordedNames, Names, Settles
  <2>1. \A x : timesForgotten(x)' = timesForgotten(x) + (IF x = p THEN 1 ELSE 0)
    BY <1>2, <2>0, ForgottenOnceMore
  <2>2. \A x \in Ops : (Gone(x) => Gone(x)') /\ (Ended(x) => Ended(x)')
    BY <1>0, <1>2, <2>1 DEF Settles, Gone, Ended
  <2>3. Ended(o)'
    BY <1>2, <2>0 DEF Ended
  <2>4. \A x \in Ops : Tracked(x) => Tracked(x)'
    BY <2>2, <2>3 DEF Settles, Tracked
  <2>5. \A x \in Ops : timesForgotten(x)' + (IF x \in settled' THEN 1 ELSE 0)
              = timesForgotten(x) + (IF x \in settled THEN 1 ELSE 0) + (IF x = o THEN 1 ELSE 0)
    BY <1>0, <1>2, <2>0, <2>1 DEF Settles
  <2> QED
    BY <2>2, <2>3, <2>4, <2>5 DEF NothingLost
<1> QED
  BY <1>1, <1>2 DEF Settles

(* ------------------------------- the steps ------------------------------- *)
(* What a caller may be about to do. *)
LEMMA DoingTypes ==
  ASSUME NEW d \in Doing
  PROVE  /\ d.pc \in {"wait", "track", "settle", "report"} => d.op \in Ops
         /\ d.pc = "report" => d.request \in Requests /\ d.next \in Onward
  BY DEF Doing, Idle

(* The one caller that moves is looked at; what the others rely on stays.     *)
LEMMA OneCallerMoves ==
  ASSUME TrackerTypeOK, CallersFit, NothingLost,
         NEW c \in Callers, NEW d \in Doing, call' = [call EXCEPT ![c] = d], Fits(d)'
  PROVE  CallersFit'
<1> SUFFICES ASSUME NEW k \in Callers PROVE Fits(call[k])'
  BY DEF CallersFit
<1>1. CASE k = c
  <2>1. call'[k] = d
    BY <1>1 DEF TrackerTypeOK
  <2> QED
    BY <2>1 DEF Fits, Excused, Tracked, Ended, Gone, timesForgotten
<1>2. CASE k # c
  <2>1. PICK e : e = call[k]
    OBVIOUS
  <2>2. e \in Doing /\ Fits(e) /\ call'[k] = e
    BY <1>2, <2>1 DEF CallersFit, TrackerTypeOK
  <2>3. Fits(e)'
    BY <2>2, DoingTypes DEF Fits, Excused, NothingLost
  <2> QED
    BY <2>2, <2>3 DEF Fits, Excused, Tracked, Ended, Gone, timesForgotten
<1> QED
  BY <1>1, <1>2

(* Who reports what, and so what is counted, as long as nobody reports.       *)
LEMMA NobodyReports ==
  ASSUME TrackerTypeOK, RecordsCounted, UNCHANGED <<settled, forgotten>>,
         NEW c \in Callers, NEW d \in Doing, call' = [call EXCEPT ![c] = d],
         call[c].pc # "report", d.pc # "report",
         \A o \in Ops : recordsOf(o)' = recordsOf(o)
  PROVE  RecordsCounted'
<1>1. \A o : reporting(o)' = reporting(o)
  <2> TAKE o
  <2>1. reporting(o)' = (reporting(o) \ {c}) \cup (IF d.pc = "report" /\ d.op = o THEN {c} ELSE {})
    BY Reporting
  <2>2. c \notin reporting(o)
    BY DEF reporting
  <2> QED
    BY <2>1, <2>2
<1>2. \A o : timesForgotten(o)' = timesForgotten(o)
  BY DEF timesForgotten
<1> QED
  BY <1>1, <1>2 DEF RecordsCounted

(* A submission or a wait: what the tracker remembers is the caller's due.    *)
LEMMA RememberingKeepsInv ==
  ASSUME TrackerInv, NEW c \in Callers, NEW o \in Ops, NEW from \in Froms, NEW d \in Doing,
         Remembers(o, from), from = "submit" \/ o \in Foreign \/ Tracked(o),
         call' = [call EXCEPT ![c] = d], d = Idle \/ (d.pc \in {"settle", "wait"} /\ d.op = o),
         call[c] = Idle \/ (call[c].pc = "track" /\ call[c].op = o),
         UNCHANGED <<google, sent>>, told' = told
  PROVE  TrackerInv'
<1> USE DEF TrackerInv
<1>1. NothingLost /\ Tracked(o)'
  BY RemembersLosesNothing
<1>2. call[c].pc # "report" /\ d.pc # "report" /\ Idle.pc = "idle"
  BY DEF Idle
<1>3. TrackerTypeOK'
  BY Reporting DEF TrackerTypeOK, Remembers
<1>4. RecordedNames'
  BY DEF RecordedNames, Remembers
<1>5. RecordsCounted'
  BY <1>2, NobodyReports DEF Remembers, recordsOf
<1>6. ToldEnded'
  BY <1>1 DEF ToldEnded, NothingLost
<1>7. KnownTracked'
  <2> SUFFICES ASSUME NEW x \in Ops \ Foreign, google[x] # "absent", ~Tracked(x)'
               PROVE  \E k \in Callers : call'[k].pc = "track" /\ call'[k].op = x
    BY DEF KnownTracked
  <2>1. x # o /\ ~Tracked(x)
    BY <1>1 DEF NothingLost
  <2>2. PICK k \in Callers : call[k].pc = "track" /\ call[k].op = x
    BY <2>1 DEF KnownTracked
  <2>3. k # c
    BY <2>1, <2>2 DEF Idle
  <2> QED
    BY <2>2, <2>3 DEF TrackerTypeOK
<1>8. PendingExcused'
  <2> SUFFICES ASSUME NEW x \in DOMAIN pending' PROVE Excused(x, pending[x])'
    BY DEF PendingExcused
  <2>0. x \in Ops
    BY DEF Remembers
  <2>1. CASE x \in DOMAIN pending /\ pending'[x].settings = pending[x].settings
    BY <1>1, <2>0, <2>1 DEF PendingExcused, Excused, NothingLost
  <2>2. CASE x = o /\ o \notin DOMAIN pending /\ o \notin settled /\ pending'[o].settings = from
    BY <1>1, <2>2 DEF Excused, NothingLost, Tracked, Ended
  <2> QED
    BY <2>1, <2>2 DEF Remembers
<1>9. SentExcused'
  <2>1. \A i \in DOMAIN sent : sent[i].op \in Ops \cup {""}
    BY RecordTypes
  <2> QED
    BY <1>1, <2>1 DEF SentExcused, Excused, NothingLost
<1>10. CallersFit'
  <2>1. Fits(d)'
    BY <1>1, <1>2 DEF Fits
  <2> QED
    BY <1>1, <2>1, OneCallerMoves
<1> QED
  BY <1>3, <1>4, <1>5, <1>6, <1>7, <1>8, <1>9, <1>10

(* An answer that an operation is finished: it is recorded now, was recorded,  *)
(* or is excused.                                                              *)
LEMMA ObservingKeepsInv ==
  ASSUME TrackerInv, NEW c \in Callers, NEW o \in Ops, NEW next \in Onward,
         NEW unknown \in SUBSET Requests, settleWith(c, o, unknown, next),
         next = Idle \/ (next.pc = "settle" /\ next.op = o /\ Tracked(o)),
         call[c].pc \notin {"report", "track"},
         unknown = {} => Tracked(o),
         unknown # {} => o \in Foreign \/ Tracked(o),
         UNCHANGED <<google, sent>>
  PROVE  TrackerInv'
<1> USE DEF TrackerInv
<1>0. next \in Doing /\ next.pc # "report" /\ Idle.pc = "idle" /\ told' = told \cup {o}
  BY DEF Doing, Onward, Idle, settleWith
<1>1. CASE requestFor(o, unknown) = {}
  <2>1. UNCHANGED tracker /\ call' = [call EXCEPT ![c] = next]
    BY <1>1 DEF settleWith
  <2>2. Ended(o)
    BY <1>1 DEF requestFor, Tracked, Ended
  <2>3. NothingLost
    BY <2>1, UnchangedLosesNothing
  <2>4. TrackerTypeOK'
    BY <1>0, <2>1, Reporting DEF TrackerTypeOK, tracker
  <2>5. RecordedNames'
    BY <2>1 DEF RecordedNames, tracker
  <2>6. RecordsCounted'
    BY <1>0, <2>1, NobodyReports DEF recordsOf, tracker
  <2>7. ToldEnded'
    BY <1>0, <2>2, <2>3 DEF ToldEnded, NothingLost
  <2>8. KnownTracked'
    <3> SUFFICES ASSUME NEW x \in Ops \ Foreign, google[x] # "absent", ~Tracked(x)'
                 PROVE  \E k \in Callers : call'[k].pc = "track" /\ call'[k].op = x
      BY DEF KnownTracked
    <3>1. PICK k \in Callers : call[k].pc = "track" /\ call[k].op = x
      BY <2>3 DEF KnownTracked, NothingLost
    <3> QED
      BY <2>1, <3>1 DEF TrackerTypeOK
  <2>9. PendingExcused'
    BY <2>1 DEF PendingExcused, Excused, Gone, timesForgotten, tracker
  <2>10. SentExcused'
    BY <2>1 DEF SentExcused, Excused, Gone, timesForgotten, tracker
  <2>11. CallersFit'
    <3>1. Fits(next)'
      BY <1>0, <2>3 DEF Fits, NothingLost
    <3> QED
      BY <1>0, <2>1, <2>3, <3>1, OneCallerMoves
  <2> QED
    BY <2>4, <2>5, <2>6, <2>7, <2>8, <2>9, <2>10, <2>11
<1>2. CASE requestFor(o, unknown) # {}
  <2>1. PICK r \in requestFor(o, unknown) :
          call' = [call EXCEPT ![c] = [pc |-> "report", op |-> o, request |-> r, next |-> next]]
    BY <1>2 DEF settleWith
  <2>2. PICK d : d = [pc |-> "report", op |-> o, request |-> r, next |-> next]
    OBVIOUS
  <2>3. r \in Requests /\ o \notin settled /\ Excused(o, r)
    <3>1. CASE o \in DOMAIN pending
      BY <3>1 DEF requestFor, RecordedNames, PendingExcused, TrackerTypeOK
    <3>2. CASE o \notin DOMAIN pending
      BY <3>2, <1>2 DEF requestFor, Excused, Tracked, Ended
    <3> QED
      BY <3>1, <3>2
  <2>4. /\ d \in Doing /\ call' = [call EXCEPT ![c] = d]
        /\ d.pc = "report" /\ d.op = o /\ d.request = r /\ d.next = next
    BY <2>1, <2>2, <2>3 DEF Doing
  <2>5. Settles(o)
    BY <1>2, <2>3, RememberSettles DEF settleWith
  <2>6. /\ NothingLost /\ Ended(o)'
        /\ \A x \in Ops : timesForgotten(x)' + (IF x \in settled' THEN 1 ELSE 0)
             = timesForgotten(x) + (IF x \in settled THEN 1 ELSE 0) + (IF x = o THEN 1 ELSE 0)
    BY <2>5, SettlesLosesNothing
  <2>7. TrackerTypeOK'
    <3>1. IsFiniteSet(Sending)' /\ call' \in [Callers -> Doing]
      BY <2>4, Reporting
    <3>2. forgotten' \in Seq(Ops)
      <4>1. CASE UNCHANGED forgotten
        BY <4>1 DEF TrackerTypeOK
      <4>2. ASSUME NEW p \in settled, forgotten' = Append(forgotten, p)
            PROVE  forgotten' \in Seq(Ops)
        <5>1. p \in Ops
          BY DEF RecordedNames, Names, TrackerTypeOK
        <5> QED
          BY <4>2, <5>1, AppendProperties DEF TrackerTypeOK
      <4> QED
        BY <2>5, <4>1, <4>2 DEF Settles
    <3> QED
      BY <2>5, <3>1, <3>2 DEF TrackerTypeOK, Settles
  <2>8. RecordedNames'
    BY <2>5 DEF Settles
  <2>9. RecordsCounted'
    <3> SUFFICES ASSUME NEW x \in Ops
                 PROVE  recordsOf(x)' + Cardinality(reporting(x)')
                          = timesForgotten(x)' + (IF x \in settled' THEN 1 ELSE 0)
      BY DEF RecordsCounted
    <3>1. recordsOf(x)' = recordsOf(x) /\ recordsOf(x) \in Nat
      BY CountsAreNumbers DEF recordsOf
    <3>2. reporting(x)' = (reporting(x) \ {c}) \cup (IF d.pc = "report" /\ d.op = x THEN {c} ELSE {})
      <4>1. \A y : reporting(y)' = (reporting(y) \ {c})
                                     \cup (IF d.pc = "report" /\ d.op = y THEN {c} ELSE {})
        BY <2>4, Reporting
      <4> QED
        BY <4>1
    <3>3. c \notin reporting(x)
      BY DEF reporting
    <3>4. reporting(x)' = IF x = o THEN reporting(x) \cup {c} ELSE reporting(x)
      BY <2>4, <3>2, <3>3
    <3>5. IsFiniteSet(reporting(x)) /\ Cardinality(reporting(x)) \in Nat
      BY CountsAreNumbers
    <3>6. Cardinality(reporting(x)') = Cardinality(reporting(x)) + (IF x = o THEN 1 ELSE 0)
      <4>1. CASE x = o
        <5>1. reporting(x)' = reporting(x) \cup {c}
          BY <3>4, <4>1
        <5>2. Cardinality(reporting(x) \cup {c}) = Cardinality(reporting(x)) + 1
          BY <3>3, <3>5, FS_AddElement
        <5> QED
          BY <4>1, <5>1, <5>2
      <4>2. CASE x # o
        <5>1. reporting(x)' = reporting(x)
          BY <3>4, <4>2
        <5> QED
          BY <3>5, <4>2, <5>1
      <4> QED
        BY <4>1, <4>2
    <3>7. recordsOf(x) + Cardinality(reporting(x)) = timesForgotten(x) + (IF x \in settled THEN 1 ELSE 0)
      BY DEF RecordsCounted
    <3>8. timesForgotten(x) \in Nat
      BY CountsAreNumbers
    <3> QED
      BY <2>6, <3>1, <3>5, <3>6, <3>7, <3>8
  <2>10. ToldEnded'
    BY <1>0, <2>6 DEF ToldEnded, NothingLost
  <2>11. KnownTracked'
    <3> SUFFICES ASSUME NEW x \in Ops \ Foreign, google[x] # "absent", ~Tracked(x)'
                 PROVE  \E k \in Callers : call'[k].pc = "track" /\ call'[k].op = x
      BY DEF KnownTracked
    <3>1. PICK k \in Callers : call[k].pc = "track" /\ call[k].op = x
      BY <2>6 DEF KnownTracked, NothingLost
    <3> QED
      BY <2>4, <3>1 DEF TrackerTypeOK
  <2>12. PendingExcused'
    <3> SUFFICES ASSUME NEW x \in DOMAIN pending' PROVE Excused(x, pending[x])'
      BY DEF PendingExcused
    <3>1. x \in Ops /\ x \in DOMAIN pending /\ pending'[x] = pending[x]
      BY <2>5 DEF Settles, TrackerTypeOK
    <3> QED
      BY <2>6, <3>1 DEF PendingExcused, Excused, NothingLost
  <2>13. SentExcused'
    BY <2>6, RecordTypes DEF SentExcused, Excused, NothingLost
  <2>14. CallersFit'
    <3>1. Fits(d)'
      BY <1>0, <2>3, <2>4, <2>6 DEF Fits, Excused, NothingLost, Tracked
    <3> QED
      BY <2>4, <2>6, <3>1, OneCallerMoves
  <2> QED
    BY <2>7, <2>8, <2>9, <2>10, <2>11, <2>12, <2>13, <2>14
<1> QED
  BY <1>1, <1>2

(* A record is sent: one caller less reports its operation, one record more.   *)
LEMMA ReportKeepsInv ==
  ASSUME TrackerInv, NEW c \in Callers, Report(c)
  PROVE  TrackerInv'
<1> USE DEF TrackerInv
<1>1. PICK d : d = call[c]
  OBVIOUS
<1>2. PICK record : record = [op |-> d.op, request |-> d.request]
  OBVIOUS
<1>3. /\ d \in Doing /\ d.pc = "report" /\ Fits(d) /\ d.op \in Ops /\ d.op # ""
      /\ d.next \in Onward /\ d.next \in Doing /\ d.next.pc # "report" /\ Idle.pc = "idle"
      /\ record \in Records /\ record.op = d.op /\ record.request = d.request
  <2>1. d \in Doing /\ d.pc = "report" /\ Fits(d)
    BY <1>1 DEF Report, TrackerTypeOK, CallersFit
  <2>2. d.op \in Ops /\ d.request \in Requests /\ d.next \in Onward
    BY <2>1, DoingTypes
  <2>3. d.next \in Doing /\ d.next.pc # "report" /\ Idle.pc = "idle"
    BY <2>2 DEF Onward, Doing, Idle
  <2> QED
    BY <1>2, <2>1, <2>2, <2>3, VideoLimits DEF Records
<1>4. /\ sent' = Append(sent, record) /\ call' = [call EXCEPT ![c] = d.next]
      /\ UNCHANGED <<google, tracker, told>>
  BY <1>1, <1>2 DEF Report
<1>5. NothingLost /\ Excused(d.op, d.request)
  BY <1>3, <1>4, UnchangedLosesNothing DEF Fits
<1>6. TrackerTypeOK'
  <2>1. IsFiniteSet(Sending)' /\ call' \in [Callers -> Doing]
    BY <1>3, <1>4, Reporting
  <2>2. sent' \in Seq(Records)
    BY <1>3, <1>4, SentOnceMore
  <2> QED
    BY <1>4, <2>1, <2>2 DEF TrackerTypeOK, tracker
<1>7. RecordedNames'
  BY <1>4 DEF RecordedNames, tracker
<1>8. RecordsCounted'
  <2> SUFFICES ASSUME NEW x \in Ops
               PROVE  recordsOf(x)' + Cardinality(reporting(x)')
                        = timesForgotten(x)' + (IF x \in settled' THEN 1 ELSE 0)
    BY DEF RecordsCounted
  <2>1. recordsOf(x)' = recordsOf(x) + (IF x = record.op THEN 1 ELSE 0) /\ recordsOf(x) \in Nat
    BY <1>3, <1>4, RecordedOnceMore, CountsAreNumbers
  <2>2. reporting(x)' = (reporting(x) \ {c}) \cup (IF d.next.pc = "report" /\ d.next.op = x THEN {c} ELSE {})
    BY <1>3, <1>4, Reporting
  <2>3. reporting(x)' = reporting(x) \ {c}
    BY <1>3, <2>2
  <2>4. IsFiniteSet(reporting(x)) /\ Cardinality(reporting(x)) \in Nat
    BY CountsAreNumbers
  <2>5. c \in reporting(x) <=> x = d.op
    BY <1>1, <1>3 DEF reporting
  <2>6. Cardinality(reporting(x)') = Cardinality(reporting(x)) - (IF x = d.op THEN 1 ELSE 0)
    <3>1. CASE x = d.op
      <4>1. c \in reporting(x)
        BY <2>5, <3>1
      <4> QED
        BY <2>3, <2>4, <3>1, <4>1, FS_RemoveElement
    <3>2. CASE x # d.op
      <4>1. reporting(x)' = reporting(x)
        BY <2>3, <2>5, <3>2
      <4> QED
        BY <2>4, <3>2, <4>1
    <3> QED
      BY <3>1, <3>2
  <2>7. recordsOf(x) + Cardinality(reporting(x)) = timesForgotten(x) + (IF x \in settled THEN 1 ELSE 0)
    BY DEF RecordsCounted
  <2>8. timesForgotten(x) \in Nat /\ timesForgotten(x)' = timesForgotten(x) /\ settled' = settled
    BY <1>4, CountsAreNumbers DEF timesForgotten, tracker
  <2>9. /\ recordsOf(x)' = recordsOf(x) + (IF x = d.op THEN 1 ELSE 0)
        /\ x = d.op => Cardinality(reporting(x)) # 0
    <3>1. x = d.op => Cardinality(reporting(x)) # 0
      BY <2>4, <2>5, FS_EmptySet
    <3> QED
      BY <1>3, <2>1, <3>1
  <2>10. PICK n, m : n = recordsOf(x) /\ m = Cardinality(reporting(x))
    OBVIOUS
  <2> QED
    BY <2>1, <2>4, <2>6, <2>7, <2>8, <2>9, <2>10
<1>9. ToldEnded'
  BY <1>4, <1>5 DEF ToldEnded, NothingLost
<1>10. KnownTracked'
  <2> SUFFICES ASSUME NEW x \in Ops \ Foreign, google'[x] # "absent", ~Tracked(x)'
               PROVE  \E k \in Callers : call'[k].pc = "track" /\ call'[k].op = x
    BY DEF KnownTracked
  <2>1. PICK k \in Callers : call[k].pc = "track" /\ call[k].op = x
    BY <1>4, <1>5 DEF KnownTracked, NothingLost
  <2> QED
    BY <1>1, <1>3, <1>4, <2>1 DEF TrackerTypeOK
<1>11. PendingExcused'
  BY <1>4 DEF PendingExcused, Excused, Gone, timesForgotten, tracker
<1>12. SentExcused'
  <2> SUFFICES ASSUME NEW i \in DOMAIN sent', sent'[i].op # ""
               PROVE  Excused(sent[i].op, sent[i].request)'
    BY DEF SentExcused
  <2>1. sent'[i] = record \/ (i \in DOMAIN sent /\ sent'[i] = sent[i])
    BY <1>3, <1>4, SentOnceMore
  <2>2. CASE sent'[i] = record
    <3>1. Excused(record.op, record.request)
      BY <1>3, <1>5
    <3>2. Excused(record.op, record.request)'
      BY <1>4, <3>1 DEF Excused, Gone, timesForgotten, tracker
    <3> QED
      BY <2>2, <3>2 DEF Excused, Gone, timesForgotten
  <2>3. CASE i \in DOMAIN sent /\ sent'[i] = sent[i]
    BY <1>4, <2>3 DEF SentExcused, Excused, Gone, timesForgotten, tracker
  <2> QED
    BY <2>1, <2>2, <2>3
<1>13. CallersFit'
  <2>1. PICK e : e = d.next
    OBVIOUS
  <2>2. e.pc = "report" => FALSE
    BY <1>3, <2>1
  <2>3. e.pc = "settle" => Tracked(e.op)'
    BY <1>3, <1>5, <2>1 DEF Fits, NothingLost, Idle
  <2>4. e.pc # "wait"
    BY <1>3, <2>1 DEF Onward, Idle
  <2>5. Fits(e)'
    BY <2>2, <2>3, <2>4 DEF Fits
  <2> QED
    BY <1>3, <1>4, <1>5, <2>1, <2>5, OneCallerMoves
<1> QED
  BY <1>6, <1>7, <1>8, <1>9, <1>10, <1>11, <1>12, <1>13

(* A call that leaves the tracker and the records as they are. *)
LEMMA QuietCall ==
  ASSUME TrackerInv, NEW c \in Callers, NEW d \in Doing,
         call' = [call EXCEPT ![c] = d], call[c].pc \notin {"report", "track"},
         \/ d = Idle \/ (d.pc = "track" /\ google'[d.op] # "absent")
         \/ d.pc = "settle" /\ Tracked(d.op),
         google' \in [Ops -> {"absent", "running", "done"}],
         \A o \in Ops : google'[o] = google[o] \/ (d.pc = "track" /\ d.op = o),
         UNCHANGED <<tracker, told>>,
         sent' \in Seq(Records), \A o \in Ops : recordsOf(o)' = recordsOf(o), SentExcused'
  PROVE  TrackerInv'
<1> USE DEF TrackerInv
<1>1. NothingLost /\ d.pc \notin {"report", "wait"}
  BY UnchangedLosesNothing DEF Idle
<1>2. TrackerTypeOK'
  <2>1. IsFiniteSet(Sending)' /\ call' \in [Callers -> Doing]
    BY Reporting
  <2> QED
    BY <2>1 DEF TrackerTypeOK, tracker
<1>3. RecordedNames'
  BY DEF RecordedNames, tracker
<1>4. RecordsCounted'
  BY <1>1, NobodyReports DEF tracker
<1>5. ToldEnded'
  BY <1>1 DEF ToldEnded, NothingLost
<1>6. KnownTracked'
  <2> SUFFICES ASSUME NEW x \in Ops \ Foreign, google'[x] # "absent", ~Tracked(x)'
               PROVE  \E k \in Callers : call'[k].pc = "track" /\ call'[k].op = x
    BY DEF KnownTracked
  <2>1. CASE d.pc = "track" /\ d.op = x
    BY <2>1 DEF TrackerTypeOK
  <2>2. CASE google'[x] = google[x]
    <3>1. PICK k \in Callers : call[k].pc = "track" /\ call[k].op = x
      BY <1>1, <2>2 DEF KnownTracked, NothingLost
    <3> QED
      BY <3>1 DEF TrackerTypeOK
  <2> QED
    BY <2>1, <2>2
<1>7. PendingExcused'
  BY DEF PendingExcused, Excused, Gone, timesForgotten, tracker
<1>8. CallersFit'
  <2>1. d.pc = "settle" => d.op \in Ops /\ Tracked(d.op)'
    BY <1>1, DoingTypes DEF NothingLost, Idle
  <2>2. Fits(d)'
    BY <1>1, <2>1 DEF Fits
  <2> QED
    BY <1>1, <2>2, OneCallerMoves
<1> QED
  BY <1>2, <1>3, <1>4, <1>5, <1>6, <1>7, <1>8

(* Every step keeps the invariant: one case for each action of the callers and *)
(* for Google finishing an operation.                                         *)
LEMMA TrackerStep ==
  ASSUME TrackerInv, [VideoNext]_vvars
  PROVE  TrackerInv'
<1> USE DEF TrackerInv
<1>1. CASE UNCHANGED vvars
  <2>1. UNCHANGED <<google, tracker, call, sent, told>> /\ NothingLost
    BY <1>1, UnchangedLosesNothing DEF vvars
  <2>2. TrackerTypeOK' /\ RecordedNames'
    BY <2>1 DEF tracker, TrackerTypeOK, Sending, RecordedNames
  <2>3. RecordsCounted'
    BY <2>1 DEF tracker, RecordsCounted, recordsOf, reporting, timesForgotten
  <2>4. ToldEnded' /\ KnownTracked'
    BY <2>1 DEF ToldEnded, KnownTracked, NothingLost
  <2>5. PendingExcused' /\ SentExcused'
    BY <2>1 DEF tracker, PendingExcused, SentExcused, Excused, Gone, timesForgotten
  <2>6. CallersFit'
    BY <2>1 DEF tracker, CallersFit, Fits, Excused, Tracked, Ended, Gone, timesForgotten
  <2> QED
    BY <2>2, <2>3, <2>4, <2>5, <2>6
<1>2. ASSUME NEW c \in Callers, Track(c) PROVE TrackerInv'
  <2>1. PICK o : o = call[c].op
    OBVIOUS
  <2>2. o \in Ops
    BY <1>2, <2>1, DoingTypes DEF Track, TrackerTypeOK
  <2>3. Remembers(o, "submit")
    BY <1>2, <2>1, <2>2, RegisterRemembers DEF Track, Froms
  <2>4. PICK d : d = IF google[o] = "done" THEN [pc |-> "settle", op |-> o] ELSE Idle
    OBVIOUS
  <2>5. d \in Doing /\ (d = Idle \/ (d.pc = "settle" /\ d.op = o))
    BY <2>2, <2>4 DEF Doing
  <2>6. call' = [call EXCEPT ![c] = d] /\ UNCHANGED <<google, sent, told>> /\ call[c].pc = "track"
    BY <1>2, <2>1, <2>4 DEF Track
  <2> QED
    BY <2>1, <2>2, <2>3, <2>5, <2>6, RememberingKeepsInv DEF Froms
<1>3. ASSUME NEW c \in Callers, NEW o \in Ops, WaitForVideo(c, o) PROVE TrackerInv'
  <2>1. Remembers(o, "wait")
    BY <1>3, WaitRemembers DEF WaitForVideo
  <2>2. PICK done \in BOOLEAN :
          begin(c, IF done THEN [pc |-> "settle", op |-> o] ELSE [pc |-> "wait", op |-> o])
    BY <1>3 DEF WaitForVideo
  <2>3. PICK d : d = IF done THEN [pc |-> "settle", op |-> o] ELSE [pc |-> "wait", op |-> o]
    OBVIOUS
  <2>4. d \in Doing /\ d.pc \in {"settle", "wait"} /\ d.op = o
    BY <2>3 DEF Doing
  <2>5. call' = [call EXCEPT ![c] = d] /\ call[c] = Idle /\ UNCHANGED <<google, sent, told>>
    BY <1>3, <2>2, <2>3 DEF WaitForVideo, begin
  <2>6. o \in Foreign \/ Tracked(o)
    BY <1>3 DEF WaitForVideo, known, KnownTracked
  <2> QED
    BY <2>1, <2>4, <2>5, <2>6, RememberingKeepsInv DEF Froms
<1>4. \A o : /\ requestOfUnknownOperation(o) \in SUBSET Requests
             /\ requestOfUnknownOperation(o) = {} => o \in Unrecognised
  <2>1. Request("poll") \in Requests
    BY DEF Request, Requests, Froms
  <2> QED
    BY <2>1 DEF requestOfUnknownOperation
(* A poll the transport passes by leaves the tracker as it is. *)
<1>13. ASSUME NEW c \in Callers, NEW o \in Ops, NEW next \in Onward,
              next = Idle \/ (next.pc = "settle" /\ next.op = o /\ Tracked(o)),
              call[c].pc \notin {"report", "track"}, UNCHANGED <<google, sent>>,
              call' = [call EXCEPT ![c] = next], UNCHANGED <<tracker, told>>
       PROVE  TrackerInv'
  <2>1. SentExcused' /\ sent' \in Seq(Records) /\ \A x \in Ops : recordsOf(x)' = recordsOf(x)
    BY <1>13 DEF SentExcused, Excused, Gone, timesForgotten, tracker, recordsOf, TrackerTypeOK
  <2>2. next \in Doing /\ google' \in [Ops -> {"absent", "running", "done"}]
    BY <1>13 DEF Doing, Onward, TrackerTypeOK
  <2> QED
    BY <1>13, <2>1, <2>2, QuietCall
<1>5. ASSUME NEW c \in Callers, WaitPoll(c) PROVE TrackerInv'
  <2>1. PICK o : o = call[c].op
    OBVIOUS
  <2>2. o \in Ops /\ Tracked(o) /\ call[c].pc = "wait"
    BY <1>5, <2>1, DoingTypes DEF WaitPoll, TrackerTypeOK, CallersFit, Fits
  <2>3. PICK next : next = [pc |-> "settle", op |-> o]
    OBVIOUS
  <2>4. next \in Onward /\ next.pc = "settle" /\ next.op = o
    BY <2>2, <2>3 DEF Onward
  <2>5. observe(c, o, next) /\ UNCHANGED <<google, sent>>
    BY <1>5, <2>1, <2>3 DEF WaitPoll
  <2>6. PICK unknown : unknown = requestOfUnknownOperation(o)
    OBVIOUS
  <2>7. CASE settleWith(c, o, unknown, next)
    BY <1>4, <2>2, <2>4, <2>5, <2>6, <2>7, ObservingKeepsInv
  <2>8. CASE call' = [call EXCEPT ![c] = next] /\ UNCHANGED <<tracker, told>>
    BY <1>13, <2>2, <2>4, <2>5, <2>8
  <2> QED
    BY <2>5, <2>6, <2>7, <2>8 DEF observe
<1>6. ASSUME NEW c \in Callers, NEW o \in Ops, Poll(c, o) PROVE TrackerInv'
  <2>1. o \in Foreign \/ Tracked(o)
    BY <1>6 DEF Poll, known, KnownTracked
  <2>2. observe(c, o, Idle) /\ UNCHANGED <<google, sent>>
    BY <1>6 DEF Poll
  <2>3. call[c].pc = "idle" /\ Idle \in Onward
    BY <1>6 DEF Poll, Idle, Onward
  <2>4. PICK unknown : unknown = requestOfUnknownOperation(o)
    OBVIOUS
  <2>5. CASE o \notin Unrecognised /\ settleWith(c, o, unknown, Idle)
    BY <1>4, <2>1, <2>2, <2>3, <2>4, <2>5, ObservingKeepsInv
  <2>6. CASE call' = [call EXCEPT ![c] = Idle] /\ UNCHANGED <<tracker, told>>
    BY <1>13, <2>2, <2>3, <2>6
  <2> QED
    BY <2>2, <2>4, <2>5, <2>6 DEF observe
<1>7. ASSUME NEW c \in Callers, Settle(c) PROVE TrackerInv'
  <2>1. PICK o : o = call[c].op
    OBVIOUS
  <2>2. o \in Ops /\ Tracked(o) /\ call[c].pc = "settle"
    BY <1>7, <2>1, DoingTypes DEF Settle, TrackerTypeOK, CallersFit, Fits
  <2>3. settleWith(c, o, {}, Idle) /\ UNCHANGED <<google, sent>> /\ Idle \in Onward
    BY <1>7, <2>1 DEF Settle, Onward
  <2> QED
    BY <2>2, <2>3, ObservingKeepsInv
<1>8. ASSUME NEW c \in Callers, Report(c) PROVE TrackerInv'
  BY <1>8, ReportKeepsInv
<1>9. ASSUME NEW c \in Callers, WaitEnds(c) PROVE TrackerInv'
  <2>1. /\ call' = [call EXCEPT ![c] = Idle] /\ call[c].pc = "wait"
        /\ UNCHANGED <<google, tracker, sent, told>>
    BY <1>9 DEF WaitEnds
  <2>2. SentExcused' /\ sent' \in Seq(Records) /\ \A o \in Ops : recordsOf(o)' = recordsOf(o)
    BY <2>1 DEF SentExcused, Excused, Gone, timesForgotten, tracker, recordsOf, TrackerTypeOK
  <2>3. Idle \in Doing /\ google' \in [Ops -> {"absent", "running", "done"}]
    BY <2>1 DEF Doing, TrackerTypeOK
  <2> QED
    BY <2>1, <2>2, <2>3, QuietCall
<1>10. ASSUME NEW c \in Callers, SubmitRefused(c) PROVE TrackerInv'
  <2>1. /\ call' = [call EXCEPT ![c] = Idle] /\ call[c].pc = "idle" /\ Idle \in Doing
        /\ UNCHANGED <<google, tracker, told>>
    <3>1. begin(c, Idle) /\ UNCHANGED <<google, tracker, told>>
      BY <1>10 DEF SubmitRefused
    <3>2. call' = [call EXCEPT ![c] = Idle] /\ call[c] = Idle
      BY <3>1 DEF begin
    <3> QED
      BY <3>1, <3>2 DEF Idle, Doing
  <2>2. PICK record : record = [op |-> "", request |-> Request("submit")]
    OBVIOUS
  <2>3. record \in Records /\ record.op = ""
    BY <2>2 DEF Records, Request, Requests, Froms
  <2>4. UNCHANGED sent \/ sent' = Append(sent, record)
    BY <1>10, <2>2 DEF SubmitRefused
  <2>5. SentExcused' /\ sent' \in Seq(Records) /\ \A o \in Ops : recordsOf(o)' = recordsOf(o)
    <3>1. CASE UNCHANGED sent
      BY <2>1, <3>1 DEF SentExcused, Excused, Gone, timesForgotten, tracker, recordsOf, TrackerTypeOK
    <3>2. CASE sent' = Append(sent, record)
      <4>1. /\ sent' \in Seq(Records)
            /\ \A i \in DOMAIN sent' : sent'[i] = record \/ (i \in DOMAIN sent /\ sent'[i] = sent[i])
        BY <2>3, <3>2, SentOnceMore
      <4>2. \A o \in Ops : recordsOf(o)' = recordsOf(o)
        <5> TAKE o \in Ops
        <5>1. recordsOf(o) \in Nat /\ o # record.op
          BY <2>3, CountsAreNumbers, VideoLimits
        <5>2. recordsOf(o)' = recordsOf(o) + (IF o = record.op THEN 1 ELSE 0)
          BY <2>3, <3>2, RecordedOnceMore
        <5> QED
          BY <5>1, <5>2
      <4>3. SentExcused'
        <5> SUFFICES ASSUME NEW i \in DOMAIN sent', sent'[i].op # ""
                     PROVE  Excused(sent[i].op, sent[i].request)'
          BY DEF SentExcused
        <5>1. i \in DOMAIN sent /\ sent'[i] = sent[i]
          BY <2>3, <4>1
        <5> QED
          BY <2>1, <5>1 DEF SentExcused, Excused, Gone, timesForgotten, tracker
      <4> QED
        BY <4>1, <4>2, <4>3
    <3> QED
      BY <2>4, <3>1, <3>2
  <2>6. google' \in [Ops -> {"absent", "running", "done"}]
    BY <2>1 DEF TrackerTypeOK
  <2> QED
    BY <2>1, <2>5, <2>6, QuietCall
<1>11. ASSUME NEW c \in Callers, NEW o \in Ops, SubmitAccepted(c, o) PROVE TrackerInv'
  <2>1. PICK d : d = [pc |-> "track", op |-> o]
    OBVIOUS
  <2>2. PICK status \in {"running", "done"} : google' = [google EXCEPT ![o] = status]
    BY <1>11 DEF SubmitAccepted
  <2>3. /\ call' = [call EXCEPT ![c] = d] /\ call[c].pc = "idle" /\ UNCHANGED <<tracker, sent, told>>
    BY <1>11, <2>1 DEF SubmitAccepted, begin, Idle
  <2>4. d \in Doing /\ d.pc = "track" /\ d.op = o
    BY <2>1 DEF Doing
  <2>5. /\ google' \in [Ops -> {"absent", "running", "done"}] /\ google'[o] # "absent"
        /\ \A x \in Ops : google'[x] = google[x] \/ o = x
    BY <2>2 DEF TrackerTypeOK
  <2>6. SentExcused' /\ sent' \in Seq(Records) /\ \A x \in Ops : recordsOf(x)' = recordsOf(x)
    BY <2>3 DEF SentExcused, Excused, Gone, timesForgotten, tracker, recordsOf, TrackerTypeOK
  <2> QED
    BY <2>3, <2>4, <2>5, <2>6, QuietCall
<1>12. ASSUME NEW o \in Ops, Finish(o) PROVE TrackerInv'
  <2>1. /\ google' = [google EXCEPT ![o] = "done"] /\ google[o] = "running"
        /\ UNCHANGED <<tracker, call, sent, told>>
    BY <1>12 DEF Finish
  <2>2. /\ google' \in [Ops -> {"absent", "running", "done"}]
        /\ \A x \in Ops : google'[x] # "absent" => google[x] # "absent"
    BY <2>1 DEF TrackerTypeOK
  <2>3. NothingLost
    BY <2>1, UnchangedLosesNothing
  <2>4. KnownTracked'
    BY <2>1, <2>2, <2>3 DEF KnownTracked, NothingLost
  <2>5. TrackerTypeOK'
    BY <2>1, <2>2 DEF TrackerTypeOK, tracker, Sending
  <2>6. RecordedNames' /\ RecordsCounted' /\ PendingExcused' /\ SentExcused'
    BY <2>1 DEF tracker, RecordedNames, RecordsCounted, recordsOf, reporting, timesForgotten,
                PendingExcused, SentExcused, Excused, Gone
  <2>7. ToldEnded' /\ CallersFit'
    BY <2>1 DEF tracker, ToldEnded, CallersFit, Fits, Excused, Tracked, Ended, Gone, timesForgotten
  <2> QED
    BY <2>4, <2>5, <2>6, <2>7
<1> QED
  BY <1>1, <1>2, <1>3, <1>5, <1>6, <1>7, <1>8, <1>9, <1>10, <1>11, <1>12 DEF VideoNext, CallerStep

(* Nothing is pending, recorded or under way to begin with. *)
LEMMA TrackerStart == VideoInit => TrackerInv
<1> SUFFICES ASSUME VideoInit PROVE TrackerInv
  OBVIOUS
<1>1. /\ pending = <<>> /\ settledOrder = <<>> /\ sent = <<>> /\ forgotten = <<>>
      /\ settled = {} /\ told = {} /\ seen = {} /\ DOMAIN pending = {}
      /\ call = [c \in Callers |-> Idle] /\ google = [o \in Ops |-> IF o \in Foreign THEN "running" ELSE "absent"]
  BY DEF VideoInit
<1>2. /\ \A c \in Callers : call[c] = Idle /\ Idle.pc = "idle"
      /\ Sending = {} /\ \A o : reporting(o) = {}
  BY <1>1 DEF Idle, Sending, reporting
<1>3. \A o : recordsOf(o) = 0 /\ timesForgotten(o) = 0 /\ Cardinality(reporting(o)) = 0
  <2> TAKE o
  <2>1. {i \in DOMAIN sent : sent[i].op = o} = {} /\ {i \in DOMAIN forgotten : forgotten[i] = o} = {}
    BY <1>1
  <2> QED
    BY <1>2, <2>1, FS_EmptySet DEF recordsOf, timesForgotten
<1>4. TrackerTypeOK
  BY <1>1, <1>2, FS_EmptySet DEF TrackerTypeOK, Doing
<1>5. RecordedNames
  BY <1>1 DEF RecordedNames, Names
<1>6. RecordsCounted
  BY <1>1, <1>3 DEF RecordsCounted
<1>7. ToldEnded /\ PendingExcused /\ SentExcused
  BY <1>1 DEF ToldEnded, PendingExcused, SentExcused
<1>8. KnownTracked
  BY <1>1 DEF KnownTracked
<1>9. CallersFit
  BY <1>2 DEF CallersFit, Fits
<1> QED
  BY <1>4, <1>5, <1>6, <1>7, <1>8, <1>9 DEF TrackerInv

(* The invariant holds throughout. *)
LEMMA TrackerInvariant == VideoSpec => []TrackerInv
<1>1. TrackerInv /\ [VideoNext]_vvars => TrackerInv'
  BY TrackerStep
<1> QED
  BY <1>1, TrackerStart, PTL DEF VideoSpec

(* The application sees only what the tracker was told of, but for polls the    *)
(* transport passes by.                                                         *)
SeenTold == seen \ told \subseteq Unrecognised
LEMMA SeenToldStep ==
  ASSUME SeenTold, [VideoNext]_vvars
  PROVE  SeenTold'
<1>1. ASSUME NEW c \in Callers, Settle(c) PROVE SeenTold'
  BY <1>1 DEF Settle, settleWith, SeenTold
<1>2. ASSUME NEW c \in Callers, NEW o \in Ops, Poll(c, o) PROVE SeenTold'
  BY <1>2 DEF Poll, observe, settleWith, SeenTold
<1>3. ASSUME NEW c \in Callers, WaitPoll(c) PROVE SeenTold'
  BY <1>3 DEF WaitPoll, observe, settleWith, SeenTold
<1>4. CASE UNCHANGED <<told, seen>>
  BY <1>4 DEF SeenTold
<1>5. ASSUME NEW c \in Callers, Track(c) \/ Report(c) \/ WaitEnds(c) \/ SubmitRefused(c)
      PROVE  UNCHANGED <<told, seen>>
  BY <1>5 DEF Track, Report, WaitEnds, SubmitRefused
<1>6. ASSUME NEW c \in Callers, NEW o \in Ops, SubmitAccepted(c, o) \/ WaitForVideo(c, o)
      PROVE  UNCHANGED <<told, seen>>
  BY <1>6 DEF SubmitAccepted, WaitForVideo
<1>7. ASSUME NEW o \in Ops, Finish(o) PROVE UNCHANGED <<told, seen>>
  BY <1>7 DEF Finish
<1> QED
  BY <1>1, <1>2, <1>3, <1>4, <1>5, <1>6, <1>7 DEF VideoNext, CallerStep, vvars

(* For any callers, operations and limits: an operation the tracker was told is *)
(* finished has one record, and one more only for each time the tracker had to  *)
(* forget it; only an evicted one has none; and what the application saw finish *)
(* without the tracker's being told has a name that tells no Veo model (observe,*)
(* trackWait, settleWith, rememberSettled).                                     *)
THEOREM VideosAreRecordedOnce == VideoSpec => []SeenIsRecordedOnce
<1>1. ASSUME TrackerInv, SeenTold PROVE SeenIsRecordedOnce
  <2> SUFFICES ASSUME NEW o \in Ops
               PROVE  /\ recordsOf(o) + Cardinality(reporting(o)) <= 1 + timesForgotten(o)
                      /\ o \in told /\ recordsOf(o) + Cardinality(reporting(o)) = 0
                           => o \in evicted
    BY <1>1 DEF SeenIsRecordedOnce, SeenTold
  <2>1. /\ recordsOf(o) \in Nat /\ timesForgotten(o) \in Nat
        /\ recordsOf(o) + Cardinality(reporting(o)) = timesForgotten(o) + (IF o \in settled THEN 1 ELSE 0)
    BY <1>1, CountsAreNumbers DEF TrackerInv, RecordsCounted
  <2>2. o \in told => Ended(o)
    BY <1>1 DEF TrackerInv, ToldEnded
  <2> QED
    BY <2>1, <2>2 DEF Ended, Gone
<1>2. VideoInit => SeenTold
  BY DEF VideoInit, SeenTold
<1> QED
  BY <1>1, <1>2, SeenToldStep, TrackerInvariant, PTL DEF VideoSpec

(* For any callers, operations and limits: a record carries the settings of the *)
(* operation's own submission, unless the tracker never had them or had to drop *)
(* them (register, requestOfUnknownOperation).                                  *)
THEOREM VideosKeepTheirSettings == VideoSpec => []SubmissionSettingsKept
<1>1. TrackerInv => SubmissionSettingsKept
  BY DEF TrackerInv, SentExcused, Excused, Gone, SubmissionSettingsKept
<1> QED
  BY <1>1, TrackerInvariant, PTL
=============================================================================
