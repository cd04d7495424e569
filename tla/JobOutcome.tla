---------------------------- MODULE JobOutcome ----------------------------
(* Reporting and amending the outcome of one job (core/jobs/client.go) over a *)
(* network that loses answers: an attempt whose answer is lost may have been  *)
(* applied, may be applied later, or never.  Several callers, of this process *)
(* or of others, act on the job at once.                                      *)
EXTENDS Naturals, FiniteSets

CONSTANTS Reporters,      \* calls of ReportJobOutcome
          Writers,        \* calls of AmendJobOutcome and AppendOutcomeMetrics
          Contents,       \* what an outcome can say, its reporter apart
          Nobody,         \* ReportedBy left empty
          MaxRetries      \* RetryConfig.MaxRetries
Calls == Reporters \cup Writers
ASSUME JobAssumption == Reporters \cap Writers = {} /\ Nobody \notin Calls /\ MaxRetries \in Nat

VARIABLES sent,      \* the outcome each call carries
          job,       \* external: what Revenium holds of the job
          late,      \* external: lost requests of each call Revenium may yet apply
          applied,   \* history: how often Revenium applied a call
          call       \* each call: its stage, its retries and timeouts, and whether
                     \* an attempt already made may have been applied; history:
                     \* whether its look at the job failed
jvars == <<sent, job, late, applied, call>>

NoOutcome == [has |-> FALSE]
Begin == [stage |-> "sending", retries |-> 0, timeouts |-> 0, mayBeApplied |-> FALSE, unread |-> FALSE]
JobInit == /\ sent \in [Calls -> [content : Contents, by : Calls \cup {Nobody}, metrics : BOOLEAN]]
           /\ \A c \in Calls : sent[c].by \in {c, Nobody}
           /\ \A c \in Writers : sent[c].by = Nobody /\ ~sent[c].metrics
           /\ job = NoOutcome /\ late = [c \in Calls |-> 0] /\ applied = [c \in Calls |-> 0]
           /\ call = [c \in Calls |-> Begin]
go(c, stage) == call' = [call EXCEPT ![c] = [Begin EXCEPT !.stage = stage]]

(* ------------------------- Revenium (external) ---------------------------- *)
(* One report is stored; a later one is answered 409.  An amendment changes   *)
(* what is stored and adds to the history; without an outcome it is refused.  *)
Applies(c) == IF c \in Reporters THEN ~job.has ELSE job.has
stored(c) == IF c \in Reporters
             THEN [has |-> TRUE, content |-> sent[c].content, by |-> sent[c].by, from |-> c, amended |-> FALSE]
             ELSE [job EXCEPT !.content = sent[c].content, !.amended = TRUE]
Receive(c) == IF Applies(c) THEN job' = stored(c) /\ applied' = [applied EXCEPT ![c] = @ + 1]
              ELSE UNCHANGED <<job, applied>>
LateRequest(c) == /\ late[c] > 0 /\ late' = [late EXCEPT ![c] = @ - 1] /\ Receive(c)
                  /\ UNCHANGED <<sent, call>>

(* ------------------------------- attempts --------------------------------- *)
(* A report may be repeated after anything but a second timeout; a write that *)
(* is not safe to repeat only after Revenium refused it before applying it.   *)
allowsRetry(c, how, timeouts) ==
  IF c \in Reporters THEN how = "timeout" => timeouts <= 1 ELSE how = "throttled"
Judge(c, how) ==
  LET timeouts == call[c].timeouts + (IF how = "timeout" THEN 1 ELSE 0)
      again    == call[c].retries < MaxRetries /\ allowsRetry(c, how, timeouts)
  IN IF again
     THEN call' = [call EXCEPT ![c] = [stage |-> "sending", retries |-> @.retries + 1, timeouts |-> timeouts,
                                       mayBeApplied |-> @.mayBeApplied \/ how # "throttled", unread |-> FALSE]]
     ELSE go(c, "error")
(* The answer arrives.  A report refused as already made is looked into when  *)
(* an earlier attempt of this same call may be the one that was stored.       *)
Answered(c) ==
  /\ call[c].stage = "sending" /\ Receive(c)
  /\ go(c, IF Applies(c) THEN "ok"
           ELSE IF c \in Writers THEN "error"
           ELSE IF call[c].mayBeApplied /\ ~sent[c].metrics THEN "reading" ELSE "alreadyReported")
  /\ UNCHANGED <<sent, late>>
(* A timeout, a lost connection, a 5xx or an answer that cannot be read. *)
AnswerLost(c) ==
  /\ call[c].stage = "sending"
  /\ \E how \in {"timeout", "lost"} : Judge(c, how)
  /\ \/ Receive(c) /\ UNCHANGED late
     \/ late' = [late EXCEPT ![c] = @ + 1] /\ UNCHANGED <<job, applied>>
     \/ UNCHANGED <<job, applied, late>>
  /\ UNCHANGED sent
Throttled(c) == /\ call[c].stage = "sending" /\ Judge(c, "throttled")
                /\ UNCHANGED <<sent, job, late, applied>>
(* Refused with another 4xx, or not sent because the breaker is open. *)
NotSent(c) == /\ call[c].stage = "sending" /\ go(c, "error")
              /\ UNCHANGED <<sent, job, late, applied>>

(* ------------------------- jobStoringReport ------------------------------- *)
storesReportUnamended(c) == job.has /\ ~job.amended /\ job.content = sent[c].content
ReadJob(c) ==
  /\ call[c].stage = "reading"
  /\ go(c, IF ~storesReportUnamended(c) THEN "alreadyReported"
           ELSE IF sent[c].by = Nobody THEN "confirmed" ELSE "readingHistory")
  /\ UNCHANGED <<sent, job, late, applied>>
(* Mutant: the history is not asked who reported.                             *)
historyShowsOnlyAReport(c) ==
  /\ call[c].stage = "readingHistory"
  /\ go(c, IF ~job.amended THEN "confirmed" ELSE "alreadyReported")
  /\ UNCHANGED <<sent, job, late, applied>>

historyShowsOnlyReportBy(c) ==
  /\ call[c].stage = "readingHistory"
  /\ go(c, IF ~job.amended /\ job.by = sent[c].by THEN "confirmed" ELSE "alreadyReported")
  /\ UNCHANGED <<sent, job, late, applied>>
(* The job or its history cannot be read: the caller is told what it is told  *)
(* when the look shows another's report.                                      *)
ReadFails(c) ==
  /\ call[c].stage \in {"reading", "readingHistory"}
  /\ call' = [call EXCEPT ![c] = [Begin EXCEPT !.stage = "alreadyReported", !.unread = TRUE]]
  /\ UNCHANGED <<sent, job, late, applied>>

JobNext == \E c \in Calls : \/ LateRequest(c) \/ Answered(c) \/ AnswerLost(c) \/ Throttled(c) \/ NotSent(c)
                            \/ ReadJob(c) \/ historyShowsOnlyReportBy(c) \/ ReadFails(c)
JobSpec == JobInit /\ [][JobNext]_jvars

(* ------------------------------- properties ------------------------------- *)
(* What a call tells its caller is true however many answers are lost.  A      *)
(* report taken for stored is: by this very call when it names its reporter,   *)
(* for another's equal report never stands in for it.  A call whose own lost   *)
(* attempt was the one stored is not told that somebody else was first, unless *)
(* its metrics cannot be read back, an amendment came before its look, or the  *)
(* look failed.  An amendment or appended metrics are applied at most once,    *)
(* and if said to be.                                                          *)
AnswersAreTrue ==
  /\ \A c \in Reporters :
       /\ call[c].stage = "confirmed" => /\ job.has /\ sent[job.from].content = sent[c].content
                                         /\ sent[c].by # Nobody => job.from = c
       /\ call[c].stage = "alreadyReported" /\ applied[c] > 0
            => sent[c].metrics \/ job.amended \/ call[c].unread
  /\ \A c \in Writers : applied[c] <= 1 /\ (call[c].stage = "ok" => applied[c] = 1)
=============================================================================
