--------------------------- MODULE VideoTracker ---------------------------
(* The Google module's video tracker (google/video_tracker.go) under          *)
(* concurrent callers: Veo operations are submitted, waited for and polled,   *)
(* by this process or by another, and the first call that sees one finished   *)
(* sends its usage record.  What a tracker remembers is bounded, on both      *)
(* sides: submissions still pending and names already recorded.               *)
EXTENDS Naturals, FiniteSets, Sequences, SequencesExt

CONSTANTS Callers,        \* goroutines of this process
          Ops,            \* names of Veo operations
          Foreign,        \* those another process submitted
          Unrecognised,   \* those whose name does not tell a Veo model
          PendingLimit,   \* pendingOperationLimit
          SettledLimit,   \* settledOperationLimit
          MaxCalls        \* bound: calls the callers make in all

ASSUME VideoLimits == /\ PendingLimit \in Nat \ {0} /\ SettledLimit \in Nat \ {0}
                      /\ Foreign \subseteq Ops /\ Unrecognised \subseteq Ops /\ "" \notin Ops

VARIABLES google,        \* what Google made of each operation
          pending,       \* submissions not yet seen finished: name -> request
          pendingOrder, settled, settledOrder,
          call,          \* what each caller is doing
          sent,          \* the records sent, in order
          forgotten,     \* history: the names dropped from settled, one entry each time
          evicted,       \* history: names dropped from pending unseen
          told,          \* history: names the tracker was told are finished
          seen,          \* history: names the application was told are finished
          calls          \* calls begun
tracker == <<pending, pendingOrder, settled, settledOrder, forgotten, evicted>>
vvars == <<google, tracker, call, sent, told, seen, calls>>

Idle == [pc |-> "idle"]
(* The settings of a clip come from its submission; a wait for an operation   *)
(* the tracker does not know, or a poll, stands in for it.  "fields" are the  *)
(* reporting fields the caller attached.                                      *)
Request(from) == [settings |-> from, fields |-> from]
Names(order) == {order[i] : i \in DOMAIN order}
Drop(f, names) == [n \in DOMAIN f \ names |-> f[n]]
With(f, n, r) == [x \in DOMAIN f \cup {n} |-> IF x = n THEN r ELSE f[x]]

VideoInit == /\ google = [o \in Ops |-> IF o \in Foreign THEN "running" ELSE "absent"]
             /\ pending = <<>> /\ pendingOrder = <<>> /\ settled = {} /\ settledOrder = <<>>
             /\ call = [c \in Callers |-> Idle]
             /\ sent = <<>> /\ forgotten = <<>> /\ evicted = {} /\ calls = 0
             /\ told = {} /\ seen = {}

(* -------------------------- under the tracker's lock ---------------------- *)
(* Pops names until few enough are pending; a name popped that is no longer   *)
(* pending costs nothing.  The order is rebuilt when it outgrows the limit.   *)
stillPending(names, order) == SelectSeq(order, LAMBDA n : n \in names)
popped(p, order) ==
  CHOOSE k \in 0 .. Len(order) :
    /\ Cardinality(DOMAIN p \ Names(SubSeq(order, 1, k))) <= PendingLimit
    /\ \A j \in 0 .. k - 1 : Cardinality(DOMAIN p \ Names(SubSeq(order, 1, j))) > PendingLimit
evictOldestPending(p, order) ==
  LET k == popped(p, order)
      gone == Names(SubSeq(order, 1, k)) \cap DOMAIN p
      kept == SubSeq(order, k + 1, Len(order))
  IN /\ pending' = Drop(p, gone)
     /\ evicted' = evicted \cup gone
     /\ pendingOrder' = IF Len(kept) > 2 * PendingLimit
                        THEN stillPending(DOMAIN p \ gone, kept) ELSE kept
register(o, request) ==
  /\ UNCHANGED <<settled, settledOrder, forgotten>>
  /\ IF o \in settled \cup DOMAIN pending
     THEN UNCHANGED <<pending, pendingOrder, evicted>>
     ELSE evictOldestPending(With(pending, o, request), Append(pendingOrder, o))
(* Mutant: a wait takes the place of the submission it finds.                 *)
trackWaitAnew(o) ==
  IF o \in DOMAIN pending
  THEN /\ pending' = [pending EXCEPT ![o] = Request("wait")]
       /\ UNCHANGED <<pendingOrder, settled, settledOrder, forgotten, evicted>>
  ELSE register(o, Request("wait"))

trackWait(o) ==
  IF o \in DOMAIN pending
  THEN /\ pending' = [pending EXCEPT ![o].fields = "wait"]
       /\ UNCHANGED <<pendingOrder, settled, settledOrder, forgotten, evicted>>
  ELSE register(o, Request("wait"))
(* Mutant: a recorded name is not remembered.                                 *)
rememberSettledNot(o) == UNCHANGED <<settled, settledOrder, forgotten>>

rememberSettled(o) ==
  LET order == Append(settledOrder, o)
      full  == Len(order) > SettledLimit
  IN /\ settledOrder' = IF full THEN Tail(order) ELSE order
     /\ settled' = (settled \cup {o}) \ (IF full THEN {order[1]} ELSE {})
     /\ forgotten' = IF full THEN Append(forgotten, order[1]) ELSE forgotten
(* The request to report o with, if it is to be reported: its own, or, for an *)
(* operation never seen submitted, what "unknown" makes of its name.          *)
requestFor(o, unknown) ==
  IF o \in DOMAIN pending THEN {pending[o]}
  ELSE IF o \in settled THEN {} ELSE unknown
requestOfUnknownOperation(o) == IF o \in Unrecognised THEN {} ELSE {Request("poll")}
(* settleWith: the decision is taken and remembered under the lock; the       *)
(* record itself is sent after it is released (Report).                       *)
settleWith(c, o, unknown, next) ==
  /\ told' = told \cup {o}
  /\ IF requestFor(o, unknown) = {}
     THEN UNCHANGED tracker /\ call' = [call EXCEPT ![c] = next]
     ELSE /\ pending' = Drop(pending, {o}) /\ UNCHANGED <<pendingOrder, evicted>>
          /\ rememberSettled(o)
          /\ \E r \in requestFor(o, unknown) :
               call' = [call EXCEPT ![c] = [pc |-> "report", op |-> o, request |-> r, next |-> next]]

(* --------------------------------- callers -------------------------------- *)
begin(c, next) == call[c] = Idle /\ calls < MaxCalls /\ calls' = calls + 1
                  /\ call' = [call EXCEPT ![c] = next]
(* GenerateVideo: refused, or accepted with an operation that may be finished *)
(* already.  A request refused after it left is recorded without a name.      *)
SubmitAccepted(c, o) ==
  /\ begin(c, [pc |-> "track", op |-> o])
  /\ google[o] = "absent"
  /\ \E status \in {"running", "done"} : google' = [google EXCEPT ![o] = status]
  /\ UNCHANGED <<tracker, sent, told, seen>>
SubmitRefused(c) ==
  /\ begin(c, Idle)
  /\ \E left \in BOOLEAN :
       sent' = IF left THEN Append(sent, [op |-> "", request |-> Request("submit")]) ELSE sent
  /\ UNCHANGED <<google, tracker, told, seen>>
(* trackSubmittedVideo: only now may anyone else learn the name. *)
Track(c) ==
  /\ call[c].pc = "track"
  /\ register(call[c].op, Request("submit"))
  /\ call' = [call EXCEPT ![c] = IF google[call[c].op] = "done"
                                 THEN [pc |-> "settle", op |-> call[c].op] ELSE Idle]
  /\ UNCHANGED <<google, sent, told, seen, calls>>
known(o) == google[o] # "absent" /\ \A c \in Callers : call[c].pc = "track" => call[c].op # o
(* WaitForVideo, on an operation value that may be finished already.          *)
WaitForVideo(c, o) ==
  /\ known(o)
  /\ \E done \in {FALSE, google[o] = "done"} :
       begin(c, IF done THEN [pc |-> "settle", op |-> o] ELSE [pc |-> "wait", op |-> o])
  /\ trackWait(o)
  /\ UNCHANGED <<google, sent, told, seen>>
(* One poll, by the wait's ticker or by Operations.GetVideosOperation.  The    *)
(* transport observes the body before the caller gets it, if the name in the  *)
(* request tells a Veo model (isVeoOperationPoll); every other operation,     *)
(* even one submitted here, passes it by.                                     *)
observe(c, o, next) ==
  \/ /\ o \notin Unrecognised
     /\ settleWith(c, o, requestOfUnknownOperation(o), next)
  \/ /\ o \in Unrecognised
     /\ call' = [call EXCEPT ![c] = next]
     /\ UNCHANGED <<tracker, told>>
WaitPoll(c) ==
  /\ call[c].pc = "wait"
  /\ LET o == call[c].op IN
       /\ google[o] = "done"
       /\ observe(c, o, [pc |-> "settle", op |-> o])
  /\ UNCHANGED <<google, sent, seen, calls>>
WaitEnds(c) ==          \* the context ended or a poll failed: settleOperation(nil)
  /\ call[c].pc = "wait"
  /\ call' = [call EXCEPT ![c] = Idle]
  /\ UNCHANGED <<google, tracker, sent, told, seen, calls>>
Poll(c, o) ==
  /\ call[c] = Idle /\ calls < MaxCalls /\ calls' = calls + 1
  /\ known(o) /\ google[o] = "done"
  /\ observe(c, o, Idle)
  /\ seen' = seen \cup {o}
  /\ UNCHANGED <<google, sent>>
(* settleOperation of a finished operation. *)
Settle(c) ==
  /\ call[c].pc = "settle"
  /\ settleWith(c, call[c].op, {}, Idle)
  /\ seen' = seen \cup {call[c].op}
  /\ UNCHANGED <<google, sent, calls>>
Report(c) ==
  /\ call[c].pc = "report"
  /\ sent' = Append(sent, [op |-> call[c].op, request |-> call[c].request])
  /\ call' = [call EXCEPT ![c] = call[c].next]
  /\ UNCHANGED <<google, tracker, told, seen, calls>>
Finish(o) ==            \* Google finishes an operation
  /\ google[o] = "running" /\ google' = [google EXCEPT ![o] = "done"]
  /\ UNCHANGED <<tracker, call, sent, told, seen, calls>>

CallerStep(c) == Track(c) \/ WaitPoll(c) \/ Settle(c) \/ Report(c)
VideoNext == \/ \E c \in Callers : CallerStep(c) \/ WaitEnds(c) \/ SubmitRefused(c)
             \/ \E c \in Callers, o \in Ops : SubmitAccepted(c, o) \/ WaitForVideo(c, o) \/ Poll(c, o)
             \/ \E o \in Ops : Finish(o)
VideoSpec == VideoInit /\ [][VideoNext]_vvars

(* ------------------------------- properties ------------------------------- *)
recordsOf(o) == Cardinality({i \in DOMAIN sent : sent[i].op = o})
reporting(o) == {c \in Callers : call[c].pc = "report" /\ call[c].op = o}
timesForgotten(o) == Cardinality({i \in DOMAIN forgotten : forgotten[i] = o})

(* However its submission, waits and polls interleave, an operation the        *)
(* tracker was told is finished has exactly one record, sent or on its way,    *)
(* and one more only for each time the full tracker had to forget that it was  *)
(* recorded; only one it evicted meanwhile can be missed.  And it was told of  *)
(* every operation the application saw finish, through a wait or a poll, but   *)
(* those polled only under a name that tells no Veo model.                     *)
SeenIsRecordedOnce ==
  /\ seen \ told \subseteq Unrecognised
  /\ \A o \in Ops : LET n == recordsOf(o) + Cardinality(reporting(o)) IN
       /\ n <= 1 + timesForgotten(o)
       /\ o \in told /\ n = 0 => o \in evicted

(* A record is made from the submission's own settings, not from the defaults *)
(* a wait or a poll would give, unless this process did not submit it, had to *)
(* evict it, or had recorded it before and forgot.                            *)
SubmissionSettingsKept ==
  \A i \in DOMAIN sent :
    LET o == sent[i].op IN
    o # "" /\ sent[i].request.settings # "submit"
      => o \in Foreign \cup evicted \/ timesForgotten(o) > 0
=============================================================================
