--------------------------- MODULE MeteredStreams ---------------------------
(* A streamed call of any provider: one goroutine reads it, others may close   *)
(* it at any moment, the wire may break, and the one record is made of what    *)
(* the reader had got by then.  What a chunk changes, and what the record is,  *)
(* are the provider modules' own.                                              *)
EXTENDS Providers, FiniteSets

CONSTANTS Chunks,      \* what may come over a wire
          Streams,     \* by kind of stream, the sequences of chunks a provider sends
          Closers,     \* goroutines that may call Close; they may call it again
          MaxNow       \* ticks of the clock

OpenAIKinds == {"openai", "azure", "xai"}
TimedKinds == OpenAIKinds \cup {"responses"}    \* whose records are timed by a streamClock
Kinds == OpenAIKinds \cup {"responses", "perplexity", "litellm", "google", "anthropic", "beta", "invoke", "converse"}
BedrockKinds == {"invoke", "converse"}

(* ------------------------------ the wire ---------------------------------- *)
(* External: what each provider streams, as the code in src/ reads it.  "told" *)
(* is all that was consumed so far, "use" what a chunk says of it.             *)
Moment(type, output, choices, finish, told) ==
  [type |-> type, output |-> output, choices |-> choices, finish |-> finish, told |-> told, use |-> told, split |-> FALSE]
NoMoment == Moment("none", FALSE, <<>>, "", {})
IsReport(set) == set = {} \/ \E u \in set : set = {u} /\ u \in Amounts
IsChunk(m) == /\ m.output \in BOOLEAN /\ m.split \in BOOLEAN /\ IsReport(m.told) /\ IsReport(m.use)
              /\ m.told = {} <=> m.use = {}
              /\ m.split => m.told # {} /\ m.use = m.told
(* What was consumed so far only grows.  A chunk tells all of it, except that  *)
(* an Anthropic message leaves out a count that did not change.                *)
Grows(w) == \A i, j \in DOMAIN w : i < j =>
              \A t \in w[i].told, u \in w[j].told : \A part \in DOMAIN Nothing : t[part] <= u[part]
TellsAll(w) == \A j \in DOMAIN w : w[j].use = w[j].told
TellsWhatChanged(w) ==
  \A j \in DOMAIN w : \A t \in w[j].told, u \in w[j].use :
    /\ u.text = t.text /\ u.thought = t.thought
    /\ \A part \in {"fresh", "read", "write"} :
         \/ u[part] = t[part]
         \/ u[part] = 0 /\ \E i \in DOMAIN w : i < j /\ \E v \in w[i].told : v[part] = t[part]
(* Output is of a choice that has not finished.                                *)
FinishesLast(w) ==
  \A j \in DOMAIN w : w[j].output =>
    \E c \in DOMAIN w[j].choices : /\ w[j].choices[c] = ""
                                   /\ \A i \in DOMAIN w : i < j /\ c \in DOMAIN w[i].choices => w[i].choices[c] = ""
(* One event ends a response: it alone tells, and no output comes with it or   *)
(* after it.                                                                   *)
EndsOnce(w) ==
  \A i, j \in DOMAIN w : /\ w[i].finish # "" /\ w[j].finish # "" => i = j
                         /\ w[j].told # {} => w[j].finish # ""
                         /\ w[i].finish # "" /\ w[j].output => j < i
HasItsStop(w) == \E i \in DOMAIN w : w[i].type = "message_stop"
StartsAndTells(w) ==
  \A i \in DOMAIN w : /\ w[i].type = "message_start" <=> i = 1
                      /\ w[i].told # {} <=> w[i].type \in {"message_start", "message_delta"}
CountsSomething(w) == \A i \in DOMAIN w : \A t \in w[i].told : t.fresh + t.text + t.thought > 0
(* xAI tells of thoughts apart from the answer, but never of thoughts alone.   *)
ThoughtOfSomething(w) ==
  \A i \in DOMAIN w : \A t \in w[i].told : t.thought > 0 => t.fresh + t.read + t.write + t.text > 0
IsStream(k, w) ==
  /\ Grows(w)
  /\ k \notin {"anthropic", "beta", "invoke"} => TellsAll(w)
  /\ k \in OpenAIKinds                => FinishesLast(w)
  /\ k = "xai"                        => ThoughtOfSomething(w)
  /\ k = "responses"                  => EndsOnce(w)
  /\ k = "perplexity"                 => \A i \in DOMAIN w : \A t \in w[i].told : t.read + t.write + t.thought = 0
  /\ k = "google"                     => \E i \in DOMAIN w : w[i].finish # ""
  /\ k \in {"anthropic", "beta"}      => StartsAndTells(w)
  /\ k \in {"anthropic", "beta", "invoke"} => TellsWhatChanged(w) /\ HasItsStop(w)
  /\ k = "converse"                   => HasItsStop(w) /\ \A i \in DOMAIN w : w[i].told # {} <=> w[i].type = "metadata"
  /\ k \in BedrockKinds               => CountsSomething(w)
ASSUME StreamsAssumption ==
  /\ \A m \in Chunks : IsChunk(m)
  /\ \A k \in Kinds : \A w \in Streams[k] : w \in Seq(Chunks) /\ IsStream(k, w)
ASSUME ClockAssumption == MaxNow \in Nat

(* ---------------------------- the providers ------------------------------- *)
Setting(kind) == [disabled |-> FALSE, key |-> kind = "azure", endpoint |-> kind = "azure", baseURL |-> "",
                  envURL |-> IF kind = "xai" THEN "xai" ELSE "", mapped |-> FALSE]
Claude == [prefix |-> "", family |-> "claude"]
Env(kind) == [setting |-> Setting(kind), model |-> "asked", route |-> Claude, deployment |-> LL!NoRoute,
              group |-> LL!NoRoute, estimate |-> 2]
Opened(kind) ==
  CASE kind \in OpenAIKinds \cup {"responses"} -> OA!StreamOpened(Env(kind))
    [] kind = "perplexity" -> CP!perplexityOpened(Env(kind))
    [] kind = "litellm"    -> LL!proxyStreamOpened(Env(kind))
    [] kind = "google"     -> GO!streamOpened(Env(kind))
    [] kind = "anthropic"  -> AN!StreamOpened(Env(kind))
    [] OTHER               -> AN!betaOpened(Env(kind))
The(told) == IF told = {} THEN Nothing ELSE CHOOSE u \in told : TRUE
openAIUsage(kind, m) == OA!ReportedUsage(The(m.use), kind = "xai" /\ m.use # {})
messageEvent(m) == [type |-> m.type, output |-> m.output, served |-> "served", finish |-> m.finish,
                    usage |-> AN!ReportedUsage(The(m.use), m.split)]
Observe(kind, s, m, now) ==
  CASE kind \in OpenAIKinds ->
         OA!recordChunk(s, [choices |-> m.choices, output |-> m.output, served |-> "served",
                            usage |-> openAIUsage(kind, m)], now)
    [] kind = "responses" ->
         OA!captureEvent(s, [output |-> m.output, final |-> m.finish, served |-> "served",
                             usage |-> openAIUsage(kind, m)], now)
    [] kind = "perplexity" ->
         LET u == The(m.use) IN
         CP!recordPerplexityChunk(s, [choices |-> m.choices,
           usage |-> Tokens(u.fresh, u.text, u.fresh + u.text, 0, 0, 0)], now)
    [] kind = "litellm" ->
         LL!processChunkData(s, [choices |-> m.choices, output |-> m.output, served |-> Claude,
                                 usage |-> LL!Reported(The(m.use))], now)
    [] kind = "google" ->
         GO!observe(s, [finish |-> m.finish, usage |-> {GO!UsageMetadata(u, TRUE) : u \in m.use}], now)
    [] kind = "anthropic" -> AN!processTypedEvent(s, messageEvent(m), now)
    [] kind = "beta"      -> AN!betaObserve(s, messageEvent(m), now)
    [] kind = "invoke"    -> AN!takeStreamEvent(s, messageEvent(m), now)
    [] kind = "converse"  -> AN!converseEvent(s, messageEvent(m), now)
Exhausted(kind, s, now) ==
  CASE kind \in OpenAIKinds \cup {"responses"}            -> OA!markExhausted(s, now)
    [] kind \in BedrockKinds \cup {"anthropic", "beta"} -> [s EXCEPT !.exhausted = TRUE]
    [] OTHER -> s
RecordsOf(kind, s, broke, left) ==
  CASE kind \in OpenAIKinds -> <<OA!chatStreamRecord(s, broke)>>
    [] kind = "responses"   -> <<OA!responsesStreamRecord(s, broke)>>
    [] kind = "perplexity"  -> <<CP!perplexityStreamRecord(s, broke)>>
    [] kind = "litellm"     -> <<LL!proxyStreamRecord([s EXCEPT !.err = IF broke THEN "network" ELSE ""])>>
    [] kind = "google"      -> <<GO!streamRecord([s EXCEPT !.stoppedByCaller = left], broke)>>
    [] kind = "anthropic"   -> <<AN!streamRecord(s, broke)>>
    [] kind = "beta"        -> AN!betaRecords(s, broke)
    [] OTHER -> <<AN!streamRecord(AN!accumulated([AN!StreamOpened(s.env) EXCEPT !.exhausted = s.exhausted], s), broke)>>

(* ----------------------------- the machine -------------------------------- *)
VARIABLES kind, wire,
          broke,      \* the wire broke off, and the reader was told
          reader,     \* "idle", "holding" a chunk not taken in yet, or "ended"
          holding, s, clock, closed,
          records,    \* what was sent, with when and at what duration
          seen        \* ghost: of the chunks handed over before the stream was closed
streamVars == <<kind, wire, broke, reader, holding, s, clock, closed, records, seen>>

(* Of those chunks: what was told, when output last came, whether they were    *)
(* all and the last status was "failed"; for a timed stream the choices shown, *)
(* those done, and the last moment at which it was not over or finished one.   *)
NothingSeen == [told |-> {}, output |-> 0, finished |-> FALSE, failed |-> FALSE, shown |-> {}, done |-> {}, over |-> 0]
AllDone(h) == h.shown # {} /\ h.shown \subseteq h.done
Shown(m) == IF kind = "responses" THEN {0 : x \in {m.finish} \ {""}} ELSE DOMAIN m.choices
Done(m) == IF kind = "responses" THEN Shown(m) ELSE {c \in DOMAIN m.choices : m.choices[c] # ""}
NotOver(h) == kind \in TimedKinds /\ ~AllDone(h)
ChunkSeen(h, m) ==
  LET was == [told |-> IF m.told # {} THEN m.told ELSE h.told, output |-> IF m.output THEN clock ELSE h.output,
              finished |-> h.finished \/ wire = <<>>,
              failed |-> IF m.finish # "" THEN m.finish = "failed" ELSE h.failed,
              shown |-> IF kind \in TimedKinds THEN h.shown \cup Shown(m) ELSE {},
              done |-> IF kind \in TimedKinds THEN h.done \cup Done(m) ELSE {}, over |-> h.over]
  IN [was EXCEPT !.over = IF NotOver(was) \/ (kind \in TimedKinds /\ Done(m) # {}) THEN clock ELSE @]
EndSeen(h) == [h EXCEPT !.over = IF NotOver(h) THEN clock ELSE @]

StreamInit == /\ kind \in Kinds /\ wire \in Streams[kind] /\ s = Opened(kind)
              /\ broke = FALSE /\ reader = "idle" /\ holding = NoMoment /\ clock = 1 /\ closed = FALSE
              /\ records = <<>> /\ seen = NothingSeen

(* Next: a chunk is taken from the wire, and then, under the lock, taken in    *)
(* before it is handed to the caller.                                          *)
ReceiveChunk == /\ reader = "idle" /\ wire # <<>> /\ ~closed
           /\ reader' = "holding" /\ holding' = Head(wire) /\ wire' = Tail(wire)
           /\ UNCHANGED <<kind, broke, s, clock, closed, records, seen>>
TakeIn == /\ reader = "holding" /\ reader' = "idle" /\ holding' = NoMoment
          /\ s' = Observe(kind, s, holding, clock)
          /\ seen' = IF closed THEN seen ELSE ChunkSeen(seen, holding)
          /\ UNCHANGED <<kind, wire, broke, clock, closed, records>>
(* Next returns false: the wire is at its end, or broke off. *)
StreamEnds == /\ reader = "idle" /\ ~closed
        /\ \/ wire = <<>> /\ broke' = FALSE
           \/ wire # <<>> /\ broke' = TRUE
        /\ reader' = "ended" /\ wire' = <<>> /\ s' = Exhausted(kind, s, clock) /\ seen' = EndSeen(seen)
        /\ UNCHANGED <<kind, holding, clock, closed, records>>
duration(now) == IF kind \in TimedKinds THEN OA!duration(s, now) ELSE now
(* Mutant: every Close sends a record.                                        *)
CloseStreamAgain(c) ==
  /\ kind # "google"
  /\ closed' = TRUE
  /\ records' = records \o [i \in DOMAIN RecordsOf(kind, s, broke, FALSE) |->
       [record |-> RecordsOf(kind, s, broke, FALSE)[i], at |-> clock, end |-> duration(clock),
        seen |-> seen, ended |-> reader = "ended"]]
  /\ Len(records) < 2
  /\ UNCHANGED <<kind, wire, broke, reader, holding, s, clock, seen>>

(* Close: only the first call records.  A reader waiting for the next chunk is *)
(* woken by the closed body, and its error may be there when Close asks.       *)
CloseStream(c) ==
  /\ kind # "google"
  /\ closed' = TRUE
  /\ IF closed THEN UNCHANGED <<records, broke>>
     ELSE \E woken \in IF reader = "idle" THEN BOOLEAN ELSE {FALSE} :
            /\ broke' = (broke \/ woken)
            /\ records' = records \o [i \in DOMAIN RecordsOf(kind, s, broke', FALSE) |->
                 [record |-> RecordsOf(kind, s, broke', FALSE)[i], at |-> clock, end |-> duration(clock),
                  seen |-> seen, ended |-> reader = "ended"]]
  /\ UNCHANGED <<kind, wire, reader, holding, s, clock, seen>>
(* Google's iterator records when its loop is left, at the end or before.      *)
LeaveLoop ==
  /\ kind = "google" /\ ~closed /\ reader # "holding" /\ (reader = "ended" \/ s.first # 0)
  /\ closed' = TRUE
  /\ records' = [i \in DOMAIN RecordsOf(kind, s, broke, reader # "ended") |->
       [record |-> RecordsOf(kind, s, broke, reader # "ended")[i], at |-> clock, end |-> clock,
        seen |-> seen, ended |-> reader = "ended"]]
  /\ UNCHANGED <<kind, wire, broke, reader, holding, s, clock, seen>>
Tick == /\ clock < MaxNow /\ clock' = clock + 1
        /\ UNCHANGED <<kind, wire, broke, reader, holding, s, closed, records, seen>>
StreamNext == ReceiveChunk \/ TakeIn \/ StreamEnds \/ (\E c \in Closers : CloseStream(c)) \/ LeaveLoop \/ Tick
StreamSpec == StreamInit /\ [][StreamNext]_streamVars

(* ------------------------------- properties ------------------------------- *)
(* However many goroutines close a stream, and whenever, it has one record;    *)
(* only a beta stream of which nothing came and that did not fail has none.    *)
(* The record calls the stream failed exactly if it broke off, was closed      *)
(* under its reader or ended in a failed response, and cancelled only if the   *)
(* caller left it before its end.  The time on an OpenAI record runs to the    *)
(* last output at least; of a stream that was over - every choice had          *)
(* finished, or its end was found - it does not run past that moment, however  *)
(* much later it was closed, and of any other it runs to the Close.            *)
OneHonestRecord ==
  /\ Len(records) <= 1
  /\ closed /\ records = <<>> => kind = "beta" /\ ~broke /\ seen.told = {}
  /\ \A i \in DOMAIN records : LET r == records[i] IN
       /\ r.record.what = "failed" <=> broke \/ (kind = "responses" /\ r.seen.failed)
       /\ r.record.what = "cancelled" => ~r.ended /\ ~r.seen.finished
       /\ kind \in TimedKinds =>
            IF r.ended \/ AllDone(r.seen) THEN r.end \in r.seen.output .. r.seen.over ELSE r.end = r.at

(* What the record bills, taken apart the way Revenium does, is what the       *)
(* provider had said was consumed in the chunks handed to the caller before -  *)
(* even if the stream broke off.  Google's counts are billed gross.  The       *)
(* exception is OpenAI's Responses API, whose failure record starts afresh.  A *)
(* split of the cache writes by lifetime adds up to their total, or is dropped.*)
TakenApart(k, t) ==
  CASE k \in OpenAIKinds \cup {"responses"} -> OA!BilledByPlatform(t)
    [] k = "google" -> [fresh |-> t.in, read |-> 0, write |-> 0, output |-> t.out]
    [] OTHER -> [fresh |-> t.in, read |-> t.read, write |-> t.write, output |-> t.out]
Consumed(k, told) ==
  LET u == The(told) IN
  IF k = "google" THEN [fresh |-> u.fresh + u.read + u.write, read |-> 0, write |-> 0, output |-> u.text + u.thought]
  ELSE [fresh |-> u.fresh, read |-> u.read, write |-> u.write, output |-> u.text + u.thought]
ToldIsBilled ==
  \A i \in DOMAIN records : LET r == records[i] IN
    /\ r.seen.told # {} /\ ~(kind = "responses" /\ r.record.what = "failed") =>
         TakenApart(kind, r.record.tokens) = Consumed(kind, r.seen.told)
    /\ "split" \in DOMAIN r.record => r.record.split \subseteq {r.record.tokens.write}
=============================================================================
