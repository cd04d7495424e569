---------------------------- MODULE StreamProofs -----------------------------
(***************************************************************************)
(* Proofs about MeteredStreams for any set of streams, any chunks the      *)
(* providers' protocols allow and any clock.  The argument: what a stream  *)
(* keeps is settled by what has arrived on it, kind by kind - how far it   *)
(* has been read, when its first token came, how it ended (StreamInv) and  *)
(* what usage it was told (ToldInv) - and taking one more chunk apart      *)
(* keeps that so; a record is made from what is kept, by a close that      *)
(* happens once.                                                           *)
(***************************************************************************)
EXTENDS MeteredStreams, TLAPS

(* What a stream's state has, by kind of stream. *)
OpenAIFields == {"env", "usage", "finish", "served", "final", "first", "end", "finished"}
MessageFields == {"env", "usage", "served", "finish", "told", "stopSeen", "exhausted", "first"}
FieldsOf(k) ==
  CASE k \in OpenAIKinds \cup {"responses"} -> OpenAIFields
    [] k = "perplexity" -> {"env", "usage", "finish", "first"}
    [] k = "litellm"    -> {"env", "usage", "served", "finish", "first", "done", "err"}
    [] k = "google"     -> {"env", "usage", "finish", "finished", "stoppedByCaller", "first"}
    [] OTHER            -> MessageFields
MessageKinds == {"anthropic", "beta", "invoke", "converse"}
LEMMA KindsOfStreams == Kinds = OpenAIKinds \cup {"responses", "perplexity", "litellm", "google"} \cup MessageKinds
BY DEF Kinds, MessageKinds

LEMMA FieldsOfOpenAI == \A k \in OpenAIKinds \cup {"responses"} : FieldsOf(k) = OpenAIFields
BY DEF FieldsOf, OpenAIKinds
LEMMA FieldsOfMessages == \A k \in MessageKinds : FieldsOf(k) = MessageFields
BY DEF FieldsOf, OpenAIKinds, MessageKinds

(* How a stream ended is what its record says of it.                          *)
Ending(k, t, left, r, b) ==
  /\ r.what = "failed" <=> b \/ (k = "responses" /\ t.final = "failed")
  /\ r.what = "cancelled" => \/ k = "google" /\ left /\ ~t.finished
                             \/ k \in MessageKinds /\ ~t.stopSeen /\ ~t.exhausted

LEMMA OpenAIEnding ==
  ASSUME NEW k \in OpenAIKinds \cup {"responses"}, NEW t, NEW b \in BOOLEAN, NEW left
  PROVE  \E r : RecordsOf(k, t, b, left) = <<r>> /\ Ending(k, t, left, r, b)
<1>1. CASE k \in OpenAIKinds
  <2>1. RecordsOf(k, t, b, left) = <<OA!chatStreamRecord(t, b)>>
    BY <1>1 DEF RecordsOf, OpenAIKinds
  <2>2. OA!chatStreamRecord(t, b).what = IF b THEN "failed" ELSE "succeeded"
    BY DEF OA!chatStreamRecord, OA!Record, OA!asFailedCall
  <2> QED
    BY <1>1, <2>1, <2>2 DEF Ending, OpenAIKinds
<1>2. CASE k = "responses"
  <2>1. RecordsOf(k, t, b, left) = <<OA!responsesStreamRecord(t, b)>>
    BY <1>2 DEF RecordsOf, OpenAIKinds
  <2>2. OA!responsesStreamRecord(t, b).what = IF b \/ t.final = "failed" THEN "failed" ELSE "succeeded"
    BY DEF OA!responsesStreamRecord, OA!Record, OA!asFailedCall, OA!failureRecord
  <2> QED
    BY <1>2, <2>1, <2>2 DEF Ending, OpenAIKinds
<1> QED
  BY <1>1, <1>2

LEMMA PerplexityEnding ==
  ASSUME NEW t, NEW b \in BOOLEAN, NEW left
  PROVE  \E r : RecordsOf("perplexity", t, b, left) = <<r>> /\ Ending("perplexity", t, left, r, b)
<1>1. RecordsOf("perplexity", t, b, left) = <<CP!perplexityStreamRecord(t, b)>>
  BY DEF RecordsOf, OpenAIKinds
<1>2. CP!perplexityStreamRecord(t, b).what = IF b THEN "failed" ELSE "succeeded"
  BY DEF CP!perplexityStreamRecord, CP!Record, CP!asFailedCall
<1> QED
  BY <1>1, <1>2 DEF Ending, MessageKinds

LEMMA ProxyEnding ==
  ASSUME NEW t, FieldsOf("litellm") \subseteq DOMAIN t, NEW b \in BOOLEAN, NEW left
  PROVE  \E r : RecordsOf("litellm", t, b, left) = <<r>> /\ Ending("litellm", t, left, r, b)
<1> DEFINE u == [t EXCEPT !.err = IF b THEN "network" ELSE ""]
<1>1. RecordsOf("litellm", t, b, left) = <<LL!proxyStreamRecord(u)>>
  BY DEF RecordsOf, OpenAIKinds
<1>2. u.err = IF b THEN "network" ELSE ""
  BY DEF FieldsOf, OpenAIKinds
<1>3. LL!proxyStreamRecord(u).what = IF b THEN "failed" ELSE "succeeded"
  BY <1>2 DEF LL!proxyStreamRecord, LL!Record, LL!asFailedCall
<1> QED
  BY <1>1, <1>3 DEF Ending, MessageKinds

LEMMA GoogleEnding ==
  ASSUME NEW t, FieldsOf("google") \subseteq DOMAIN t, NEW b \in BOOLEAN, NEW left \in BOOLEAN
  PROVE  \E r : RecordsOf("google", t, b, left) = <<r>> /\ Ending("google", t, left, r, b)
<1> DEFINE u == [t EXCEPT !.stoppedByCaller = left]
<1>1. RecordsOf("google", t, b, left) = <<GO!streamRecord(u, b)>>
  BY DEF RecordsOf, OpenAIKinds
<1>2. (u.stoppedByCaller <=> left) /\ u.finished = t.finished
  BY DEF FieldsOf, OpenAIKinds
<1>3. /\ GO!streamRecord(u, b).what \in {"failed", "cancelled", "succeeded"}
      /\ GO!streamRecord(u, b).what = "failed" <=> b
      /\ GO!streamRecord(u, b).what = "cancelled" => left /\ ~t.finished
  BY <1>2 DEF GO!streamRecord, GO!buildPayload, GO!Record, GO!asFailedCall, GO!asCancelledCall, GO!abandonedBeforeFinish
<1> QED
  BY <1>1, <1>3 DEF Ending, MessageKinds

LEMMA MessageRecordEnding ==
  ASSUME NEW t, NEW b \in BOOLEAN
  PROVE  LET r == AN!streamRecord(t, b) IN
         /\ r.what = "failed" <=> b
         /\ r.what = "cancelled" => ~t.stopSeen /\ ~t.exhausted
<1> DEFINE main == AN!Record("chat", t.served, AN!streamTokens(t, b))
           r0 == AN!With(main, [split |-> t.usage.split])
<1>1. main.what = "succeeded" /\ "what" \in DOMAIN main
  BY DEF AN!Record
<1>2. r0.what = "succeeded" /\ "what" \in DOMAIN r0
  BY <1>1 DEF AN!With
<1> HIDE DEF r0
<1>3. AN!streamRecord(t, b) = CASE b -> AN!asFailedCall(r0, "network")
                               [] ~b /\ AN!abandonedBeforeStop(t) -> AN!asCancelledCall(r0)
                               [] OTHER -> r0
  BY DEF AN!streamRecord, r0
<1> QED
  BY <1>2, <1>3 DEF AN!asFailedCall, AN!asCancelledCall, AN!abandonedBeforeStop

LEMMA MessageEnding ==
  ASSUME NEW k \in MessageKinds, NEW t, FieldsOf(k) \subseteq DOMAIN t, NEW b \in BOOLEAN, NEW left
  PROVE  \/ \E r : RecordsOf(k, t, b, left) = <<r>> /\ Ending(k, t, left, r, b)
         \/ RecordsOf(k, t, b, left) = <<>> /\ k = "beta" /\ ~b /\ ~t.told
<1>1. CASE k = "anthropic"
  <2>1. RecordsOf(k, t, b, left) = <<AN!streamRecord(t, b)>>
    BY <1>1 DEF RecordsOf, OpenAIKinds
  <2> QED
    BY <1>1, <2>1, MessageRecordEnding DEF Ending, MessageKinds
<1>2. CASE k = "beta"
  <2>1. RecordsOf(k, t, b, left) = IF b \/ t.told THEN <<AN!streamRecord(t, b)>> ELSE <<>>
    BY <1>2 DEF RecordsOf, OpenAIKinds, AN!betaRecords
  <2> QED
    BY <1>2, <2>1, MessageRecordEnding DEF Ending, MessageKinds
<1>3. CASE k \in BedrockKinds
  <2> DEFINE u == AN!accumulated([AN!StreamOpened(t.env) EXCEPT !.exhausted = t.exhausted], t)
  <2>1. RecordsOf(k, t, b, left) = <<AN!streamRecord(u, b)>>
    BY <1>3 DEF RecordsOf, OpenAIKinds, BedrockKinds
  <2>2. (u.stopSeen <=> t.stopSeen) /\ (u.exhausted <=> t.exhausted)
    BY DEF AN!accumulated, AN!StreamOpened
  <2> HIDE DEF u
  <2> QED
    BY <1>3, <2>1, <2>2, MessageRecordEnding DEF Ending, MessageKinds, BedrockKinds
<1> QED
  BY <1>1, <1>2, <1>3 DEF MessageKinds, BedrockKinds

(* ---------------------------- what a chunk changes ------------------------- *)
HasFinished(t, c) == c \in DOMAIN t.finished /\ t.finished[c]
LEMMA EmptyDomain == DOMAIN <<>> = {}
<1>1. <<>> \in Seq({}) /\ Len(<<>>) = 0 /\ DOMAIN <<>> = 1 .. Len(<<>>)
  OBVIOUS
<1> QED
  BY <1>1

(* How the choices a chunk shows, and those it finishes, move the end.        *)
Finishing(progress) == {c \in DOMAIN progress : progress[c]}
Finished(t) == {c \in DOMAIN t.finished : t.finished[c]}
AllFinished(t) == DOMAIN t.finished # {} /\ DOMAIN t.finished \subseteq Finished(t)
EndMoved(t, shown, done, now, u) ==
  /\ DOMAIN u.finished = DOMAIN t.finished \cup shown /\ Finished(u) = Finished(t) \cup done
  /\ AllFinished(u) => u.end = IF done # {} THEN now ELSE t.end
  /\ ~AllFinished(u) => u.end = 0

LEMMA ClockObserves ==
  ASSUME NEW t, OpenAIFields \subseteq DOMAIN t, NEW output, NEW progress, NEW now
  PROVE  LET u == OA!observeClock(t, output, progress, now) IN
         /\ DOMAIN u = DOMAIN t
         /\ u.env = t.env /\ u.usage = t.usage /\ u.served = t.served /\ u.final = t.final
         /\ \A c : HasFinished(u, c) <=> HasFinished(t, c) \/ (c \in DOMAIN progress /\ progress[c])
         /\ DOMAIN u.finished = DOMAIN t.finished \cup DOMAIN progress
         /\ u.end \in {0, now, t.end}
         /\ ((\A c \in DOMAIN u.finished : HasFinished(u, c)) /\ DOMAIN u.finished # {}) \/ u.end = 0
         /\ EndMoved(t, DOMAIN progress, Finishing(progress), now, u)
<1> DEFINE was(i) == i \in DOMAIN t.finished /\ t.finished[i]
           is(i)  == i \in DOMAIN progress /\ progress[i]
           f      == [i \in DOMAIN t.finished \cup DOMAIN progress |-> was(i) \/ is(i)]
           u == OA!observeClock(t, output, progress, now)
<1>1. u = [t EXCEPT !.first = IF output /\ @ = 0 THEN now ELSE @, !.finished = f,
                    !.end = IF ~OA!allChoicesFinished(f) THEN 0
                            ELSE IF \E i \in DOMAIN progress : progress[i] THEN now ELSE @]
  BY DEF OA!observeClock
<1>2. \A i \in DOMAIN f : f[i] <=> was(i) \/ is(i)
  OBVIOUS
<1>3. DOMAIN f = DOMAIN t.finished \cup DOMAIN progress
  OBVIOUS
<1> HIDE DEF f, u
<1>4. /\ DOMAIN u = DOMAIN t /\ u.env = t.env /\ u.usage = t.usage /\ u.served = t.served /\ u.final = t.final
      /\ u.finished = f /\ u.end \in {0, now, t.end} /\ (OA!allChoicesFinished(f) \/ u.end = 0)
  BY <1>1 DEF OpenAIFields
<1>5. \A c : HasFinished(u, c) <=> was(c) \/ is(c)
  BY <1>2, <1>3, <1>4 DEF HasFinished
<1>6. OA!allChoicesFinished(f) => DOMAIN f # {} /\ \A c \in DOMAIN f : f[c]
  BY DEF OA!allChoicesFinished
<1>7. u.end = IF ~OA!allChoicesFinished(f) THEN 0 ELSE IF \E i \in DOMAIN progress : progress[i] THEN now ELSE t.end
  BY <1>1 DEF OpenAIFields
<1>8. Finished(u) = Finished(t) \cup {c \in DOMAIN progress : progress[c]}
  BY <1>2, <1>3, <1>4 DEF Finished
<1>9. AllFinished(u) <=> OA!allChoicesFinished(f)
  BY <1>4 DEF AllFinished, Finished, OA!allChoicesFinished
<1>10. EndMoved(t, DOMAIN progress, Finishing(progress), now, u)
  BY <1>3, <1>4, <1>7, <1>8, <1>9 DEF EndMoved, Finishing
<1> QED
  BY <1>2, <1>3, <1>4, <1>5, <1>6, <1>10 DEF HasFinished, u

(* What an OpenAI chunk m, and a Responses API event, make of t at now.       *)
CountsUsage(k, m) == LET u == openAIUsage(k, m) IN u.prompt + u.output > 0
ChatDone(m) == {c \in DOMAIN m.choices : m.choices[c] # ""}
ChatTaken(k, t, m, now, u) ==
  /\ DOMAIN u = DOMAIN t /\ u.env = t.env
  /\ u.usage = IF CountsUsage(k, m) THEN openAIUsage(k, m) ELSE t.usage
  /\ EndMoved(t, DOMAIN m.choices, ChatDone(m), now, u)
  /\ \A c : HasFinished(u, c) <=> HasFinished(t, c) \/ (c \in DOMAIN m.choices /\ m.choices[c] # "")
  /\ u.end \in {0, now, t.end}
  /\ \A c \in DOMAIN m.choices : m.choices[c] = "" /\ ~HasFinished(t, c) => u.end = 0
ResponseTaken(t, m, now, u) ==
  /\ DOMAIN u = DOMAIN t /\ u.env = t.env
  /\ m.finish # "" => u.usage = openAIUsage("responses", m) /\ u.final = m.finish
  /\ m.finish = "" => u.usage = t.usage /\ u.final = t.final /\ DOMAIN u.finished = DOMAIN t.finished
  /\ LET ended == IF m.finish # "" THEN {0} ELSE {} IN EndMoved(t, ended, ended, now, u)
  /\ u.end \in {0, now, t.end}
  /\ DOMAIN u.finished = {} => u.end = 0
LEMMA ChatChunk ==
  ASSUME NEW k \in OpenAIKinds, NEW t, OpenAIFields \subseteq DOMAIN t, NEW m, NEW now,
         NEW u, u = Observe(k, t, m, now)
  PROVE  ChatTaken(k, t, m, now, u)
<1> DEFINE chunk == [choices |-> m.choices, output |-> m.output, served |-> "served", usage |-> openAIUsage(k, m)]
           progress == [i \in DOMAIN m.choices |-> m.choices[i] # ""]
           o == OA!observeClock(t, m.output, progress, now)
<1>1. u = OA!recordChunk(t, chunk, now)
  BY DEF Observe, OpenAIKinds
<1>2. \A c : c \in DOMAIN progress /\ progress[c] <=> c \in DOMAIN m.choices /\ m.choices[c] # ""
  OBVIOUS
<1>3. u = [o EXCEPT !.usage = IF chunk.usage.prompt + chunk.usage.output > 0 THEN chunk.usage ELSE @,
                    !.finish = IF 0 \in DOMAIN chunk.choices /\ chunk.choices[0] # "" THEN chunk.choices[0] ELSE @,
                    !.served = IF @ = "" THEN chunk.served ELSE @]
  BY <1>1 DEF OA!recordChunk
<1>4. DOMAIN progress = DOMAIN m.choices
  OBVIOUS
<1> HIDE DEF progress
<1>5. /\ DOMAIN o = DOMAIN t /\ o.env = t.env /\ o.usage = t.usage
      /\ \A c : HasFinished(o, c) <=> HasFinished(t, c) \/ (c \in DOMAIN progress /\ progress[c])
      /\ DOMAIN o.finished = DOMAIN t.finished \cup DOMAIN progress
      /\ o.end \in {0, now, t.end}
      /\ (\A c \in DOMAIN o.finished : HasFinished(o, c)) \/ o.end = 0
      /\ EndMoved(t, DOMAIN progress, Finishing(progress), now, o)
  BY ClockObserves
<1> HIDE DEF o
<1>6. /\ DOMAIN u = DOMAIN t /\ u.env = t.env /\ u.finished = o.finished /\ u.end = o.end
      /\ u.usage = IF CountsUsage(k, m) THEN openAIUsage(k, m) ELSE t.usage
  BY <1>3, <1>5 DEF OpenAIFields, CountsUsage
<1>7. \A c : HasFinished(u, c) <=> HasFinished(o, c)
  BY <1>6 DEF HasFinished
<1>8. Finishing(progress) = ChatDone(m)
  BY <1>2, <1>4 DEF ChatDone, Finishing
<1>9. EndMoved(t, DOMAIN m.choices, ChatDone(m), now, u)
  BY <1>4, <1>5, <1>6, <1>8 DEF EndMoved, AllFinished, Finished
<1> QED
  BY <1>1, <1>2, <1>4, <1>5, <1>6, <1>7, <1>9 DEF ChatTaken

LEMMA ResponsesEvent ==
  ASSUME NEW t, OpenAIFields \subseteq DOMAIN t, NEW m, NEW now,
         NEW u, u = Observe("responses", t, m, now)
  PROVE  ResponseTaken(t, m, now, u)
<1> DEFINE progress == IF m.finish # "" THEN [i \in {0} |-> TRUE] ELSE <<>>
           o == OA!observeClock(t, m.output, progress, now)
           event == [output |-> m.output, final |-> m.finish, served |-> "served", usage |-> openAIUsage("responses", m)]
<1>1. u = OA!captureEvent(t, event, now)
  BY DEF Observe, OpenAIKinds
<1>2. u = [o EXCEPT !.final = IF m.finish # "" THEN m.finish ELSE @,
                    !.usage = IF m.finish # "" THEN openAIUsage("responses", m) ELSE @,
                    !.served = IF m.finish # "" THEN "served" ELSE @]
  BY <1>1 DEF OA!captureEvent
<1>3. DOMAIN progress = (IF m.finish # "" THEN {0} ELSE {}) /\ Finishing(progress) = DOMAIN progress
  <2>1. CASE m.finish # ""
    <3>1. progress = [i \in {0} |-> TRUE]
      BY <2>1
    <3>2. DOMAIN progress = {0} /\ progress[0]
      BY <3>1
    <3> QED
      BY <2>1, <3>2 DEF Finishing
  <2>2. CASE m.finish = ""
    <3>1. progress = <<>>
      BY <2>2
    <3>2. DOMAIN progress = {}
      BY <3>1, EmptyDomain
    <3> QED
      BY <2>2, <3>2 DEF Finishing
  <2> QED
    BY <2>1, <2>2
<1> HIDE DEF progress
<1>4. /\ DOMAIN o = DOMAIN t /\ o.env = t.env /\ o.usage = t.usage /\ o.final = t.final
      /\ DOMAIN o.finished = DOMAIN t.finished \cup DOMAIN progress
      /\ o.end \in {0, now, t.end}
      /\ DOMAIN o.finished # {} \/ o.end = 0
      /\ EndMoved(t, DOMAIN progress, Finishing(progress), now, o)
  BY ClockObserves
<1> HIDE DEF o
<1>5. /\ DOMAIN u = DOMAIN t /\ u.env = t.env /\ u.finished = o.finished /\ u.end = o.end
      /\ u.usage = IF m.finish # "" THEN openAIUsage("responses", m) ELSE t.usage
      /\ u.final = IF m.finish # "" THEN m.finish ELSE t.final
  BY <1>2, <1>4 DEF OpenAIFields
<1>6. LET ended == IF m.finish # "" THEN {0} ELSE {} IN EndMoved(t, ended, ended, now, u)
  BY <1>3, <1>4, <1>5 DEF EndMoved, AllFinished, Finished
<1> QED
  BY <1>1, <1>3, <1>4, <1>5, <1>6 DEF ResponseTaken

LEMMA PerplexityChunk ==
  ASSUME NEW t, FieldsOf("perplexity") \subseteq DOMAIN t, NEW m, NEW now
  PROVE  LET u  == Observe("perplexity", t, m, now)
             at == The(m.use)
             said == Tokens(at.fresh, at.text, at.fresh + at.text, 0, 0, 0)
         IN DOMAIN u = DOMAIN t /\ u.env = t.env /\ u.usage = IF said.in + said.out > 0 THEN said ELSE t.usage
BY DEF FieldsOf, OpenAIKinds, Observe, CP!recordPerplexityChunk

LEMMA ProxyChunk ==
  ASSUME NEW t, FieldsOf("litellm") \subseteq DOMAIN t, NEW m, NEW now
  PROVE  LET v == Observe("litellm", t, m, now)
             u == LL!Reported(The(m.use))
             some == u.prompt + u.completion > 0
         IN /\ DOMAIN v = DOMAIN t /\ v.env = t.env
            /\ v.served = (IF t.served = LL!NoRoute THEN Claude ELSE t.served)
            /\ v.usage.prompt = (IF some THEN u.prompt ELSE t.usage.prompt)
            /\ v.usage.completion = (IF some THEN u.completion ELSE t.usage.completion)
            /\ v.usage.read = (IF u.read > 0 THEN u.read ELSE t.usage.read)
            /\ v.usage.write = (IF u.write > 0 THEN u.write ELSE t.usage.write)
BY DEF FieldsOf, OpenAIKinds, Observe, LL!processChunkData

LEMMA GoogleChunk ==
  ASSUME NEW t, FieldsOf("google") \subseteq DOMAIN t, NEW m, NEW now
  PROVE  LET v == Observe("google", t, m, now)
             said == {GO!UsageMetadata(u, TRUE) : u \in m.use}
         IN /\ DOMAIN v = DOMAIN t /\ v.env = t.env
            /\ v.usage = (IF said # {} THEN said ELSE t.usage)
            /\ v.finished <=> t.finished \/ m.finish # ""
BY DEF FieldsOf, OpenAIKinds, Observe, GO!observe

(* Of a message: that it started, and stopped, and what it cost.                *)
LEMMA MessageEvent ==
  ASSUME NEW k \in MessageKinds, NEW t, MessageFields \subseteq DOMAIN t, NEW m, NEW now
  PROVE  LET v == Observe(k, t, m, now) IN
         /\ DOMAIN v = DOMAIN t /\ v.env = t.env
         /\ v.stopSeen <=> t.stopSeen \/ m.type = "message_stop"
         /\ v.exhausted = t.exhausted
         /\ k \in {"anthropic", "beta"} => (v.told <=> t.told \/ m.type = "message_start")
<1> DEFINE v == Observe(k, t, m, now)
           event == messageEvent(m)
<1>0. event.type = m.type
  BY DEF messageEvent
<1> HIDE DEF event
<1>1. CASE k = "anthropic"
  <2>1. v = AN!processTypedEvent(t, event, now)
    BY <1>1 DEF Observe, OpenAIKinds, event
  <2> HIDE DEF v
  <2> QED
    BY <1>0, <1>1, <2>1 DEF AN!processTypedEvent, MessageFields, v
<1>2. CASE k = "beta"
  <2>1. v = AN!betaObserve(t, event, now)
    BY <1>2 DEF Observe, OpenAIKinds, event
  <2> HIDE DEF v
  <2> QED
    BY <1>0, <1>2, <2>1 DEF AN!betaObserve, MessageFields, v
<1>3. CASE k = "invoke"
  <2>1. v = AN!takeStreamEvent(t, event, now)
    BY <1>3 DEF Observe, OpenAIKinds, event
  <2> HIDE DEF v
  <2> QED
    BY <1>0, <1>3, <2>1 DEF AN!takeStreamEvent, MessageFields, v
<1>4. CASE k = "converse"
  <2>1. v = AN!converseEvent(t, event, now)
    BY <1>4 DEF Observe, OpenAIKinds, event
  <2> HIDE DEF v
  <2> QED
    BY <1>0, <1>4, <2>1 DEF AN!converseEvent, MessageFields, v
<1> QED
  BY <1>1, <1>2, <1>3, <1>4 DEF MessageKinds

(* ------------------------------ the invariant ------------------------------ *)
(* A stream not closed yet has come so far on one of the wires the provider    *)
(* may send: n chunks have left the wire, of which the last may be held still. *)
Position(w, n) ==
  /\ wire \in Seq(Chunks) /\ Len(wire) = Len(w) - n /\ \A i \in 1 .. Len(wire) : wire[i] = w[n + i]
  /\ reader = "holding" => n > 0 /\ holding = w[n]
Taken(n) == IF reader = "holding" THEN n - 1 ELSE n
(* What the state tells of the first p chunks of a wire.                       *)
LastTold(w, p) ==
  \/ seen.told = {} /\ \A i \in 1 .. p : w[i].told = {}
  \/ \E j \in 1 .. p : /\ seen.told = w[j].told /\ w[j].told # {}
                      /\ \A i \in (j + 1) .. p : w[i].told = {}
Gathered(w, p) ==
  /\ LastTold(w, p)
  /\ kind \in OpenAIKinds =>
       \A c : HasFinished(s, c) => \E i \in 1 .. p : c \in DOMAIN w[i].choices /\ w[i].choices[c] # ""
  /\ kind = "responses" => ((\A i \in 1 .. p : w[i].finish = "") => DOMAIN s.finished = {})
  /\ kind = "google" => ((\E i \in 1 .. p : w[i].finish # "") => s.finished)
  /\ kind \in MessageKinds => ((\E i \in 1 .. p : w[i].type = "message_stop") => s.stopSeen)
  /\ kind \in {"anthropic", "beta"} => (p >= 1 => s.told)
(* Seen is what its fields are, and what a timed stream was seen to show is    *)
(* what its clock has kept.                                                    *)
SeenFields == DOMAIN NothingSeen
SeenKept ==
  /\ SeenFields \subseteq DOMAIN seen
  /\ kind = "responses" => (seen.failed <=> s.final = "failed")
  /\ kind \in TimedKinds => seen.shown = DOMAIN s.finished /\ seen.done = Finished(s)
TimeKept == kind \in TimedKinds =>
  /\ seen.output \in 0 .. clock /\ s.end \in Nat /\ seen.over \in 0 .. clock
  /\ s.end # 0 => seen.output <= s.end /\ s.end <= seen.over
  /\ s.end # 0 <=> reader = "ended" \/ AllDone(seen)
EndKept ==
  /\ kind = "google" /\ seen.finished => s.finished
  /\ kind \in MessageKinds => (seen.finished => s.stopSeen) /\ (reader = "ended" => s.exhausted)
StartKept == kind = "beta" /\ seen.told # {} => s.told
Reading ==
  /\ records = <<>> /\ (broke => reader = "ended") /\ FieldsOf(kind) \subseteq DOMAIN s
  /\ SeenKept /\ TimeKept /\ EndKept /\ StartKept
  /\ reader # "ended" => \E w \in Streams[kind] : \E n \in 0 .. Len(w) : Position(w, n) /\ Gathered(w, Taken(n))
StreamTypeOK == /\ kind \in Kinds /\ clock \in Nat \ {0} /\ reader \in {"idle", "holding", "ended"}
                /\ broke \in BOOLEAN /\ closed \in BOOLEAN
StreamInv == StreamTypeOK /\ (~closed => Reading) /\ OneHonestRecord

LEMMA Wires ==
  ASSUME StreamTypeOK, NEW w \in Streams[kind]
  PROVE  w \in Seq(Chunks) /\ Len(w) \in Nat /\ DOMAIN w = 1 .. Len(w) /\ IsStream(kind, w)
         /\ \A i \in 1 .. Len(w) : w[i] \in Chunks /\ IsChunk(w[i])
<1>1. w \in Seq(Chunks) /\ IsStream(kind, w)
  BY StreamsAssumption DEF StreamTypeOK
<1>2. Len(w) \in Nat /\ DOMAIN w = 1 .. Len(w) /\ \A i \in 1 .. Len(w) : w[i] \in Chunks
  BY <1>1
<1> QED
  BY <1>1, <1>2, StreamsAssumption

LEMMA OpenedFields ==
  ASSUME NEW k \in Kinds
  PROVE  /\ FieldsOf(k) \subseteq DOMAIN Opened(k)
         /\ k \in TimedKinds => Opened(k).end = 0 /\ DOMAIN Opened(k).finished = {} /\ Opened(k).final = ""
<1>1. CASE k \in OpenAIKinds \cup {"responses"}
  <2>1. Opened(k) = OA!StreamOpened(Env(k))
    BY <1>1 DEF Opened, OpenAIKinds
  <2>2. FieldsOf(k) = OpenAIFields
    BY <1>1 DEF FieldsOf, OpenAIKinds
  <2>3. /\ OpenAIFields \subseteq DOMAIN OA!StreamOpened(Env(k))
        /\ OA!StreamOpened(Env(k)).end = 0 /\ OA!StreamOpened(Env(k)).finished = <<>>
        /\ OA!StreamOpened(Env(k)).final = ""
    BY DEF OA!StreamOpened, OpenAIFields
  <2>4. DOMAIN OA!StreamOpened(Env(k)).finished = {}
    BY <2>3, EmptyDomain
  <2> QED
    BY <2>1, <2>2, <2>3, <2>4
<1>2. CASE k = "perplexity"
  BY <1>2 DEF Opened, FieldsOf, OpenAIKinds, TimedKinds, CP!perplexityOpened
<1>3. CASE k = "litellm"
  BY <1>3 DEF Opened, FieldsOf, OpenAIKinds, TimedKinds, LL!proxyStreamOpened
<1>4. CASE k = "google"
  BY <1>4 DEF Opened, FieldsOf, OpenAIKinds, TimedKinds, GO!streamOpened
<1>5. CASE k \in MessageKinds
  <2>1. FieldsOf(k) = MessageFields
    BY <1>5 DEF FieldsOf, OpenAIKinds, MessageKinds
  <2>2. Opened(k) \in {AN!StreamOpened(Env(k)), AN!betaOpened(Env(k))}
    BY <1>5 DEF Opened, OpenAIKinds, MessageKinds
  <2>3. MessageFields \subseteq DOMAIN AN!StreamOpened(Env(k)) /\ MessageFields \subseteq DOMAIN AN!betaOpened(Env(k))
    BY DEF AN!StreamOpened, AN!betaOpened, MessageFields
  <2> QED
    BY <1>5, <2>1, <2>2, <2>3 DEF OpenAIKinds, MessageKinds, TimedKinds, BedrockKinds
<1> QED
  BY <1>1, <1>2, <1>3, <1>4, <1>5, KindsOfStreams DEF TimedKinds, OpenAIKinds, MessageKinds

LEMMA StreamInvAtFirst == StreamInit => StreamInv
<1> SUFFICES ASSUME StreamInit PROVE StreamInv
  OBVIOUS
<1>1. StreamTypeOK
  <2>1. kind \in Kinds /\ broke = FALSE /\ reader = "idle" /\ clock = 1 /\ closed = FALSE
    BY DEF StreamInit
  <2>2. broke \in BOOLEAN /\ closed \in BOOLEAN
    BY <2>1
  <2>3. clock \in Nat \ {0} /\ reader \in {"idle", "holding", "ended"}
    BY <2>1
  <2> QED
    BY <2>1, <2>2, <2>3 DEF StreamTypeOK
<1>2. wire \in Streams[kind]
  BY DEF StreamInit
<1>3. Position(wire, 0) /\ Taken(0) = 0 /\ 0 \in 0 .. Len(wire)
  BY <1>1, <1>2, Wires DEF Position, Taken, StreamInit
<1>4. FieldsOf(kind) \subseteq DOMAIN s
      /\ (kind \in TimedKinds => s.end = 0 /\ DOMAIN s.finished = {} /\ s.final = "")
  BY <1>1, OpenedFields DEF StreamInit, StreamTypeOK
<1>9. /\ seen.told = {} /\ seen.output = 0 /\ seen.finished = FALSE /\ seen.failed = FALSE
      /\ seen.shown = {} /\ seen.done = {} /\ seen.over = 0 /\ SeenFields \subseteq DOMAIN seen
  BY DEF StreamInit, NothingSeen, SeenFields
<1>10. reader = "idle" /\ clock \in Nat
  BY <1>1 DEF StreamInit, StreamTypeOK
<1>5. Gathered(wire, 0)
  <2>1. LastTold(wire, 0) /\ \A i : i \notin 1 .. 0
    BY <1>9 DEF LastTold
  <2>2. kind \in TimedKinds => DOMAIN s.finished = {}
    BY <1>4
  <2> QED
    BY <2>1, <2>2 DEF Gathered, HasFinished, TimedKinds
<1>6. SeenKept /\ TimeKept /\ EndKept /\ StartKept
  <2>1. kind \in TimedKinds => Finished(s) = {} /\ ~AllDone(seen)
    BY <1>4, <1>9 DEF Finished, AllDone
  <2>2. SeenKept
    BY <1>4, <1>9, <2>1 DEF SeenKept, TimedKinds
  <2>3. TimeKept
    <3>1. seen.output \in 0 .. clock /\ seen.over \in 0 .. clock
      BY <1>9, <1>10
    <3>2. ASSUME kind \in TimedKinds PROVE s.end = 0 /\ ~(reader = "ended" \/ AllDone(seen))
      BY <1>4, <1>10, <2>1, <3>2
    <3>3. kind \in TimedKinds => s.end \in Nat /\ (s.end # 0 <=> reader = "ended" \/ AllDone(seen))
      BY <3>2
    <3> QED
      BY <3>1, <3>2, <3>3 DEF TimeKept
  <2> QED
    BY <1>9, <1>10, <2>2, <2>3 DEF EndKept, StartKept
<1>7. Reading
  BY <1>2, <1>3, <1>4, <1>5, <1>6 DEF Reading, StreamInit
<1>8. OneHonestRecord
  BY DEF OneHonestRecord, StreamInit
<1> QED
  BY <1>1, <1>7, <1>8 DEF StreamInv

(* ------------------------------- the steps -------------------------------- *)
LEMMA HonestAsBefore ==
  ASSUME OneHonestRecord, UNCHANGED <<records, broke, closed, kind, seen>>
  PROVE  OneHonestRecord'
BY DEF OneHonestRecord, TimedKinds, OpenAIKinds, AllDone

LEMMA HonestWhileOpen ==
  ASSUME records' = <<>>, ~closed'
  PROVE  OneHonestRecord'
BY DEF OneHonestRecord

LEMMA GatheredAsBefore ==
  ASSUME NEW w, NEW p, Gathered(w, p), UNCHANGED <<kind, s, seen>>
  PROVE  Gathered(w, p)'
<1>1. LastTold(w, p)'
  BY DEF Gathered, LastTold
<1>2. kind = kind' /\ s = s' /\ \A c : HasFinished(s, c)' <=> HasFinished(s, c)
  BY DEF HasFinished
<1>3. kind' \in OpenAIKinds =>
       \A c : HasFinished(s, c)' => \E i \in 1 .. p : c \in DOMAIN w[i].choices /\ w[i].choices[c] # ""
  BY <1>2 DEF Gathered, OpenAIKinds
<1> QED
  BY <1>1, <1>2, <1>3 DEF Gathered, OpenAIKinds, MessageKinds

LEMMA ChunksAreReceived ==
  ASSUME StreamInv, ReceiveChunk
  PROVE  StreamInv'
<1>1. Reading /\ ~closed /\ StreamTypeOK
  BY DEF StreamInv, ReceiveChunk
<1>2. /\ reader = "idle" /\ wire # <<>> /\ reader' = "holding" /\ holding' = Head(wire) /\ wire' = Tail(wire)
      /\ UNCHANGED <<kind, broke, s, clock, closed, records, seen>>
  BY DEF ReceiveChunk
<1>3. PICK w \in Streams[kind] : \E n \in 0 .. Len(w) : Position(w, n) /\ Gathered(w, Taken(n))
  BY <1>1, <1>2 DEF Reading
<1>4. PICK n \in 0 .. Len(w) : Position(w, n) /\ Gathered(w, n)
  BY <1>2, <1>3 DEF Taken
<1>5. wire \in Seq(Chunks) /\ Len(wire) = Len(w) - n /\ \A i \in 1 .. Len(wire) : wire[i] = w[n + i]
  BY <1>4 DEF Position
<1>6. Len(w) \in Nat
  BY <1>1, Wires
<1>7. /\ Len(wire) >= 1 /\ wire' \in Seq(Chunks) /\ Len(wire') = Len(wire) - 1
      /\ \A i \in 1 .. Len(wire') : wire'[i] = wire[i + 1]
      /\ holding' = wire[1]
  BY <1>2, <1>5
<1>8. n + 1 \in 0 .. Len(w) /\ Position(w, n + 1)' /\ Taken(n + 1)' = n
  BY <1>2, <1>5, <1>6, <1>7 DEF Position, Taken
<1>9. Gathered(w, n)'
  BY <1>2, <1>4, GatheredAsBefore
<1>10. (SeenKept /\ TimeKept /\ EndKept /\ StartKept)'
  BY <1>1, <1>2 DEF Reading, SeenKept, TimeKept, EndKept, StartKept, Finished, AllDone
<1>11. Reading'
  BY <1>1, <1>2, <1>8, <1>9, <1>10 DEF Reading
<1>12. StreamTypeOK'
  BY <1>1, <1>2 DEF StreamTypeOK
<1>13. OneHonestRecord'
  BY <1>1, <1>2, HonestWhileOpen DEF Reading
<1> QED
  BY <1>11, <1>12, <1>13 DEF StreamInv

LEMMA ExhaustedState ==
  ASSUME NEW k \in Kinds, NEW t, FieldsOf(k) \subseteq DOMAIN t, NEW now
  PROVE  LET u == Exhausted(k, t, now) IN
         /\ DOMAIN u = DOMAIN t
         /\ k \in OpenAIKinds \cup {"responses"} => u.end = (IF t.end = 0 THEN now ELSE t.end) /\ u.env = t.env
                                                    /\ u.usage = t.usage /\ u.final = t.final
                                                    /\ u.finished = t.finished
         /\ k \in MessageKinds => /\ u.exhausted /\ u.stopSeen = t.stopSeen /\ u.told = t.told /\ u.env = t.env
                                  /\ u.usage = t.usage
         /\ k \notin OpenAIKinds \cup {"responses"} \cup MessageKinds => u = t
<1>1. CASE k \in OpenAIKinds \cup {"responses"}
  <2>1. Exhausted(k, t, now) = [t EXCEPT !.end = IF @ = 0 THEN now ELSE @]
    BY <1>1 DEF Exhausted, OA!markExhausted, BedrockKinds, OpenAIKinds
  <2>2. FieldsOf(k) = OpenAIFields
    BY <1>1 DEF FieldsOf, OpenAIKinds
  <2> QED
    BY <1>1, <2>1, <2>2 DEF OpenAIFields, MessageKinds, OpenAIKinds
<1>2. CASE k \in MessageKinds
  <2>1. Exhausted(k, t, now) = [t EXCEPT !.exhausted = TRUE]
    BY <1>2 DEF Exhausted, BedrockKinds, OpenAIKinds, MessageKinds
  <2>2. FieldsOf(k) = MessageFields
    BY <1>2 DEF FieldsOf, OpenAIKinds, MessageKinds
  <2> QED
    BY <1>2, <2>1, <2>2 DEF MessageFields, MessageKinds, OpenAIKinds
<1>3. CASE k \notin OpenAIKinds \cup {"responses"} \cup MessageKinds
  BY <1>3 DEF Exhausted, OpenAIKinds, MessageKinds, BedrockKinds
<1> QED
  BY <1>1, <1>2, <1>3

LEMMA EndIsSeen ==
  ASSUME SeenFields \subseteq DOMAIN seen, seen' = EndSeen(seen)
  PROVE  /\ DOMAIN seen' = DOMAIN seen
         /\ seen'.told = seen.told /\ seen'.output = seen.output /\ seen'.finished = seen.finished
         /\ seen'.failed = seen.failed /\ seen'.shown = seen.shown /\ seen'.done = seen.done
         /\ seen'.over = IF NotOver(seen) THEN clock ELSE seen.over
BY DEF EndSeen, SeenFields, NothingSeen

LEMMA StreamsEnd ==
  ASSUME StreamInv, StreamEnds
  PROVE  StreamInv'
<1>1. Reading /\ ~closed /\ StreamTypeOK
  BY DEF StreamInv, StreamEnds
<1>2. /\ broke' \in BOOLEAN /\ reader' = "ended" /\ s' = Exhausted(kind, s, clock)
      /\ seen' = EndSeen(seen) /\ reader = "idle" /\ UNCHANGED <<kind, clock, closed, records>>
  BY DEF StreamEnds
<1>3. /\ FieldsOf(kind) \subseteq DOMAIN s'
      /\ kind \in TimedKinds => /\ s'.end = IF s.end = 0 THEN clock ELSE s.end
                                /\ s'.final = s.final /\ s'.finished = s.finished
      /\ kind \in MessageKinds => s'.exhausted /\ s'.stopSeen = s.stopSeen /\ s'.told = s.told
      /\ kind = "google" => s' = s
  BY <1>1, <1>2, ExhaustedState DEF Reading, StreamTypeOK, TimedKinds, OpenAIKinds, MessageKinds
<1>9. /\ SeenFields \subseteq DOMAIN seen'
      /\ seen'.told = seen.told /\ seen'.output = seen.output /\ seen'.finished = seen.finished
      /\ seen'.failed = seen.failed /\ seen'.shown = seen.shown /\ seen'.done = seen.done
      /\ seen'.over = IF NotOver(seen) THEN clock ELSE seen.over
  BY <1>1, <1>2, EndIsSeen DEF Reading, SeenKept
<1>4. SeenKept' /\ TimeKept'
  <2>1. SeenKept'
    BY <1>1, <1>2, <1>3, <1>9 DEF Reading, SeenKept, Finished, TimedKinds
  <2>2. ASSUME kind \in TimedKinds
        PROVE  /\ seen'.output \in 0 .. clock /\ s'.end \in Nat /\ seen'.over \in 0 .. clock
               /\ s'.end # 0 /\ seen'.output <= s'.end /\ s'.end <= seen'.over
    <3>1. /\ seen.output \in 0 .. clock /\ s.end \in Nat /\ seen.over \in 0 .. clock /\ clock \in Nat \ {0}
          /\ s.end # 0 => seen.output <= s.end /\ s.end <= seen.over
          /\ s.end # 0 <=> AllDone(seen)
      BY <1>1, <1>2, <2>2 DEF Reading, TimeKept, StreamTypeOK
    <3>2. NotOver(seen) <=> s.end = 0
      BY <2>2, <3>1 DEF NotOver
    <3> QED
      BY <1>3, <1>9, <2>2, <3>1, <3>2
  <2> QED
    BY <1>2, <2>1, <2>2 DEF TimeKept
<1>5. EndKept' /\ StartKept'
  BY <1>1, <1>2, <1>3, <1>9 DEF Reading, EndKept, StartKept, MessageKinds
<1>6. Reading'
  BY <1>1, <1>2, <1>3, <1>4, <1>5 DEF Reading
<1>7. StreamTypeOK'
  BY <1>1, <1>2 DEF StreamTypeOK
<1>8. OneHonestRecord'
  BY <1>1, <1>2, HonestWhileOpen DEF Reading
<1> QED
  BY <1>6, <1>7, <1>8 DEF StreamInv

LEMMA TimeGoesOn ==
  ASSUME StreamInv, clock' \in {clock, clock + 1},
         UNCHANGED <<kind, wire, broke, reader, holding, s, closed, records, seen>>
  PROVE  StreamInv'
<1>1. StreamTypeOK /\ (~closed => Reading) /\ OneHonestRecord
  BY DEF StreamInv
<1>2. clock' \in {clock, clock + 1} /\ UNCHANGED <<kind, wire, broke, reader, holding, s, closed, records, seen>>
  OBVIOUS
<1>3. StreamTypeOK'
  BY <1>1, <1>2 DEF StreamTypeOK
<1>4. ASSUME ~closed PROVE Reading'
  <2>1. Reading
    BY <1>1, <1>4
  <2>2. SeenKept' /\ TimeKept'
    <3>1. SeenKept'
      BY <1>2, <2>1 DEF Reading, SeenKept, Finished
    <3>2. AllDone(seen)' <=> AllDone(seen)
      BY <1>2 DEF AllDone
    <3>3. TimeKept'
      BY <1>1, <1>2, <2>1, <3>2 DEF Reading, TimeKept, StreamTypeOK
    <3> QED
      BY <3>1, <3>3
  <2>3. EndKept' /\ StartKept'
    BY <1>2, <2>1 DEF Reading, EndKept, StartKept
  <2>4. \A w, n : Position(w, n) => Position(w, n)'
    BY <1>2 DEF Position
  <2>5. \A w, p : Gathered(w, p) => Gathered(w, p)'
    BY <1>2, GatheredAsBefore
  <2>6. \A n : Taken(n)' = Taken(n)
    BY <1>2 DEF Taken
  <2>7. Reading'
    BY <1>2, <2>1, <2>2, <2>3, <2>4, <2>5, <2>6 DEF Reading
  <2> QED
    BY <2>7
<1>5. OneHonestRecord'
  BY <1>1, <1>2, HonestAsBefore
<1> QED
  BY <1>2, <1>3, <1>4, <1>5 DEF StreamInv

LEMMA ChunkIsSeen ==
  ASSUME TakeIn, ~closed
  PROVE  /\ DOMAIN seen' = SeenFields
         /\ seen'.told = IF holding.told # {} THEN holding.told ELSE seen.told
         /\ seen'.output = IF holding.output THEN clock ELSE seen.output
         /\ seen'.finished <=> seen.finished \/ wire = <<>>
         /\ seen'.failed = IF holding.finish # "" THEN holding.finish = "failed" ELSE seen.failed
         /\ kind \in TimedKinds => /\ seen'.shown = seen.shown \cup Shown(holding)
                                   /\ seen'.done = seen.done \cup Done(holding)
                                   /\ seen'.over = IF ~AllDone(seen') \/ Done(holding) # {} THEN clock ELSE seen.over
<1>1. seen' = ChunkSeen(seen, holding)
  BY DEF TakeIn
<1> QED
  BY <1>1 DEF ChunkSeen, SeenFields, NothingSeen, NotOver, AllDone

LEMMA ToldAtLast ==
  ASSUME StreamTypeOK, NEW w \in Streams[kind], NEW n \in 1 .. Len(w), LastTold(w, n - 1), holding = w[n],
         TakeIn, ~closed
  PROVE  LastTold(w, n)'
<1>1. Len(w) \in Nat /\ \A i \in 1 .. n : w[i] \in Chunks
  BY Wires
<1>2. seen'.told = IF w[n].told # {} THEN w[n].told ELSE seen.told
  BY ChunkIsSeen
<1>3. CASE w[n].told # {}
  <2>1. n \in 1 .. n /\ seen'.told = w[n].told /\ \A i \in (n + 1) .. n : w[i].told = {}
    BY <1>1, <1>2, <1>3
  <2> QED
    BY <1>3, <2>1 DEF LastTold
<1>4. CASE w[n].told = {}
  <2>1. seen'.told = seen.told
    BY <1>2, <1>4
  <2>2. CASE seen.told = {} /\ \A i \in 1 .. (n - 1) : w[i].told = {}
    BY <1>1, <1>4, <2>1, <2>2 DEF LastTold
  <2>3. ASSUME NEW j \in 1 .. (n - 1), seen.told = w[j].told, w[j].told # {},
               \A i \in (j + 1) .. (n - 1) : w[i].told = {}
        PROVE  LastTold(w, n)'
    <3>1. j \in 1 .. n /\ \A i \in (j + 1) .. n : w[i].told = {}
      BY <1>1, <1>4, <2>3
    <3> QED
      BY <2>1, <2>3, <3>1 DEF LastTold
  <2> QED
    BY <2>2, <2>3 DEF LastTold
<1> QED
  BY <1>3, <1>4

LEMMA FieldsStay ==
  ASSUME NEW k \in Kinds, NEW t, FieldsOf(k) \subseteq DOMAIN t, NEW m, NEW now
  PROVE  FieldsOf(k) \subseteq DOMAIN Observe(k, t, m, now)
<1>1. CASE k \in OpenAIKinds
  <2>1. FieldsOf(k) = OpenAIFields
    BY <1>1, FieldsOfOpenAI
  <2>2. ChatTaken(k, t, m, now, Observe(k, t, m, now))
    BY <1>1, <2>1, ChatChunk
  <2> QED
    BY <2>1, <2>2 DEF ChatTaken
<1>2. CASE k = "responses"
  <2>1. FieldsOf("responses") = OpenAIFields
    BY FieldsOfOpenAI
  <2>2. ResponseTaken(t, m, now, Observe("responses", t, m, now))
    BY <1>2, <2>1, ResponsesEvent
  <2> QED
    BY <1>2, <2>1, <2>2 DEF ResponseTaken
<1>3. CASE k = "perplexity"
  BY <1>3, PerplexityChunk
<1>4. CASE k = "litellm"
  BY <1>4, ProxyChunk
<1>5. CASE k = "google"
  BY <1>5, GoogleChunk
<1>6. CASE k \in MessageKinds
  <2>1. FieldsOf(k) = MessageFields
    BY <1>6 DEF FieldsOf, OpenAIKinds, MessageKinds
  <2> QED
    BY <1>6, <2>1, MessageEvent
<1> QED
  BY <1>1, <1>2, <1>3, <1>4, <1>5, <1>6, KindsOfStreams

LEMMA GatheredNext ==
  ASSUME StreamTypeOK, NEW w \in Streams[kind], NEW n \in 1 .. Len(w), Gathered(w, n - 1), holding = w[n],
         TakeIn, ~closed, FieldsOf(kind) \subseteq DOMAIN s
  PROVE  Gathered(w, n)'
<1>1. Len(w) \in Nat /\ \A i : i \in 1 .. n <=> i \in 1 .. (n - 1) \/ i = n
  BY Wires
<1>2. kind' = kind /\ s' = Observe(kind, s, w[n], clock) /\ kind \in Kinds
  BY DEF TakeIn, StreamTypeOK
<1>3. LastTold(w, n)'
  BY ToldAtLast DEF Gathered
<1>4. ASSUME kind \in OpenAIKinds, NEW c, HasFinished(s', c)
      PROVE  \E i \in 1 .. n : c \in DOMAIN w[i].choices /\ w[i].choices[c] # ""
  <2>1. HasFinished(s', c) <=> HasFinished(s, c) \/ (c \in DOMAIN w[n].choices /\ w[n].choices[c] # "")
    <3>1. ChatTaken(kind, s, w[n], clock, s')
      BY <1>2, <1>4, ChatChunk, FieldsOfOpenAI
    <3> QED
      BY <3>1 DEF ChatTaken
  <2> QED
    BY <1>1, <1>4, <2>1 DEF Gathered
<1>5. ASSUME kind = "responses", \A i \in 1 .. n : w[i].finish = "" PROVE DOMAIN s'.finished = {}
  <2>1. w[n].finish = "" => DOMAIN s'.finished = DOMAIN s.finished
    <3>1. ResponseTaken(s, w[n], clock, s')
      BY <1>2, <1>5, ResponsesEvent, FieldsOfOpenAI
    <3> QED
      BY <1>5, <3>1 DEF ResponseTaken
  <2>2. DOMAIN s.finished = {}
    BY <1>1, <1>5 DEF Gathered
  <2> QED
    BY <1>1, <1>5, <2>1, <2>2
<1>6. ASSUME kind = "google", NEW i \in 1 .. n, w[i].finish # "" PROVE s'.finished
  <2>1. s'.finished <=> s.finished \/ w[n].finish # ""
    BY <1>2, <1>6, GoogleChunk
  <2> QED
    BY <1>1, <1>6, <2>1 DEF Gathered
<1>7. ASSUME kind \in MessageKinds PROVE MessageFields \subseteq DOMAIN s
  BY <1>7 DEF FieldsOf, OpenAIKinds, MessageKinds
<1>8. ASSUME kind \in MessageKinds, NEW i \in 1 .. n, w[i].type = "message_stop" PROVE s'.stopSeen
  <2>1. s'.stopSeen <=> s.stopSeen \/ w[n].type = "message_stop"
    BY <1>2, <1>7, <1>8, MessageEvent
  <2> QED
    BY <1>1, <1>8, <2>1 DEF Gathered
<1>9. ASSUME kind \in {"anthropic", "beta"} PROVE s'.told
  <2>1. s'.told <=> s.told \/ w[n].type = "message_start"
    BY <1>2, <1>7, <1>9, MessageEvent DEF MessageKinds
  <2>2. w[n].type = "message_start" <=> n = 1
    BY <1>9, Wires DEF IsStream, StartsAndTells
  <2>3. n - 1 >= 1 => s.told
    BY <1>9 DEF Gathered
  <2> QED
    BY <1>1, <2>1, <2>2, <2>3
<1> QED
  BY <1>2, <1>3, <1>4, <1>5, <1>6, <1>8, <1>9 DEF Gathered, HasFinished

(* A chunk of a timed stream moves the end the same way as what was seen.      *)
LEMMA ClockMoves ==
  ASSUME kind \in TimedKinds, OpenAIFields \subseteq DOMAIN s, TakeIn
  PROVE  /\ EndMoved(s, Shown(holding), Done(holding), clock, s')
         /\ kind = "responses" => s'.final = IF holding.finish # "" THEN holding.finish ELSE s.final
<1>1. s' = Observe(kind, s, holding, clock)
  BY DEF TakeIn
<1>2. CASE kind \in OpenAIKinds
  <2>1. ChatTaken(kind, s, holding, clock, s')
    BY <1>1, <1>2, ChatChunk
  <2> QED
    BY <1>2, <2>1 DEF ChatTaken, ChatDone, Shown, Done, OpenAIKinds
<1>3. CASE kind = "responses"
  <2>1. ResponseTaken(s, holding, clock, s')
    BY <1>1, <1>3, ResponsesEvent
  <2>2. Shown(holding) = (IF holding.finish # "" THEN {0} ELSE {}) /\ Done(holding) = Shown(holding)
    BY <1>3 DEF Shown, Done
  <2> QED
    BY <1>3, <2>1, <2>2 DEF ResponseTaken
<1> QED
  BY <1>2, <1>3 DEF TimedKinds

LEMMA OutputEndsNothing ==
  ASSUME StreamTypeOK, NEW w \in Streams[kind], NEW n \in 1 .. Len(w), Gathered(w, n - 1), Gathered(w, n)',
         holding = w[n], TakeIn, ~closed, FieldsOf(kind) \subseteq DOMAIN s, kind \in TimedKinds
  PROVE  w[n].output => s'.end = 0
<1>1. kind' = kind /\ s' = Observe(kind, s, w[n], clock)
  BY DEF TakeIn
<1>2. kind \in OpenAIKinds \cup {"responses"}
  BY DEF TimedKinds
<1>3. OpenAIFields \subseteq DOMAIN s /\ Len(w) \in Nat /\ DOMAIN w = 1 .. Len(w) /\ n \in 1 .. Len(w) /\ IsStream(kind, w)
  <2>1. OpenAIFields \subseteq DOMAIN s
    BY <1>2, FieldsOfOpenAI
  <2> QED
    BY <2>1, Wires
<1>4. CASE kind \in OpenAIKinds
  <2>1. s'.end \in {0, clock, s.end}
        /\ \A c \in DOMAIN w[n].choices : w[n].choices[c] = "" /\ ~HasFinished(s, c) => s'.end = 0
    <3>1. ChatTaken(kind, s, w[n], clock, s')
      BY <1>1, <1>3, <1>4, ChatChunk
    <3> QED
      BY <3>1 DEF ChatTaken
  <2>2. ASSUME w[n].output PROVE s'.end = 0
    <3>1. PICK c \in DOMAIN w[n].choices :
            /\ w[n].choices[c] = ""
            /\ \A i \in DOMAIN w : i < n /\ c \in DOMAIN w[i].choices => w[i].choices[c] = ""
      BY <1>3, <1>4, <2>2 DEF IsStream, FinishesLast
    <3>2. ~HasFinished(s, c)
      <4>1. HasFinished(s, c) => \E i \in 1 .. (n - 1) : c \in DOMAIN w[i].choices /\ w[i].choices[c] # ""
        BY <1>4 DEF Gathered
      <4>2. \A i \in 1 .. (n - 1) : i \in DOMAIN w /\ i < n
        BY <1>3
      <4> QED
        BY <3>1, <4>1, <4>2
    <3> QED
      BY <2>1, <3>1, <3>2
  <2> QED
    BY <2>1, <2>2
<1>5. CASE kind = "responses"
  <2>1. s'.end \in {0, clock, s.end} /\ (DOMAIN s'.finished = {} => s'.end = 0)
    <3>1. ResponseTaken(s, w[n], clock, s')
      BY <1>1, <1>3, <1>5, ResponsesEvent
    <3> QED
      BY <3>1 DEF ResponseTaken
  <2>2. ASSUME w[n].output PROVE s'.end = 0
    <3>1. \A i \in DOMAIN w : w[i].finish # "" => n < i
      BY <1>3, <1>5, <2>2 DEF IsStream, EndsOnce
    <3>2. \A i \in 1 .. n : w[i].finish = ""
      <4>1. \A i \in 1 .. n : i \in DOMAIN w /\ ~(n < i)
        BY <1>3
      <4> QED
        BY <3>1, <4>1
    <3> QED
      BY <1>1, <1>5, <2>1, <3>2 DEF Gathered
  <2> QED
    BY <2>1, <2>2
<1> QED
  BY <1>2, <1>4, <1>5

LEMMA OutputIsTimed ==
  ASSUME StreamTypeOK, NEW w \in Streams[kind], NEW n \in 1 .. Len(w), Gathered(w, n - 1), Gathered(w, n)',
         holding = w[n], TakeIn, ~closed, FieldsOf(kind) \subseteq DOMAIN s, SeenKept, TimeKept
  PROVE  SeenKept' /\ TimeKept'
<1>1. kind' = kind /\ clock' = clock /\ reader' = "idle" /\ reader = "holding" /\ clock \in Nat \ {0}
  BY DEF TakeIn, StreamTypeOK
<1>2. CASE kind \notin TimedKinds
  BY <1>1, <1>2, ChunkIsSeen DEF SeenKept, TimeKept, TimedKinds
<1>3. CASE kind \in TimedKinds
  <2>1. OpenAIFields \subseteq DOMAIN s
    BY <1>3, FieldsOfOpenAI DEF TimedKinds
  <2>2. /\ EndMoved(s, Shown(holding), Done(holding), clock, s')
        /\ kind = "responses" => s'.final = IF holding.finish # "" THEN holding.finish ELSE s.final
    BY <1>3, <2>1, ClockMoves
  <2>3. /\ DOMAIN seen' = SeenFields
        /\ seen'.output = IF holding.output THEN clock ELSE seen.output
        /\ seen'.failed = IF holding.finish # "" THEN holding.finish = "failed" ELSE seen.failed
        /\ seen'.shown = seen.shown \cup Shown(holding) /\ seen'.done = seen.done \cup Done(holding)
        /\ seen'.over = IF ~AllDone(seen') \/ Done(holding) # {} THEN clock ELSE seen.over
    BY <1>3, ChunkIsSeen
  <2>4. seen.shown = DOMAIN s.finished /\ seen.done = Finished(s) /\ (kind = "responses" => (seen.failed <=> s.final = "failed"))
    BY <1>3 DEF SeenKept
  <2>5. seen'.shown = DOMAIN s'.finished /\ seen'.done = Finished(s')
    BY <2>2, <2>3, <2>4 DEF EndMoved
  <2>6. SeenKept'
    <3>1. (Finished(s))' = Finished(s')
      BY DEF Finished
    <3> QED
      BY <1>1, <1>3, <2>2, <2>3, <2>4, <2>5, <3>1 DEF SeenKept
  <2>7. (AllDone(seen') <=> AllFinished(s')) /\ (AllDone(seen) <=> AllFinished(s))
    BY <2>4, <2>5 DEF AllDone, AllFinished
  <2>8. /\ seen.output \in 0 .. clock /\ s.end \in Nat /\ seen.over \in 0 .. clock
        /\ s.end # 0 => seen.output <= s.end /\ s.end <= seen.over
        /\ s.end # 0 <=> AllDone(seen)
    BY <1>1, <1>3 DEF TimeKept
  <2>9. holding.output => s'.end = 0
    BY <1>3, OutputEndsNothing
  <2>10. AllFinished(s') /\ Done(holding) = {} => AllFinished(s)
    <3>1. Finished(s) \subseteq DOMAIN s.finished
      BY DEF Finished
    <3> QED
      BY <2>2, <3>1 DEF EndMoved, AllFinished
  <2>11. s'.end = IF ~AllFinished(s') THEN 0 ELSE IF Done(holding) # {} THEN clock ELSE s.end
    BY <2>2 DEF EndMoved
  <2>12. /\ seen'.output \in 0 .. clock /\ s'.end \in Nat /\ seen'.over \in 0 .. clock
         /\ s'.end # 0 => seen'.output <= s'.end /\ s'.end <= seen'.over
         /\ s'.end # 0 <=> AllDone(seen')
    <3>1. seen'.output \in 0 .. clock /\ seen'.over \in 0 .. clock /\ clock \in 0 .. clock
      <4>1. seen'.output \in {clock, seen.output} /\ seen'.over \in {clock, seen.over}
        BY <2>3
      <4>2. clock \in 0 .. clock
        BY <1>1
      <4> QED
        BY <2>8, <4>1, <4>2
    <3>2. CASE ~AllFinished(s')
      BY <2>7, <2>11, <3>1, <3>2
    <3>3. CASE AllFinished(s') /\ Done(holding) # {}
      <4>1. s'.end = clock /\ seen'.over = clock /\ clock # 0
        BY <1>1, <2>3, <2>11, <3>3
      <4> QED
        BY <1>1, <2>7, <3>1, <3>3, <4>1
    <3>4. CASE AllFinished(s') /\ Done(holding) = {}
      <4>1. s'.end = s.end /\ s.end # 0 /\ seen'.over = seen.over
        BY <2>3, <2>7, <2>8, <2>10, <2>11, <3>4
      <4>2. seen'.output = seen.output
        BY <2>3, <2>9, <4>1
      <4> QED
        BY <2>7, <2>8, <3>1, <3>4, <4>1, <4>2
    <3> QED
      BY <3>2, <3>3, <3>4
  <2>13. AllDone(seen)' <=> AllDone(seen')
    BY DEF AllDone
  <2> QED
    BY <1>1, <2>6, <2>12, <2>13 DEF TimeKept
<1> QED
  BY <1>2, <1>3

LEMMA ChunksAreTakenIn ==
  ASSUME StreamInv, TakeIn
  PROVE  StreamInv'
<1>1. /\ reader = "holding" /\ reader' = "idle"
      /\ kind' = kind /\ wire' = wire /\ broke' = broke /\ clock' = clock /\ closed' = closed /\ records' = records
  BY DEF TakeIn
<1>2. StreamTypeOK'
  BY <1>1 DEF StreamInv, StreamTypeOK
<1>3. CASE closed
  <2>1. seen' = seen
    BY <1>3 DEF TakeIn
  <2> QED
    BY <1>1, <1>2, <1>3, <2>1, HonestAsBefore DEF StreamInv
<1>4. CASE ~closed
  <2>1. Reading /\ StreamTypeOK
    BY <1>4 DEF StreamInv
  <2>2. PICK w \in Streams[kind] : \E n \in 0 .. Len(w) : Position(w, n) /\ Gathered(w, Taken(n))
    BY <1>1, <2>1 DEF Reading
  <2>3. PICK n \in 0 .. Len(w) : Position(w, n) /\ Gathered(w, n - 1)
    BY <1>1, <2>2 DEF Taken
  <2>4. Len(w) \in Nat /\ n \in 1 .. Len(w) /\ holding = w[n]
    BY <1>1, <2>1, <2>3, Wires DEF Position
  <2>5. Gathered(w, n)'
    BY <1>4, <2>1, <2>3, <2>4, GatheredNext DEF Reading
  <2>6. Position(w, n)' /\ Taken(n)' = n
    BY <1>1, <2>3 DEF Position, Taken
  <2>7. SeenKept' /\ TimeKept'
    BY <1>4, <2>1, <2>3, <2>4, <2>5, OutputIsTimed DEF Reading
  <2>8. FieldsOf(kind) \subseteq DOMAIN s'
    BY <2>1, FieldsStay DEF Reading, StreamTypeOK, TakeIn
  <2>9. seen'.finished => seen.finished \/ n = Len(w)
    <3>1. seen'.finished <=> seen.finished \/ wire = <<>>
      BY <1>4, ChunkIsSeen
    <3>2. wire = <<>> => n = Len(w)
      BY <2>3, <2>4 DEF Position
    <3> QED
      BY <3>1, <3>2
  <2>10. EndKept'
    <3>1. IsStream(kind, w) /\ DOMAIN w = 1 .. Len(w)
      BY <2>1, Wires
    <3>2. ASSUME kind = "google", seen'.finished PROVE s'.finished
      <4>1. s.finished => s'.finished
        BY <2>1, <3>2, GoogleChunk DEF Reading, TakeIn
      <4>2. n = Len(w) => s'.finished
        BY <1>1, <2>5, <3>1, <3>2 DEF Gathered, IsStream
      <4> QED
        BY <2>1, <2>9, <3>2, <4>1, <4>2 DEF Reading, EndKept
    <3>3. ASSUME kind \in MessageKinds, seen'.finished PROVE s'.stopSeen
      <4>1. MessageFields \subseteq DOMAIN s
        BY <2>1, <3>3 DEF Reading, FieldsOf, OpenAIKinds, MessageKinds
      <4>2. s.stopSeen => s'.stopSeen
        BY <3>3, <4>1, MessageEvent DEF TakeIn
      <4>3. HasItsStop(w)
        BY <3>1, <3>3 DEF IsStream, MessageKinds
      <4>4. n = Len(w) => s'.stopSeen
        BY <1>1, <2>5, <3>1, <3>3, <4>3 DEF Gathered, HasItsStop
      <4> QED
        BY <2>1, <2>9, <3>3, <4>2, <4>4 DEF Reading, EndKept
    <3> QED
      BY <1>1, <3>2, <3>3 DEF EndKept
  <2>11. StartKept'
    <3>1. kind' \in {"anthropic", "beta"} => (n >= 1 => s'.told)
      BY <2>5 DEF Gathered
    <3> QED
      BY <2>4, <3>1 DEF StartKept
  <2>12. Reading'
    BY <1>1, <2>1, <2>4, <2>5, <2>6, <2>7, <2>8, <2>10, <2>11 DEF Reading
  <2>13. OneHonestRecord'
    BY <1>1, <1>4, <2>1, HonestWhileOpen DEF Reading
  <2> QED
    BY <1>2, <2>12, <2>13 DEF StreamInv
<1> QED
  BY <1>3, <1>4
LEMMA Endings ==
  ASSUME NEW k \in Kinds, NEW t, FieldsOf(k) \subseteq DOMAIN t, NEW b \in BOOLEAN, NEW left \in BOOLEAN
  PROVE  \/ \E r : RecordsOf(k, t, b, left) = <<r>> /\ Ending(k, t, left, r, b)
         \/ RecordsOf(k, t, b, left) = <<>> /\ k = "beta" /\ ~b /\ ~t.told
<1>1. CASE k \in OpenAIKinds \cup {"responses"}
  BY <1>1, OpenAIEnding
<1>2. CASE k = "perplexity"
  BY <1>2, PerplexityEnding
<1>3. CASE k = "litellm"
  BY <1>3, ProxyEnding
<1>4. CASE k = "google"
  BY <1>4, GoogleEnding
<1>5. CASE k \in MessageKinds
  BY <1>5, MessageEnding
<1> QED
  BY <1>1, <1>2, <1>3, <1>4, <1>5, KindsOfStreams

LEMMA OneRecordIsHonest ==
  ASSUME NEW r, NEW end, NEW ended, NEW left, kind' = kind,
         records' = <<[record |-> r, at |-> clock, end |-> end, seen |-> seen, ended |-> ended]>>,
         Ending(kind, s, left, r, broke'),
         kind = "google" => (~left => ended) /\ (seen.finished => s.finished),
         kind \in MessageKinds => (seen.finished => s.stopSeen) /\ (ended => s.exhausted),
         kind = "google" => (left <=> ~ended),
         kind = "responses" => (seen.failed <=> s.final = "failed"),
         kind \in TimedKinds => IF ended \/ AllDone(seen) THEN end \in seen.output .. seen.over ELSE end = clock
  PROVE  OneHonestRecord'
<1> DEFINE e == [record |-> r, at |-> clock, end |-> end, seen |-> seen, ended |-> ended]
<1>1. Len(records') = 1 /\ DOMAIN records' = {1} /\ records'[1] = e /\ records' # <<>>
  OBVIOUS
<1>2. e.record = r /\ e.at = clock /\ e.end = end /\ e.seen = seen /\ e.ended = ended
  OBVIOUS
<1> HIDE DEF e
<1>3. e.record.what = "failed" <=> broke' \/ (kind' = "responses" /\ e.seen.failed)
  BY <1>2 DEF Ending
<1>4. e.record.what = "cancelled" => ~e.ended /\ ~e.seen.finished
  BY <1>2 DEF Ending
<1>5. kind' \in TimedKinds => IF e.ended \/ AllDone(e.seen) THEN e.end \in e.seen.output .. e.seen.over ELSE e.end = e.at
  BY <1>2
<1> QED
  BY <1>1, <1>3, <1>4, <1>5 DEF OneHonestRecord, TimedKinds, OpenAIKinds, AllDone

LEMMA LastsToItsEnd ==
  ASSUME StreamTypeOK, TimeKept
  PROVE  kind \in TimedKinds => IF reader = "ended" \/ AllDone(seen) THEN duration(clock) \in seen.output .. seen.over
                                ELSE duration(clock) = clock
BY DEF StreamTypeOK, TimeKept, duration, OA!duration

LEMMA StreamsAreClosed ==
  ASSUME StreamInv, NEW c \in Closers, CloseStream(c)
  PROVE  StreamInv'
<1>1. closed' /\ UNCHANGED <<kind, reader, holding, s, clock, seen>> /\ kind # "google"
  BY DEF CloseStream
<1>2. CASE closed
  <2>1. UNCHANGED <<records, broke>> /\ closed' = closed
    BY <1>2 DEF CloseStream, StreamInv, StreamTypeOK
  <2>2. StreamTypeOK'
    BY <1>1, <2>1 DEF StreamInv, StreamTypeOK
  <2> QED
    BY <1>1, <2>1, <2>2, HonestAsBefore DEF StreamInv
<1>3. CASE ~closed
  <2>1. Reading /\ StreamTypeOK
    BY <1>3 DEF StreamInv
  <2> DEFINE R == RecordsOf(kind, s, broke', FALSE)
             Sent(woken) == [i \in DOMAIN R |-> [record |-> R[i], at |-> clock, end |-> duration(clock),
                               seen |-> seen, ended |-> reader = "ended"]]
  <2>2. PICK woken \in BOOLEAN : broke' = (broke \/ woken) /\ records' = records \o Sent(woken)
    BY <1>3 DEF CloseStream
  <2>3. broke' \in BOOLEAN /\ records = <<>>
    BY <2>1, <2>2 DEF StreamTypeOK, Reading
  <2>4. StreamTypeOK'
    <3>1. closed' \in BOOLEAN
      BY DEF CloseStream
    <3> QED
      BY <1>1, <2>1, <2>3, <3>1 DEF StreamTypeOK
  <2>5. \/ \E r : R = <<r>> /\ Ending(kind, s, FALSE, r, broke')
        \/ R = <<>> /\ kind = "beta" /\ ~broke' /\ ~s.told
    BY <2>1, <2>3, Endings DEF StreamTypeOK, Reading
  <2> HIDE DEF R
  <2>6. ASSUME NEW r, R = <<r>>, Ending(kind, s, FALSE, r, broke') PROVE OneHonestRecord'
    <3>1. records' = <<[record |-> r, at |-> clock, end |-> duration(clock), seen |-> seen,
                        ended |-> reader = "ended"]>>
      BY <2>2, <2>3, <2>6
    <3>2. kind \in MessageKinds => (seen.finished => s.stopSeen) /\ (reader = "ended" => s.exhausted)
      BY <2>1 DEF Reading, EndKept
    <3>3. kind = "responses" => (seen.failed <=> s.final = "failed")
      BY <2>1 DEF Reading, SeenKept
    <3>4. kind \in TimedKinds => IF reader = "ended" \/ AllDone(seen) THEN duration(clock) \in seen.output .. seen.over
                                 ELSE duration(clock) = clock
      BY <2>1, LastsToItsEnd DEF Reading
    <3> QED
      BY <1>1, <2>6, <3>1, <3>2, <3>3, <3>4, OneRecordIsHonest
  <2>7. ASSUME R = <<>>, kind = "beta", ~broke', ~s.told PROVE OneHonestRecord'
    <3>1. records' = <<>>
      BY <2>2, <2>3, <2>7
    <3>2. kind' = "beta" /\ ~broke' /\ seen'.told = {}
      BY <1>1, <2>1, <2>7 DEF Reading, StartKept
    <3> QED
      BY <3>1, <3>2 DEF OneHonestRecord
  <2> QED
    BY <1>1, <2>4, <2>5, <2>6, <2>7 DEF StreamInv
<1> QED
  BY <1>2, <1>3

LEMMA LoopIsLeft ==
  ASSUME StreamInv, LeaveLoop
  PROVE  StreamInv'
<1>1. /\ closed' /\ closed' \in BOOLEAN /\ UNCHANGED <<kind, broke, reader, holding, s, clock, seen>> /\ kind = "google" /\ ~closed
  BY DEF LeaveLoop
<1>2. Reading /\ StreamTypeOK
  BY <1>1 DEF StreamInv
<1>3. StreamTypeOK'
  BY <1>1, <1>2 DEF StreamTypeOK
<1> DEFINE left == reader # "ended"
           R == RecordsOf(kind, s, broke, left)
<1>4. left \in BOOLEAN
  OBVIOUS
<1>5. records' = [i \in DOMAIN R |-> [record |-> R[i], at |-> clock, end |-> clock, seen |-> seen,
                                      ended |-> reader = "ended"]]
  BY DEF LeaveLoop
<1>6. PICK r : R = <<r>> /\ Ending(kind, s, left, r, broke)
  BY <1>1, <1>2, <1>4, Endings DEF StreamTypeOK, Reading
<1> HIDE DEF R
<1>7. records' = <<[record |-> r, at |-> clock, end |-> clock, seen |-> seen, ended |-> reader = "ended"]>>
  <2> DEFINE sent == [record |-> r, at |-> clock, end |-> clock, seen |-> seen, ended |-> reader = "ended"]
  <2>1. R[1] = r /\ DOMAIN R = 1 .. 1
    BY <1>6
  <2> DEFINE Sent(i) == [record |-> R[i], at |-> clock, end |-> clock, seen |-> seen, ended |-> reader = "ended"]
  <2>2. Sent(1) = sent
    BY <2>1
  <2>3. records' = [i \in 1 .. 1 |-> Sent(i)]
    BY <1>5, <2>1
  <2> HIDE DEF sent, Sent
  <2>4. records' = <<sent>>
    BY <2>2, <2>3
  <2> QED
    BY <2>4 DEF sent
<1>8. seen.finished => s.finished
  BY <1>1, <1>2 DEF Reading, EndKept
<1>9. kind \notin TimedKinds \cup MessageKinds /\ kind # "responses"
  BY <1>1 DEF TimedKinds, OpenAIKinds, MessageKinds
<1>10. OneHonestRecord'
  BY <1>1, <1>6, <1>7, <1>8, <1>9, OneRecordIsHonest
<1> QED
  BY <1>1, <1>3, <1>10 DEF StreamInv

LEMMA StreamInvHolds == StreamSpec => []StreamInv
<1>1. StreamInv /\ [StreamNext]_streamVars => StreamInv'
  <2> SUFFICES ASSUME StreamInv, [StreamNext]_streamVars PROVE StreamInv'
    OBVIOUS
  <2>1. CASE ReceiveChunk
    BY <2>1, ChunksAreReceived
  <2>2. CASE TakeIn
    BY <2>2, ChunksAreTakenIn
  <2>3. CASE StreamEnds
    BY <2>3, StreamsEnd
  <2>4. ASSUME NEW c \in Closers, CloseStream(c) PROVE StreamInv'
    BY <2>4, StreamsAreClosed
  <2>5. CASE LeaveLoop
    BY <2>5, LoopIsLeft
  <2>6. CASE Tick
    BY <2>6, TimeGoesOn DEF Tick
  <2>7. CASE UNCHANGED streamVars
    BY <2>7, TimeGoesOn DEF streamVars
  <2> QED
    BY <2>1, <2>2, <2>3, <2>4, <2>5, <2>6, <2>7 DEF StreamNext
<1> QED
  BY <1>1, StreamInvAtFirst, PTL DEF StreamSpec

(* A stream has one honest record, whatever its provider sends over the wire, *)
(* whoever closes it and whenever: Close and the iterators' defers.           *)
THEOREM StreamsHaveOneHonestRecord == StreamSpec => []OneHonestRecord
<1>1. StreamInv => OneHonestRecord
  BY DEF StreamInv
<1> QED
  BY <1>1, StreamInvHolds, PTL

-----------------------------------------------------------------------------
(* ------------------------------ what is told ------------------------------- *)
(* The usage a message stream has gathered tells that c was consumed; a split  *)
(* of its cache writes adds up to their total.                                 *)
UsageFields == {"in", "out", "read", "write", "thought", "split"}
TurnTells(usage, c) ==
  /\ UsageFields \subseteq DOMAIN usage /\ usage.out = c.text + c.thought
  /\ usage.read = c.read /\ usage.write = c.write /\ usage.split \subseteq {c.write}
(* The state t of a stream of kind k tells what was told; an Anthropic stream  *)
(* guesses its input until it is.                                              *)
Tells(k, t, told) ==
  LET c == The(told) IN
  CASE k \in OpenAIKinds \cup {"responses"} -> t.usage = OA!ReportedUsage(c, k = "xai")
    [] k = "perplexity" -> /\ t.usage = Tokens(c.fresh, c.text, c.fresh + c.text, 0, 0, 0)
                           /\ c.read = 0 /\ c.write = 0 /\ c.thought = 0
    [] k = "litellm"    -> /\ t.usage.prompt = c.fresh + c.read + c.write /\ t.usage.completion = c.text + c.thought
                           /\ t.usage.read = c.read /\ t.usage.write = c.write
    [] k = "google"     -> t.usage = {GO!UsageMetadata(u, TRUE) : u \in told}
    [] OTHER            -> TurnTells(t.usage, c) /\ (told # {} \/ k # "anthropic" => t.usage.in = c.fresh)
(* Chunk m takes what was told from "told" on to "now".                        *)
Unsaid(m, told, now) == m.told = {} /\ m.use = {} /\ ~m.split /\ now = told
NoLess(c, d) ==
  c.fresh <= d.fresh /\ c.read <= d.read /\ c.write <= d.write /\ c.text <= d.text /\ c.thought <= d.thought
Said(m, told, now) ==
  \E u \in Amounts, d \in Amounts :
    /\ m.told = {d} /\ now = {d} /\ m.use = {u} /\ NoLess(The(told), d)
    /\ u.text = d.text /\ u.thought = d.thought /\ (m.split => u = d)
    /\ u.fresh = d.fresh \/ (u.fresh = 0 /\ The(told).fresh = d.fresh)
    /\ u.read = d.read \/ (u.read = 0 /\ The(told).read = d.read)
    /\ u.write = d.write \/ (u.write = 0 /\ The(told).write = d.write)

LEMMA TheOne ==
  /\ The({}) = Nothing /\ Nothing \in Amounts /\ \A u : The({u}) = u
  /\ \A set : IsReport(set) => The(set) \in Amounts
<1>1. The({}) = Nothing /\ \A u : The({u}) = u
  BY DEF The
<1>2. Nothing \in Amounts
  BY DEF Nothing, Amounts
<1> QED
  BY <1>1, <1>2 DEF IsReport

(* Nothing more was consumed than nothing.                                     *)
LEMMA NothingIsLess ==
  ASSUME NEW c \in Amounts, NEW d \in Amounts, NoLess(c, d),
         d.fresh = 0, d.read = 0, d.write = 0, d.text = 0, d.thought = 0
  PROVE  c = d
BY DEF Amounts, NoLess

LEMMA UncountedIsNothing ==
  ASSUME NEW c \in Amounts, NEW b \in BOOLEAN, b => (c.thought > 0 => c.fresh + c.read + c.write + c.text > 0),
         ~(OA!ReportedUsage(c, b).prompt + OA!ReportedUsage(c, b).output > 0)
  PROVE  c.fresh = 0 /\ c.read = 0 /\ c.write = 0 /\ c.text = 0 /\ c.thought = 0
<1>1. c.fresh \in Nat /\ c.read \in Nat /\ c.write \in Nat /\ c.text \in Nat /\ c.thought \in Nat
  BY DEF Amounts
<1>2. /\ OA!ReportedUsage(c, b).prompt = c.fresh + c.read + c.write
      /\ OA!ReportedUsage(c, b).output = IF b THEN c.text ELSE c.text + c.thought
  BY DEF OA!ReportedUsage
<1>3. ~(c.fresh + c.read + c.write + (IF b THEN c.text ELSE c.text + c.thought) > 0)
  BY <1>2
<1>4. CASE b
  <2>1. c.fresh = 0 /\ c.read = 0 /\ c.write = 0 /\ c.text = 0
    BY <1>1, <1>3, <1>4
  <2>2. ~(c.thought > 0)
    BY <1>4, <2>1
  <2> QED
    BY <1>1, <2>1, <2>2
<1>5. CASE ~b
  <2>1. ~(c.fresh + c.read + c.write + (c.text + c.thought) > 0)
    BY <1>3, <1>5
  <2> QED
    BY <1>1, <2>1
<1> QED
  BY <1>4, <1>5

LEMMA NothingThought == \A b \in BOOLEAN : OA!ReportedUsage(Nothing, b) = OA!NoUsage
<1> SUFFICES ASSUME NEW b \in BOOLEAN PROVE OA!ReportedUsage(Nothing, b) = OA!NoUsage
  OBVIOUS
<1>1. Nothing.fresh = 0 /\ Nothing.read = 0 /\ Nothing.write = 0 /\ Nothing.text = 0 /\ Nothing.thought = 0
  BY DEF Nothing
<1>2. OA!Nothing = Nothing
  BY DEF OA!Nothing, Nothing
<1>3. OA!ReportedUsage(Nothing, b) = OA!ReportedUsage(Nothing, FALSE)
  BY <1>1 DEF OA!ReportedUsage
<1> QED
  BY <1>2, <1>3 DEF OA!NoUsage

LEMMA OpenAITells ==
  ASSUME NEW k \in OpenAIKinds \cup {"responses"}, NEW t, NEW told
  PROVE  Tells(k, t, told) <=> t.usage = OA!ReportedUsage(The(told), k = "xai")
BY DEF Tells, OpenAIKinds

LEMMA ChatTells ==
  ASSUME NEW k \in OpenAIKinds, NEW t, OpenAIFields \subseteq DOMAIN t, NEW m, NEW clk, NEW v, v = Observe(k, t, m, clk),
         NEW told, IsReport(told), NEW now, Tells(k, t, told),
         Unsaid(m, told, now) \/ (Said(m, told, now) /\ m.use = m.told),
         k = "xai" => \A d \in m.told : d.thought > 0 => d.fresh + d.read + d.write + d.text > 0
  PROVE  Tells(k, v, now)
<1>1. v.usage = IF CountsUsage(k, m) THEN openAIUsage(k, m) ELSE t.usage
  <2>1. ChatTaken(k, t, m, clk, v)
    BY ChatChunk
  <2> QED
    BY <2>1 DEF ChatTaken
<1>2. t.usage = OA!ReportedUsage(The(told), k = "xai") /\ The(told) \in Amounts
  BY TheOne, OpenAITells
<1>3. CASE Unsaid(m, told, now)
  <2>1. openAIUsage(k, m) = OA!NoUsage
    BY <1>3, TheOne, NothingThought DEF Unsaid, openAIUsage
  <2>2. ~CountsUsage(k, m)
    BY <2>1 DEF CountsUsage, OA!NoUsage, OA!ReportedUsage, OA!Nothing
  <2> QED
    BY <1>1, <1>2, <1>3, <2>2, OpenAITells DEF Unsaid
<1>4. CASE Said(m, told, now) /\ m.use = m.told
  <2>1. PICK d \in Amounts : m.use = {d} /\ now = {d} /\ NoLess(The(told), d)
    BY <1>4 DEF Said
  <2>2. openAIUsage(k, m) = OA!ReportedUsage(d, k = "xai") /\ The(now) = d
    BY <2>1, TheOne DEF openAIUsage
  <2>3. ~CountsUsage(k, m) => The(told) = d
    <3>1. k = "xai" => (d.thought > 0 => d.fresh + d.read + d.write + d.text > 0)
      BY <1>4, <2>1
    <3>2. CountsUsage(k, m) \/ (d.fresh = 0 /\ d.read = 0 /\ d.write = 0 /\ d.text = 0 /\ d.thought = 0)
      BY <2>1, <2>2, <3>1, UncountedIsNothing DEF CountsUsage
    <3> QED
      BY <1>2, <2>1, <3>2, NothingIsLess
  <2>4. v.usage = OA!ReportedUsage(d, k = "xai")
    BY <1>1, <1>2, <2>2, <2>3
  <2> QED
    BY <2>2, <2>4, OpenAITells
<1> QED
  BY <1>3, <1>4

LEMMA ResponseTells ==
  ASSUME NEW t, OpenAIFields \subseteq DOMAIN t, NEW m, NEW clk, NEW v, v = Observe("responses", t, m, clk),
         NEW told, NEW now, Tells("responses", t, told),
         Unsaid(m, told, now) \/ (Said(m, told, now) /\ m.use = m.told),
         m.told # {} => m.finish # "", told # {} => m.finish = ""
  PROVE  Tells("responses", v, now)
<1>1. ResponseTaken(t, m, clk, v)
  BY ResponsesEvent
<1>2. t.usage = OA!ReportedUsage(The(told), FALSE)
  BY DEF Tells
<1>3. CASE Unsaid(m, told, now)
  <2>1. openAIUsage("responses", m) = OA!NoUsage
    BY <1>3, TheOne, NothingThought DEF Unsaid, openAIUsage
  <2>2. told = {} => t.usage = OA!NoUsage
    BY <1>2, TheOne, NothingThought
  <2>3. v.usage = t.usage
    BY <1>1, <2>1, <2>2 DEF ResponseTaken
  <2> QED
    BY <1>2, <1>3, <2>3 DEF Unsaid, Tells
<1>4. CASE Said(m, told, now) /\ m.use = m.told
  <2>1. PICK d \in Amounts : m.told = {d} /\ m.use = {d} /\ now = {d}
    BY <1>4 DEF Said
  <2>2. openAIUsage("responses", m) = OA!ReportedUsage(d, FALSE) /\ The(now) = d
    BY <2>1, TheOne DEF openAIUsage
  <2>3. v.usage = OA!ReportedUsage(d, FALSE)
    BY <1>1, <2>1, <2>2 DEF ResponseTaken
  <2> QED
    BY <2>2, <2>3 DEF Tells
<1> QED
  BY <1>3, <1>4
LEMMA PerplexityTells ==
  ASSUME NEW t, FieldsOf("perplexity") \subseteq DOMAIN t, NEW m, NEW clk, NEW v, v = Observe("perplexity", t, m, clk),
         NEW told, IsReport(told), NEW now, Tells("perplexity", t, told),
         Unsaid(m, told, now) \/ (Said(m, told, now) /\ m.use = m.told),
         \A d \in m.told : d.read + d.write + d.thought = 0
  PROVE  Tells("perplexity", v, now)
<1> DEFINE Of(c) == Tokens(c.fresh, c.text, c.fresh + c.text, 0, 0, 0)
<1>1. v.usage = IF Of(The(m.use)).in + Of(The(m.use)).out > 0 THEN Of(The(m.use)) ELSE t.usage
  BY PerplexityChunk
<1>2. \A c : Of(c).in = c.fresh /\ Of(c).out = c.text
  BY DEF Tokens
<1> HIDE DEF Of
<1>3. \A x, set : Tells("perplexity", x, set) <=> /\ x.usage = Of(The(set)) /\ The(set).read = 0
                                               /\ The(set).write = 0 /\ The(set).thought = 0
  BY DEF Tells, OpenAIKinds, Of
<1>4. CASE Unsaid(m, told, now)
  <2>1. The(m.use).fresh = 0 /\ The(m.use).text = 0
    BY <1>4, TheOne DEF Unsaid, Nothing
  <2>2. v.usage = t.usage
    BY <1>1, <1>2, <2>1
  <2> QED
    BY <1>3, <1>4, <2>2 DEF Unsaid
<1>5. CASE Said(m, told, now) /\ m.use = m.told
  <2>1. PICK d \in Amounts : m.told = {d} /\ m.use = {d} /\ now = {d} /\ NoLess(The(told), d)
    BY <1>5 DEF Said
  <2>2. The(m.use) = d /\ The(now) = d /\ The(told) \in Amounts
    BY <2>1, TheOne
  <2>3. d.read = 0 /\ d.write = 0 /\ d.thought = 0
    BY <2>1 DEF Amounts
  <2>4. d.fresh \in Nat /\ d.text \in Nat
    BY DEF Amounts
  <2>5. CASE d.fresh + d.text > 0
    BY <1>1, <1>2, <1>3, <2>2, <2>3, <2>5
  <2>6. CASE ~(d.fresh + d.text > 0)
    <3>1. d.fresh = 0 /\ d.text = 0
      BY <2>4, <2>6
    <3>2. The(told) = d
      BY <2>1, <2>2, <2>3, <3>1, NothingIsLess
    <3>3. v.usage = t.usage
      BY <1>1, <1>2, <2>2, <2>6
    <3> QED
      BY <1>3, <2>2, <3>2, <3>3
  <2> QED
    BY <2>5, <2>6
<1> QED
  BY <1>4, <1>5

LEMMA ProxyTells ==
  ASSUME NEW t, FieldsOf("litellm") \subseteq DOMAIN t, NEW m, NEW clk, NEW v, v = Observe("litellm", t, m, clk),
         NEW told, IsReport(told), NEW now, Tells("litellm", t, told),
         Unsaid(m, told, now) \/ (Said(m, told, now) /\ m.use = m.told)
  PROVE  Tells("litellm", v, now)
<1> DEFINE u == LL!Reported(The(m.use))
           c == The(m.use)
           Counts(x, a) == /\ x.usage.prompt = a.fresh + a.read + a.write /\ x.usage.completion = a.text + a.thought
                           /\ x.usage.read = a.read /\ x.usage.write = a.write
<1>1. u.prompt = c.fresh + c.read + c.write /\ u.completion = c.text + c.thought /\ u.read = c.read /\ u.write = c.write
  BY DEF LL!Reported
<1> HIDE DEF u
<1>2. /\ v.usage.prompt = (IF u.prompt + u.completion > 0 THEN u.prompt ELSE t.usage.prompt)
      /\ v.usage.completion = (IF u.prompt + u.completion > 0 THEN u.completion ELSE t.usage.completion)
      /\ v.usage.read = (IF u.read > 0 THEN u.read ELSE t.usage.read)
      /\ v.usage.write = (IF u.write > 0 THEN u.write ELSE t.usage.write)
  BY ProxyChunk DEF u
<1>3. \A x, set : Tells("litellm", x, set) <=> Counts(x, The(set))
  BY DEF Tells, OpenAIKinds
<1>4. CASE Unsaid(m, told, now)
  <2>1. c.fresh = 0 /\ c.text = 0 /\ c.read = 0 /\ c.write = 0 /\ c.thought = 0
    BY <1>4, TheOne DEF Unsaid, Nothing
  <2>2. Counts(t, The(told))
    BY <1>3
  <2>3. Counts(v, The(told))
    BY <1>1, <1>2, <2>1, <2>2
  <2> QED
    BY <1>3, <1>4, <2>3 DEF Unsaid
<1>5. CASE Said(m, told, now) /\ m.use = m.told
  <2>1. PICK d \in Amounts : m.told = {d} /\ m.use = {d} /\ now = {d} /\ NoLess(The(told), d)
    BY <1>5 DEF Said
  <2>2. c = d /\ The(now) = d /\ The(told) \in Amounts
    BY <2>1, TheOne
  <2>3. d.fresh \in Nat /\ d.read \in Nat /\ d.write \in Nat /\ d.text \in Nat /\ d.thought \in Nat
    BY DEF Amounts
  <2>4. Counts(t, The(told))
    BY <1>3
  <2> HIDE DEF c, Counts
  <2>5. v.usage.prompt = d.fresh + d.read + d.write /\ v.usage.completion = d.text + d.thought
    <3>1. CASE u.prompt + u.completion > 0
      BY <1>1, <1>2, <2>2, <3>1
    <3>2. CASE ~(u.prompt + u.completion > 0)
      <4>1. d.fresh = 0 /\ d.read = 0 /\ d.write = 0 /\ d.text = 0 /\ d.thought = 0
        <5>1. \A f, r, w, x, y \in Nat : ~((f + r + w) + (x + y) > 0) => f = 0 /\ r = 0 /\ w = 0 /\ x = 0 /\ y = 0
          OBVIOUS
        <5>2. ~((d.fresh + d.read + d.write) + (d.text + d.thought) > 0)
          BY <1>1, <2>2, <3>2
        <5> QED
          BY <2>3, <5>1, <5>2
      <4>2. The(told) = d
        BY <2>1, <2>2, <4>1, NothingIsLess
      <4> QED
        BY <1>2, <2>4, <3>2, <4>2 DEF Counts
    <3> QED
      BY <3>1, <3>2
  <2>6. v.usage.read = d.read
    <3>1. The(told).read \in Nat /\ The(told).read <= d.read /\ t.usage.read = The(told).read
      BY <2>1, <2>2, <2>4 DEF Amounts, NoLess, Counts
    <3> QED
      BY <1>1, <1>2, <2>2, <2>3, <3>1
  <2>7. v.usage.write = d.write
    <3>1. The(told).write \in Nat /\ The(told).write <= d.write /\ t.usage.write = The(told).write
      BY <2>1, <2>2, <2>4 DEF Amounts, NoLess, Counts
    <3> QED
      BY <1>1, <1>2, <2>2, <2>3, <3>1
  <2>8. Counts(v, d)
    BY <2>5, <2>6, <2>7 DEF Counts
  <2> QED
    BY <1>3, <2>2, <2>8
<1> QED
  BY <1>4, <1>5

LEMMA GoogleTells ==
  ASSUME NEW t, FieldsOf("google") \subseteq DOMAIN t, NEW m, NEW clk, NEW v, v = Observe("google", t, m, clk),
         NEW told, NEW now, Tells("google", t, told),
         Unsaid(m, told, now) \/ (Said(m, told, now) /\ m.use = m.told)
  PROVE  Tells("google", v, now)
<1> DEFINE Metadata(set) == {GO!UsageMetadata(u, TRUE) : u \in set}
<1>1. v.usage = IF Metadata(m.use) # {} THEN Metadata(m.use) ELSE t.usage
  BY GoogleChunk
<1>2. \A x, set : Tells("google", x, set) <=> x.usage = Metadata(set)
  BY DEF Tells, OpenAIKinds
<1>3. Metadata({}) = {} /\ \A d : Metadata({d}) # {}
  OBVIOUS
<1> HIDE DEF Metadata
<1>4. CASE Unsaid(m, told, now)
  <2>1. v.usage = t.usage
    BY <1>1, <1>3, <1>4 DEF Unsaid
  <2> QED
    BY <1>2, <1>4, <2>1 DEF Unsaid
<1>5. CASE Said(m, told, now) /\ m.use = m.told
  <2>1. PICK d \in Amounts : m.use = {d} /\ now = {d}
    BY <1>5 DEF Said
  <2>2. v.usage = Metadata({d})
    BY <1>1, <1>3, <2>1
  <2> QED
    BY <1>2, <2>1, <2>2
<1> QED
  BY <1>4, <1>5
(* --------------------------- what messages tell ---------------------------- *)
(* A count left out of a report stands as it was.                              *)
Stands(u, c, d) == u \in Nat /\ c \in Nat /\ d \in Nat /\ c <= d /\ (u = d \/ (u = 0 /\ c = d))
LEMMA ReportedStands ==
  ASSUME NEW u, NEW c, NEW d, Stands(u, c, d)
  PROVE  AN!reported(u, c) = d /\ (u > 0 => u = d) /\ (~(u > 0) => u = 0 /\ c = d)
BY DEF Stands, AN!reported

LEMMA SaidStands ==
  ASSUME NEW m, NEW told, IsReport(told), NEW now, Said(m, told, now), m.split \in BOOLEAN
  PROVE  \E u \in Amounts, d \in Amounts :
           /\ m.told = {d} /\ now = {d} /\ m.use = {u} /\ The(m.use) = u /\ The(now) = d
           /\ u.text = d.text /\ u.thought = d.thought /\ (m.split => u = d)
           /\ Stands(u.fresh, The(told).fresh, d.fresh) /\ Stands(u.read, The(told).read, d.read)
           /\ Stands(u.write, The(told).write, d.write)
           /\ Stands(u.text + u.thought, The(told).text + The(told).thought, d.text + d.thought)
<1>1. PICK u \in Amounts, d \in Amounts :
        /\ m.told = {d} /\ now = {d} /\ m.use = {u} /\ NoLess(The(told), d)
        /\ u.text = d.text /\ u.thought = d.thought /\ (m.split => u = d)
        /\ u.fresh = d.fresh \/ (u.fresh = 0 /\ The(told).fresh = d.fresh)
        /\ u.read = d.read \/ (u.read = 0 /\ The(told).read = d.read)
        /\ u.write = d.write \/ (u.write = 0 /\ The(told).write = d.write)
  BY DEF Said
<1>2. The(m.use) = u /\ The(now) = d /\ The(told) \in Amounts
  BY <1>1, TheOne
<1>3. Stands(u.fresh, The(told).fresh, d.fresh) /\ Stands(u.read, The(told).read, d.read)
  BY <1>1, <1>2 DEF Stands, NoLess, Amounts
<1>4. Stands(u.write, The(told).write, d.write)
  BY <1>1, <1>2 DEF Stands, NoLess, Amounts
<1>5. Stands(u.text + u.thought, The(told).text + The(told).thought, d.text + d.thought)
  BY <1>1, <1>2 DEF Stands, NoLess, Amounts
<1> QED
  BY <1>1, <1>2, <1>3, <1>4, <1>5

(* What an event reports of u.                                                 *)
Reports(e, u, split) ==
  /\ DOMAIN e = UsageFields /\ e.in = u.fresh /\ e.out = u.text + u.thought /\ e.read = u.read /\ e.write = u.write
  /\ e.split = (IF split THEN {u.write} ELSE {}) /\ e.split \subseteq {u.write}
LEMMA EventUsage == \A u : \A split \in BOOLEAN : Reports(AN!ReportedUsage(u, split), u, split)
BY DEF Reports, AN!ReportedUsage, UsageFields

LEMMA MessageTells ==
  ASSUME NEW k \in MessageKinds, NEW t, NEW told
  PROVE  Tells(k, t, told) <=> /\ TurnTells(t.usage, The(told))
                               /\ (told # {} \/ k # "anthropic" => t.usage.in = The(told).fresh)
BY DEF Tells, OpenAIKinds, MessageKinds

(* message_start, and Converse's metadata: the report is taken as it is.       *)
LEMMA AtStart ==
  ASSUME NEW u \in Amounts, NEW split \in BOOLEAN, NEW usage, DOMAIN usage = UsageFields,
         usage.in = u.fresh, usage.out = u.text + u.thought, usage.read = u.read, usage.write = u.write,
         usage.split \subseteq {u.write}
  PROVE  TurnTells(usage, u) /\ usage.in = u.fresh
BY DEF TurnTells

(* message_delta, in the SDK's stream and in the beta API's.                   *)
LEMMA AtDelta ==
  ASSUME NEW u, NEW c, NEW d, NEW split \in BOOLEAN, split => u = d,
         Stands(u.fresh, c.fresh, d.fresh), Stands(u.read, c.read, d.read), Stands(u.write, c.write, d.write),
         u.text = d.text, u.thought = d.thought,
         NEW usage, TurnTells(usage, c), usage.in = c.fresh, NEW e, e = AN!ReportedUsage(u, split),
         NEW w, w = IF e.write > 0 THEN AN!takeCacheWriteTotal(usage, e.write, e.split) ELSE usage,
         NEW after, DOMAIN after = DOMAIN w, after.in = AN!reported(e.in, w.in), after.out = e.out,
         after.read = AN!reported(e.read, w.read), after.write = w.write, after.split = w.split
  PROVE  TurnTells(after, d) /\ after.in = d.fresh
<1>1. e.in = u.fresh /\ e.out = u.text + u.thought /\ e.read = u.read /\ e.write = u.write /\ e.split \subseteq {u.write}
  <2>1. Reports(e, u, split)
    BY EventUsage
  <2> QED
    BY <2>1 DEF Reports
<1>2. DOMAIN w = DOMAIN usage /\ w.in = usage.in /\ w.read = usage.read
  BY DEF TurnTells, UsageFields, AN!takeCacheWriteTotal
<1>3. w.write = d.write /\ w.split \subseteq {d.write}
  <2>1. CASE e.write > 0
    <3>1. w.write = e.write /\ w.split = IF e.write # usage.write THEN e.split ELSE usage.split
      BY <2>1 DEF TurnTells, UsageFields, AN!takeCacheWriteTotal
    <3>2. e.write = d.write
      BY <1>1, <2>1, ReportedStands
    <3> QED
      BY <1>1, <3>1, <3>2 DEF TurnTells
  <2>2. CASE ~(e.write > 0)
    BY <1>1, <2>2, ReportedStands DEF TurnTells
  <2> QED
    BY <2>1, <2>2
<1>4. after.in = d.fresh /\ after.read = d.read
  BY <1>1, <1>2, ReportedStands DEF TurnTells
<1> QED
  BY <1>1, <1>2, <1>3, <1>4 DEF TurnTells

(* An event of Bedrock's InvokeModel stream, which may say nothing.            *)
EventTaken(usage, e, sums) ==
  [AN!takeCacheWrites(usage, e.write, sums) EXCEPT !.in = AN!reported(e.in, @), !.out = AN!reported(e.out, @),
                                                   !.read = AN!reported(e.read, @)]
LEMMA AtEvent ==
  ASSUME NEW u, NEW c, NEW d, NEW split \in BOOLEAN, split => u = d,
         Stands(u.fresh, c.fresh, d.fresh), Stands(u.read, c.read, d.read), Stands(u.write, c.write, d.write),
         Stands(u.text + u.thought, c.text + c.thought, d.text + d.thought),
         NEW usage, TurnTells(usage, c), usage.in = c.fresh, NEW e, e = AN!ReportedUsage(u, split),
         NEW sums, sums \in {{}, e.split}, NEW after, after = EventTaken(usage, e, sums)
  PROVE  TurnTells(after, d) /\ after.in = d.fresh
<1>1. /\ e.in = u.fresh /\ e.out = u.text + u.thought /\ e.read = u.read /\ e.write = u.write
      /\ sums = {} \/ (sums = {u.write} /\ split)
  <2>1. Reports(e, u, split)
    BY EventUsage
  <2> QED
    BY <2>1 DEF Reports
<1>2. UsageFields \subseteq DOMAIN usage
  BY DEF TurnTells
<1> DEFINE w == AN!takeCacheWrites(usage, e.write, sums)
           x == IF sums # {} THEN [usage EXCEPT !.split = sums] ELSE usage
<1>3. w = IF e.write = 0 THEN x
          ELSE [x EXCEPT !.split = IF e.write # usage.write /\ sums = {} THEN {} ELSE @, !.write = e.write]
  BY DEF AN!takeCacheWrites
<1>0. after = [w EXCEPT !.in = AN!reported(e.in, @), !.out = AN!reported(e.out, @), !.read = AN!reported(e.read, @)]
  BY DEF EventTaken
<1> HIDE DEF w
<1>4. /\ DOMAIN x = DOMAIN usage /\ x.in = usage.in /\ x.out = usage.out /\ x.read = usage.read /\ x.write = usage.write
      /\ x.split = IF sums # {} THEN sums ELSE usage.split
  BY <1>2 DEF UsageFields
<1> HIDE DEF x
<1>5. DOMAIN w = DOMAIN usage /\ w.in = usage.in /\ w.out = usage.out /\ w.read = usage.read
  BY <1>2, <1>3, <1>4 DEF UsageFields
<1>6. w.write = d.write /\ w.split \subseteq {d.write}
  <2>1. CASE e.write = 0
    <3>1. u.write = 0 /\ c.write = d.write
      BY <1>1, <2>1 DEF Stands
    <3>2. w = x /\ (sums # {} => u = d)
      BY <1>1, <1>3, <2>1
    <3> QED
      BY <1>1, <1>4, <3>1, <3>2 DEF TurnTells
  <2>2. CASE e.write # 0
    <3>1. e.write = d.write
      BY <1>1, <2>2 DEF Stands
    <3>2. w.write = e.write /\ w.split = IF e.write # usage.write /\ sums = {} THEN {} ELSE x.split
      BY <1>2, <1>3, <1>4, <2>2 DEF UsageFields
    <3> QED
      BY <1>1, <1>4, <3>1, <3>2 DEF TurnTells
  <2> QED
    BY <2>1, <2>2
<1>7. /\ DOMAIN after = DOMAIN usage /\ after.write = w.write /\ after.split = w.split
      /\ after.in = AN!reported(e.in, usage.in) /\ after.out = AN!reported(e.out, usage.out)
      /\ after.read = AN!reported(e.read, usage.read)
  BY <1>0, <1>2, <1>5 DEF UsageFields
<1>8. after.in = d.fresh /\ after.out = d.text + d.thought /\ after.read = d.read
  BY <1>1, <1>7, ReportedStands DEF TurnTells
<1> QED
  BY <1>2, <1>6, <1>7, <1>8 DEF TurnTells
LEMMA MessageEvents == \A m : /\ messageEvent(m).type = m.type
                              /\ messageEvent(m).usage = AN!ReportedUsage(The(m.use), m.split)
BY DEF messageEvent

LEMMA StartAndDeltaTell ==
  ASSUME NEW k \in {"anthropic", "beta"}, NEW t, MessageFields \subseteq DOMAIN t, NEW m, NEW clk, NEW v, v = Observe(k, t, m, clk),
         m.split \in BOOLEAN, NEW told, IsReport(told), NEW now, Tells(k, t, told), Unsaid(m, told, now) \/ Said(m, told, now),
         m.told # {} <=> m.type \in {"message_start", "message_delta"}, m.type = "message_start" <=> told = {}
  PROVE  Tells(k, v, now)
<1> DEFINE event == messageEvent(m)
           e == event.usage
           w == IF e.write > 0 THEN AN!takeCacheWriteTotal(t.usage, e.write, e.split) ELSE t.usage
           c == The(told)
<1>1. event.type = m.type /\ e = AN!ReportedUsage(The(m.use), m.split)
  BY MessageEvents
<1>2. /\ k = "anthropic" => v = AN!processTypedEvent(t, event, clk)
      /\ k = "beta" => v = AN!betaObserve(t, event, clk)
  BY DEF Observe, OpenAIKinds
<1> HIDE DEF event
<1>3. CASE Unsaid(m, told, now)
  <2>1. m.type \notin {"message_start", "message_delta"}
    BY <1>3 DEF Unsaid
  <2>2. v.usage = t.usage
    BY <1>1, <1>2, <2>1 DEF AN!processTypedEvent, AN!betaObserve, MessageFields
  <2> QED
    BY <1>3, <2>2, MessageTells DEF Unsaid, MessageKinds
<1>4. CASE Said(m, told, now)
  <2>1. PICK u \in Amounts, d \in Amounts :
          /\ m.told = {d} /\ now = {d} /\ The(m.use) = u /\ The(now) = d
          /\ u.text = d.text /\ u.thought = d.thought /\ (m.split => u = d)
          /\ Stands(u.fresh, c.fresh, d.fresh) /\ Stands(u.read, c.read, d.read) /\ Stands(u.write, c.write, d.write)
    BY <1>4, SaidStands
  <2>2. DOMAIN e = UsageFields /\ e.in = u.fresh /\ e.out = u.text + u.thought /\ e.read = u.read /\ e.write = u.write
        /\ e.split \subseteq {u.write}
    <3>1. Reports(e, u, m.split)
      BY <1>1, <2>1, EventUsage
    <3> QED
      BY <3>1 DEF Reports
  <2>3. CASE m.type = "message_start"
    <3>1. v.usage = e
      BY <1>1, <1>2, <2>3 DEF AN!processTypedEvent, AN!betaObserve, MessageFields
    <3>2. c.fresh = 0 /\ c.read = 0 /\ c.write = 0
      BY <2>3, TheOne DEF Nothing
    <3>3. u.fresh = d.fresh /\ u.read = d.read /\ u.write = d.write
      BY <2>1, <3>2 DEF Stands
    <3>4. TurnTells(v.usage, d) /\ v.usage.in = d.fresh
      BY <2>1, <2>2, <3>1, <3>3 DEF TurnTells
    <3> QED
      BY <2>1, <3>4, MessageTells DEF MessageKinds
  <2>4. CASE m.type = "message_delta"
    <3>1. told # {} /\ TurnTells(t.usage, c) /\ t.usage.in = c.fresh
      BY <2>4, MessageTells DEF MessageKinds
    <3>2. UsageFields \subseteq DOMAIN t.usage
      BY <3>1 DEF TurnTells
    <3>3. UsageFields \subseteq DOMAIN w
      BY <3>2 DEF AN!takeCacheWriteTotal
    <3>4. /\ v.usage = [w EXCEPT !.in = AN!reported(e.in, @), !.out = e.out, !.read = AN!reported(e.read, @),
                                !.thought = AN!reported(e.thought, @)]
          \/ v.usage = [w EXCEPT !.out = e.out, !.in = AN!reported(e.in, @), !.read = AN!reported(e.read, @),
                                !.thought = AN!reported(e.thought, @)]
      <4>1. CASE k = "anthropic"
        <5>1. v = AN!processTypedEvent(t, event, clk)
          BY <1>2, <4>1
        <5> QED
          BY <1>1, <5>1, <2>4 DEF AN!processTypedEvent, MessageFields
      <4>2. CASE k = "beta"
        <5>1. v = AN!betaObserve(t, event, clk)
          BY <1>2, <4>2
        <5> QED
          BY <1>1, <5>1, <2>4 DEF AN!betaObserve, MessageFields
      <4> QED
        BY <4>1, <4>2
    <3>5. /\ DOMAIN v.usage = DOMAIN w /\ v.usage.in = AN!reported(e.in, w.in) /\ v.usage.out = e.out
          /\ v.usage.read = AN!reported(e.read, w.read) /\ v.usage.write = w.write /\ v.usage.split = w.split
      BY <3>3, <3>4 DEF UsageFields
    <3>6. TurnTells(v.usage, d) /\ v.usage.in = d.fresh
      <4> HIDE DEF c
      <4> QED
        BY <1>1, <2>1, <3>1, <3>5, AtDelta
    <3> QED
      BY <2>1, <3>6, MessageTells DEF MessageKinds
  <2> QED
    BY <2>1, <2>3, <2>4
<1> QED
  BY <1>3, <1>4

LEMMA InvokeTells ==
  ASSUME NEW t, MessageFields \subseteq DOMAIN t, NEW m, NEW clk, NEW v, v = Observe("invoke", t, m, clk),
         m.split \in BOOLEAN, NEW told, IsReport(told), NEW now, Tells("invoke", t, told), Unsaid(m, told, now) \/ Said(m, told, now)
  PROVE  Tells("invoke", v, now)
<1> DEFINE event == messageEvent(m)
           e == event.usage
           sums == IF event.type = "message_stop" THEN {} ELSE e.split
           c == The(told)
<1>1. e = AN!ReportedUsage(The(m.use), m.split)
  BY MessageEvents
<1>2. v = AN!takeStreamEvent(t, event, clk)
  BY DEF Observe, OpenAIKinds
<1> HIDE DEF event
<1>3. v.usage = EventTaken(t.usage, e, sums)
  BY <1>2 DEF AN!takeStreamEvent, MessageFields, EventTaken
<1>4. sums \in {{}, e.split}
  OBVIOUS
<1>5. TurnTells(t.usage, c) /\ t.usage.in = c.fresh
  BY MessageTells DEF MessageKinds
<1>6. \E u, d : /\ The(m.use) = u /\ The(now) = d /\ (m.split => u = d)
                /\ Stands(u.fresh, c.fresh, d.fresh) /\ Stands(u.read, c.read, d.read) /\ Stands(u.write, c.write, d.write)
                /\ Stands(u.text + u.thought, c.text + c.thought, d.text + d.thought)
  <2>1. CASE Unsaid(m, told, now)
    <3>1. The(m.use) = Nothing /\ The(now) = c /\ ~m.split /\ c \in Amounts
      BY <2>1, TheOne DEF Unsaid
    <3>2. c.fresh \in Nat /\ c.read \in Nat /\ c.write \in Nat /\ c.text \in Nat /\ c.thought \in Nat
      BY <3>1 DEF Amounts
    <3>3. Nothing.fresh = 0 /\ Nothing.read = 0 /\ Nothing.write = 0 /\ Nothing.text = 0 /\ Nothing.thought = 0
      BY DEF Nothing
    <3> HIDE DEF c
    <3>4. Stands(Nothing.fresh, c.fresh, c.fresh) /\ Stands(Nothing.read, c.read, c.read)
          /\ Stands(Nothing.write, c.write, c.write)
      BY <3>2, <3>3 DEF Stands
    <3>5. Stands(Nothing.text + Nothing.thought, c.text + c.thought, c.text + c.thought)
      BY <3>2, <3>3 DEF Stands
    <3> QED
      BY <3>1, <3>4, <3>5
  <2>2. CASE Said(m, told, now)
    <3>1. PICK u \in Amounts, d \in Amounts :
           /\ m.told = {d} /\ now = {d} /\ m.use = {u} /\ The(m.use) = u /\ The(now) = d
           /\ u.text = d.text /\ u.thought = d.thought /\ (m.split => u = d)
           /\ Stands(u.fresh, The(told).fresh, d.fresh) /\ Stands(u.read, The(told).read, d.read)
           /\ Stands(u.write, The(told).write, d.write)
           /\ Stands(u.text + u.thought, The(told).text + The(told).thought, d.text + d.thought)
      BY <2>2, SaidStands
    <3> QED
      BY <3>1
  <2> QED
    BY <2>1, <2>2
<1> HIDE DEF c, sums
<1>7. PICK u, d : /\ The(m.use) = u /\ The(now) = d /\ (m.split => u = d)
                  /\ Stands(u.fresh, c.fresh, d.fresh) /\ Stands(u.read, c.read, d.read) /\ Stands(u.write, c.write, d.write)
                  /\ Stands(u.text + u.thought, c.text + c.thought, d.text + d.thought)
  BY <1>6
<1>8. TurnTells(v.usage, d) /\ v.usage.in = d.fresh
  <2>1. e = AN!ReportedUsage(u, m.split)
    BY <1>1, <1>7
  <2> HIDE DEF e
  <2> QED
    BY <1>3, <1>4, <1>5, <1>7, <2>1, AtEvent
<1> QED
  BY <1>7, <1>8, MessageTells DEF MessageKinds

LEMMA ConverseTells ==
  ASSUME NEW t, MessageFields \subseteq DOMAIN t, NEW m, NEW clk, NEW v, v = Observe("converse", t, m, clk),
         m.split \in BOOLEAN, NEW told, NEW now, Tells("converse", t, told),
         Unsaid(m, told, now) \/ (Said(m, told, now) /\ m.use = m.told), m.told # {} <=> m.type = "metadata"
  PROVE  Tells("converse", v, now)
<1> DEFINE event == messageEvent(m)
           e == event.usage
<1>1. event.type = m.type /\ e = AN!ReportedUsage(The(m.use), m.split)
  BY MessageEvents
<1>2. v = AN!converseEvent(t, event, clk)
  BY DEF Observe, OpenAIKinds
<1> HIDE DEF event
<1>3. v.usage = IF m.type = "metadata" THEN [e EXCEPT !.thought = 0] ELSE t.usage
  BY <1>1, <1>2 DEF AN!converseEvent, MessageFields
<1>4. CASE Unsaid(m, told, now)
  BY <1>3, <1>4, MessageTells DEF Unsaid, MessageKinds
<1>5. CASE Said(m, told, now) /\ m.use = m.told
  <2>1. PICK d \in Amounts : m.told = {d} /\ m.use = {d} /\ now = {d}
    BY <1>5 DEF Said
  <2>2. The(m.use) = d /\ The(now) = d
    BY <2>1, TheOne
  <2>3. DOMAIN e = UsageFields /\ e.in = d.fresh /\ e.out = d.text + d.thought /\ e.read = d.read /\ e.write = d.write
        /\ e.split \subseteq {d.write}
    <3>1. Reports(e, d, m.split)
      BY <1>1, <2>2, EventUsage
    <3> QED
      BY <3>1 DEF Reports
  <2>4. v.usage = [e EXCEPT !.thought = 0]
    BY <1>3, <2>1
  <2>5. TurnTells(v.usage, d) /\ v.usage.in = d.fresh
    BY <2>3, <2>4 DEF TurnTells, UsageFields
  <2> QED
    BY <2>2, <2>5, MessageTells DEF MessageKinds
<1> QED
  BY <1>4, <1>5
(* ---------------------------- what records bill ---------------------------- *)
Bills(k, r, told) ==
  /\ told # {} /\ ~(k = "responses" /\ r.what = "failed") => TakenApart(k, r.tokens) = Consumed(k, told)
  /\ "split" \in DOMAIN r => r.split \subseteq {r.tokens.write}

(* Whatever platform a stream of xAI's is taken to be, its thoughts are found. *)
LEMMA OpenAIBills ==
  ASSUME NEW k \in OpenAIKinds \cup {"responses"}, NEW c \in Amounts, NEW p, k = "xai" => p = "XAI",
         NEW tokens, tokens = OA!usageTokens(p, OA!ReportedUsage(c, k = "xai")), NEW told, The(told) = c
  PROVE  TakenApart(k, tokens) = Consumed(k, told)
<1> DEFINE u == OA!ReportedUsage(c, k = "xai")
<1>1. c.fresh \in Nat /\ c.read \in Nat /\ c.write \in Nat /\ c.text \in Nat /\ c.thought \in Nat
  BY DEF Amounts
<1>2. /\ u.prompt = c.fresh + c.read + c.write /\ u.total = c.fresh + c.read + c.write + c.text + c.thought
      /\ u.thought = c.thought /\ u.read = c.read /\ u.write = c.write
      /\ k = "xai" => u.output = c.text
      /\ k # "xai" => u.output = c.text + c.thought
  BY DEF OA!ReportedUsage
<1> HIDE DEF u
<1>3. /\ tokens.in = OA!inputTokensExcludingCacheWrites(u) /\ tokens.out = OA!billedOutputTokens(p, u)
      /\ tokens.write = u.write /\ tokens.read = u.read
  BY DEF OA!usageTokens, OA!Tokens, u
<1>4. tokens.in = c.fresh + c.read
  BY <1>1, <1>2, <1>3 DEF OA!inputTokensExcludingCacheWrites
<1>5. tokens.out = c.text + c.thought
  <2>1. CASE k = "xai"
    BY <1>1, <1>2, <1>3, <2>1 DEF OA!billedOutputTokens, OA!reasoningCountedInOutput
  <2>2. CASE k # "xai"
    BY <1>1, <1>2, <1>3, <2>2 DEF OA!billedOutputTokens, OA!reasoningCountedInOutput
  <2> QED
    BY <2>1, <2>2
<1>6. tokens.in - tokens.read = c.fresh
  BY <1>1, <1>2, <1>3, <1>4
<1>7. TakenApart(k, tokens) = [fresh |-> tokens.in - tokens.read, read |-> tokens.read, write |-> tokens.write, output |-> tokens.out]
  BY DEF TakenApart, OA!BilledByPlatform, OpenAIKinds
<1>8. Consumed(k, told) = [fresh |-> c.fresh, read |-> c.read, write |-> c.write, output |-> c.text + c.thought]
  BY DEF Consumed, OpenAIKinds
<1> QED
  BY <1>2, <1>3, <1>5, <1>6, <1>7, <1>8

LEMMA PlatformOf == OA!DetectProvider(Env("xai").setting) = "XAI"
BY DEF Env, Setting, OA!DetectProvider, OA!azureConfigured, OA!effectiveBaseURL

LEMMA OpenAIRecordBills ==
  ASSUME NEW k \in OpenAIKinds \cup {"responses"}, NEW t, t.env = Env(k), NEW told, IsReport(told), Tells(k, t, told),
         k = "responses" => (told # {} => t.final # ""), NEW b \in BOOLEAN, NEW left, NEW r, RecordsOf(k, t, b, left) = <<r>>
  PROVE  Bills(k, r, told)
<1> DEFINE p == OA!DetectProvider(t.env.setting)
           tokens == OA!usageTokens(p, t.usage)
<1>1. /\ t.usage = OA!ReportedUsage(The(told), k = "xai") /\ The(told) \in Amounts /\ (k = "xai" => p = "XAI")
  BY OpenAITells, TheOne, PlatformOf
<1>2. TakenApart(k, tokens) = Consumed(k, told)
  BY <1>1, OpenAIBills
<1> HIDE DEF tokens, p
<1>3. CASE k \in OpenAIKinds
  <2>1. r = OA!chatStreamRecord(t, b)
    BY <1>3 DEF RecordsOf, OpenAIKinds
  <2>2. r.tokens = tokens /\ "split" \notin DOMAIN r
    BY <2>1 DEF OA!chatStreamRecord, OA!Record, OA!asFailedCall, tokens, p
  <2> QED
    BY <1>2, <2>2 DEF Bills
<1>4. CASE k = "responses"
  <2>1. r = OA!responsesStreamRecord(t, b)
    BY <1>4 DEF RecordsOf, OpenAIKinds
  <2>2. "split" \notin DOMAIN r
    BY <2>1 DEF OA!responsesStreamRecord, OA!Record, OA!asFailedCall, OA!failureRecord
  <2>3. r.what # "failed" /\ told # {} => r.tokens = tokens
    BY <1>4, <2>1 DEF OA!responsesStreamRecord, OA!Record, OA!asFailedCall, OA!failureRecord, tokens, p
  <2> QED
    BY <1>2, <1>4, <2>2, <2>3 DEF Bills
<1> QED
  BY <1>3, <1>4

LEMMA PerplexityBills ==
  ASSUME NEW t, NEW told, IsReport(told), Tells("perplexity", t, told), NEW b \in BOOLEAN, NEW left,
         NEW r, RecordsOf("perplexity", t, b, left) = <<r>>
  PROVE  Bills("perplexity", r, told)
<1> DEFINE c == The(told)
<1>1. r = CP!perplexityStreamRecord(t, b)
  BY DEF RecordsOf, OpenAIKinds
<1>2. r.tokens = t.usage /\ "split" \notin DOMAIN r
  BY <1>1 DEF CP!perplexityStreamRecord, CP!Record, CP!asFailedCall
<1>3. t.usage = Tokens(c.fresh, c.text, c.fresh + c.text, 0, 0, 0) /\ c.read = 0 /\ c.write = 0 /\ c.thought = 0 /\ c.text \in Nat
  BY TheOne DEF Tells, OpenAIKinds, Amounts
<1> HIDE DEF c
<1>4. /\ r.tokens.in = c.fresh /\ r.tokens.read = c.read /\ r.tokens.write = c.write /\ r.tokens.out = c.text + c.thought
  BY <1>2, <1>3 DEF Tokens
<1>5. TakenApart("perplexity", r.tokens) =
        [fresh |-> r.tokens.in, read |-> r.tokens.read, write |-> r.tokens.write, output |-> r.tokens.out]
  BY DEF TakenApart, OpenAIKinds
<1>6. Consumed("perplexity", told) = [fresh |-> c.fresh, read |-> c.read, write |-> c.write, output |-> c.text + c.thought]
  BY DEF Consumed, c
<1> QED
  BY <1>2, <1>4, <1>5, <1>6 DEF Bills

LEMMA ProxyBills ==
  ASSUME NEW t, FieldsOf("litellm") \subseteq DOMAIN t, t.env = Env("litellm"), t.served \in {LL!NoRoute, Claude},
         NEW told, IsReport(told), Tells("litellm", t, told), NEW b \in BOOLEAN, NEW left,
         NEW r, RecordsOf("litellm", t, b, left) = <<r>>
  PROVE  Bills("litellm", r, told)
<1> DEFINE c == The(told)
           u == [t EXCEPT !.err = IF b THEN "network" ELSE ""]
           model == LL!recordedModel(u.served, u.env.route, u.env.deployment, u.env.group)
<1>1. r = LL!proxyStreamRecord(u)
  BY DEF RecordsOf, OpenAIKinds
<1>2. u.env = Env("litellm") /\ u.served = t.served /\ u.usage = t.usage
  BY DEF FieldsOf, OpenAIKinds
<1> HIDE DEF u
<1>3. model = Claude
  <2>1. u.env.route = Claude /\ u.env.deployment = LL!NoRoute /\ u.env.group = LL!NoRoute
    BY <1>2 DEF Env
  <2>2. Claude # LL!NoRoute
    <3>1. Claude.family # LL!NoRoute.family
      BY DEF Claude, LL!NoRoute
    <3> QED
      BY <3>1
  <2> QED
    BY <1>2, <2>1, <2>2 DEF LL!recordedModel
<1> HIDE DEF model
<1>4. r.tokens = LL!tokensOf(Claude, t.usage) /\ "split" \notin DOMAIN r
  BY <1>1, <1>2, <1>3 DEF LL!proxyStreamRecord, LL!Record, LL!asFailedCall, model
<1>5. /\ t.usage.prompt = c.fresh + c.read + c.write /\ t.usage.completion = c.text + c.thought
      /\ t.usage.read = c.read /\ t.usage.write = c.write
  BY DEF Tells, OpenAIKinds
<1>6. c.fresh \in Nat /\ c.read \in Nat /\ c.write \in Nat
  BY TheOne DEF Amounts
<1> HIDE DEF c
<1>7. /\ r.tokens.in = LL!billableInputTokens(Claude, t.usage.prompt, t.usage.read, t.usage.write)
      /\ r.tokens.read = c.read /\ r.tokens.write = c.write /\ r.tokens.out = c.text + c.thought
  BY <1>4, <1>5 DEF LL!tokensOf, LL!Tokens
<1>8. LL!cacheOverlapLeftToClient(Claude)
  BY DEF LL!cacheOverlapLeftToClient, Claude, LL!ClaudeNames
<1>9. r.tokens.in = c.fresh
  <2>1. \A f, x, w \in Nat : LL!billableInputTokens(Claude, f + x + w, x, w) = f
    BY <1>8 DEF LL!billableInputTokens
  <2>2. r.tokens.in = LL!billableInputTokens(Claude, c.fresh + c.read + c.write, c.read, c.write)
    BY <1>5, <1>7
  <2> QED
    BY <1>6, <2>1, <2>2
<1>10. TakenApart("litellm", r.tokens) =
        [fresh |-> r.tokens.in, read |-> r.tokens.read, write |-> r.tokens.write, output |-> r.tokens.out]
  BY DEF TakenApart, OpenAIKinds
<1>11. Consumed("litellm", told) = [fresh |-> c.fresh, read |-> c.read, write |-> c.write, output |-> c.text + c.thought]
  BY DEF Consumed, c
<1> QED
  BY <1>4, <1>7, <1>9, <1>10, <1>11 DEF Bills

LEMMA GoogleBills ==
  ASSUME NEW t, FieldsOf("google") \subseteq DOMAIN t, NEW told, IsReport(told), Tells("google", t, told),
         NEW b \in BOOLEAN, NEW left \in BOOLEAN, NEW r, RecordsOf("google", t, b, left) = <<r>>
  PROVE  Bills("google", r, told)
<1> DEFINE u == [t EXCEPT !.stoppedByCaller = left]
<1>1. r = GO!streamRecord(u, b)
  BY DEF RecordsOf, OpenAIKinds
<1>2. u.usage = t.usage
  BY DEF FieldsOf, OpenAIKinds
<1>3. t.usage = {GO!UsageMetadata(c, TRUE) : c \in told}
  BY DEF Tells, OpenAIKinds
<1> HIDE DEF u
<1> DEFINE main == GO!buildPayload(u.env, u.usage)
<1>4. /\ main.tokens = IF u.usage = {} THEN GO!NoTokens ELSE GO!payloadTokens(CHOOSE x \in u.usage : TRUE)
      /\ DOMAIN main = {"what", "operation", "model", "tokens", "status"}
  BY DEF GO!buildPayload, GO!Record
<1>5. r \in {main, GO!asFailedCall(main, "network"), GO!asCancelledCall(main)}
  BY <1>1 DEF GO!streamRecord
<1> HIDE DEF main
<1>6. r.tokens = main.tokens /\ "split" \notin DOMAIN r
  BY <1>4, <1>5 DEF GO!asFailedCall, GO!asCancelledCall
<1>7. ASSUME told # {} PROVE TakenApart("google", r.tokens) = Consumed("google", told)
  <2>1. PICK c \in Amounts : told = {c}
    BY <1>7 DEF IsReport
  <2>2. u.usage = {GO!UsageMetadata(c, TRUE)}
    BY <1>2, <1>3, <2>1
  <2>3. r.tokens = GO!payloadTokens(GO!UsageMetadata(c, TRUE))
    BY <1>4, <1>6, <2>2
  <2>4. /\ r.tokens.in = GO!billedInputTokens(GO!UsageMetadata(c, TRUE))
        /\ r.tokens.out = GO!billedOutputTokens(GO!UsageMetadata(c, TRUE))
    BY <2>3 DEF GO!payloadTokens, GO!Tokens
  <2>5. r.tokens.in = c.fresh + c.read + c.write /\ r.tokens.out = c.text + c.thought
    BY <2>4 DEF GO!UsageMetadata, GO!billedInputTokens, GO!billedOutputTokens
  <2>6. TakenApart("google", r.tokens) = [fresh |-> r.tokens.in, read |-> 0, write |-> 0, output |-> r.tokens.out]
    BY DEF TakenApart, OpenAIKinds
  <2>7. Consumed("google", told) = [fresh |-> c.fresh + c.read + c.write, read |-> 0, write |-> 0, output |-> c.text + c.thought]
    BY <2>1, TheOne DEF Consumed
  <2> QED
    BY <2>5, <2>6, <2>7
<1> QED
  BY <1>6, <1>7 DEF Bills
TurnBilled(r, x, c, b) ==
  /\ r.tokens.read = c.read /\ r.tokens.write = c.write /\ r.tokens.out = c.text + c.thought
  /\ r.split \subseteq {c.write} /\ (~b \/ x.told => r.tokens.in = x.usage.in)
LEMMA TurnBills ==
  ASSUME NEW x, NEW c, TurnTells(x.usage, c), NEW b \in BOOLEAN, NEW r, r = AN!streamRecord(x, b)
  PROVE  TurnBilled(r, x, c, b)
<1> DEFINE tokens == AN!streamTokens(x, b)
           main == AN!Record("chat", x.served, tokens)
           r0 == AN!With(main, [split |-> x.usage.split])
<1>1. /\ tokens.read = c.read /\ tokens.write = c.write /\ tokens.out = c.text + c.thought
      /\ (~b \/ x.told => tokens.in = x.usage.in)
  BY DEF AN!streamTokens, AN!Tokens, TurnTells
<1> HIDE DEF tokens
<1>2. main.tokens = tokens /\ DOMAIN main = {"what", "operation", "model", "tokens", "status"}
  BY DEF AN!Record
<1> HIDE DEF main
<1>3. r0.tokens = tokens /\ r0.split = x.usage.split /\ {"what", "tokens", "split", "status"} \subseteq DOMAIN r0
  BY <1>2 DEF AN!With
<1> HIDE DEF r0
<1>4. r \in {AN!asFailedCall(r0, "network"), AN!asCancelledCall(r0), r0}
  BY DEF AN!streamRecord, r0, main, tokens
<1>5. r.tokens = tokens /\ r.split = x.usage.split
  BY <1>3, <1>4 DEF AN!asFailedCall, AN!asCancelledCall
<1> QED
  BY <1>1, <1>5 DEF TurnTells, TurnBilled

LEMMA TurnBilledIsBilled ==
  ASSUME NEW k \in MessageKinds, NEW r, NEW x, NEW b \in BOOLEAN, NEW told, TurnBilled(r, x, The(told), b),
         told # {} => x.told /\ x.usage.in = The(told).fresh
  PROVE  Bills(k, r, told)
<1> DEFINE c == The(told)
<1>1. /\ r.tokens.read = c.read /\ r.tokens.write = c.write /\ r.tokens.out = c.text + c.thought
      /\ r.split \subseteq {c.write} /\ (told # {} => r.tokens.in = c.fresh)
  BY DEF TurnBilled
<1>2. TakenApart(k, r.tokens) = [fresh |-> r.tokens.in, read |-> r.tokens.read, write |-> r.tokens.write, output |-> r.tokens.out]
  BY DEF TakenApart, OpenAIKinds, MessageKinds
<1>3. Consumed(k, told) = [fresh |-> c.fresh, read |-> c.read, write |-> c.write, output |-> c.text + c.thought]
  BY DEF Consumed, MessageKinds
<1> QED
  BY <1>1, <1>2, <1>3 DEF Bills

(* What Close takes over of what a Bedrock stream gathered.                    *)
LEMMA AccumulatedTells ==
  ASSUME NEW t, NEW told, IsReport(told), TurnTells(t.usage, The(told)), t.usage.in = The(told).fresh,
         \A c \in told : c.fresh + c.text + c.thought > 0,
         NEW u, u = AN!accumulated([AN!StreamOpened(t.env) EXCEPT !.exhausted = t.exhausted], t)
  PROVE  TurnTells(u.usage, The(told)) /\ (told # {} => u.told /\ u.usage.in = The(told).fresh)
<1> DEFINE c == The(told)
           o == [AN!StreamOpened(t.env) EXCEPT !.exhausted = t.exhausted]
           some == AN!someCounted(t.usage)
<1>1. c.fresh \in Nat /\ c.read \in Nat /\ c.write \in Nat /\ c.text \in Nat /\ c.thought \in Nat
  BY TheOne DEF Amounts
<1>2. told # {} => c.fresh + c.text + c.thought > 0
  <2>1. told # {} => c \in told
    BY TheOne DEF IsReport
  <2> QED
    BY <2>1
<1> HIDE DEF c
<1>3. AN!Nothing.fresh = 0 /\ AN!Nothing.read = 0 /\ AN!Nothing.write = 0 /\ AN!Nothing.text = 0 /\ AN!Nothing.thought = 0
  BY DEF AN!Nothing
<1>4. /\ DOMAIN o.usage = UsageFields /\ o.usage.out = 0 /\ o.usage.read = 0 /\ o.usage.write = 0 /\ o.usage.split = {}
      /\ "usage" \in DOMAIN o /\ "told" \in DOMAIN o /\ "stopSeen" \in DOMAIN o /\ "finish" \in DOMAIN o
  <2>1. Reports(AN!NoUsage, AN!Nothing, FALSE)
    BY EventUsage DEF AN!NoUsage
  <2>2. o.usage = [AN!NoUsage EXCEPT !.in = t.env.estimate]
    BY DEF AN!StreamOpened
  <2>3. "usage" \in DOMAIN o /\ "told" \in DOMAIN o /\ "stopSeen" \in DOMAIN o /\ "finish" \in DOMAIN o
    BY DEF AN!StreamOpened
  <2> QED
    BY <1>3, <2>1, <2>2, <2>3 DEF Reports, UsageFields
<1> HIDE DEF o
<1>5. u = AN!accumulated(o, t)
  BY DEF o
<1>6. u.told <=> o.told \/ some
  BY <1>4, <1>5 DEF AN!accumulated
<1>7. u.usage = AN!takenOver(o.usage, t.usage)
  BY <1>4, <1>5 DEF AN!accumulated
<1>8. /\ DOMAIN u.usage = UsageFields /\ (some => u.usage.in = t.usage.in)
      /\ u.usage.out = (IF some THEN t.usage.out ELSE 0)
      /\ u.usage.read = AN!reported(t.usage.read, 0) /\ u.usage.write = AN!reported(t.usage.write, 0)
      /\ u.usage.split = t.usage.split
  BY <1>4, <1>7 DEF UsageFields, AN!takenOver
<1>9. t.usage.in = c.fresh /\ t.usage.out = c.text + c.thought /\ t.usage.read = c.read /\ t.usage.write = c.write
      /\ t.usage.split \subseteq {c.write}
  BY DEF TurnTells, c
<1>10. u.usage.read = c.read /\ u.usage.write = c.write
  BY <1>1, <1>8, <1>9 DEF AN!reported
<1>11. u.usage.out = c.text + c.thought
  BY <1>1, <1>8, <1>9 DEF AN!someCounted
<1>12. told # {} => some
  BY <1>1, <1>2, <1>9 DEF AN!someCounted
<1> HIDE DEF some
<1>13. TurnTells(u.usage, c)
  BY <1>8, <1>9, <1>10, <1>11 DEF TurnTells
<1>14. told # {} => u.told /\ u.usage.in = c.fresh
  BY <1>6, <1>8, <1>9, <1>12
<1> QED
  BY <1>13, <1>14 DEF c

LEMMA MessageBills ==
  ASSUME NEW k \in MessageKinds, NEW t, NEW told, IsReport(told), Tells(k, t, told),
         k \in {"anthropic", "beta"} => (told # {} => t.told),
         k \in BedrockKinds => \A c \in told : c.fresh + c.text + c.thought > 0,
         NEW b \in BOOLEAN, NEW left, NEW r, RecordsOf(k, t, b, left) = <<r>>
  PROVE  Bills(k, r, told)
<1>1. TurnTells(t.usage, The(told)) /\ (told # {} \/ k # "anthropic" => t.usage.in = The(told).fresh)
  BY MessageTells
<1>2. CASE k \in {"anthropic", "beta"}
  <2>1. RecordsOf(k, t, b, left) \in {<<AN!streamRecord(t, b)>>, <<>>}
    BY <1>2 DEF RecordsOf, OpenAIKinds, AN!betaRecords
  <2>2. r = AN!streamRecord(t, b)
    BY <2>1
  <2>3. TurnBilled(r, t, The(told), b)
    BY <1>1, <2>2, TurnBills
  <2> QED
    BY <1>1, <1>2, <2>3, TurnBilledIsBilled
<1>3. CASE k \in BedrockKinds
  <2> DEFINE u == AN!accumulated([AN!StreamOpened(t.env) EXCEPT !.exhausted = t.exhausted], t)
  <2>1. r = AN!streamRecord(u, b)
    BY <1>3 DEF RecordsOf, OpenAIKinds, BedrockKinds
  <2>2. t.usage.in = The(told).fresh
    BY <1>1, <1>3 DEF BedrockKinds
  <2>3. TurnTells(u.usage, The(told)) /\ (told # {} => u.told /\ u.usage.in = The(told).fresh)
    BY <1>1, <1>3, <2>2, AccumulatedTells
  <2> HIDE DEF u
  <2>4. TurnBilled(r, u, The(told), b)
    BY <2>1, <2>3, TurnBills
  <2> QED
    BY <2>3, <2>4, TurnBilledIsBilled
<1> QED
  BY <1>2, <1>3 DEF MessageKinds, BedrockKinds
(* ------------------------- what is told, along a wire ----------------------- *)
LEMMA ToldIsReport ==
  ASSUME StreamTypeOK, NEW w \in Streams[kind], NEW p \in 0 .. Len(w), LastTold(w, p)
  PROVE  IsReport(seen.told)
<1>1. CASE seen.told = {}
  BY <1>1 DEF IsReport
<1>2. ASSUME NEW j \in 1 .. p, seen.told = w[j].told PROVE IsReport(seen.told)
  <2>1. Len(w) \in Nat /\ j \in 1 .. Len(w)
    BY Wires
  <2> QED
    BY <1>2, <2>1, Wires DEF IsChunk
<1> QED
  BY <1>1, <1>2 DEF LastTold

LEMMA NothingIsLeast == \A d \in Amounts : NoLess(Nothing, d)
BY DEF NoLess, Nothing, Amounts

(* What chunk n says was consumed is no less than what was told before it.     *)
LEMMA ToldGrows ==
  ASSUME StreamTypeOK, NEW w \in Streams[kind], NEW n \in 1 .. Len(w), LastTold(w, n - 1),
         NEW d \in Amounts, w[n].told = {d}
  PROVE  NoLess(The(seen.told), d)
<1>1. CASE seen.told = {}
  BY <1>1, TheOne, NothingIsLeast
<1>2. ASSUME NEW j \in 1 .. (n - 1), seen.told = w[j].told, w[j].told # {} PROVE NoLess(The(seen.told), d)
  <2>1. Len(w) \in Nat /\ j \in DOMAIN w /\ n \in DOMAIN w /\ j < n /\ Grows(w) /\ j \in 1 .. Len(w)
    <3>1. Len(w) \in Nat /\ DOMAIN w = 1 .. Len(w) /\ Grows(w)
      BY Wires DEF IsStream
    <3> QED
      BY <3>1
  <2>2. PICK c \in Amounts : w[j].told = {c}
    BY <1>2, <2>1, Wires DEF IsChunk, IsReport
  <2>3. The(seen.told) = c
    BY <1>2, <2>2, TheOne
  <2>4. \A part \in DOMAIN Nothing : c[part] <= d[part]
    BY <2>1, <2>2 DEF Grows
  <2> QED
    BY <2>3, <2>4 DEF NoLess, Nothing
<1> QED
  BY <1>1, <1>2 DEF LastTold

(* A count chunk n leaves out is the one told last.                            *)
LEMMA LeftOutIsTold ==
  ASSUME StreamTypeOK, NEW w \in Streams[kind], NEW n \in 1 .. Len(w), LastTold(w, n - 1), TellsWhatChanged(w),
         NEW d \in Amounts, w[n].told = {d}, NEW u, w[n].use = {u}, NEW part \in {"fresh", "read", "write"}
  PROVE  u[part] = d[part] \/ (u[part] = 0 /\ The(seen.told)[part] = d[part])
<1>1. Len(w) \in Nat /\ DOMAIN w = 1 .. Len(w) /\ Grows(w)
  BY Wires DEF IsStream
<1>2. \/ u[part] = d[part]
      \/ u[part] = 0 /\ \E i \in DOMAIN w : i < n /\ \E v \in w[i].told : v[part] = d[part]
  BY <1>1 DEF TellsWhatChanged
<1>3. ASSUME NEW i \in DOMAIN w, i < n, NEW v \in w[i].told, v[part] = d[part] PROVE The(seen.told)[part] = d[part]
  <2>1. i \in 1 .. (n - 1) /\ w[i].told # {} /\ i \in 1 .. Len(w)
    BY <1>1, <1>3
  <2>2. PICK j \in 1 .. (n - 1) : /\ seen.told = w[j].told /\ w[j].told # {}
                                  /\ \A x \in (j + 1) .. (n - 1) : w[x].told = {}
    BY <2>1 DEF LastTold
  <2>3. i <= j /\ j \in 1 .. Len(w) /\ n \in DOMAIN w /\ j < n /\ j \in DOMAIN w
    BY <1>1, <2>1, <2>2
  <2>4. PICK c \in Amounts : w[j].told = {c}
    BY <2>2, <2>3, Wires DEF IsChunk, IsReport
  <2>5. The(seen.told) = c
    BY <2>2, <2>4, TheOne
  <2>6. IsReport(w[i].told)
    BY <2>1, Wires DEF IsChunk
  <2>7. v \in Amounts
    BY <1>3, <2>6 DEF IsReport
  <2>8. part \in DOMAIN Nothing /\ v[part] \in Nat /\ c[part] \in Nat /\ d[part] \in Nat
    BY <2>7 DEF Nothing, Amounts
  <2>9. c[part] <= d[part]
    BY <1>1, <2>3, <2>4, <2>8 DEF Grows
  <2>10. CASE i = j
    BY <1>3, <2>4, <2>5, <2>10
  <2>11. CASE i < j
    <3>1. v[part] <= c[part]
      BY <1>1, <1>3, <2>3, <2>4, <2>8, <2>11 DEF Grows
    <3> QED
      BY <1>3, <2>5, <2>8, <2>9, <3>1
  <2> QED
    BY <1>1, <2>1, <2>3, <2>10, <2>11
<1> QED
  BY <1>2, <1>3

LEMMA WhatAChunkSays ==
  ASSUME StreamTypeOK, NEW w \in Streams[kind], NEW n \in 1 .. Len(w), LastTold(w, n - 1), holding = w[n], TakeIn, ~closed
  PROVE  \/ Unsaid(w[n], seen.told, seen'.told)
         \/ Said(w[n], seen.told, seen'.told) /\ (kind \notin {"anthropic", "beta", "invoke"} => w[n].use = w[n].told)
<1>1. seen'.told = IF w[n].told # {} THEN w[n].told ELSE seen.told
  BY ChunkIsSeen
<1>2. IsChunk(w[n]) /\ IsStream(kind, w) /\ n \in DOMAIN w
  BY Wires
<1>3. CASE w[n].told = {}
  BY <1>1, <1>2, <1>3 DEF Unsaid, IsChunk
<1>4. CASE w[n].told # {}
  <2>1. PICK d \in Amounts : w[n].told = {d}
    BY <1>2, <1>4 DEF IsChunk, IsReport
  <2>2. PICK u \in Amounts : w[n].use = {u}
    BY <1>2, <1>4 DEF IsChunk, IsReport
  <2>3. seen'.told = {d} /\ (w[n].split => u = d)
    BY <1>1, <1>2, <2>1, <2>2 DEF IsChunk
  <2>4. NoLess(The(seen.told), d)
    BY <2>1, ToldGrows
  <2>5. kind \notin {"anthropic", "beta", "invoke"} => u = d
    BY <1>2, <2>1, <2>2 DEF IsStream, TellsAll
  <2>6. kind \in {"anthropic", "beta", "invoke"} => TellsWhatChanged(w)
    BY <1>2 DEF IsStream
  <2>7. u.text = d.text /\ u.thought = d.thought
    BY <1>2, <2>1, <2>2, <2>5, <2>6 DEF TellsWhatChanged
  <2>8. \A part \in {"fresh", "read", "write"} :
          u[part] = d[part] \/ (u[part] = 0 /\ The(seen.told)[part] = d[part])
    <3> SUFFICES ASSUME NEW part \in {"fresh", "read", "write"}
                 PROVE  u[part] = d[part] \/ (u[part] = 0 /\ The(seen.told)[part] = d[part])
      OBVIOUS
    <3>1. CASE kind \notin {"anthropic", "beta", "invoke"}
      BY <2>5, <3>1
    <3>2. CASE kind \in {"anthropic", "beta", "invoke"}
      BY <2>1, <2>2, <2>6, <3>2, LeftOutIsTold
    <3> QED
      BY <3>1, <3>2
  <2>9. /\ u.fresh = d.fresh \/ (u.fresh = 0 /\ The(seen.told).fresh = d.fresh)
        /\ u.read = d.read \/ (u.read = 0 /\ The(seen.told).read = d.read)
        /\ u.write = d.write \/ (u.write = 0 /\ The(seen.told).write = d.write)
    BY <2>8
  <2>10. Said(w[n], seen.told, seen'.told)
    BY <2>1, <2>2, <2>3, <2>4, <2>7, <2>9 DEF Said
  <2> QED
    BY <2>1, <2>2, <2>5, <2>10
<1> QED
  BY <1>3, <1>4
(* Of a stream that is still read: its state tells what it was told, and has   *)
(* what makes a record of that.                                                *)
Telling ==
  /\ IsReport(seen.told) /\ s.env = Env(kind) /\ Tells(kind, s, seen.told)
  /\ kind = "litellm" => s.served \in {LL!NoRoute, Claude}
  /\ kind = "responses" => (seen.told # {} => s.final # "")
  /\ kind \in {"anthropic", "beta"} => (seen.told # {} => s.told)
  /\ kind \in BedrockKinds => \A c \in seen.told : c.fresh + c.text + c.thought > 0
ToldInv == (~closed => Telling) /\ ToldIsBilled

LEMMA ToldInvAtFirst == StreamInit => ToldInv
<1> SUFFICES ASSUME StreamInit PROVE ToldInv
  OBVIOUS
<1>1. kind \in Kinds /\ s = Opened(kind) /\ records = <<>> /\ seen.told = {}
  BY DEF StreamInit, NothingSeen
<1>2. ToldIsBilled
  BY <1>1 DEF ToldIsBilled
<1>3. IsReport(seen.told) /\ The(seen.told) = Nothing
  BY <1>1, TheOne DEF IsReport
<1>4. Nothing.fresh = 0 /\ Nothing.read = 0 /\ Nothing.write = 0 /\ Nothing.text = 0 /\ Nothing.thought = 0
  BY DEF Nothing
<1>5. CASE kind \in OpenAIKinds \cup {"responses"}
  <2>1. s = OA!StreamOpened(Env(kind))
    BY <1>1, <1>5 DEF Opened, OpenAIKinds
  <2>2. s.env = Env(kind) /\ s.usage = OA!NoUsage
    BY <2>1 DEF OA!StreamOpened
  <2>3. Tells(kind, s, seen.told)
    BY <1>3, <1>5, <2>2, OpenAITells, NothingThought
  <2>4. kind \notin {"litellm", "anthropic", "beta"} \cup BedrockKinds
    BY <1>5 DEF OpenAIKinds, BedrockKinds
  <2> QED
    BY <1>1, <1>2, <1>3, <2>2, <2>3, <2>4 DEF ToldInv, Telling
<1>6. CASE kind = "perplexity"
  <2>1. s = CP!perplexityOpened(Env(kind))
    BY <1>1, <1>6 DEF Opened, OpenAIKinds
  <2>2. s.env = Env(kind) /\ s.usage = Tokens(0, 0, 0, 0, 0, 0)
    BY <2>1 DEF CP!perplexityOpened, CP!NoTokens, CP!Tokens, Tokens
  <2>3. Tells(kind, s, seen.told)
    BY <1>3, <1>4, <1>6, <2>2 DEF Tells, OpenAIKinds
  <2> QED
    BY <1>1, <1>2, <1>3, <1>6, <2>2, <2>3 DEF ToldInv, Telling, BedrockKinds
<1>7. CASE kind = "litellm"
  <2>1. s = LL!proxyStreamOpened(Env(kind))
    BY <1>1, <1>7 DEF Opened, OpenAIKinds
  <2>2. LL!Nothing.fresh = 0 /\ LL!Nothing.read = 0 /\ LL!Nothing.write = 0 /\ LL!Nothing.text = 0 /\ LL!Nothing.thought = 0
    BY DEF LL!Nothing
  <2>3. s.env = Env(kind) /\ s.usage = LL!NoReport /\ s.served = LL!NoRoute
    BY <2>1 DEF LL!proxyStreamOpened
  <2>4. LL!NoReport.prompt = 0 /\ LL!NoReport.completion = 0 /\ LL!NoReport.read = 0 /\ LL!NoReport.write = 0
    BY <2>2 DEF LL!NoReport, LL!Reported
  <2>5. Tells(kind, s, seen.told)
    BY <1>3, <1>4, <1>7, <2>3, <2>4 DEF Tells, OpenAIKinds
  <2> QED
    BY <1>1, <1>2, <1>3, <1>7, <2>3, <2>5 DEF ToldInv, Telling, BedrockKinds
<1>8. CASE kind = "google"
  <2>1. s = GO!streamOpened(Env(kind))
    BY <1>1, <1>8 DEF Opened, OpenAIKinds
  <2>2. s.env = Env(kind) /\ s.usage = {}
    BY <2>1 DEF GO!streamOpened
  <2>3. Tells(kind, s, seen.told)
    BY <1>1, <1>8, <2>2 DEF Tells, OpenAIKinds
  <2> QED
    BY <1>1, <1>2, <1>3, <1>8, <2>2, <2>3 DEF ToldInv, Telling, BedrockKinds
<1>9. CASE kind \in MessageKinds
  <2>1. s = IF kind = "anthropic" THEN AN!StreamOpened(Env(kind)) ELSE AN!betaOpened(Env(kind))
    BY <1>1, <1>9 DEF Opened, OpenAIKinds, MessageKinds
  <2>2. /\ s.env = Env(kind) /\ (kind # "anthropic" => s.usage = AN!NoUsage)
        /\ kind = "anthropic" => s.usage = [AN!NoUsage EXCEPT !.in = Env(kind).estimate]
    BY <2>1 DEF AN!StreamOpened, AN!betaOpened
  <2>3. AN!Nothing = Nothing
    BY DEF AN!Nothing, Nothing
  <2>4. Reports(AN!NoUsage, Nothing, FALSE)
    BY <2>3, EventUsage DEF AN!NoUsage
  <2>5. TurnTells(s.usage, Nothing) /\ (kind # "anthropic" => s.usage.in = Nothing.fresh)
    BY <2>2, <2>4 DEF Reports, TurnTells, UsageFields
  <2>6. Tells(kind, s, seen.told)
    BY <1>1, <1>3, <1>9, <2>5, MessageTells
  <2>7. kind \notin {"litellm", "responses"}
    BY <1>9 DEF MessageKinds
  <2> QED
    BY <1>1, <1>2, <1>3, <2>2, <2>6, <2>7 DEF ToldInv, Telling
<1> QED
  BY <1>1, <1>5, <1>6, <1>7, <1>8, <1>9, KindsOfStreams

LEMMA ToldAsBefore ==
  ASSUME ToldInv, UNCHANGED <<kind, s, records, closed, seen>>
  PROVE  ToldInv'
<1>1. ToldIsBilled'
  BY DEF ToldInv, ToldIsBilled
<1>2. ASSUME ~closed PROVE Telling'
  <2>1. Telling
    BY <1>2 DEF ToldInv
  <2> QED
    BY <2>1 DEF Telling
<1> QED
  BY <1>1, <1>2 DEF ToldInv

LEMMA BilledAsBefore ==
  ASSUME ToldInv, UNCHANGED <<kind, records>>
  PROVE  ToldIsBilled'
BY DEF ToldInv, ToldIsBilled

LEMMA ToldAtTheEnd ==
  ASSUME StreamInv, ToldInv, StreamEnds
  PROVE  ToldInv'
<1>1. /\ s' = Exhausted(kind, s, clock) /\ UNCHANGED <<kind, records, closed>> /\ ~closed
      /\ seen'.told = seen.told
  BY EndIsSeen DEF StreamEnds, StreamInv, Reading, SeenKept
<1>2. Telling /\ kind \in Kinds /\ FieldsOf(kind) \subseteq DOMAIN s
  BY <1>1 DEF ToldInv, StreamInv, StreamTypeOK, Reading
<1>3. /\ kind \in OpenAIKinds \cup {"responses"} => s'.env = s.env /\ s'.usage = s.usage /\ s'.final = s.final
      /\ kind \in MessageKinds => s'.told = s.told /\ s'.env = s.env /\ s'.usage = s.usage
      /\ kind \notin OpenAIKinds \cup {"responses"} \cup MessageKinds => s' = s
  BY <1>1, <1>2, ExhaustedState
<1>4. Tells(kind, s', seen.told)
  <2>1. CASE kind \in OpenAIKinds \cup {"responses"}
    <3>1. s.usage = OA!ReportedUsage(The(seen.told), kind = "xai")
      BY <1>2, <2>1, OpenAITells DEF Telling
    <3> QED
      BY <1>3, <2>1, <3>1, OpenAITells
  <2>2. CASE kind \in MessageKinds
    <3>1. s'.usage = s.usage
      BY <1>3, <2>2
    <3>2. Tells(kind, s, seen.told)
      BY <1>2 DEF Telling
    <3> QED
      BY <2>2, <3>1, <3>2, MessageTells
  <2>3. CASE kind \notin OpenAIKinds \cup {"responses"} \cup MessageKinds
    BY <1>2, <1>3, <2>3 DEF Telling
  <2> QED
    BY <2>1, <2>2, <2>3
<1>5. s'.env = Env(kind) /\ (kind = "litellm" => s'.served \in {LL!NoRoute, Claude})
      /\ (kind = "responses" => (seen.told # {} => s'.final # ""))
      /\ (kind \in {"anthropic", "beta"} => (seen.told # {} => s'.told))
  BY <1>2, <1>3 DEF Telling, MessageKinds, OpenAIKinds
<1>6. Telling'
  BY <1>1, <1>2, <1>4, <1>5 DEF Telling
<1> QED
  BY <1>1, <1>6, BilledAsBefore DEF ToldInv
LEMMA TakenInIsTold ==
  ASSUME StreamTypeOK, NEW w \in Streams[kind], NEW n \in 1 .. Len(w), Gathered(w, n - 1), holding = w[n],
         TakeIn, ~closed, FieldsOf(kind) \subseteq DOMAIN s, Telling
  PROVE  Tells(kind, s', seen'.told) /\ s'.env = s.env
<1> DEFINE m == w[n]
           now == seen'.told
<1>1. kind \in Kinds /\ s' = Observe(kind, s, m, clock) /\ LastTold(w, n - 1)
  BY DEF TakeIn, StreamTypeOK, Gathered
<1>2. Tells(kind, s, seen.told) /\ IsReport(seen.told)
  BY DEF Telling
<1>3. IsStream(kind, w) /\ DOMAIN w = 1 .. Len(w) /\ n \in DOMAIN w /\ Len(w) \in Nat /\ m.split \in BOOLEAN
  BY Wires DEF IsChunk
<1>4. Unsaid(m, seen.told, now) \/ (Said(m, seen.told, now) /\ (kind \notin {"anthropic", "beta", "invoke"} => m.use = m.told))
  BY <1>1, WhatAChunkSays
<1> HIDE DEF m, now
<1>5. CASE kind \in OpenAIKinds
  <2>1. OpenAIFields \subseteq DOMAIN s /\ kind \notin {"anthropic", "beta", "invoke"}
    BY <1>5, FieldsOfOpenAI DEF OpenAIKinds
  <2>2. Unsaid(m, seen.told, now) \/ (Said(m, seen.told, now) /\ m.use = m.told)
    BY <1>4, <2>1
  <2>3. ChatTaken(kind, s, m, clock, s')
    BY <1>1, <1>5, <2>1, ChatChunk
  <2>5. kind = "xai" => \A d \in m.told : d.thought > 0 => d.fresh + d.read + d.write + d.text > 0
    BY <1>3 DEF IsStream, ThoughtOfSomething, m
  <2>4. Tells(kind, s', now)
    BY <1>1, <1>2, <1>5, <2>1, <2>2, <2>5, ChatTells
  <2> QED
    BY <2>3, <2>4 DEF ChatTaken, now
<1>6. CASE kind = "responses"
  <2>1. OpenAIFields \subseteq DOMAIN s
    BY <1>6, FieldsOfOpenAI
  <2>2. Unsaid(m, seen.told, now) \/ (Said(m, seen.told, now) /\ m.use = m.told)
    BY <1>4, <1>6
  <2>3. EndsOnce(w)
    BY <1>3, <1>6 DEF IsStream
  <2>4. m.told # {} => m.finish # ""
    BY <1>3, <2>3 DEF EndsOnce, m
  <2>5. ASSUME seen.told # {} PROVE m.finish = ""
    <3>1. PICK j \in 1 .. (n - 1) : w[j].told # {}
      BY <1>1, <2>5 DEF LastTold
    <3>2. j \in DOMAIN w /\ j # n
      BY <1>3, <3>1
    <3> QED
      BY <1>3, <2>3, <3>1, <3>2 DEF EndsOnce, m
  <2>6. ResponseTaken(s, m, clock, s')
    BY <1>1, <1>6, <2>1, ResponsesEvent
  <2>7. Tells("responses", s', now)
    BY <1>1, <1>2, <1>6, <2>1, <2>2, <2>4, <2>5, ResponseTells
  <2> QED
    BY <1>6, <2>6, <2>7 DEF ResponseTaken, now
<1>7. CASE kind = "perplexity"
  <2>1. Unsaid(m, seen.told, now) \/ (Said(m, seen.told, now) /\ m.use = m.told)
    BY <1>4, <1>7
  <2>2. \A d \in m.told : d.read + d.write + d.thought = 0
    BY <1>3, <1>7 DEF IsStream, m
  <2>3. Tells("perplexity", s', now)
    BY <1>1, <1>2, <1>7, <2>1, <2>2, PerplexityTells
  <2>4. s'.env = s.env
    BY <1>1, <1>7, PerplexityChunk
  <2> QED
    BY <1>7, <2>3, <2>4 DEF now
<1>8. CASE kind = "litellm"
  <2>1. Unsaid(m, seen.told, now) \/ (Said(m, seen.told, now) /\ m.use = m.told)
    BY <1>4, <1>8
  <2>2. Tells("litellm", s', now)
    BY <1>1, <1>2, <1>8, <2>1, ProxyTells
  <2>3. s'.env = s.env
    BY <1>1, <1>8, ProxyChunk
  <2> QED
    BY <1>8, <2>2, <2>3 DEF now
<1>9. CASE kind = "google"
  <2>1. Unsaid(m, seen.told, now) \/ (Said(m, seen.told, now) /\ m.use = m.told)
    BY <1>4, <1>9
  <2>2. Tells("google", s', now)
    BY <1>1, <1>2, <1>9, <2>1, GoogleTells
  <2>3. s'.env = s.env
    BY <1>1, <1>9, GoogleChunk
  <2> QED
    BY <1>9, <2>2, <2>3 DEF now
<1>10. CASE kind \in MessageKinds
  <2>1. MessageFields \subseteq DOMAIN s
    BY <1>10, FieldsOfMessages
  <2>2. s'.env = s.env
    BY <1>1, <1>10, <2>1, MessageEvent
  <2>3. CASE kind \in {"anthropic", "beta"}
    <3>1. \A i \in DOMAIN w : /\ w[i].type = "message_start" <=> i = 1
                              /\ w[i].told # {} <=> w[i].type \in {"message_start", "message_delta"}
      BY <1>3, <2>3 DEF IsStream, StartsAndTells
    <3>2. seen.told = {} <=> n = 1
      <4>1. CASE n = 1
        BY <1>1, <1>3, <4>1 DEF LastTold
      <4>2. CASE n # 1
        <5>1. 1 \in 1 .. (n - 1) /\ 1 \in DOMAIN w
          BY <1>3, <4>2
        <5>2. w[1].told # {}
          BY <3>1, <5>1
        <5> QED
          BY <1>1, <4>2, <5>1, <5>2 DEF LastTold
      <4> QED
        BY <4>1, <4>2
    <3>3. /\ m.told # {} <=> m.type \in {"message_start", "message_delta"}
          /\ m.type = "message_start" <=> seen.told = {}
      BY <1>3, <3>1, <3>2 DEF m
    <3>4. Tells(kind, s', now)
      BY <1>1, <1>2, <1>3, <1>4, <2>1, <2>3, <3>3, StartAndDeltaTell
    <3> QED
      BY <2>2, <3>4 DEF now
  <2>4. CASE kind = "invoke"
    <3>1. Tells("invoke", s', now)
      BY <1>1, <1>2, <1>3, <1>4, <2>1, <2>4, InvokeTells
    <3> QED
      BY <2>2, <2>4, <3>1 DEF now
  <2>5. CASE kind = "converse"
    <3>1. Unsaid(m, seen.told, now) \/ (Said(m, seen.told, now) /\ m.use = m.told)
      BY <1>4, <2>5
    <3>2. m.told # {} <=> m.type = "metadata"
      BY <1>3, <2>5 DEF IsStream, m
    <3>3. Tells("converse", s', now)
      BY <1>1, <1>2, <1>3, <2>1, <2>5, <3>1, <3>2, ConverseTells
    <3> QED
      BY <2>2, <2>5, <3>3 DEF now
  <2> QED
    BY <1>10, <2>3, <2>4, <2>5 DEF MessageKinds
<1> QED
  BY <1>1, <1>5, <1>6, <1>7, <1>8, <1>9, <1>10, KindsOfStreams

LEMMA ToldWhileTakenIn ==
  ASSUME StreamInv, ToldInv, TakeIn
  PROVE  ToldInv'
<1>1. UNCHANGED <<kind, records, closed>> /\ reader = "holding"
  BY DEF TakeIn
<1>2. CASE closed
  BY <1>1, <1>2, BilledAsBefore DEF ToldInv
<1>3. CASE ~closed
  <2>1. Telling /\ Reading /\ StreamTypeOK
    BY <1>3 DEF ToldInv, StreamInv
  <2>2. PICK w \in Streams[kind] : \E n \in 0 .. Len(w) : Position(w, n) /\ Gathered(w, Taken(n))
    BY <1>1, <2>1 DEF Reading
  <2>3. PICK n \in 0 .. Len(w) : Position(w, n) /\ Gathered(w, n - 1)
    BY <1>1, <2>2 DEF Taken
  <2>4. Len(w) \in Nat /\ n \in 1 .. Len(w) /\ holding = w[n] /\ IsStream(kind, w) /\ n \in DOMAIN w
    BY <1>1, <2>1, <2>3, Wires DEF Position
  <2>5. FieldsOf(kind) \subseteq DOMAIN s
    BY <2>1 DEF Reading
  <2>6. Gathered(w, n)'
    BY <1>3, <2>1, <2>3, <2>4, <2>5, GatheredNext
  <2>7. Tells(kind, s', seen'.told) /\ s'.env = s.env
    BY <1>3, <2>1, <2>3, <2>4, <2>5, TakenInIsTold
  <2>8. LastTold(w, n)' /\ StreamTypeOK'
    BY <1>3, <2>1, <2>3, <2>4, ToldAtLast DEF Gathered, StreamTypeOK, TakeIn
  <2>9. IsReport(seen'.told) /\ seen'.told = (IF w[n].told # {} THEN w[n].told ELSE seen.told)
    <3>1. seen'.told = IF w[n].told # {} THEN w[n].told ELSE seen.told
      BY <1>3, <2>4, ChunkIsSeen
    <3> QED
      BY <2>1, <2>4, <3>1, Wires DEF IsChunk, Telling
  <2>10. kind = "litellm" => s'.served \in {LL!NoRoute, Claude}
    BY <2>1, <2>5, ProxyChunk DEF Telling, TakeIn
  <2>11. ASSUME kind = "responses", seen'.told # {} PROVE s'.final # ""
    <3>1. ResponseTaken(s, w[n], clock, s')
      BY <2>4, <2>5, <2>11, ResponsesEvent, FieldsOfOpenAI DEF TakeIn
    <3>2. w[n].told # {} => w[n].finish # ""
      BY <2>4, <2>11 DEF IsStream, EndsOnce
    <3> QED
      BY <2>1, <2>9, <2>11, <3>1, <3>2 DEF ResponseTaken, Telling
  <2>12. kind \in {"anthropic", "beta"} => s'.told
    <3>1. kind' \in {"anthropic", "beta"} => (n >= 1 => s'.told)
      BY <2>6 DEF Gathered
    <3> QED
      BY <1>1, <2>4, <3>1
  <2>13. kind \in BedrockKinds => \A c \in seen'.told : c.fresh + c.text + c.thought > 0
    BY <2>1, <2>4, <2>9 DEF IsStream, CountsSomething, Telling
  <2>14. s'.env = Env(kind)
    BY <2>1, <2>7 DEF Telling
  <2>15. Telling'
    BY <1>1, <2>7, <2>9, <2>10, <2>11, <2>12, <2>13, <2>14 DEF Telling
  <2> QED
    BY <1>1, <2>15, BilledAsBefore DEF ToldInv
<1> QED
  BY <1>2, <1>3
LEMMA RecordsBill ==
  ASSUME StreamTypeOK, FieldsOf(kind) \subseteq DOMAIN s, Telling, NEW b \in BOOLEAN, NEW left \in BOOLEAN,
         NEW r, RecordsOf(kind, s, b, left) = <<r>>
  PROVE  Bills(kind, r, seen.told)
<1>1. /\ kind \in Kinds /\ IsReport(seen.told) /\ s.env = Env(kind) /\ Tells(kind, s, seen.told)
      /\ kind = "litellm" => s.served \in {LL!NoRoute, Claude}
      /\ kind = "responses" => (seen.told # {} => s.final # "")
      /\ kind \in {"anthropic", "beta"} => (seen.told # {} => s.told)
      /\ kind \in BedrockKinds => \A c \in seen.told : c.fresh + c.text + c.thought > 0
  BY DEF Telling, StreamTypeOK
<1>2. CASE kind \in OpenAIKinds \cup {"responses"}
  BY <1>1, <1>2, OpenAIRecordBills
<1>3. CASE kind = "perplexity"
  BY <1>1, <1>3, PerplexityBills
<1>4. CASE kind = "litellm"
  BY <1>1, <1>4, ProxyBills
<1>5. CASE kind = "google"
  BY <1>1, <1>5, GoogleBills
<1>6. CASE kind \in MessageKinds
  BY <1>1, <1>6, MessageBills
<1> QED
  BY <1>1, <1>2, <1>3, <1>4, <1>5, <1>6, KindsOfStreams

LEMMA SentIsBilled ==
  ASSUME NEW R, \/ R = <<>>
                \/ \E r : R = <<r>> /\ Bills(kind, r, seen.told),
         NEW end, NEW ended, kind' = kind,
         records' = [i \in DOMAIN R |-> [record |-> R[i], at |-> clock, end |-> end, seen |-> seen, ended |-> ended]]
  PROVE  ToldIsBilled'
<1>1. DOMAIN records' = DOMAIN R /\ \A i \in DOMAIN R : records'[i].record = R[i] /\ records'[i].seen = seen
  OBVIOUS
<1>2. \A i \in DOMAIN R : Bills(kind, R[i], seen.told)
  OBVIOUS
<1>3. ASSUME NEW i \in DOMAIN records'
      PROVE  /\ records'[i].seen.told # {} /\ ~(kind' = "responses" /\ records'[i].record.what = "failed") =>
                  TakenApart(kind', records'[i].record.tokens) = Consumed(kind', records'[i].seen.told)
             /\ "split" \in DOMAIN records'[i].record => records'[i].record.split \subseteq {records'[i].record.tokens.write}
  <2>1. records'[i].record = R[i] /\ records'[i].seen = seen /\ Bills(kind, R[i], seen.told)
    BY <1>1, <1>2
  <2> QED
    BY <2>1 DEF Bills
<1> QED
  BY <1>3 DEF ToldIsBilled

LEMMA EveryWayBills ==
  ASSUME StreamTypeOK, FieldsOf(kind) \subseteq DOMAIN s, Telling, NEW b \in BOOLEAN, NEW left \in BOOLEAN
  PROVE  \/ RecordsOf(kind, s, b, left) = <<>>
         \/ \E r : RecordsOf(kind, s, b, left) = <<r>> /\ Bills(kind, r, seen.told)
<1>1. \/ \E r : RecordsOf(kind, s, b, left) = <<r>>
      \/ RecordsOf(kind, s, b, left) = <<>>
  BY Endings DEF StreamTypeOK
<1> QED
  BY <1>1, RecordsBill

LEMMA ToldAtClose ==
  ASSUME StreamInv, ToldInv, NEW c \in Closers, CloseStream(c)
  PROVE  ToldInv'
<1>1. closed' /\ kind' = kind
  BY DEF CloseStream
<1>2. CASE closed
  BY <1>1, <1>2, BilledAsBefore DEF ToldInv, CloseStream
<1>3. CASE ~closed
  <2>1. Telling /\ Reading /\ StreamTypeOK
    BY <1>3 DEF ToldInv, StreamInv
  <2> DEFINE R == RecordsOf(kind, s, broke', FALSE)
             Sent(woken) == [i \in DOMAIN R |-> [record |-> R[i], at |-> clock, end |-> duration(clock),
                               seen |-> seen, ended |-> reader = "ended"]]
  <2>2. PICK woken \in BOOLEAN : broke' = (broke \/ woken) /\ records' = records \o Sent(woken)
    BY <1>3 DEF CloseStream
  <2>3. broke' \in BOOLEAN /\ records = <<>>
    BY <2>1, <2>2 DEF StreamTypeOK, Reading
  <2>4. R = <<>> \/ \E r : R = <<r>> /\ Bills(kind, r, seen.told)
    BY <2>1, <2>3, EveryWayBills DEF Reading
  <2> HIDE DEF R
  <2>5. records' = Sent(woken)
    <3> DEFINE each(i) == [record |-> R[i], at |-> clock, end |-> duration(clock), seen |-> seen,
                           ended |-> reader = "ended"]
    <3>1. PICK n \in Nat : DOMAIN R = 1 .. n
      <4>1. R = <<>> => DOMAIN R = 1 .. 0
        OBVIOUS
      <4>2. \A r : R = <<r>> => DOMAIN R = 1 .. 1
        OBVIOUS
      <4> QED
        BY <2>4, <4>1, <4>2
    <3> HIDE DEF each
    <3>2. [i \in 1 .. n |-> each(i)] \in Seq({each(i) : i \in 1 .. n})
      OBVIOUS
    <3>3. Sent(woken) = [i \in 1 .. n |-> each(i)]
      BY <3>1 DEF each
    <3> HIDE DEF Sent
    <3>4. <<>> \o Sent(woken) = Sent(woken)
      BY <3>2, <3>3
    <3> QED
      BY <2>2, <2>3, <3>4
  <2>6. ToldIsBilled'
    BY <1>1, <2>4, <2>5, SentIsBilled
  <2> QED
    BY <1>1, <2>6 DEF ToldInv
<1> QED
  BY <1>2, <1>3

LEMMA ToldWhenLeft ==
  ASSUME StreamInv, ToldInv, LeaveLoop
  PROVE  ToldInv'
<1>1. closed' /\ kind' = kind /\ ~closed
  BY DEF LeaveLoop
<1>2. Telling /\ Reading /\ StreamTypeOK
  BY <1>1 DEF ToldInv, StreamInv
<1> DEFINE left == reader # "ended"
           R == RecordsOf(kind, s, broke, left)
<1>3. left \in BOOLEAN /\ broke \in BOOLEAN
  BY <1>2 DEF StreamTypeOK
<1>4. records' = [i \in DOMAIN R |-> [record |-> R[i], at |-> clock, end |-> clock, seen |-> seen,
                                      ended |-> reader = "ended"]]
  BY DEF LeaveLoop
<1>5. R = <<>> \/ \E r : R = <<r>> /\ Bills(kind, r, seen.told)
  BY <1>2, <1>3, EveryWayBills DEF Reading
<1> HIDE DEF R, left
<1>6. ToldIsBilled'
  BY <1>1, <1>4, <1>5, SentIsBilled
<1> QED
  BY <1>1, <1>6 DEF ToldInv

(* What a stream told its caller is what its record bills: whatever amounts a  *)
(* provider counts and in whatever chunks it tells them, however the stream    *)
(* ends and whoever closes it.                                                 *)
THEOREM WhatIsToldIsBilled == StreamSpec => []ToldIsBilled
<1>1. StreamInv /\ StreamInv' /\ ToldInv /\ [StreamNext]_streamVars => ToldInv'
  <2> SUFFICES ASSUME StreamInv, ToldInv, [StreamNext]_streamVars PROVE ToldInv'
    OBVIOUS
  <2>1. CASE ReceiveChunk
    BY <2>1, ToldAsBefore DEF ReceiveChunk
  <2>2. CASE TakeIn
    BY <2>2, ToldWhileTakenIn
  <2>3. CASE StreamEnds
    BY <2>3, ToldAtTheEnd
  <2>4. ASSUME NEW c \in Closers, CloseStream(c) PROVE ToldInv'
    BY <2>4, ToldAtClose
  <2>5. CASE LeaveLoop
    BY <2>5, ToldWhenLeft
  <2>6. CASE Tick
    BY <2>6, ToldAsBefore DEF Tick
  <2>7. CASE UNCHANGED streamVars
    BY <2>7, ToldAsBefore DEF streamVars
  <2> QED
    BY <2>1, <2>2, <2>3, <2>4, <2>5, <2>6, <2>7 DEF StreamNext
<1>2. ToldInv => ToldIsBilled
  BY DEF ToldInv
<1> QED
  BY <1>1, <1>2, StreamInvHolds, ToldInvAtFirst, PTL DEF StreamSpec
=============================================================================
