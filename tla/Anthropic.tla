----------------------------- MODULE Anthropic ------------------------------
(* The Anthropic module (anthropic/): the Messages and beta APIs, Bedrock with *)
(* its fallback to the Anthropic API, the passes a turn bills besides its own  *)
(* tokens, and what a streamed turn gathers until it is closed.                *)
EXTENDS MeteredCall, FiniteSets

(* ------------------------------- settings --------------------------------- *)
Settings == [disabled: BOOLEAN, keys: BOOLEAN, awsURL: BOOLEAN]
DetectProvider(cfg) == IF ~cfg.disabled /\ (cfg.keys \/ cfg.awsURL) THEN "AWS" ELSE "Anthropic"
(* A name asked for: the Anthropic API's, one of Bedrock's, or a Bedrock ARN   *)
(* no Anthropic name can be read from.                                         *)
Named == {"plain", "bedrock", "opaque"}
ConvertBedrockARNToAnthropicModel(named) == IF named = "opaque" THEN {} ELSE {"asked"}
recordedBedrockModel(named) == IF named = "plain" THEN "anthropic.asked" ELSE named

(* -------------------------------- passes ---------------------------------- *)
(* iterations.go: advisor and compaction passes are billed apart from the turn *)
(* and get records of their own; an ordinary message pass is in its totals.    *)
advisorPass == "advisor_message"
compactionPass == "compaction"
billedPassesOf(iterations) ==
  {i \in DOMAIN iterations : iterations[i].kind \in {advisorPass, compactionPass}}
passModel(main, pass, advisorModel) ==
  CASE pass.kind # advisorPass  -> main.model
    [] pass.model # ""          -> pass.model
    [] advisorModel # ""        -> advisorModel
    [] OTHER                    -> main.model
iterationTransactionID(id, i) == Append(id, i)
passIdempotencyKey(key, id, i) ==
  IF key = <<>> THEN iterationTransactionID(id, i) ELSE iterationTransactionID(key, i)
iterationRecord(main, pass, i, advisorModel) ==
  With([Record("chat", passModel(main, pass, advisorModel), pass.tokens) EXCEPT !.operation = pass.kind],
       [pass |-> i, parent |-> TRUE, id |-> iterationTransactionID(main.id, i),
        key |-> passIdempotencyKey(main.key, main.id, i)])
sendTurnRecords(main, iterations, advisorModel) ==
  LET billed == billedPassesOf(iterations)
      Nth(n) == CHOOSE i \in billed : Cardinality({j \in billed : j <= i}) = n
  IN <<With(main, [pass |-> 0, parent |-> FALSE])>> \o
     [n \in 1 .. Cardinality(billed) |-> iterationRecord(main, iterations[Nth(n)], Nth(n), advisorModel)]

(* --------------------------------- calls ---------------------------------- *)
(* The counts of input, cache reads and cache writes are apart from each other *)
(* on the wire and on the record.                                              *)
turnTokens(u) == Tokens(u.fresh, u.text + u.thought, u.fresh + u.text + u.thought, u.thought, u.write, u.read)
turnRecord(env, model) == Record("chat", model, turnTokens(env.use))
buildFailedTurnPayload(env, model) == asFailedCall(Record("chat", model, NoTokens), env.seam)
identified(env, r) == With(r, [id |-> <<"call">>, key |-> env.key])
withPasses(env, run, advisorModel) ==
  [run EXCEPT !.records =
     IF @ = <<>> THEN @
     ELSE sendTurnRecords(identified(env, @[1]), IF run.got = "reply" THEN env.iterations ELSE <<>>, advisorModel)]
turnMetered(env, judged, recorded, advisorModel) ==
  withPasses(env, Metered(env, judged, Record("chat", judged.model, NoTokens), turnRecord(env, recorded)), advisorModel)
createMessageAnthropic(env) ==
  LET names == ConvertBedrockARNToAnthropicModel(env.named) IN
  IF names = {} THEN [Refused EXCEPT !.got = "error"]
  ELSE turnMetered(env, Judged("asked", TRUE), env.served, "")

(* A failed Bedrock call is recorded unless it was never sent; one re-sent to  *)
(* the Anthropic API is recorded by that attempt, unless that was not sent.    *)
recordBedrockFailure(env) ==
  IF ~env.setUp \/ env.seam = "unsendable" THEN <<>>
  ELSE sendTurnRecords(identified(env, buildFailedTurnPayload(env, recordedBedrockModel(env.named))), <<>>, "")
(* Mutant: the fallback is taken to have recorded the call in any case.       *)
fallbackAlwaysSent(env, fallback) == FALSE

fallbackNotSent(env, fallback) == fallback.got = "stopped" \/ ConvertBedrockARNToAnthropicModel(env.named) = {}
bedrockFailed(env, judged) ==
  LET fallback == createMessageAnthropic([env EXCEPT !.blocked = env.blocked2, !.seam = env.seam2])
      requests == IF env.setUp THEN env.tries * Left(env) ELSE 0
  IN IF ~env.fallback
     THEN [judged |-> {judged}, requests |-> requests, records |-> recordBedrockFailure(env), got |-> "error"]
     ELSE [judged |-> {judged} \cup fallback.judged, requests |-> requests + fallback.requests, got |-> fallback.got,
           records |-> IF fallbackNotSent(env, fallback) THEN recordBedrockFailure(env) ELSE fallback.records]
createMessageBedrock(env) ==
  LET name == recordedBedrockModel(env.named) judged == Judged(name, FALSE) IN
  CASE env.blocked -> Stopped({judged})
    [] ~env.blocked /\ (~env.setUp \/ env.seam \in Failures) -> bedrockFailed(env, judged)
    [] OTHER -> [turnMetered(env, judged, name, "") EXCEPT !.requests = env.tries]
CreateMessage(env) ==
  IF DetectProvider(env.setting) = "AWS" THEN createMessageBedrock(env) ELSE createMessageAnthropic(env)
betaCreateMessage(env) == turnMetered(env, Judged("asked", TRUE), env.served, env.advisorModel)
Call(entry, env) == IF entry = "beta" THEN betaCreateMessage(env) ELSE CreateMessage(env)

(* -------------------------------- streams --------------------------------- *)
(* What an event may report: the counts so far, and how the cache writes are   *)
(* split between lifetimes, as the sum of the split, if it was.                *)
ReportedUsage(u, split) ==
  [in |-> u.fresh, out |-> u.text + u.thought, read |-> u.read, write |-> u.write, thought |-> u.thought,
   split |-> IF split THEN {u.write} ELSE {}]
NoUsage == ReportedUsage(Nothing, FALSE)
(* SetInputTokens: until a report comes, the input is a guess from the request. *)
StreamOpened(env) ==
  [env |-> env, usage |-> [NoUsage EXCEPT !.in = env.estimate], served |-> env.model, finish |-> "",
   told |-> FALSE, stopSeen |-> FALSE, exhausted |-> FALSE, first |-> 0]
reported(new, old) == IF new > 0 THEN new ELSE old
(* Mutant: an earlier split outlives the total it added up to.                *)
takeCacheWriteTotalOnly(u, total, split) == [u EXCEPT !.write = total]

takeCacheWriteTotal(u, total, split) == [u EXCEPT !.split = IF total # u.write THEN split ELSE @, !.write = total]
firstText(s, event, now) == IF s.first = 0 /\ event.output THEN now ELSE s.first
processTypedEvent(s, event, now) ==
  LET u == event.usage IN
  [[s EXCEPT !.first = firstText(s, event, now)] EXCEPT
     !.usage = CASE event.type = "message_start" -> u
                 [] event.type = "message_delta" ->
                      LET w == IF u.write > 0 THEN takeCacheWriteTotal(@, u.write, u.split) ELSE @
                      IN [w EXCEPT !.in = reported(u.in, @), !.out = u.out, !.read = reported(u.read, @),
                                   !.thought = reported(u.thought, @)]
                 [] OTHER -> @,
     !.told = @ \/ event.type = "message_start",
     !.served = IF event.type = "message_start" /\ event.served # "" THEN event.served ELSE @,
     !.finish = IF event.type = "message_delta" /\ event.finish # "" THEN event.finish ELSE @,
     !.stopSeen = @ \/ event.type = "message_stop"]
(* Bedrock's InvokeModel stream: the same events as plain JSON, in which only  *)
(* a positive count is taken, and Bedrock's own count of the tokens at the end.*)
takeCacheWrites(u, total, split) ==
  LET w == IF split # {} THEN [u EXCEPT !.split = split] ELSE u IN
  IF total = 0 THEN w
  ELSE [w EXCEPT !.split = IF total # u.write /\ split = {} THEN {} ELSE @, !.write = total]
takeStreamEvent(s, event, now) ==
  LET u == event.usage w == takeCacheWrites(s.usage, u.write, IF event.type = "message_stop" THEN {} ELSE u.split) IN
  [s EXCEPT !.usage = [w EXCEPT !.in = reported(u.in, @), !.out = reported(u.out, @), !.read = reported(u.read, @)],
            !.finish = IF event.finish # "" THEN event.finish ELSE @,
            !.stopSeen = @ \/ event.type = "message_stop"]
(* Bedrock's ConverseStream: one report, at the end. *)
converseEvent(s, event, now) ==
  [s EXCEPT !.usage = IF event.type = "metadata" THEN [event.usage EXCEPT !.thought = 0] ELSE @,
            !.finish = IF event.type = "message_stop" THEN event.finish ELSE @,
            !.stopSeen = @ \/ event.type = "message_stop"]
(* GetAccumulatedTokens, GetCacheTokens, reportedCacheWriteSplit: what Close   *)
(* takes over of what a Bedrock stream gathered.                               *)
someCounted(usage) == usage.in + usage.out > 0
takenOver(usage, of) ==
  [usage EXCEPT !.in = IF someCounted(of) THEN of.in ELSE @, !.out = IF someCounted(of) THEN of.out ELSE @,
                !.read = reported(of.read, @), !.write = reported(of.write, @),
                !.split = IF of.split # {} THEN of.split ELSE @]
accumulated(s, of) ==
  [s EXCEPT !.told = @ \/ someCounted(of.usage), !.stopSeen = @ \/ of.stopSeen,
            !.finish = IF @ = "" THEN of.finish ELSE @, !.usage = takenOver(@, of.usage)]
abandonedBeforeStop(s) == ~s.stopSeen /\ ~s.exhausted
streamTokens(s, broke) ==
  LET in == IF broke /\ ~s.told THEN 0 ELSE s.usage.in IN
  Tokens(in, s.usage.out, in + s.usage.out, s.usage.thought, s.usage.write, s.usage.read)
streamRecord(s, broke) ==
  LET r == With(Record("chat", s.served, streamTokens(s, broke)), [split |-> s.usage.split]) IN
  CASE broke -> asFailedCall(r, "network")
    [] ~broke /\ abandonedBeforeStop(s) -> asCancelledCall(r)
    [] OTHER -> r

(* The beta API's stream: the SDK accumulates the message (external), whose    *)
(* split is replaced when the total it was of changes; a stream of which       *)
(* nothing came is recorded only when it failed.                               *)
betaOpened(env) == [StreamOpened(env) EXCEPT !.usage = NoUsage]
betaObserve(s, event, now) ==
  LET u == event.usage IN
  [s EXCEPT !.first = firstText(s, event, now),
            !.told = @ \/ event.type = "message_start", !.stopSeen = @ \/ event.type = "message_stop",
            !.served = IF event.type = "message_start" THEN event.served ELSE @,
            !.finish = IF event.type = "message_delta" THEN event.finish ELSE @,
            !.usage = CASE event.type = "message_start" -> u
                        [] event.type = "message_delta" ->
                             LET w == IF u.write > 0 THEN takeCacheWriteTotal(@, u.write, u.split) ELSE @
                             IN [w EXCEPT !.out = u.out, !.in = reported(u.in, @), !.read = reported(u.read, @),
                                          !.thought = reported(u.thought, @)]
                        [] OTHER -> @]
betaRecords(s, broke) ==
  IF broke \/ s.told THEN <<streamRecord(s, broke)>> ELSE <<>>
=============================================================================
