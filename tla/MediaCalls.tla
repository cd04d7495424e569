----------------------------- MODULE MediaCalls -----------------------------
(* What fal (fal/) and Runway (runway/) calls are judged and recorded as: the  *)
(* kind of media, the length or the tokens billed, and what of a request is    *)
(* kept until its queued job ends.  Lengths are fractions <<frames, rate>>.    *)
EXTENDS MeteredCall, FiniteSets

NoLength == <<0, 1>>
NotANumber == <<0, 0>>
isBillableSeconds(s) == s \notin {NoLength, NotANumber}

(* ------------------------------ fal's media ------------------------------- *)
Media == {"image", "video", "audio", "chat"}
(* The media named by the endpoint's id, where several may match; and what the *)
(* fields of a result tell.                                                    *)
DetectFromEndpointID(named) ==
  CASE "audio" \in named -> "audio" [] "chat" \in named -> "chat"
    [] "video" \in named -> "video" [] OTHER -> "image"
CorrectFromResponse(initial, fields) ==
  CASE "video" \in fields -> "video" [] "audio" \in fields -> "audio"
    [] "image" \in fields -> "image" [] "chat" \in fields -> "chat" [] OTHER -> initial
DetectMediaType(named, fields) == CorrectFromResponse(DetectFromEndpointID(named), fields)
(* What a failed call is filed under: what the endpoint last gave, if it did.  *)
operationOf(remembered, named) == IF remembered = "" THEN DetectFromEndpointID(named) ELSE remembered

(* ----------------------------- fal's lengths ------------------------------ *)
(* An input may give a length, a number of frames and their rate; a family of  *)
(* endpoints has a default length, or default frames and their rate.           *)
Asked == [duration: {0, 2}, frames: {0, 3}, rate: {0, 1}, prompt: BOOLEAN, mask: BOOLEAN]
Families == {[known |-> FALSE, seconds |-> 0, frames |-> 0, rate |-> 0],
             [known |-> TRUE, seconds |-> 4, frames |-> 0, rate |-> 0],
             [known |-> TRUE, seconds |-> 0, frames |-> 6, rate |-> 2]}
defaultSeconds(family) == IF family.seconds > 0 THEN <<family.seconds, 1>> ELSE <<family.frames, family.rate>>
requestedFrameSeconds(input, family) ==
  LET frames == IF input.frames > 0 THEN input.frames ELSE family.frames
      rate   == IF input.rate > 0 THEN input.rate ELSE family.rate
  IN IF input.frames + input.rate = 0 \/ frames = 0 \/ rate = 0 THEN NoLength ELSE <<frames, rate>>
requestedVideoSeconds(family, input) ==
  CASE input.duration > 0 -> <<input.duration, 1>>
    [] input.duration = 0 /\ requestedFrameSeconds(input, family) # NoLength -> requestedFrameSeconds(input, family)
    [] OTHER -> IF family.known THEN defaultSeconds(family) ELSE NoLength
(* What is kept of an input, above all of a queued one's. *)
meteredInputFields(input) == [input EXCEPT !.mask = FALSE]

(* ------------------------------ fal's tokens ------------------------------ *)
(* Cached tokens are in the prompt count, which Revenium leaves as it is.      *)
ChatUsage(env) ==
  LET u == env.use IN
  [input |-> u.fresh + u.read, output |-> u.text + u.thought, cacheRead |-> u.read, reasoning |-> u.thought,
   total |-> u.fresh + u.read + u.text + u.thought]
uncachedInput(u) == IF u.cacheRead > u.input THEN u.input ELSE u.input - u.cacheRead
chatTokens(u) ==
  IF u.total + u.input + u.output = 0 THEN NoTokens
  ELSE Tokens(uncachedInput(u), u.output, u.total, u.reasoning, 0, u.cacheRead)

(* ------------------------------- fal's calls ------------------------------ *)
FalRecord(operation, model, tokens) ==
  With(Record(operation, model, tokens), [length |-> NoLength, unknown |-> FALSE])
buildVideoMeteringPayload(env) ==
  LET asked  == requestedVideoSeconds(env.family, meteredInputFields(env.input))
      actual == IF env.length # NoLength THEN env.length ELSE asked
  IN [FalRecord("video", env.model, NoTokens) EXCEPT !.length = actual, !.unknown = actual = NoLength]
buildPayloadFromResult(env) ==
  LET op == DetectMediaType(env.named, env.fields) IN
  CASE op = "video" -> buildVideoMeteringPayload(env)
    [] op = "chat"  -> FalRecord("chat", env.model, chatTokens(ChatUsage(env)))
    [] OTHER        -> FalRecord(op, env.model, NoTokens)
(* Run.  Disable stops the records and nothing else; an input that cannot be   *)
(* encoded is an error no record tells of.                                     *)
Run(env) ==
  LET run == Metered(env, Judged(env.model, FALSE),
                     FalRecord(operationOf(env.remembered, env.named), env.model, NoTokens),
                     buildPayloadFromResult(env))
  IN IF ~env.enabled \/ run.requests = 0 THEN [run EXCEPT !.records = <<>>] ELSE run

(* Stream: only its last readable chunk is recorded, one that cannot be read   *)
(* is passed over, and a stream that broke off, or whose caller left, failed.  *)
Stream(env) ==
  CASE env.seam = "unusable" -> Run([env EXCEPT !.seam = "", !.fields = {}, !.use = Nothing, !.length = NoLength])
    [] env.seam \in {"broke off", "left"} -> Run([env EXCEPT !.seam = "network"])
    [] OTHER -> Run(env)

(* ----------------------------- Runway's calls ----------------------------- *)
billedVideoSeconds(family, requested, source) ==
  CASE isBillableSeconds(requested) -> requested
    [] ~isBillableSeconds(requested) /\ isBillableSeconds(source) -> source
    [] OTHER -> IF family.known THEN defaultSeconds(family) ELSE NoLength
taskRecordStart(model, length) == With(FalRecord("video", model, NoTokens), [asked |-> length])
buildRejectedTaskPayload(model, length) == asFailedCall(taskRecordStart(model, length), "status")
(* Runway bills a failed or cancelled task nothing. *)
buildEndedTaskPayload(model, length, seam) ==
  IF seam = "canceled" THEN asCancelledCall(taskRecordStart(model, length))
  ELSE asFailedCall(taskRecordStart(model, length), "reply said failed")
buildFinishedTaskPayload(model, length) ==
  [taskRecordStart(model, length) EXCEPT !.length = length, !.unknown = ~isBillableSeconds(length)]
(* sendUnfinishedTaskRecord: one that may still end bills what was asked for.  *)
unfinishedRecord(model, length) == [buildFinishedTaskPayload(model, length) EXCEPT !.what = "unfinished"]
taskLength(env) ==
  IF env.entry = "upscale" THEN env.source
  ELSE billedVideoSeconds(env.family, env.requested, IF env.entry = "edit" THEN env.source ELSE NoLength)
runwayRecord(env) ==
  CASE env.seam = "status" -> buildRejectedTaskPayload(env.model, taskLength(env))
    [] env.seam \in {"reply said failed", "canceled"} -> buildEndedTaskPayload(env.model, taskLength(env), env.seam)
    [] env.seam = "unfinished" -> unfinishedRecord(env.model, taskLength(env))
    [] env.seam = "" -> buildFinishedTaskPayload(env.model, taskLength(env))
(* recordCreateFailure: only a 4xx ("status") says that there is no task.  One *)
(* that may have been created and be billed is recorded as nothing: there was  *)
(* no answer, none that could be read, or a 5xx ("server error").              *)
confirmed(env) == env.seam \notin {"unsendable", "network", "unusable", "server error"}
runVideoTask(env) ==
  IF env.blocked THEN Stopped({Judged(env.model, FALSE)})
  ELSE [judged |-> {Judged(env.model, FALSE)}, requests |-> Left(env),
        records |-> IF confirmed(env) THEN <<runwayRecord(env)>> ELSE <<>>,
        got |-> IF env.seam = "" THEN "reply" ELSE "error"]
(* UpscaleVideo refuses a request that does not say how long its source is.    *)
RunwayCall(env) ==
  IF env.entry = "upscale" /\ ~isBillableSeconds(env.source) THEN Refused ELSE runVideoTask(env)
=============================================================================
