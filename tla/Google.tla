------------------------------- MODULE Google -------------------------------
(* The Google module (google/): Gemini API and Vertex AI calls, their records, *)
(* and what a streamed call gathers.  Veo videos are VideoTracker's.           *)
EXTENDS MeteredCall, FiniteSets

Settings == [vertexDisabled: BOOLEAN, project: BOOLEAN]
DetectProvider(cfg) == IF ~cfg.vertexDisabled /\ cfg.project THEN "VERTEX_AI" ELSE "GOOGLE"
(* The name the media price catalog files an Imagen or Veo model under: on     *)
(* Vertex AI the model's with a prefix.                                        *)
mediaIdentity(cfg, model) == IF DetectProvider(cfg) = "VERTEX_AI" THEN "catalog" ELSE model

(* -------------------------------- tokens ---------------------------------- *)
(* Google counts thoughts and what its tools fed back apart from the answer    *)
(* and the prompt, and bills both; "write" stands for the tools' part here.    *)
UsageMetadata(u, totalReported) ==
  [prompt |-> u.fresh + u.read, toolUse |-> u.write, cached |-> u.read, candidates |-> u.text, thoughts |-> u.thought,
   total |-> IF totalReported THEN u.fresh + u.read + u.write + u.text + u.thought ELSE 0]
billedInputTokens(m) == m.prompt + m.toolUse
(* Mutant: thoughts are taken to be among the candidates.                     *)
billedCandidates(m) == m.candidates

billedOutputTokens(m) == m.candidates + m.thoughts
payloadTokens(m) ==
  LET in == billedInputTokens(m) out == billedOutputTokens(m) IN
  Tokens(in, out, IF m.total = 0 THEN in + out ELSE m.total, m.thoughts, 0, m.cached)

(* --------------------------------- calls ---------------------------------- *)
(* watchSending: a call that never reached the transport leaves no record.     *)
recordedIfSent(env, judged, failed, succeeded) ==
  LET run == Metered(env, judged, failed, succeeded) IN
  IF run.requests = 0 THEN [run EXCEPT !.records = <<>>] ELSE run
buildPayload(env, m) == Record("chat", env.model, IF m = {} THEN NoTokens ELSE payloadTokens(CHOOSE x \in m : TRUE))
GenerateContent(env) ==
  recordedIfSent(env, Judged(env.model, FALSE), buildPayload(env, {}),
                 buildPayload(env, {UsageMetadata(env.use, env.totalReported)}))
(* The Gemini API counts no tokens for embeddings; Vertex counts per embedding. *)
embeddingInputTokens(env) == IF DetectProvider(env.setting) = "VERTEX_AI" THEN env.use.fresh + env.use.read ELSE 0
CreateEmbedding(env) ==
  recordedIfSent(env, Judged(env.model, FALSE), Record("embed", env.model, NoTokens),
                 Record("embed", env.model, [NoTokens EXCEPT !.in = embeddingInputTokens(env),
                                                             !.total = embeddingInputTokens(env)]))
(* recordImages and recordImageFailure: how many images came, and were asked   *)
(* for; only an upscale always asks for one.                                   *)
requestedImages(asked, actual) == IF asked > 0 THEN asked ELSE actual
imageRecord(env, requested) ==
  [Record("image", mediaIdentity(env.setting, env.model), NoTokens) EXCEPT
     !.tokens = [NoTokens EXCEPT !.out = env.images, !.total = requested]]
imageCall(env, requested) ==
  recordedIfSent(env, Judged(env.model, FALSE),
                 Record("image", mediaIdentity(env.setting, env.model), NoTokens), imageRecord(env, requested))
GenerateImage(env) == imageCall(env, requestedImages(env.asked, env.images))
EditImage(env) == imageCall(env, requestedImages(env.asked, env.images))
UpscaleImage(env) == imageCall(env, 1)

Entries == {"generate", "embed", "image", "edit", "upscale"}
Call(entry, env) ==
  CASE entry = "generate" -> GenerateContent(env) [] entry = "embed" -> CreateEmbedding(env)
    [] entry = "image" -> GenerateImage(env) [] entry = "edit" -> EditImage(env)
    [] entry = "upscale" -> UpscaleImage(env)

(* -------------------------------- streams --------------------------------- *)
(* streamOutcome: usage and finish reason of the last chunk that carried them, *)
(* and whether any chunk finished the first candidate.                         *)
streamOpened(env) == [env |-> env, usage |-> {}, finish |-> "", finished |-> FALSE, stoppedByCaller |-> FALSE, first |-> 0]
observe(s, chunk, now) ==
  [s EXCEPT !.first = IF @ = 0 THEN now ELSE @,
            !.usage = IF chunk.usage # {} THEN chunk.usage ELSE @,
            !.finish = IF chunk.finish # "" THEN chunk.finish ELSE @,
            !.finished = @ \/ chunk.finish # ""]
abandonedBeforeFinish(s) == s.stoppedByCaller /\ ~s.finished
streamRecord(s, broke) ==
  LET r == buildPayload(s.env, s.usage) IN
  IF broke THEN asFailedCall(r, "network")
  ELSE IF abandonedBeforeFinish(s) THEN asCancelledCall(r) ELSE r
=============================================================================
