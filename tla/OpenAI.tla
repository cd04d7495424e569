------------------------------- MODULE OpenAI -------------------------------
(* The OpenAI module (openai/): OpenAI, Azure and xAI through one client.  What *)
(* each call is judged and recorded under, what its record bills, and what a   *)
(* streamed call gathers until it is closed.                                   *)
EXTENDS MeteredCall, FiniteSets

(* ------------------------------- settings --------------------------------- *)
(* Which base URL, if any, is configured or in OPENAI_BASE_URL, and Azure's.   *)
Hosts == {"openai", "azure", "xai", "proxy"}
Settings == [disabled: BOOLEAN, key: BOOLEAN, endpoint: BOOLEAN, baseURL: Hosts \cup {""},
             envURL: {"", "xai"}, mapped: BOOLEAN]
effectiveBaseURL(cfg) == IF cfg.baseURL # "" THEN cfg.baseURL ELSE cfg.envURL
azureConfigured(cfg) == (cfg.key /\ cfg.endpoint) \/ cfg.baseURL = "azure"
DetectProvider(cfg) ==
  IF ~cfg.disabled /\ azureConfigured(cfg) THEN "AZURE"
  ELSE IF effectiveBaseURL(cfg) = "xai" THEN "XAI" ELSE "OPENAI"
validateAzure(cfg) == DetectProvider(cfg) # "AZURE" \/ cfg.key
callsOpenAIDirectly(cfg) == effectiveBaseURL(cfg) \in {"", "openai"}

(* -------------------------------- models ---------------------------------- *)
recordsServedChatModel(p) == p # "AZURE"
servedOrRequested(served, requested) == IF served = "" THEN requested ELSE served
(* Mutant: every provider's chat records carry the name served.               *)
chatRecordModelServed(p, requested, served) == servedOrRequested(served, requested)

chatRecordModel(p, requested, served) ==
  IF recordsServedChatModel(p) THEN servedOrRequested(served, requested) ELSE requested
mediaModel(cfg, model) ==
  IF DetectProvider(cfg) = "AZURE" /\ cfg.mapped /\ model # "" THEN "catalog" ELSE model
recordedImageModel(cfg, model, default) ==
  IF model # "" \/ DetectProvider(cfg) # "OPENAI" \/ ~callsOpenAIDirectly(cfg) THEN model ELSE default

(* -------------------------------- tokens ---------------------------------- *)
(* A usage block counts cached tokens in the prompt; xAI's reasoning models    *)
(* leave reasoning out of the completion, and only the total shows it.         *)
ReportedUsage(u, thoughtApart) ==
  LET prompt == u.fresh + u.read + u.write
      output == IF thoughtApart THEN u.text ELSE u.text + u.thought
  IN [prompt |-> prompt, output |-> output, total |-> prompt + u.text + u.thought,
      thought |-> u.thought, read |-> u.read, write |-> u.write]
NoUsage == ReportedUsage(Nothing, FALSE)
ThoughtApart(p) == IF p = "XAI" THEN BOOLEAN ELSE {FALSE}
inputTokensExcludingCacheWrites(u) == IF u.prompt > u.write THEN u.prompt - u.write ELSE 0
reasoningCountedInOutput(u) == u.total = u.prompt + u.output
billedOutputTokens(p, u) ==
  IF p # "XAI" \/ reasoningCountedInOutput(u) THEN u.output ELSE u.output + u.thought
usageTokens(p, u) ==
  Tokens(inputTokensExcludingCacheWrites(u), billedOutputTokens(p, u), u.total, u.thought, u.write, u.read)
(* Revenium takes cache reads out of the input of these records itself. *)
BilledByPlatform(t) == [fresh |-> t.in - t.read, read |-> t.read, write |-> t.write, output |-> t.out]

(* --------------------------------- calls ---------------------------------- *)
usage(env) == ReportedUsage(env.use, env.thoughtApart)
chatRecord(env, p, model) == Record("chat", model, usageTokens(p, usage(env)))
failureRecord(operation, model) == Record(operation, model, NoTokens)
chatCompletionsNew(env) ==
  LET p == DetectProvider(env.setting) IN
  Metered(env, Judged(env.model, recordsServedChatModel(p)), failureRecord("chat", env.model),
          chatRecord(env, p, chatRecordModel(p, env.model, env.served)))
textCompletionsNew(env) == chatCompletionsNew(env)
(* A response whose status is failed is a failed call that keeps its tokens. *)
buildResponsePayload(env) ==
  LET r == chatRecord(env, DetectProvider(env.setting), servedOrRequested(env.served, env.model))
  IN IF env.seam = "reply said failed" THEN asFailedCall(r, env.seam) ELSE r
responsesCreate(env) ==
  Metered(env, Judged(env.model, TRUE), failureRecord("chat", env.model), buildResponsePayload(env))
embeddingsCreate(env) ==
  Metered(env, Judged(env.model, TRUE), failureRecord("embed", env.model),
          Record("embed", env.served, [NoTokens EXCEPT !.in = usage(env).prompt, !.total = usage(env).prompt]))
(* Audio: billed by token, or by second when the answer counts none; speech by *)
(* character.                                                                  *)
audioTokens(env) == [NoTokens EXCEPT !.in = usage(env).prompt, !.out = usage(env).output,
                                     !.total = usage(env).prompt + usage(env).output]
audioCreate(env, tokens) ==
  LET model == mediaModel(env.setting, env.model) IN
  Metered(env, Judged(env.model, FALSE), failureRecord("audio", model), Record("audio", model, tokens))
transcriptionsCreate(env) == audioCreate(env, audioTokens(env))
translationsCreate(env) == audioCreate(env, audioTokens(env))
speechCreate(env) == audioCreate(env, NoTokens)
imageCall(env, default) ==
  LET model    == recordedImageModel(env.setting, env.model, default)
      recorded == mediaModel(env.setting, model)
  IN Metered(env, Judged(model, FALSE), failureRecord("image", recorded),
             Record("image", recorded, [NoTokens EXCEPT !.in = usage(env).prompt, !.out = usage(env).output,
                                                        !.total = usage(env).total]))
imagesGenerate(env) == imageCall(env, "default")
imagesEdit(env) == imageCall(env, "default")
imagesCreateVariation(env) == imageCall(env, "default")

Entries == {"chat", "text", "responses", "embeddings", "transcriptions", "translations", "speech",
            "images generate", "images edit", "images variation"}
Served == {"chat", "text", "responses", "embeddings"}    \* whose records carry the name served
Call(entry, env) ==
  CASE entry = "chat"             -> chatCompletionsNew(env)
    [] entry = "text"             -> textCompletionsNew(env)
    [] entry = "responses"        -> responsesCreate(env)
    [] entry = "embeddings"       -> embeddingsCreate(env)
    [] entry = "transcriptions"   -> transcriptionsCreate(env)
    [] entry = "translations"     -> translationsCreate(env)
    [] entry = "speech"           -> speechCreate(env)
    [] entry = "images generate"  -> imagesGenerate(env)
    [] entry = "images edit"      -> imagesEdit(env)
    [] entry = "images variation" -> imagesCreateVariation(env)

(* -------------------------------- streams --------------------------------- *)
(* streamClock: what of the call's time is known at each moment (0: nothing).  *)
StreamOpened(env) == [env |-> env, usage |-> NoUsage, finish |-> "", served |-> "",
                      final |-> "", first |-> 0, end |-> 0, finished |-> <<>>]
allChoicesFinished(f) == DOMAIN f # {} /\ \A i \in DOMAIN f : f[i]
observeClock(s, output, progress, now) ==
  LET was(i) == i \in DOMAIN s.finished /\ s.finished[i]
      is(i)  == i \in DOMAIN progress /\ progress[i]
      f      == [i \in DOMAIN s.finished \cup DOMAIN progress |-> was(i) \/ is(i)]
  IN [s EXCEPT !.first = IF output /\ @ = 0 THEN now ELSE @, !.finished = f,
               !.end = IF ~allChoicesFinished(f) THEN 0
                       ELSE IF \E i \in DOMAIN progress : progress[i] THEN now ELSE @]
markExhausted(s, now) == [s EXCEPT !.end = IF @ = 0 THEN now ELSE @]
duration(s, now) == IF s.end = 0 THEN now ELSE s.end
(* recordChunk, of chat and of text completions: usage is replaced by the last *)
(* that counts a prompt or an answer - a text completion's by any, which is    *)
(* the same, for counts only grow - and the record describes choice 0.         *)
recordChunk(s, chunk, now) ==
  LET progress == [i \in DOMAIN chunk.choices |-> chunk.choices[i] # ""]
      t == observeClock(s, chunk.output, progress, now)
  IN [t EXCEPT !.usage = IF chunk.usage.prompt + chunk.usage.output > 0 THEN chunk.usage ELSE @,
               !.finish = IF 0 \in DOMAIN chunk.choices /\ chunk.choices[0] # "" THEN chunk.choices[0] ELSE @,
               !.served = IF @ = "" THEN chunk.served ELSE @]
captureEvent(s, event, now) ==
  LET final == event.final # "" IN
  [observeClock(s, event.output, IF final THEN [i \in {0} |-> TRUE] ELSE <<>>, now) EXCEPT
     !.final = IF final THEN event.final ELSE @, !.usage = IF final THEN event.usage ELSE @,
     !.served = IF final THEN event.served ELSE @]
(* Close, once.  A chat or text stream that broke off keeps the usage it was   *)
(* told of; the Responses stream's failure record starts afresh.               *)
chatStreamRecord(s, broke) ==
  LET p == DetectProvider(s.env.setting)
      r == Record("chat", chatRecordModel(p, s.env.model, s.served), usageTokens(p, s.usage))
  IN IF broke THEN asFailedCall(r, "network") ELSE r
responsesStreamRecord(s, broke) ==
  LET p == DetectProvider(s.env.setting)
      r == Record("chat", servedOrRequested(s.served, s.env.model), IF s.final = "" THEN NoTokens ELSE usageTokens(p, s.usage))
  IN CASE broke -> asFailedCall(failureRecord("chat", s.env.model), "network")
       [] ~broke /\ s.final = "failed" -> asFailedCall(r, "reply said failed")
       [] OTHER -> r
=============================================================================
