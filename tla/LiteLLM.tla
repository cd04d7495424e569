------------------------------- MODULE LiteLLM ------------------------------
(* The LiteLLM module's own decisions (litellm/): which provider a route names, *)
(* what a call is recorded under, what its record bills, whose metadata it     *)
(* carries, and what a stream gathers.                                         *)
EXTENDS MeteredCall, FiniteSets

(* -------------------------------- routes ---------------------------------- *)
(* A route is a provider prefix, perhaps none, and a model name of some family. *)
Prefixes == {"", "openai", "anthropic", "bedrock", "groq", "custom"}
Families == {"gpt", "claude", "o3", "alias", "gpt dated", "claude dated"}
ClaudeNames == {"claude", "claude dated"}
Routes == [prefix: Prefixes, family: Families]
NoRoute == [prefix |-> "", family |-> ""]
matchByPrefix(route) ==
  CASE route.prefix = "openai" -> "OpenAI" [] route.prefix = "anthropic" -> "Anthropic"
    [] route.prefix = "bedrock" -> "AWS Bedrock" [] route.prefix = "groq" -> "Groq" [] OTHER -> ""
matchByPattern(route) ==
  CASE route.family \in {"gpt", "gpt dated"} -> "OpenAI" [] route.family \in ClaudeNames -> "Anthropic" [] OTHER -> ""
ExtractProvider(route) ==
  IF matchByPrefix(route) # "" THEN matchByPrefix(route)
  ELSE IF matchByPattern(route) # "" THEN matchByPattern(route) ELSE "LiteLLM"
ExtractModelName(route) == route.family
servesDatedSnapshots(route) == ExtractProvider(route) \in {"OpenAI", "Azure", "Anthropic", "XAI", "LiteLLM"}

(* What a chat call is recorded under: an answer that only echoes the request  *)
(* gives way to the deployment that served it.                                 *)
recordedModel(answer, requested, deployment, group) ==
  LET echoes == answer \in {requested, group} IN
  CASE answer # NoRoute /\ ~echoes -> answer
    [] deployment # NoRoute        -> deployment
    [] answer # NoRoute            -> answer
    [] OTHER                       -> requested

(* -------------------------------- tokens ---------------------------------- *)
(* The proxy counts cache reads and writes in the prompt.  Revenium takes them *)
(* out itself only for OpenAI's models and adds the pools for Claude's.        *)
cacheOverlapLeftToClient(route) == route.family \in ClaudeNames
billableInputTokens(route, prompt, read, write) ==
  IF prompt = 0 \/ ~cacheOverlapLeftToClient(route) \/ prompt < read + write THEN prompt
  ELSE prompt - read - write
Reported(u) == [prompt |-> u.fresh + u.read + u.write, completion |-> u.text + u.thought,
                total |-> u.fresh + u.read + u.write + u.text + u.thought,
                thought |-> u.thought, read |-> u.read, write |-> u.write]
NoReport == Reported(Nothing)
tokensOf(route, r) ==
  Tokens(billableInputTokens(route, r.prompt, r.read, r.write), r.completion, r.total, r.thought, r.write, r.read)
(* CacheCreationTokenCount: three places a proxy may put the writes. *)
CacheCreationTokenCount(inDetails, flat, cacheWrite, details) ==
  IF ~details THEN flat ELSE IF inDetails > 0 THEN inDetails ELSE IF flat > 0 THEN flat ELSE cacheWrite
(* What a usage block tells of a use whose cache writes it puts in `places`.   *)
Counted(u, places) ==
  LET in(place) == IF place \in places THEN u.write ELSE 0
      details   == places \ {"flat"} # {} \/ u.read > 0
  IN [Reported(u) EXCEPT !.write = CacheCreationTokenCount(in("details"), in("flat"), in("details write"), details)]

(* ------------------------------- metadata --------------------------------- *)
(* The caller's fields over the answer's headers; a blank one says nothing,    *)
(* except of the switch that decides whether prompts are captured, which is    *)
(* the caller's alone.                                                         *)
MergeMetadata(caller, headers) ==
  LET said == {f \in DOMAIN caller : caller[f] # "blank"} IN
  [f \in said \cup DOMAIN headers |-> IF f \in said THEN caller[f] ELSE headers[f]]
ExtractMetadataFromHeaders(headers) ==
  [f \in {g \in DOMAIN headers \ {"capturePrompts"} : headers[g] # "blank"} |-> headers[f]]
meteredMetadata(caller, headers) ==
  With([f \in DOMAIN caller \cap {"capturePrompts"} |-> caller[f]],
       MergeMetadata(caller, ExtractMetadataFromHeaders(headers)))

(* -------------------------------- streams --------------------------------- *)
proxyStreamOpened(env) == [env |-> env, usage |-> NoReport, served |-> NoRoute, finish |-> "",
                           first |-> 0, done |-> FALSE, err |-> ""]
(* processChunkData: the prompt and answer counts replace those before them,   *)
(* reasoning and cache counts only when the chunk carries some.                *)
processChunkData(s, chunk, now) ==
  LET u == chunk.usage
      some == u.prompt + u.completion > 0
      kept(new, old) == IF new > 0 THEN new ELSE old
  IN [s EXCEPT !.served = IF @ = NoRoute THEN chunk.served ELSE @,
               !.first = IF @ = 0 /\ chunk.output THEN now ELSE @,
               !.usage = [prompt |-> IF some THEN u.prompt ELSE @.prompt,
                          completion |-> IF some THEN u.completion ELSE @.completion,
                          total |-> IF some THEN u.total ELSE @.total,
                          thought |-> IF some THEN kept(u.thought, @.thought) ELSE @.thought,
                          read |-> kept(u.read, @.read), write |-> kept(u.write, @.write)],
               !.finish = IF 0 \in DOMAIN chunk.choices /\ chunk.choices[0] # "" THEN chunk.choices[0] ELSE @]
proxyStreamRecord(s) ==
  LET model == recordedModel(s.served, s.env.route, s.env.deployment, s.env.group)
      r == Record("chat", ExtractModelName(model), tokensOf(model, s.usage))
  IN IF s.err # "" THEN asFailedCall(r, s.err) ELSE r

(* --------------------------------- calls ---------------------------------- *)
(* A call names a route, perhaps an alias the proxy's list routes to others,   *)
(* one of which serves it; the answer's headers may name that one, its id or   *)
(* the alias, and its body none, the alias, the model or a snapshot of it.     *)
deployment(env) ==
  CASE env.byId -> env.by
    [] ~env.byId /\ env.grouped /\ Cardinality(env.routed) = 1 -> CHOOSE r \in env.routed : TRUE
    [] OTHER -> NoRoute
servedDeployment(env) == IF env.named THEN env.by ELSE deployment(env)
AnswerModel(env) ==
  CASE env.answer = "none"     -> NoRoute
    [] env.answer = "echo"     -> env.route
    [] env.answer = "model"    -> [env.by EXCEPT !.prefix = ""]
    [] env.answer = "snapshot" -> [prefix |-> "", family |-> IF env.by.family = "gpt" THEN "gpt dated" ELSE "claude dated"]
group(env) == IF env.grouped THEN env.route ELSE NoRoute

costControlModels(env) == {env.route} \cup env.routed
judgedAs(route, recordsServedName) ==
  Judged(ExtractModelName(route), recordsServedName /\ servesDatedSnapshots(route))
checkCostControls(env) == {judgedAs(r, TRUE) : r \in costControlModels(env)}
checkEmbeddingCostControls(env) == {judgedAs(env.route, FALSE)}
(* send, postJSON: only an answer has headers.  Disable stops the records.     *)
answered(env) == env.seam \notin {"unsendable", "network"}
send(env, judged, failed, succeeded) ==
  LET run  == Metered(env, Judged("", FALSE), failed, succeeded)
      meta == meteredMetadata(env.caller, IF answered(env) THEN env.headers ELSE <<>>)
  IN With([run EXCEPT !.judged  = judged,
                      !.records = IF env.enabled THEN [i \in DOMAIN @ |-> With(@[i], [meta |-> meta])] ELSE <<>>],
          [person |-> MergeMetadata(env.caller, env.remembered)])
failedCallRecord(operation, env) == Record(operation, ExtractModelName(env.route), NoTokens)
completionRecord(env) ==
  LET model == recordedModel(AnswerModel(env), env.route, servedDeployment(env), group(env)) IN
  Record("chat", ExtractModelName(model), tokensOf(model, Counted(env.use, env.places)))
completionsNew(env) == send(env, checkCostControls(env), failedCallRecord("chat", env), completionRecord(env))
(* A stream read to its end: one chunk stands for all.                         *)
newStreaming(env) ==
  LET s == processChunkData(proxyStreamOpened(With(env, [deployment |-> servedDeployment(env), group |-> group(env)])),
                            [choices |-> [i \in {0} |-> "stop"], output |-> TRUE, served |-> AnswerModel(env),
                             usage |-> Counted(env.use, env.places)], 1)
  IN send(env, checkCostControls(env), failedCallRecord("chat", env), proxyStreamRecord(s))
embeddingsNew(env) ==
  LET u == Reported(env.use) IN
  send(env, checkEmbeddingCostControls(env), failedCallRecord("embed", env),
       Record("embed", ExtractModelName(env.route), [NoTokens EXCEPT !.in = u.prompt, !.total = u.total]))
Entries == {"chat", "stream", "embeddings"}
Call(entry, env) ==
  CASE entry = "chat" -> completionsNew(env) [] entry = "stream" -> newStreaming(env)
    [] entry = "embeddings" -> embeddingsNew(env)
=============================================================================
