--------------------------- MODULE ChatProviders ----------------------------
(* The modules of providers that speak OpenAI's chat protocol: Groq, Grok,     *)
(* Ollama and Perplexity.  One call each, plus Perplexity's stream.            *)
EXTENDS MeteredCall

(* callGroqAPI, callGrokAPI, callOllamaAPI: a request that cannot be built, a  *)
(* transport error, a status outside 2xx and a body that is no answer are all  *)
(* errors; only a status is the provider's own answer.                         *)
callAPI(env) == [err |-> env.seam \in Failures, requests |-> Left(env), answered |-> env.seam = "status"]
recordFailure(operation, env) ==
  [Record(operation, env.model, NoTokens) EXCEPT !.what = "failed", !.status = callAPI(env).answered]
(* A request for a stream is refused before anything else. *)
ChatCompletions(env, operation, dated, succeeded) ==
  IF env.stream THEN Refused
  ELSE IF env.blocked THEN Stopped({Judged(env.model, dated)})
  ELSE [judged |-> {Judged(env.model, dated)}, requests |-> callAPI(env).requests,
        records |-> <<IF callAPI(env).err THEN recordFailure(operation, env) ELSE succeeded>>,
        got |-> IF callAPI(env).err THEN "error" ELSE "reply"]

(* Cached and reasoning counts come in detail blocks that may be missing.      *)
Usage(env) ==
  LET u == env.use IN
  [prompt |-> u.fresh + u.read + u.write,
   completion |-> IF env.thoughtApart THEN u.text ELSE u.text + u.thought,
   total |-> u.fresh + u.read + u.write + u.text + u.thought,
   read |-> IF env.details THEN u.read ELSE 0, thought |-> IF env.details THEN u.thought ELSE 0]
groqRecord(env) ==
  LET u == Usage(env) IN
  Record("chat", env.served, Tokens(u.prompt, u.completion, u.total, u.thought, 0, u.read))
groq(env) == ChatCompletions(env, "chat", FALSE, groqRecord(env))

(* xAI counts reasoning outside the completion for its reasoning models, which *)
(* only the total shows (grok/usage.go).                                       *)
reasoningCountedInCompletion(u) == u.total = u.prompt + u.completion
billedOutputTokens(u) == IF reasoningCountedInCompletion(u) THEN u.completion ELSE u.completion + u.thought
meteredModel(served, requested) == IF served # "" THEN served ELSE requested
operationOf(env) == IF env.vision THEN "vision" ELSE "chat"
grok(env) ==
  LET u == Usage(env) IN
  ChatCompletions(env, operationOf(env), TRUE,
    Record(operationOf(env), meteredModel(env.served, env.model),
           Tokens(u.prompt, billedOutputTokens(u), u.total, u.thought, 0, u.read)))

ollama(env) ==
  LET u == Usage(env) IN
  ChatCompletions(env, "chat", FALSE,
    Record("chat", env.served, Tokens(u.prompt, u.completion, u.total, 0, 0, 0)))

perplexityRecord(env) ==
  LET u == Usage(env) IN Record("chat", env.served, Tokens(u.prompt, u.completion, u.total, 0, 0, 0))
perplexity(env) ==
  Metered(env, Judged(env.model, FALSE), Record("chat", env.model, NoTokens), perplexityRecord(env))

(* Perplexity's stream: the usage and the finish reason last reported.  The    *)
(* record carries the requested name, for no chunk's model is kept.            *)
perplexityOpened(env) == [env |-> env, usage |-> NoTokens, finish |-> "", first |-> 0]
recordPerplexityChunk(s, chunk, now) ==
  [s EXCEPT !.first = IF @ = 0 /\ DOMAIN chunk.choices # {} THEN now ELSE @,
            !.usage = IF chunk.usage.in + chunk.usage.out > 0 THEN chunk.usage ELSE @,
            !.finish = IF 0 \in DOMAIN chunk.choices /\ chunk.choices[0] # "" THEN chunk.choices[0] ELSE @]
perplexityStreamRecord(s, broke) ==
  LET r == Record("chat", s.env.model, s.usage) IN IF broke THEN asFailedCall(r, "network") ELSE r
=============================================================================
