--------------------------- MODULE MCProviderCalls ---------------------------
(* The calls TLC goes through: each entry of each provider, in slices of what  *)
(* a call may meet, so that every two things that meet in the code meet here.  *)
EXTENDS ProviderCalls, TLC

Consumption(most) == [fresh: 0 .. most, read: 0 .. most, write: 0 .. most, text: 0 .. most, thought: 0 .. most]
Uses == Consumption(1)
OneUse == [fresh |-> 1, read |-> 1, write |-> 1, text |-> 1, thought |-> 1]

(* ------------------------------ environments ------------------------------ *)
OpenAIEnv(settings, models, serveds, blocks, seams, uses, aparts) ==
  [setting: settings, model: models, served: serveds, blocked: blocks, seam: seams, use: uses, thoughtApart: aparts]
ValidSettings == {cfg \in OA!Settings : OA!validateAzure(cfg)}
OpenAISetting(host) ==
  [disabled |-> FALSE, key |-> host = "azure", endpoint |-> host = "azure",
   baseURL |-> IF host = "xai" THEN "xai" ELSE "", envURL |-> "", mapped |-> FALSE]
OpenAIEnds(entry) == IF entry = "responses" THEN {"", "reply said failed"} ELSE {""}
OpenAICall(entry, env) == [provider |-> "openai", entry |-> entry, env |-> env]
OpenAICalls ==
  UNION {
    {OpenAICall(entry, env) : env \in
       OpenAIEnv(ValidSettings, {"", "asked"}, {"", "served"}, {FALSE}, {"", "network"}, {OneUse}, {FALSE})
       \cup OpenAIEnv({OpenAISetting("azure")}, {"asked"}, {"served"}, BOOLEAN, MaySeams, {OneUse}, {FALSE})
       \cup OpenAIEnv({OpenAISetting(h) : h \in {"openai", "azure"}}, {"asked"}, {"served"}, {FALSE}, OpenAIEnds(entry), Uses, {FALSE})
       \cup OpenAIEnv({OpenAISetting("xai")}, {"asked"}, {"served"}, {FALSE}, OpenAIEnds(entry), Uses, OA!ThoughtApart("XAI"))}
    : entry \in OA!Entries}

ChatEnv(uses, seams, aparts) ==
  [model: {"asked"}, served: {"", "served"}, blocked: BOOLEAN, seam: seams, use: uses, thoughtApart: aparts,
   stream: BOOLEAN, details: BOOLEAN, vision: BOOLEAN]
Cacheless(uses) == {u \in uses : u.write = 0}
ChatCalls ==
  {[provider |-> p, entry |-> "chat", env |-> env] : p \in {"groq", "ollama", "perplexity"},
     env \in ChatEnv({OneUse}, MaySeams, {FALSE}) \cup ChatEnv(Cacheless(Uses), {""}, {FALSE})}
  \cup {[provider |-> "grok", entry |-> "chat", env |-> env] :
     env \in ChatEnv({OneUse}, MaySeams, {FALSE}) \cup ChatEnv(Cacheless(Uses), {""}, BOOLEAN)}

GoogleCalls ==
  [provider: {"google"}, entry: GO!Entries,
   env: [setting: GO!Settings, model: {"asked"}, served: {"served"}, blocked: BOOLEAN, seam: MaySeams,
         use: {OneUse}, totalReported: BOOLEAN, asked: {0, 2}, images: {1, 2}]
        \cup [setting: {CHOOSE s \in GO!Settings : TRUE}, model: {"asked"}, served: {"served"}, blocked: {FALSE},
              seam: {""}, use: Uses, totalReported: BOOLEAN, asked: {2}, images: {1}]]

Pass(kind, model) == [kind |-> kind, model |-> model, tokens |-> AN!turnTokens(OneUse)]
IterationLists ==
  {<<>>} \cup {<<Pass("message", ""), a>> : a \in {Pass("compaction", ""), Pass("advisor_message", "other")}}
  \cup {<<Pass("advisor_message", m), Pass("message", ""), Pass("compaction", "")>> : m \in {"", "other"}}
AnthropicEnv(settings, named, uses, iterations, seams, tries, advisors, keys) ==
  [setting: settings, named: named, fallback: BOOLEAN, setUp: BOOLEAN, blocked: BOOLEAN, blocked2: BOOLEAN,
   seam: seams, seam2: MaySeams, tries: tries, use: uses, iterations: iterations, advisorModel: advisors,
   served: {"", "served"}, model: {"asked"}, key: keys]
AnthropicCalls ==
  [provider: {"anthropic"}, entry: {"message", "beta"},
   env: AnthropicEnv({[disabled |-> d, keys |-> TRUE, awsURL |-> FALSE] : d \in BOOLEAN}, AN!Named, {OneUse},
                     {<<>>}, MaySeams, {1, 2}, {""}, {<<>>})
        \cup {e \in AnthropicEnv({[disabled |-> d, keys |-> TRUE, awsURL |-> FALSE] : d \in BOOLEAN}, {"plain"},
                                 Uses, IterationLists, {""}, {1}, {"", "advisor"}, {<<>>, <<"key">>}) :
                ~e.blocked /\ ~e.blocked2 /\ e.seam2 = "" /\ e.setUp /\ ~e.fallback}]

FalNames == {{}, {"video"}, {"chat"}, {"audio", "video"}}
FalCalls ==
  [provider: {"fal"}, entry: {"run"},
   env: [family: MC!Families, input: MC!Asked, length: {MC!NoLength, <<3, 1>>}, named: {{"video"}}, fields: {{"video"}},
         remembered: {""}, enabled: {TRUE}, model: {"asked"}, blocked: {FALSE}, seam: {""}, use: {OneUse}]
        \cup [family: {CHOOSE f \in MC!Families : TRUE}, input: {[duration |-> 2, frames |-> 0, rate |-> 0, prompt |-> TRUE, mask |-> FALSE]},
              length: {MC!NoLength}, named: FalNames, fields: {{}, {"chat"}, {"image"}}, remembered: {"", "video"},
              enabled: BOOLEAN, model: {"asked"}, blocked: BOOLEAN, seam: MaySeams, use: Cacheless(Uses)]]

FalStreams ==
  [provider: {"fal"}, entry: {"stream"},
   env: [family: {CHOOSE f \in MC!Families : TRUE}, input: {[duration |-> 2, frames |-> 0, rate |-> 0, prompt |-> TRUE, mask |-> FALSE]},
         length: {MC!NoLength}, named: {{"video"}, {"chat"}}, fields: {{}, {"chat"}}, remembered: {""}, enabled: BOOLEAN,
         model: {"asked"}, blocked: BOOLEAN, seam: MaySeams \cup {"broke off", "left"}, use: {OneUse, Nothing}]]

RunwayLengths == {MC!NoLength, MC!NotANumber, <<2, 1>>, <<5, 2>>}
RunwayCalls ==
  [provider: {"runway"}, entry: {"task"},
   env: [entry: {"generate", "edit", "upscale"}, family: {f \in MC!Families : f.frames = 0},
         requested: RunwayLengths, source: RunwayLengths, model: {"asked"}, blocked: BOOLEAN,
         seam: MaySeams \cup {"server error", "reply said failed", "canceled", "unfinished"}]]

(* A route called by its own name, or an alias of one or two of them.          *)
Route(prefix, family) == [prefix |-> prefix, family |-> family]
Deployments == {Route("openai", "gpt"), Route("anthropic", "claude"), Route("groq", "gpt")}
Routings ==
  {[route |-> d, routed |-> {}, by |-> d] : d \in Deployments \cup {Route("", "gpt")}}
  \cup {[route |-> Route("", "alias"), routed |-> {a, d}, by |-> d] : a, d \in Deployments}
Answers == [named: BOOLEAN, byId: BOOLEAN, grouped: BOOLEAN, answer: {"none", "echo", "model", "snapshot"}]
ModelAnswered == [named |-> TRUE, byId |-> TRUE, grouped |-> TRUE, answer |-> "model"]
Billed(uses, places) == [use: uses, places: places]
Ends(blocks, seams, enabled) == [blocked: blocks, seam: seams, enabled: enabled]
Said(callers, remembereds, headers) == [caller: callers, remembered: remembereds, headers: headers]
Field(name, values) == {<<>>} \cup {name :> v : v \in values}
Silent == Said({<<>>}, {<<>>}, {<<>>})
LiteLLMEnv(routings, answers, billed, ends, said) ==
  {r @@ a @@ b @@ e @@ m : r \in routings, a \in answers, b \in billed, e \in ends, m \in said}
PlainEnd == Ends({FALSE}, {""}, {TRUE})
LiteLLMEnvs ==
  {e \in LiteLLMEnv(Routings, Answers, Billed({OneUse}, {{"flat"}}), PlainEnd, Silent) :
     e.answer = "snapshot" => LL!servesDatedSnapshots(e.by)}
  \cup LiteLLMEnv({r \in Routings : r.routed = {}}, {ModelAnswered},
                  Billed(Uses, SUBSET {"details", "flat", "details write"} \ {{}}), PlainEnd, Silent)
  \cup LiteLLMEnv({[route |-> Route("openai", "gpt"), routed |-> {}, by |-> Route("openai", "gpt")]}, {ModelAnswered},
                  Billed({OneUse}, {{"flat"}}), Ends(BOOLEAN, MaySeams, BOOLEAN),
                  Said(Field("subscriber", {"caller", "blank"}), Field("subscriber", {"proxy"}), Field("subscriber", {"proxy", "blank"}))
                  \cup Said(Field("capturePrompts", {"caller", "blank"}), {<<>>}, Field("capturePrompts", {"proxy"})))
LiteLLMCalls ==
  [provider: {"litellm"}, entry: LL!Entries \ {"stream"}, env: LiteLLMEnvs]
  \cup [provider: {"litellm"}, entry: {"stream"}, env: {e \in LiteLLMEnvs : e.seam # "unusable"}]
MCAskedCalls == OpenAICalls \cup ChatCalls \cup GoogleCalls \cup AnthropicCalls
                \cup FalCalls \cup FalStreams \cup RunwayCalls \cup LiteLLMCalls
=============================================================================
