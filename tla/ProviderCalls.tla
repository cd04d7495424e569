---------------------------- MODULE ProviderCalls ----------------------------
(* Every call a provider module offers, whatever it meets: one behaviour is    *)
(* one call, from what its caller asked to what was sent, judged, recorded and *)
(* returned.                                                                   *)
EXTENDS Providers, FiniteSets

CONSTANT AskedCalls      \* the calls made: provider, entry of its module, and what the call meets

MaySeams == Failures \cup {""}
IsOpenAICall(c) ==
  /\ c.entry \in OA!Entries
  /\ c.env \in [setting: OA!Settings, model: {"", "asked"}, served: {"", "served"}, blocked: BOOLEAN,
                seam: MaySeams \cup {"reply said failed"}, use: Amounts, thoughtApart: BOOLEAN]
  /\ OA!validateAzure(c.env.setting) /\ c.env.thoughtApart \in OA!ThoughtApart(OA!DetectProvider(c.env.setting))
  /\ c.env.seam = "reply said failed" => c.entry = "responses"
IsChatCall(c) ==
  /\ c.env \in [model: {"asked"}, served: {"", "served"}, blocked: BOOLEAN, seam: MaySeams, use: Amounts,
                thoughtApart: BOOLEAN, stream: BOOLEAN, details: BOOLEAN, vision: BOOLEAN]
  /\ c.env.thoughtApart => c.provider = "grok"
IsGoogleCall(c) ==
  /\ c.entry \in GO!Entries
  /\ c.env \in [setting: GO!Settings, model: {"asked"}, served: {"served"}, blocked: BOOLEAN, seam: MaySeams,
                use: Amounts, totalReported: BOOLEAN, asked: Nat, images: Nat]
(* An Anthropic turn is any sequence of passes, and may be sent several times. *)
Passes == [kind: {"message", "advisor_message", "compaction"}, model: {"", "other"},
           tokens: [in: Nat, out: Nat, total: Nat, thought: Nat, write: Nat, read: Nat]]
IsAnthropicCall(c) ==
  /\ c.entry \in {"message", "beta"}
  /\ c.env \in [setting: AN!Settings, named: AN!Named, fallback: BOOLEAN, setUp: BOOLEAN, blocked: BOOLEAN,
                blocked2: BOOLEAN, seam: MaySeams, seam2: MaySeams, tries: Nat \ {0}, use: Amounts,
                iterations: Seq(Passes), advisorModel: {"", "advisor"}, served: {"", "served"}, model: {"asked"},
                key: {<<>>, <<"key">>}]
(* A length is that of a whole number of frames, none, or no number.           *)
Lengths == {MC!NoLength, MC!NotANumber} \cup ((Nat \ {0}) \X (Nat \ {0}))
IsFamily(f) == /\ f \in [known: BOOLEAN, seconds: Nat, frames: Nat, rate: Nat]
               /\ f.known => f.seconds > 0 \/ (f.frames > 0 /\ f.rate > 0)
IsFalCall(c) ==
  /\ c.entry \in {"run", "stream"} /\ IsFamily(c.env.family)
  /\ c.env \in [family: {c.env.family}, input: [duration: Nat, frames: Nat, rate: Nat, prompt: BOOLEAN, mask: BOOLEAN],
                length: Lengths \ {MC!NotANumber}, named: SUBSET MC!Media, fields: SUBSET MC!Media,
                remembered: MC!Media \cup {""}, enabled: BOOLEAN, model: {"asked"}, blocked: BOOLEAN,
                seam: MaySeams \cup IF c.entry = "stream" THEN {"broke off", "left"} ELSE {}, use: Amounts]
IsRunwayCall(c) ==
  /\ IsFamily(c.env.family) /\ c.env.family.frames = 0
  /\ c.env \in [entry: {"generate", "edit", "upscale"}, family: {c.env.family}, requested: Lengths, source: Lengths,
                model: {"asked"}, blocked: BOOLEAN,
                seam: MaySeams \cup {"server error", "reply said failed", "canceled", "unfinished"}]
(* A LiteLLM route is called by its own name, or is an alias of some others;   *)
(* only who serves dated snapshots answers with one.  The fields a caller, the *)
(* proxy and its answer's headers give may be any, but no blank person is      *)
(* remembered.                                                                 *)
LiteLLMFields == {"route", "routed", "by", "named", "byId", "grouped", "answer", "use", "places", "blocked", "seam",
                  "enabled", "caller", "remembered", "headers"}
IsLiteLLMCall(c) == LET e == c.env IN
  /\ c.entry \in LL!Entries /\ DOMAIN e = LiteLLMFields
  /\ e.route \in LL!Routes /\ e.by \in LL!Routes /\ e.routed \subseteq LL!Routes
  /\ IF e.routed = {} THEN e.by = e.route ELSE e.by \in e.routed
  /\ {e.named, e.byId, e.grouped, e.blocked, e.enabled} \subseteq BOOLEAN
  /\ e.answer \in {"none", "echo", "model", "snapshot"}
  /\ e.answer = "snapshot" => LL!servesDatedSnapshots(e.by) /\ e.by.family \in {"gpt", "claude"}
  /\ e.use \in Amounts /\ e.places \subseteq {"details", "flat", "details write"} /\ e.places # {}
  /\ e.seam \in MaySeams /\ (c.entry = "stream" => e.seam # "unusable")
  /\ \A f \in DOMAIN e.remembered : e.remembered[f] # "blank"
IsCall(c) ==
  /\ c = [provider |-> c.provider, entry |-> c.entry, env |-> c.env]
  /\ \/ c.provider = "openai" /\ IsOpenAICall(c)
     \/ c.provider \in {"groq", "grok", "ollama", "perplexity"} /\ IsChatCall(c)
     \/ c.provider = "google" /\ IsGoogleCall(c)
     \/ c.provider = "anthropic" /\ IsAnthropicCall(c)
     \/ c.provider = "litellm" /\ IsLiteLLMCall(c)
     \/ c.provider = "fal" /\ IsFalCall(c)
     \/ c.provider = "runway" /\ IsRunwayCall(c)
ASSUME CallsAssumption == \A c \in AskedCalls : IsCall(c)

Outcome(c) ==
  CASE c.provider = "openai"     -> OA!Call(c.entry, c.env)
    [] c.provider = "groq"       -> CP!groq(c.env)
    [] c.provider = "grok"       -> CP!grok(c.env)
    [] c.provider = "ollama"     -> CP!ollama(c.env)
    [] c.provider = "perplexity" -> CP!perplexity(c.env)
    [] c.provider = "google"     -> GO!Call(c.entry, c.env)
    [] c.provider = "anthropic"  -> AN!Call(c.entry, c.env)
    [] c.provider = "litellm"    -> LL!Call(c.entry, c.env)
    [] c.provider = "fal"        -> IF c.entry = "stream" THEN MC!Stream(c.env) ELSE MC!Run(c.env)
    [] c.provider = "runway"     -> MC!RunwayCall(c.env)

VARIABLES asked, ran     \* the call, and what came of it once it was made
callVars == <<asked, ran>>
CallsInit == asked \in AskedCalls /\ ran = {}
Make == ran = {} /\ ran' = {Outcome(asked)} /\ UNCHANGED asked
CallsSpec == CallsInit /\ [][Make]_callVars

(* ------------------------------- properties ------------------------------- *)
Ran == IF ran = {} THEN Stopped({}) ELSE CHOOSE r \in ran : TRUE
IsPass(r) == "parent" \in DOMAIN r /\ r.parent
Mains == {i \in DOMAIN Ran.records : ~IsPass(Ran.records[i])}
(* A disabled fal or LiteLLM client records nothing, and nor does a Runway     *)
(* task that Runway may not have created.                                      *)
Recording == CASE asked.provider \in {"fal", "litellm"} -> asked.env.enabled
               [] asked.provider = "runway" -> MC!confirmed(asked.env)
               [] OTHER -> TRUE
(* Whatever route a call takes - refused before or after an attempt, retried,  *)
(* sent again to another provider, failed at any seam - what left the process  *)
(* is recorded by exactly one record of its own, and by none if the caller     *)
(* records nothing.  A call of which nothing left has no record if the rules   *)
(* stopped it or were never asked, and otherwise at most one, of a failure.    *)
(* A record tells success exactly when the caller has a usable reply.          *)
EveryRequestRecordedOnce ==
  /\ Cardinality(Mains) <= 1
  /\ Ran.requests > 0 /\ Recording => Cardinality(Mains) = 1
  /\ Ran.judged = {} \/ ~Recording => Ran.records = <<>>
  /\ Ran.requests = 0 /\ Ran.got = "stopped" => Ran.records = <<>>
  /\ \A i \in Mains : /\ Ran.requests = 0 => Ran.records[i].what = "failed"
                       /\ Ran.records[i].what = "succeeded" <=>
                            Ran.got = "reply" /\ asked.env.seam # "reply said failed"

(* The rules decide on a name before the call, the platform bills by the name  *)
(* on the record: they are the same model, or the one the rules were told the  *)
(* provider may make of it.  "catalog" is a spelling of the name.  The         *)
(* exceptions are OpenAI's embeddings and the Anthropic API's messages,        *)
(* recorded under whatever name the answer has: under none if it has none,     *)
(* where other calls fall back on the name asked for.                          *)
(* LiteLLM's records name the person the rules decided on, when the proxy      *)
(* still names whom it named before, and capture prompts as the caller said.   *)
Spelling(model) == IF model = "catalog" THEN "asked" ELSE model
NamesServing == asked.provider \notin {"groq", "ollama", "perplexity"}
DatedName(model) == CASE model = "gpt" -> "gpt dated" [] model = "claude" -> "claude dated" [] OTHER -> "served"
TakesAnyName == asked.provider = "anthropic" \/ (asked.provider = "openai" /\ asked.entry = "embeddings")
Nameless(r) == TakesAnyName /\ asked.env.served = "" /\ r.model = ""
SameAt(field, a, b) == (field \in DOMAIN a <=> field \in DOMAIN b) /\ (field \in DOMAIN a => a[field] = b[field])
JudgedAsRecorded ==
  /\ NamesServing => \A i \in Mains : Nameless(Ran.records[i]) \/ \E j \in Ran.judged :
       Spelling(Ran.records[i].model) \in {j.model} \cup (IF j.dated THEN {DatedName(j.model)} ELSE {})
  /\ asked.provider = "litellm" => \A i \in Mains : LET r == Ran.records[i] IN
       /\ SameAt("capturePrompts", r.meta, asked.env.caller)
       /\ LL!answered(asked.env) /\ SameAt("subscriber", asked.env.headers, asked.env.remembered) =>
            SameAt("subscriber", r.meta, Ran.person)

(* A call the rules judged as one the provider serves under the requested name *)
(* is recorded under exactly that name.                                        *)
UnmarkedRecordedAsAsked ==
  asked.provider \in {"groq", "ollama", "perplexity", "fal"} =>
    \A i \in DOMAIN Ran.records, j \in Ran.judged : ~j.dated => Ran.records[i].model = j.model

(* What the platform bills from a successful record is what was consumed: no   *)
(* token twice - cached in the input, thoughts in the output - and none lost,  *)
(* and a turn's further passes are each billed, under ids of their own.        *)
BilledAs(u, model) ==
  LET e == asked.env IN
  CASE asked.provider = "anthropic" -> [in |-> u.fresh, out |-> u.text + u.thought, write |-> u.write, read |-> u.read]
    [] asked.provider = "google"    -> [in |-> u.fresh + u.read + u.write, out |-> u.text + u.thought, write |-> 0, read |-> u.read]
    [] asked.provider = "openai"    -> [in |-> u.fresh + u.read, out |-> u.text + u.thought, write |-> u.write, read |-> u.read]
    [] asked.provider = "fal"       -> [in |-> u.fresh, out |-> u.text + u.thought, write |-> 0, read |-> u.read]
    [] asked.provider = "litellm"   -> [in |-> u.fresh + IF model \in LL!ClaudeNames THEN 0 ELSE u.read + u.write,
                                        out |-> u.text + u.thought, write |-> u.write, read |-> u.read]
    [] OTHER -> [in |-> u.fresh + u.read + u.write, out |-> u.text + u.thought, write |-> 0,
                 read |-> IF asked.provider \in {"groq", "grok"} /\ e.details THEN u.read ELSE 0]
(* Whether a reasoning model that keeps its thoughts apart tells of them.      *)
ThoughtsTold == ~("thoughtApart" \in DOMAIN asked.env /\ asked.env.thoughtApart)
                  \/ asked.provider # "grok" \/ asked.env.details
(* An answer in a fraction's terms; equal lengths are one length. *)
RunwayMade(e) ==
  IF e.entry # "upscale" /\ e.requested[1] > 0 THEN {e.requested}
  ELSE {l \in {e.source} : e.entry # "generate" /\ l[1] > 0}
VideoMade(e) ==
  CASE e.length # MC!NoLength -> {e.length}
    [] e.length = MC!NoLength /\ e.input.duration > 0 -> {<<e.input.duration, 1>>}
    [] e.length = MC!NoLength /\ e.input.duration = 0 /\ e.input.frames > 0 /\ e.input.rate > 0 ->
         {<<e.input.frames, e.input.rate>>}
    [] OTHER -> {}
Readable == ~(asked.provider = "fal" /\ asked.entry = "stream" /\ asked.env.seam = "unusable")
BilledAsConsumed ==
  \A i \in DOMAIN Ran.records : LET r == Ran.records[i] IN
    /\ asked.provider = "runway" /\ r.what \in {"failed", "cancelled"} => r.length = MC!NoLength
    /\ r.what = "unfinished" => r.length = r.asked
    /\ r.what = "succeeded" /\ Readable =>
      /\ r.operation \in {"chat", "vision"} /\ ~IsPass(r) /\ ThoughtsTold =>
           [in |-> r.tokens.in, out |-> r.tokens.out, write |-> r.tokens.write, read |-> r.tokens.read]
             = BilledAs(asked.env.use, r.model)
      /\ r.operation = "video" =>
           LET made == IF asked.provider = "runway" THEN RunwayMade(asked.env) ELSE VideoMade(asked.env) IN
           /\ made # {} => r.length \in made
           /\ r.unknown <=> r.length = MC!NoLength
      /\ asked.provider = "anthropic" =>
           LET billed == {n \in DOMAIN asked.env.iterations : asked.env.iterations[n].kind # "message"} IN
           /\ {Ran.records[k].pass : k \in DOMAIN Ran.records} = {0} \cup billed
           /\ Len(Ran.records) = 1 + Cardinality(billed)
           /\ Cardinality({Ran.records[k].id : k \in DOMAIN Ran.records}) = Len(Ran.records)
           /\ Cardinality({Ran.records[k].key : k \in DOMAIN Ran.records}) = Len(Ran.records)
           /\ IsPass(r) => r.tokens = asked.env.iterations[r.pass].tokens
=============================================================================
