----------------------------- MODULE CallProofs -----------------------------
(***************************************************************************)
(* Proofs about ProviderCalls for any calls, and about UsageRecords for    *)
(* any texts, metadata and settings.                                       *)
(*                                                                         *)
(* A behaviour of ProviderCalls is one call, so its invariant is short: a  *)
(* call is one of those asked, and what ran is nothing or its Outcome.     *)
(* The work is in showing that each provider's Outcome is Good: it leaves  *)
(* one record of its own or nothing at all, under a name the rules were    *)
(* asked about, with the tokens and the length of what was consumed.       *)
(* MeteredIsGood shows it of the shape most calls share, and a section per *)
(* provider of what that provider does besides: LiteLLM's names and        *)
(* metadata, Anthropic's passes and its fallback, the lengths of fal's and *)
(* Runway's videos.  The last section is about the record itself.          *)
(***************************************************************************)
EXTENDS ProviderCalls, UsageRecords, TLAPS, FiniteSetTheorems, FunctionTheorems, SequenceTheorems

(* ------------------------- what a call comes to --------------------------- *)
CallsInv == asked \in AskedCalls /\ (ran = {} \/ ran = {Outcome(asked)})
LEMMA CallsInvariant == CallsSpec => []CallsInv
<1>1. CallsInit => CallsInv
  BY DEF CallsInit, CallsInv
<1>2. CallsInv /\ [Make]_callVars => CallsInv'
  BY DEF CallsInv, Make, callVars
<1> QED
  BY <1>1, <1>2, PTL DEF CallsSpec

LEMMA RanIsOutcome ==
  /\ ran = {} => Ran.requests = 0 /\ Ran.records = <<>> /\ Ran.judged = {}
  /\ ran = {Outcome(asked)} => Ran = Outcome(asked)
  BY DEF Ran, Stopped

SaidFailed == asked.env.seam = "reply said failed"

(* A run leaves a record of its own and perhaps further passes, or it leaves   *)
(* none and nothing was sent that had to be recorded.  If nothing was sent at  *)
(* all, a record is of a failure.                                              *)
Unsent(o, r) == o.requests = 0 => r.what = "failed" /\ o.got # "stopped"
Leaves(o, r) ==
  /\ 1 \in DOMAIN o.records /\ o.records[1] = r /\ ~IsPass(r)
  /\ \A i \in DOMAIN o.records : i # 1 => IsPass(o.records[i])
  /\ r.what = "succeeded" <=> o.got = "reply" /\ ~SaidFailed
  /\ Unsent(o, r)
LeavesNone(o) == o.records = <<>> /\ (Recording => o.requests = 0)
Once(o) ==
  /\ o.judged = {} \/ ~Recording => o.records = <<>>
  /\ LeavesNone(o) \/ \E r : Leaves(o, r)

LEMMA MainsOfNone == ASSUME Ran.records = <<>> PROVE Mains = {}
  BY DEF Mains
LEMMA MainsOfSome == ASSUME NEW r, Leaves(Ran, r) PROVE Mains = {1}
  BY DEF Mains, Leaves

LEMMA OnceIsRecordedOnce ==
  ASSUME Once(Ran), Ran.requests \in Nat PROVE EveryRequestRecordedOnce
<1>1. CASE LeavesNone(Ran)
  <2>1. Mains = {} /\ Cardinality(Mains) = 0
    BY <1>1, MainsOfNone, FS_EmptySet DEF LeavesNone
  <2> QED
    BY <1>1, <2>1 DEF EveryRequestRecordedOnce, LeavesNone, Once
<1>2. CASE \E r : Leaves(Ran, r)
  <2>1. PICK r : Leaves(Ran, r)
    BY <1>2
  <2>2. Mains = {1} /\ Cardinality(Mains) = 1
    BY <2>1, MainsOfSome, FS_Singleton
  <2>3. Ran.judged = {} \/ ~Recording => Ran.records = <<>>
    BY DEF Once
  <2>4. /\ Ran.records[1].what = "succeeded" <=> Ran.got = "reply" /\ ~SaidFailed
        /\ Ran.requests = 0 => Ran.records[1].what = "failed" /\ Ran.got # "stopped"
    BY <2>1 DEF Leaves, Unsent
  <2>5. Cardinality(Mains) = 1 /\ 1 <= 1
    BY <2>2
  <2> QED
    BY <2>2, <2>3, <2>4, <2>5 DEF EveryRequestRecordedOnce, SaidFailed
<1> QED
  BY <1>1, <1>2 DEF Once

LEMMA OutcomeOfProvider ==
  /\ asked.provider = "openai"     => Outcome(asked) = OA!Call(asked.entry, asked.env)
  /\ asked.provider = "groq"       => Outcome(asked) = CP!groq(asked.env)
  /\ asked.provider = "grok"       => Outcome(asked) = CP!grok(asked.env)
  /\ asked.provider = "ollama"     => Outcome(asked) = CP!ollama(asked.env)
  /\ asked.provider = "perplexity" => Outcome(asked) = CP!perplexity(asked.env)
  /\ asked.provider = "google"     => Outcome(asked) = GO!Call(asked.entry, asked.env)
  /\ asked.provider = "anthropic"  => Outcome(asked) = AN!Call(asked.entry, asked.env)
  /\ asked.provider = "litellm"    => Outcome(asked) = LL!Call(asked.entry, asked.env)
  /\ asked.provider = "fal"        => Outcome(asked) = IF asked.entry = "stream" THEN MC!Stream(asked.env) ELSE MC!Run(asked.env)
  /\ asked.provider = "runway"     => Outcome(asked) = MC!RunwayCall(asked.env)
  BY DEF Outcome

LEMMA CallOfProvider ==
  ASSUME asked \in AskedCalls
  PROVE  /\ asked.provider = "openai" => IsOpenAICall(asked)
         /\ asked.provider \in {"groq", "grok", "ollama", "perplexity"} => IsChatCall(asked)
         /\ asked.provider = "google" => IsGoogleCall(asked)
         /\ asked.provider = "anthropic" => IsAnthropicCall(asked)
         /\ asked.provider = "litellm" => IsLiteLLMCall(asked)
         /\ asked.provider = "fal" => IsFalCall(asked)
         /\ asked.provider = "runway" => IsRunwayCall(asked)
         /\ asked.provider \in {"openai", "groq", "grok", "ollama", "perplexity", "google", "anthropic", "litellm", "fal", "runway"}
  BY CallsAssumption DEF IsCall

(* ------------------------- a call with one record ------------------------- *)
NamedAs(j, r) ==
  \/ NamesServing => Spelling(r.model) \in {j.model} \cup (IF j.dated THEN {DatedName(j.model)} ELSE {})
  \/ Nameless(r)
TokensRight(r) ==
  r.what = "succeeded" /\ Readable /\ r.operation \in {"chat", "vision"} /\ ThoughtsTold =>
     [in |-> r.tokens.in, out |-> r.tokens.out, write |-> r.tokens.write, read |-> r.tokens.read]
        = BilledAs(asked.env.use, r.model)
LengthRight(r) ==
  /\ asked.provider = "runway" /\ r.what \in {"failed", "cancelled"} => r.length = MC!NoLength
  /\ r.what = "unfinished" => r.length = r.asked
  /\ r.what = "succeeded" /\ Readable /\ r.operation = "video" =>
       LET made == IF asked.provider = "runway" THEN RunwayMade(asked.env) ELSE VideoMade(asked.env) IN
       /\ made # {} => r.length \in made
       /\ r.unknown <=> r.length = MC!NoLength
Good(o) ==
  /\ Once(o) /\ o.requests \in Nat
  /\ \A r : Leaves(o, r) => /\ \E j \in o.judged : NamedAs(j, r)
                            /\ TokensRight(r) /\ LengthRight(r)
  /\ \/ o.records = <<>>
     \/ asked.provider = "anthropic"
     \/ DOMAIN o.records = {1}

Plain(ops, models) ==
  [what: {"succeeded", "failed"}, operation: ops, model: models,
   tokens: [in: Nat, out: Nat, total: Nat, thought: Nat, write: Nat, read: Nat], status: BOOLEAN]

LEMMA OneElement == ASSUME NEW r PROVE DOMAIN <<r>> = {1} /\ <<r>>[1] = r
  OBVIOUS

LEMMA OneRecord ==
  ASSUME NEW o, NEW r, o.records = <<r>>, ~IsPass(r), o.requests \in Nat,
         r.what = "succeeded" <=> o.got = "reply" /\ ~SaidFailed, Unsent(o, r),
         Recording, \E j \in o.judged : NamedAs(j, r), TokensRight(r), LengthRight(r)
  PROVE  Good(o)
<1>1. DOMAIN o.records = {1} /\ o.records[1] = r
  <2>1. DOMAIN <<r>> = {1} /\ <<r>>[1] = r
    BY OneElement
  <2> QED
    BY <2>1
<1>2. Leaves(o, r)
  BY <1>1 DEF Leaves
<1>3. o.judged # {}
  OBVIOUS
<1>4. Once(o)
  BY <1>2, <1>3 DEF Once
<1>5. \A x : Leaves(o, x) => x = r
  BY <1>1 DEF Leaves
<1> QED
  BY <1>1, <1>4, <1>5 DEF Good

LEMMA NoRecord ==
  ASSUME NEW o, o.records = <<>>, o.requests \in Nat, Recording => o.requests = 0
  PROVE  Good(o)
<1>1. \A r : ~Leaves(o, r)
  BY DEF Leaves
<1>2. Once(o)
  BY DEF Once, LeavesNone
<1> QED
  BY <1>1, <1>2 DEF Good

LEMMA MeteredEverywhere ==
  ASSUME NEW env, NEW j, NEW f, NEW s
  PROVE  /\ OA!Metered(env, j, f, s) = Metered(env, j, f, s)
         /\ CP!Metered(env, j, f, s) = Metered(env, j, f, s)
         /\ GO!Metered(env, j, f, s) = Metered(env, j, f, s)
         /\ AN!Metered(env, j, f, s) = Metered(env, j, f, s)
         /\ LL!Metered(env, j, f, s) = Metered(env, j, f, s)
         /\ MC!Metered(env, j, f, s) = Metered(env, j, f, s)
  BY DEF Metered, OA!Metered, CP!Metered, GO!Metered, AN!Metered, LL!Metered, MC!Metered,
         Stopped, OA!Stopped, CP!Stopped, GO!Stopped, AN!Stopped, LL!Stopped, MC!Stopped,
         Left, OA!Left, CP!Left, GO!Left, AN!Left, LL!Left, MC!Left,
         Failures, OA!Failures, CP!Failures, GO!Failures, AN!Failures, LL!Failures, MC!Failures,
         asFailedCall, OA!asFailedCall, CP!asFailedCall, GO!asFailedCall, AN!asFailedCall, LL!asFailedCall, MC!asFailedCall

LEMMA FailedRecord ==
  ASSUME NEW ops, NEW models, NEW r \in Plain(ops, models), NEW seam
  PROVE  LET x == asFailedCall(r, seam) IN
         x \in Plain(ops, models) /\ x.what = "failed" /\ x.model = r.model /\ x.operation = r.operation
  BY DEF Plain, asFailedCall
LEMMA PlainIsNoPass ==
  ASSUME NEW ops, NEW models, NEW r \in Plain(ops, models) PROVE ~IsPass(r)
  BY DEF Plain, IsPass

(* The shape most calls share. *)
LEMMA MeteredIsGood ==
  ASSUME asked.env.blocked \in BOOLEAN, NEW j, NEW f, NEW s, NEW ops, NEW models,
         f \in Plain(ops, models), s \in Plain(ops, models),
         Recording, asked.provider # "runway", "video" \notin ops,
         s.what = "succeeded" <=> ~SaidFailed,
         NamedAs(j, f), NamedAs(j, s), TokensRight(s)
  PROVE  Good(Metered(asked.env, j, f, s))
<1> DEFINE e == asked.env
           o == Metered(e, j, f, s)
           x == asFailedCall(f, e.seam)
<1>1. CASE e.blocked
  <2>1. o.records = <<>> /\ o.requests = 0
    BY <1>1 DEF Metered, Stopped
  <2>3. o.requests \in Nat
    BY <1>1 DEF Metered, Stopped
  <2> HIDE DEF o
  <2>2. Good(o)
    BY <2>1, <2>3, NoRecord
  <2> QED
    BY <2>2 DEF o
<1>2. CASE ~e.blocked /\ e.seam \in Failures
  <2>1. o.records = <<x>> /\ o.requests \in Nat /\ o.judged = {j} /\ o.got = "error"
    BY <1>2 DEF Metered, Left
  <2>2. x \in Plain(ops, models) /\ x.what = "failed" /\ x.model = f.model /\ x.operation = f.operation
    BY FailedRecord
  <2>3. NamedAs(j, x) /\ TokensRight(x) /\ LengthRight(x)
    <3> HIDE DEF x
    <3>1. NamedAs(j, x)
      BY <2>2 DEF NamedAs, Nameless
    <3>2. TokensRight(x) /\ LengthRight(x)
      BY <2>2 DEF TokensRight, LengthRight
    <3> QED
      BY <3>1, <3>2
  <2>4. ~IsPass(x)
    BY <2>2, PlainIsNoPass
  <2> HIDE DEF x, o
  <2>6. Unsent(o, x)
    BY <2>1, <2>2 DEF Unsent
  <2>5. Good(o)
    BY <2>1, <2>2, <2>3, <2>4, <2>6, OneRecord
  <2> QED
    BY <2>5 DEF o
<1>3. CASE ~e.blocked /\ e.seam \notin Failures
  <2>1. o.records = <<s>> /\ o.requests \in Nat \ {0} /\ o.judged = {j} /\ o.got = "reply"
    BY <1>3 DEF Metered, Left, Failures
  <2>2. LengthRight(s)
    BY DEF LengthRight, Plain
  <2>3. ~IsPass(s)
    BY PlainIsNoPass
  <2> HIDE DEF o
  <2>4. s.what = "succeeded" <=> o.got = "reply" /\ ~SaidFailed
    BY <2>1
  <2>5. \E k \in o.judged : NamedAs(k, s)
    BY <2>1
  <2>7. Unsent(o, s)
    BY <2>1 DEF Unsent
  <2>6. Good(o)
    BY <2>1, <2>2, <2>3, <2>4, <2>5, <2>7, OneRecord
  <2> QED
    BY <2>6 DEF o
<1> QED
  BY <1>1, <1>2, <1>3

(* A record made of an operation, a name and counts. *)
TokenCounts == [in: Nat, out: Nat, total: Nat, thought: Nat, write: Nat, read: Nat]
Covers(model, dated, m) == Spelling(m) \in {model} \cup (IF dated THEN {DatedName(model)} ELSE {})
CountsRight(op, m, t) ==
  Readable /\ op \in {"chat", "vision"} /\ ThoughtsTold =>
     [in |-> t.in, out |-> t.out, write |-> t.write, read |-> t.read] = BilledAs(asked.env.use, m)
LEMMA RecordSays ==
  ASSUME NEW ops, NEW models, NEW op \in ops, NEW m \in models, NEW t \in TokenCounts
  PROVE  /\ Record(op, m, t) \in Plain(ops, models)
         /\ Record(op, m, t).what = "succeeded" /\ Record(op, m, t).operation = op
         /\ Record(op, m, t).model = m /\ Record(op, m, t).tokens = t
  BY DEF Record, Plain, TokenCounts
LEMMA NoTokensCount == NoTokens \in TokenCounts
  BY DEF NoTokens, Tokens, TokenCounts

LEMMA RecordsAreGood ==
  ASSUME asked.env.blocked \in BOOLEAN, Recording, asked.provider # "runway", ~SaidFailed,
         NEW ops, "video" \notin ops, NEW op \in ops, NEW models, NEW mf \in models, NEW ms \in models,
         NEW t \in TokenCounts, NEW model, NEW dated,
         NamesServing => Covers(model, dated, mf), NamesServing => Covers(model, dated, ms) \/ Nameless(Record(op, ms, t)),
         CountsRight(op, ms, t)
  PROVE  Good(Metered(asked.env, Judged(model, dated), Record(op, mf, NoTokens), Record(op, ms, t)))
<1> DEFINE f == Record(op, mf, NoTokens)
           s == Record(op, ms, t)
           j == Judged(model, dated)
<1>1. f \in Plain(ops, models) /\ f.model = mf
  BY RecordSays, NoTokensCount
<1>2. s \in Plain(ops, models) /\ s.what = "succeeded" /\ s.operation = op /\ s.model = ms /\ s.tokens = t
  BY RecordSays
<1>3. j.model = model /\ j.dated = dated
  BY DEF Judged
<1>4. NamesServing => Covers(model, dated, ms) \/ Nameless(s)
  OBVIOUS
<1> HIDE DEF f, s, j
<1>5. NamedAs(j, f) /\ NamedAs(j, s)
  BY <1>1, <1>2, <1>3, <1>4 DEF NamedAs, Covers
<1>6. TokensRight(s)
  BY <1>2 DEF TokensRight, CountsRight
<1>7. Good(Metered(asked.env, j, f, s))
  BY <1>1, <1>2, <1>5, <1>6, MeteredIsGood
<1> QED
  BY <1>7 DEF f, s, j

(* --------------------------------- OpenAI --------------------------------- *)
OpenAIOps == {"chat", "embed", "audio", "image"}
OpenAIModels == {"", "asked", "served", "catalog", "default"}
LEMMA NoVideoOp == "video" \notin OpenAIOps /\ "chat" \in OpenAIOps /\ "embed" \in OpenAIOps /\ "audio" \in OpenAIOps
                     /\ "image" \in OpenAIOps
  BY DEF OpenAIOps
LEMMA OpenAIUse ==
  ASSUME asked.provider = "openai", IsOpenAICall(asked)
  PROVE  LET u == OA!usage(asked.env) t == OA!usageTokens(OA!DetectProvider(asked.env.setting), u) IN
         /\ u \in [prompt: Nat, output: Nat, total: Nat, thought: Nat, read: Nat, write: Nat]
         /\ t \in [in: Nat, out: Nat, total: Nat, thought: Nat, write: Nat, read: Nat]
         /\ \A m : [in |-> t.in, out |-> t.out, write |-> t.write, read |-> t.read] = BilledAs(asked.env.use, m)
<1> DEFINE use == asked.env.use
           u == OA!usage(asked.env)
           p == OA!DetectProvider(asked.env.setting)
           t == OA!usageTokens(p, u)
           apart == asked.env.thoughtApart
<1>1. use \in Amounts /\ apart \in BOOLEAN /\ (p # "XAI" => apart = FALSE)
  BY DEF IsOpenAICall, OA!ThoughtApart
<1>2. u = OA!ReportedUsage(use, apart)
  BY DEF OA!usage
<1>3. \A m : BilledAs(use, m) = [in |-> use.fresh + use.read, out |-> use.text + use.thought, write |-> use.write, read |-> use.read]
  BY DEF BilledAs
<1> HIDE DEF use, u, p, apart
<1>4. PICK fresh \in Nat, read \in Nat, write \in Nat, text \in Nat, thought \in Nat :
        fresh = use.fresh /\ read = use.read /\ write = use.write /\ text = use.text /\ thought = use.thought
  BY <1>1 DEF Amounts
<1>5. /\ u.prompt = fresh + read + write /\ u.output = IF apart THEN text ELSE text + thought
      /\ u.total = fresh + read + write + text + thought /\ u.thought = thought /\ u.read = read /\ u.write = write
      /\ u \in [prompt: Nat, output: Nat, total: Nat, thought: Nat, read: Nat, write: Nat]
  BY <1>1, <1>2, <1>4 DEF OA!ReportedUsage
<1>6. OA!inputTokensExcludingCacheWrites(u) = fresh + read
  BY <1>5 DEF OA!inputTokensExcludingCacheWrites
<1>7. OA!billedOutputTokens(p, u) = text + thought
  BY <1>1, <1>5 DEF OA!billedOutputTokens, OA!reasoningCountedInOutput
<1>8. t = [in |-> fresh + read, out |-> text + thought, total |-> u.total, thought |-> thought, write |-> write, read |-> read]
  BY <1>5, <1>6, <1>7 DEF OA!usageTokens, OA!Tokens
<1>9. /\ t \in [in: Nat, out: Nat, total: Nat, thought: Nat, write: Nat, read: Nat]
      /\ t.in = fresh + read /\ t.out = text + thought /\ t.write = write /\ t.read = read
  BY <1>5, <1>8
<1>10. \A m : [in |-> t.in, out |-> t.out, write |-> t.write, read |-> t.read] = BilledAs(use, m)
  BY <1>3, <1>4, <1>9
<1> HIDE DEF t
<1> QED
  BY <1>5, <1>9, <1>10 DEF u, use, p, t

LEMMA OpenAIMetered ==
  ASSUME NEW op, NEW mf, NEW ms, NEW t, NEW model, NEW dated
  PROVE  OA!Metered(asked.env, OA!Judged(model, dated), OA!failureRecord(op, mf), OA!Record(op, ms, t))
           = Metered(asked.env, Judged(model, dated), Record(op, mf, NoTokens), Record(op, ms, t))
<1>1. /\ OA!Judged(model, dated) = Judged(model, dated)
      /\ OA!failureRecord(op, mf) = Record(op, mf, NoTokens)
      /\ OA!Record(op, ms, t) = Record(op, ms, t)
  BY DEF OA!Judged, Judged, OA!failureRecord, OA!Record, Record, OA!NoTokens, NoTokens, OA!Tokens, Tokens
<1> QED
  BY <1>1, MeteredEverywhere

LEMMA OpenAIRecordIsGood ==
  ASSUME asked.provider = "openai", IsOpenAICall(asked), ~SaidFailed,
         NEW op \in OpenAIOps, NEW mf \in OpenAIModels, NEW ms \in OpenAIModels, NEW t \in TokenCounts,
         NEW model, NEW dated, Covers(model, dated, mf), Covers(model, dated, ms) \/ Nameless(Record(op, ms, t)),
         CountsRight(op, ms, t)
  PROVE  Good(OA!Metered(asked.env, OA!Judged(model, dated), OA!failureRecord(op, mf), OA!Record(op, ms, t)))
<1>1. asked.env.blocked \in BOOLEAN /\ Recording /\ asked.provider # "runway"
  BY DEF IsOpenAICall, Recording
<1>2. Good(Metered(asked.env, Judged(model, dated), Record(op, mf, NoTokens), Record(op, ms, t)))
  BY <1>1, NoVideoOp, RecordsAreGood
<1> QED
  BY <1>2, OpenAIMetered

LEMMA OpenAIEnv ==
  ASSUME asked.provider = "openai", IsOpenAICall(asked)
  PROVE  /\ asked.env.blocked \in BOOLEAN /\ asked.env.model \in {"", "asked"} /\ asked.env.served \in {"", "served"}
         /\ asked.entry # "responses" => ~SaidFailed
         /\ asked.env.setting \in OA!Settings
  BY DEF IsOpenAICall, SaidFailed

LEMMA OpenAIChatIsGood ==
  ASSUME asked.provider = "openai", IsOpenAICall(asked), asked.entry \in {"chat", "text"}
  PROVE  Good(OA!chatCompletionsNew(asked.env))
<1> DEFINE e == asked.env
           p == OA!DetectProvider(e.setting)
           ms == OA!chatRecordModel(p, e.model, e.served)
           dated == OA!recordsServedChatModel(p)
           t == OA!usageTokens(p, OA!usage(e))
<1>1. ~SaidFailed /\ e.model \in {"", "asked"} /\ e.served \in {"", "served"}
  BY OpenAIEnv
<1>2. t \in TokenCounts /\ CountsRight("chat", ms, t)
  BY OpenAIUse DEF CountsRight, TokenCounts
<1>3. Covers(e.model, dated, e.model) /\ Covers(e.model, dated, ms)
  BY <1>1 DEF Covers, Spelling, DatedName, OA!chatRecordModel, OA!recordsServedChatModel, OA!servedOrRequested
<1>4. e.model \in OpenAIModels /\ ms \in OpenAIModels
  BY <1>1 DEF OpenAIModels, OA!chatRecordModel, OA!servedOrRequested
<1>5. OA!chatCompletionsNew(e) = OA!Metered(e, OA!Judged(e.model, dated), OA!failureRecord("chat", e.model), OA!Record("chat", ms, t))
  BY DEF OA!chatCompletionsNew, OA!chatRecord
<1> HIDE DEF ms, dated, t, p
<1> QED
  BY <1>1, <1>2, <1>3, <1>4, <1>5, NoVideoOp, OpenAIRecordIsGood

LEMMA OpenAIEmbeddingsAreGood ==
  ASSUME asked.provider = "openai", IsOpenAICall(asked), asked.entry = "embeddings"
  PROVE  Good(OA!embeddingsCreate(asked.env))
<1> DEFINE e == asked.env
           t == [OA!NoTokens EXCEPT !.in = OA!usage(e).prompt, !.total = OA!usage(e).prompt]
<1>1. ~SaidFailed /\ e.model \in {"", "asked"} /\ e.served \in {"", "served"}
  BY OpenAIEnv
<1>2. t \in TokenCounts /\ CountsRight("embed", e.served, t)
  BY OpenAIUse DEF CountsRight, TokenCounts, OA!NoTokens, OA!Tokens
<1>3. Covers(e.model, TRUE, e.model)
  BY <1>1 DEF Covers, Spelling, DatedName
<1>6. Covers(e.model, TRUE, e.served) \/ Nameless(Record("embed", e.served, t))
  <2>1. Record("embed", e.served, t).model = e.served
    BY DEF Record
  <2> QED
    BY <1>1, <2>1 DEF Covers, Spelling, DatedName, Nameless, TakesAnyName
<1>4. e.model \in OpenAIModels /\ e.served \in OpenAIModels
  BY <1>1 DEF OpenAIModels
<1>5. OA!embeddingsCreate(e) = OA!Metered(e, OA!Judged(e.model, TRUE), OA!failureRecord("embed", e.model), OA!Record("embed", e.served, t))
  BY DEF OA!embeddingsCreate
<1> HIDE DEF t
<1> QED
  BY <1>1, <1>2, <1>3, <1>4, <1>5, <1>6, NoVideoOp, OpenAIRecordIsGood

LEMMA OpenAIAudioIsGood ==
  ASSUME asked.provider = "openai", IsOpenAICall(asked), asked.entry \in {"transcriptions", "translations", "speech"},
         NEW t \in TokenCounts
  PROVE  Good(OA!audioCreate(asked.env, t))
<1> DEFINE e == asked.env
           ms == OA!mediaModel(e.setting, e.model)
<1>1. ~SaidFailed /\ e.model \in {"", "asked"}
  BY OpenAIEnv
<1>2. CountsRight("audio", ms, t)
  BY DEF CountsRight
<1>3. Covers(e.model, FALSE, ms) /\ ms \in OpenAIModels
  BY <1>1 DEF Covers, Spelling, OA!mediaModel, OpenAIModels
<1>5. OA!audioCreate(e, t) = OA!Metered(e, OA!Judged(e.model, FALSE), OA!failureRecord("audio", ms), OA!Record("audio", ms, t))
  BY DEF OA!audioCreate
<1> HIDE DEF ms
<1> QED
  BY <1>1, <1>2, <1>3, <1>5, NoVideoOp, OpenAIRecordIsGood

LEMMA OpenAIAudioTokens ==
  ASSUME asked.provider = "openai", IsOpenAICall(asked)
  PROVE  OA!audioTokens(asked.env) \in TokenCounts /\ OA!NoTokens \in TokenCounts
<1> DEFINE u == OA!usage(asked.env)
<1>1. u \in [prompt: Nat, output: Nat, total: Nat, thought: Nat, read: Nat, write: Nat]
  BY OpenAIUse
<1> HIDE DEF u
<1>2. u.prompt \in Nat /\ u.output \in Nat /\ u.prompt + u.output \in Nat
  BY <1>1
<1> QED
  BY <1>2 DEF OA!audioTokens, OA!NoTokens, OA!Tokens, TokenCounts, u

LEMMA OpenAIImageIsGood ==
  ASSUME asked.provider = "openai", IsOpenAICall(asked),
         asked.entry \in {"images generate", "images edit", "images variation"}
  PROVE  Good(OA!imageCall(asked.env, "default"))
<1> DEFINE e == asked.env
           u == OA!usage(e)
           model == OA!recordedImageModel(e.setting, e.model, "default")
           ms == OA!mediaModel(e.setting, model)
           t == [OA!NoTokens EXCEPT !.in = u.prompt, !.out = u.output, !.total = u.total]
<1>1. ~SaidFailed /\ e.model \in {"", "asked"}
  BY OpenAIEnv
<1>2. u \in [prompt: Nat, output: Nat, total: Nat, thought: Nat, read: Nat, write: Nat]
  BY OpenAIUse
<1>3. Covers(model, FALSE, ms) /\ ms \in OpenAIModels
  BY <1>1 DEF Covers, Spelling, OA!mediaModel, OA!recordedImageModel, OpenAIModels
<1>4. OA!imageCall(e, "default") = OA!Metered(e, OA!Judged(model, FALSE), OA!failureRecord("image", ms), OA!Record("image", ms, t))
  BY DEF OA!imageCall
<1> HIDE DEF ms, model, u
<1>5. t \in TokenCounts
  BY <1>2 DEF TokenCounts, OA!NoTokens, OA!Tokens
<1>6. CountsRight("image", ms, t)
  BY DEF CountsRight
<1> HIDE DEF t
<1> QED
  BY <1>1, <1>3, <1>4, <1>5, <1>6, NoVideoOp, OpenAIRecordIsGood

(* A response that says it failed is recorded as failed, with its counts. *)
LEMMA OpenAIResponsesAreGood ==
  ASSUME asked.provider = "openai", IsOpenAICall(asked), asked.entry = "responses"
  PROVE  Good(OA!responsesCreate(asked.env))
<1> DEFINE e == asked.env
           ms == OA!servedOrRequested(e.served, e.model)
           t == OA!usageTokens(OA!DetectProvider(e.setting), OA!usage(e))
           j == OA!Judged(e.model, TRUE)
           f == OA!failureRecord("chat", e.model)
           r == OA!Record("chat", ms, t)
           x == OA!asFailedCall(r, e.seam)
           s == OA!buildResponsePayload(e)
<1>1. e.blocked \in BOOLEAN /\ e.model \in {"", "asked"} /\ e.served \in {"", "served"} /\ Recording /\ asked.provider # "runway"
  BY OpenAIEnv DEF Recording
<1>2. t \in TokenCounts /\ CountsRight("chat", ms, t)
  BY OpenAIUse DEF CountsRight, TokenCounts
<1>3. Covers(e.model, TRUE, e.model) /\ Covers(e.model, TRUE, ms) /\ ms \in OpenAIModels /\ e.model \in OpenAIModels
  BY <1>1 DEF Covers, Spelling, DatedName, OA!servedOrRequested, OpenAIModels
<1>4. OA!responsesCreate(e) = OA!Metered(e, j, f, s) /\ s = IF SaidFailed THEN x ELSE r
  BY DEF OA!responsesCreate, OA!buildResponsePayload, OA!chatRecord, SaidFailed
<1> HIDE DEF ms, t, s
<1>5. CASE ~SaidFailed
  BY <1>1, <1>2, <1>3, <1>4, <1>5, NoVideoOp, OpenAIRecordIsGood
<1>6. CASE SaidFailed
  <2>1. f = Record("chat", e.model, NoTokens) /\ r = Record("chat", ms, t) /\ x = asFailedCall(r, e.seam)
        /\ j.model = e.model /\ j.dated = TRUE
    BY DEF OA!failureRecord, OA!Record, Record, OA!NoTokens, NoTokens, OA!Tokens, Tokens, OA!asFailedCall, asFailedCall, OA!Judged
  <2> HIDE DEF f, r, x, j
  <2>2. f \in Plain(OpenAIOps, OpenAIModels) /\ f.model = e.model
    BY <2>1, <1>3, NoVideoOp, NoTokensCount, RecordSays
  <2>3. r \in Plain(OpenAIOps, OpenAIModels) /\ r.model = ms
    BY <2>1, <1>2, <1>3, NoVideoOp, RecordSays
  <2>4. x \in Plain(OpenAIOps, OpenAIModels) /\ x.what = "failed" /\ x.model = ms
    BY <2>1, <2>3, FailedRecord
  <2>5. NamedAs(j, f) /\ NamedAs(j, x) /\ TokensRight(x)
    BY <2>1, <2>2, <2>4, <1>3 DEF NamedAs, Covers, TokensRight
  <2>6. Good(Metered(e, j, f, x))
    BY <2>2, <2>4, <2>5, <1>1, <1>6, NoVideoOp, MeteredIsGood
  <2> QED
    BY <2>6, <1>4, <1>6, MeteredEverywhere
<1> QED
  BY <1>5, <1>6

LEMMA OpenAIGood ==
  ASSUME asked.provider = "openai", IsOpenAICall(asked)
  PROVE  Good(OA!Call(asked.entry, asked.env))
<1>1. asked.entry \in OA!Entries
  BY DEF IsOpenAICall
<1>2. CASE asked.entry \in {"chat", "text"}
  BY <1>2, OpenAIChatIsGood DEF OA!Call, OA!textCompletionsNew
<1>3. CASE asked.entry = "responses"
  BY <1>3, OpenAIResponsesAreGood DEF OA!Call
<1>4. CASE asked.entry = "embeddings"
  BY <1>4, OpenAIEmbeddingsAreGood DEF OA!Call
<1>5. CASE asked.entry \in {"transcriptions", "translations", "speech"}
  <2>1. OA!Call(asked.entry, asked.env) = OA!audioCreate(asked.env, IF asked.entry = "speech" THEN OA!NoTokens ELSE OA!audioTokens(asked.env))
    BY <1>5 DEF OA!Call, OA!transcriptionsCreate, OA!translationsCreate, OA!speechCreate
  <2> QED
    BY <2>1, <1>5, OpenAIAudioTokens, OpenAIAudioIsGood
<1>6. CASE asked.entry \in {"images generate", "images edit", "images variation"}
  <2>1. OA!Call(asked.entry, asked.env) = OA!imageCall(asked.env, "default")
    BY <1>6 DEF OA!Call, OA!imagesGenerate, OA!imagesEdit, OA!imagesCreateVariation
  <2> QED
    BY <2>1, <1>6, OpenAIImageIsGood
<1> QED
  BY <1>1, <1>2, <1>3, <1>4, <1>5, <1>6 DEF OA!Entries

(* ---------------------------- the chat providers -------------------------- *)
ChatOps == {"chat", "vision"}
ChatModels == {"", "asked", "served"}
LEMMA ChatOpsAndModels == "video" \notin ChatOps /\ "chat" \in ChatOps /\ "vision" \in ChatOps
                          /\ "asked" \in ChatModels /\ {"", "served"} \subseteq ChatModels
  BY DEF ChatOps, ChatModels
LEMMA ChatEnv ==
  ASSUME asked.provider \in {"groq", "grok", "ollama", "perplexity"}, IsChatCall(asked)
  PROVE  /\ asked.env.model = "asked" /\ asked.env.served \in {"", "served"} /\ ~SaidFailed /\ Recording
         /\ asked.provider # "runway" /\ asked.env.blocked \in BOOLEAN
         /\ asked.env.stream \in BOOLEAN /\ asked.env.details \in BOOLEAN /\ asked.env.thoughtApart \in BOOLEAN
         /\ asked.env.use \in Amounts /\ (asked.env.thoughtApart => asked.provider = "grok")
         /\ "thoughtApart" \in DOMAIN asked.env
  BY DEF IsChatCall, Recording, SaidFailed, MaySeams, Failures

LEMMA ChatRecords ==
  ASSUME NEW op, NEW m, NEW t, NEW dated, NEW model
  PROVE  CP!Record(op, m, t) = Record(op, m, t) /\ CP!NoTokens = NoTokens /\ CP!Judged(model, dated) = Judged(model, dated)
  BY DEF CP!Record, Record, CP!NoTokens, NoTokens, CP!Tokens, Tokens, CP!Judged, Judged

LEMMA ChatMetered ==
  ASSUME NEW op, NEW mf, NEW ms, NEW t, NEW model, NEW dated
  PROVE  CP!Metered(asked.env, CP!Judged(model, dated), CP!Record(op, mf, CP!NoTokens), CP!Record(op, ms, t))
           = Metered(asked.env, Judged(model, dated), Record(op, mf, NoTokens), Record(op, ms, t))
<1>1. /\ CP!Judged(model, dated) = Judged(model, dated)
      /\ CP!Record(op, mf, CP!NoTokens) = Record(op, mf, NoTokens)
      /\ CP!Record(op, ms, t) = Record(op, ms, t)
  BY DEF CP!Judged, Judged, CP!Record, Record, CP!NoTokens, NoTokens, CP!Tokens, Tokens
<1> QED
  BY <1>1, MeteredEverywhere

LEMMA ChatCompletionIsGood ==
  ASSUME asked.provider \in {"groq", "grok", "ollama", "perplexity"}, IsChatCall(asked),
         NEW op \in ChatOps, NEW m \in ChatModels, NEW t \in TokenCounts, NEW dated \in BOOLEAN,
         NamesServing => Covers("asked", dated, m), CountsRight(op, m, t)
  PROVE  Good(CP!ChatCompletions(asked.env, op, dated, CP!Record(op, m, t)))
<1> DEFINE e == asked.env
           j == Judged("asked", dated)
           s == Record(op, m, t)
           f == CP!recordFailure(op, e)
           o == CP!ChatCompletions(e, op, dated, CP!Record(op, m, t))
<1>1. e.model = "asked" /\ ~SaidFailed /\ Recording /\ asked.provider # "runway" /\ e.stream \in BOOLEAN /\ e.blocked \in BOOLEAN
  BY ChatEnv
<1>2. o = IF e.stream THEN Stopped({}) ELSE IF e.blocked THEN Stopped({j})
          ELSE [judged |-> {j}, requests |-> CP!Left(e), records |-> <<IF e.seam \in Failures THEN f ELSE s>>,
                got |-> IF e.seam \in Failures THEN "error" ELSE "reply"]
  BY <1>1, ChatRecords DEF CP!ChatCompletions, CP!Refused, CP!Stopped, Stopped, CP!callAPI, Failures, CP!Failures
<1>3. CP!Left(e) \in Nat /\ (CP!Left(e) = 0 => e.seam \in Failures)
  BY DEF CP!Left, Failures
<1>4. f.what = "failed" /\ f.model = "asked" /\ ~IsPass(f)
  BY <1>1 DEF CP!recordFailure, CP!Record, IsPass
<1>5. s \in Plain(ChatOps, ChatModels) /\ s.what = "succeeded" /\ s.operation = op /\ s.model = m /\ s.tokens = t
  BY RecordSays
<1>6. j.model = "asked" /\ j.dated = dated
  BY DEF Judged
<1>7. ~IsPass(s) /\ s.operation # "video"
  BY <1>5, PlainIsNoPass, ChatOpsAndModels
<1> HIDE DEF f, s, j, o
<1>8. NamedAs(j, f) /\ NamedAs(j, s)
  BY <1>4, <1>5, <1>6 DEF NamedAs, Covers, Spelling
<1>9. TokensRight(s) /\ TokensRight(f) /\ LengthRight(s) /\ LengthRight(f)
  BY <1>1, <1>4, <1>5, <1>7 DEF TokensRight, CountsRight, LengthRight
<1>10. CASE e.stream \/ e.blocked
  <2>1. o.records = <<>> /\ o.requests = 0
    BY <1>2, <1>10 DEF Stopped
  <2>2. o.requests \in Nat
    BY <1>2, <1>10 DEF Stopped
  <2>3. Good(o)
    BY <2>1, <2>2, NoRecord
  <2> QED
    BY <2>3 DEF o
<1>11. CASE ~e.stream /\ ~e.blocked /\ e.seam \in Failures
  <2>1. o.records = <<f>> /\ o.requests \in Nat /\ o.judged = {j} /\ o.got = "error"
    BY <1>2, <1>3, <1>11
  <2>2. Good(o)
    BY <2>1, <1>1, <1>4, <1>8, <1>9, OneRecord DEF Unsent
  <2> QED
    BY <2>2 DEF o
<1>12. CASE ~e.stream /\ ~e.blocked /\ e.seam \notin Failures
  <2>1. o.records = <<s>> /\ o.requests \in Nat \ {0} /\ o.judged = {j} /\ o.got = "reply"
    BY <1>2, <1>3, <1>12
  <2>2. Good(o)
    BY <2>1, <1>1, <1>5, <1>7, <1>8, <1>9, OneRecord DEF Unsent
  <2> QED
    BY <2>2 DEF o
<1> QED
  BY <1>10, <1>11, <1>12

(* Whom a chat call was served by is told in the record's counts, whether or   *)
(* not the details that tell of cached and reasoning tokens came with it.      *)
ChatUseIs(fresh, read, write, text, thought) ==
  LET u == CP!Usage(asked.env) e == asked.env IN
  /\ fresh \in Nat /\ read \in Nat /\ write \in Nat /\ text \in Nat /\ thought \in Nat
  /\ u.prompt = fresh + read + write /\ u.completion = IF e.thoughtApart THEN text ELSE text + thought
  /\ u.total = fresh + read + write + text + thought
  /\ u.read = (IF e.details THEN read ELSE 0) /\ u.thought = (IF e.details THEN thought ELSE 0)
  /\ asked.provider \in {"groq", "grok", "ollama", "perplexity"} =>
       \A m : BilledAs(e.use, m) =
         [in |-> fresh + read + write, out |-> text + thought, write |-> 0,
          read |-> IF asked.provider \in {"groq", "grok"} /\ e.details THEN read ELSE 0]
LEMMA ChatUse ==
  ASSUME asked.provider \in {"groq", "grok", "ollama", "perplexity"}, IsChatCall(asked)
  PROVE  \E fresh, read, write, text, thought : ChatUseIs(fresh, read, write, text, thought)
<1> DEFINE use == asked.env.use
<1>1. use \in Amounts
  BY ChatEnv
<1>2. /\ use.fresh \in Nat /\ use.read \in Nat /\ use.write \in Nat /\ use.text \in Nat /\ use.thought \in Nat
  BY <1>1 DEF Amounts
<1>3. ChatUseIs(use.fresh, use.read, use.write, use.text, use.thought)
  BY <1>2 DEF ChatUseIs, CP!Usage, BilledAs
<1> QED
  BY <1>3

LEMMA GroqIsGood ==
  ASSUME asked.provider = "groq", IsChatCall(asked) PROVE Good(CP!groq(asked.env))
<1> DEFINE e == asked.env
           u == CP!Usage(e)
           t == CP!Tokens(u.prompt, u.completion, u.total, u.thought, 0, u.read)
<1>1. asked.provider \in {"groq", "grok", "ollama", "perplexity"}
  OBVIOUS
<1>2. e.details \in BOOLEAN /\ e.thoughtApart = FALSE
  BY <1>1, ChatEnv
<1>0. e.served \in ChatModels
  BY <1>1, ChatEnv DEF ChatModels
<1>3. PICK fresh, read, write, text, thought : ChatUseIs(fresh, read, write, text, thought)
  BY <1>1, ChatUse
<1>4. t \in TokenCounts /\ \A m : CountsRight("chat", m, t)
  BY <1>2, <1>3 DEF ChatUseIs, CP!Tokens, TokenCounts, CountsRight
<1>5. CP!groq(e) = CP!ChatCompletions(e, "chat", FALSE, CP!Record("chat", e.served, t)) /\ ~NamesServing
  BY <1>2 DEF CP!groq, CP!groqRecord, NamesServing
<1> HIDE DEF t
<1>6. CountsRight("chat", e.served, t)
  BY <1>4
<1> QED
  BY <1>0, <1>1, <1>4, <1>5, <1>6, ChatOpsAndModels, ChatCompletionIsGood

LEMMA OllamaIsGood ==
  ASSUME asked.provider = "ollama", IsChatCall(asked) PROVE Good(CP!ollama(asked.env))
<1> DEFINE e == asked.env
           u == CP!Usage(e)
           t == CP!Tokens(u.prompt, u.completion, u.total, 0, 0, 0)
<1>1. asked.provider \in {"groq", "grok", "ollama", "perplexity"}
  OBVIOUS
<1>2. e.details \in BOOLEAN /\ e.thoughtApart = FALSE
  BY <1>1, ChatEnv
<1>0. e.served \in ChatModels
  BY <1>1, ChatEnv DEF ChatModels
<1>3. PICK fresh, read, write, text, thought : ChatUseIs(fresh, read, write, text, thought)
  BY <1>1, ChatUse
<1>4. t \in TokenCounts /\ \A m : CountsRight("chat", m, t)
  BY <1>2, <1>3 DEF ChatUseIs, CP!Tokens, TokenCounts, CountsRight
<1>5. CP!ollama(e) = CP!ChatCompletions(e, "chat", FALSE, CP!Record("chat", e.served, t)) /\ ~NamesServing
  BY <1>2 DEF CP!ollama, NamesServing
<1> HIDE DEF t
<1>6. CountsRight("chat", e.served, t)
  BY <1>4
<1> QED
  BY <1>0, <1>1, <1>4, <1>5, <1>6, ChatOpsAndModels, ChatCompletionIsGood

(* Grok's thoughts are billed once, whether the model counts them apart or in  *)
(* the completion: the total tells which.                                      *)
LEMMA GrokIsGood ==
  ASSUME asked.provider = "grok", IsChatCall(asked) PROVE Good(CP!grok(asked.env))
<1> DEFINE e == asked.env
           u == CP!Usage(e)
           op == CP!operationOf(e)
           m == IF e.served = "" THEN "asked" ELSE e.served
           t == CP!Tokens(u.prompt, CP!billedOutputTokens(u), u.total, u.thought, 0, u.read)
<1>1. asked.provider \in {"groq", "grok", "ollama", "perplexity"}
  OBVIOUS
<1>2. e.details \in BOOLEAN /\ e.thoughtApart \in BOOLEAN /\ "thoughtApart" \in DOMAIN e
  BY <1>1, ChatEnv
<1>0. e.served \in {"", "served"}
  BY <1>1, ChatEnv
<1>3. PICK fresh, read, write, text, thought : ChatUseIs(fresh, read, write, text, thought)
  BY <1>1, ChatUse
<1>4. op \in ChatOps
  BY DEF ChatOps, CP!operationOf
<1>5. /\ CP!billedOutputTokens(u) \in Nat
      /\ ThoughtsTold => CP!billedOutputTokens(u) = text + thought
  BY <1>2, <1>3 DEF ChatUseIs, CP!billedOutputTokens, CP!reasoningCountedInCompletion, ThoughtsTold
<1>6. CP!grok(e) = CP!ChatCompletions(e, op, TRUE, CP!Record(op, m, t))
  BY <1>0, <1>2, ChatEnv DEF CP!grok, CP!meteredModel
<1> HIDE DEF op, m
<1>7. t \in TokenCounts /\ CountsRight(op, m, t)
  BY <1>2, <1>3, <1>5 DEF ChatUseIs, CP!Tokens, TokenCounts, CountsRight
<1>8. m \in ChatModels /\ Covers("asked", TRUE, m)
  BY <1>0 DEF m, ChatModels, Covers, Spelling, DatedName
<1> HIDE DEF t
<1> QED
  BY <1>1, <1>4, <1>6, <1>7, <1>8, ChatOpsAndModels, ChatCompletionIsGood

LEMMA PerplexityIsGood ==
  ASSUME asked.provider = "perplexity", IsChatCall(asked) PROVE Good(CP!perplexity(asked.env))
<1> DEFINE e == asked.env
           u == CP!Usage(e)
           t == CP!Tokens(u.prompt, u.completion, u.total, 0, 0, 0)
<1>1. asked.provider \in {"groq", "grok", "ollama", "perplexity"}
  OBVIOUS
<1>0. e.served \in ChatModels
  BY <1>1, ChatEnv DEF ChatModels
<1>2. /\ e.model = "asked" /\ e.details \in BOOLEAN /\ e.thoughtApart = FALSE /\ e.blocked \in BOOLEAN
      /\ ~SaidFailed /\ Recording
  BY <1>1, ChatEnv
<1>3. PICK fresh, read, write, text, thought : ChatUseIs(fresh, read, write, text, thought)
  BY <1>1, ChatUse
<1>4. t \in TokenCounts /\ \A m : CountsRight("chat", m, t)
  BY <1>2, <1>3 DEF ChatUseIs, CP!Tokens, TokenCounts, CountsRight
<1>5. CP!perplexity(e) = CP!Metered(e, CP!Judged("asked", FALSE), CP!Record("chat", "asked", CP!NoTokens), CP!Record("chat", e.served, t))
      /\ ~NamesServing
  BY <1>2 DEF CP!perplexity, CP!perplexityRecord, NamesServing
<1> HIDE DEF t
<1>6. Good(Metered(e, Judged("asked", FALSE), Record("chat", "asked", NoTokens), Record("chat", e.served, t)))
  BY <1>0, <1>2, <1>4, <1>5, ChatOpsAndModels, RecordsAreGood
<1>7. \A m : CP!Metered(e, CP!Judged("asked", FALSE), CP!Record("chat", "asked", CP!NoTokens), CP!Record("chat", m, t))
                = Metered(e, Judged("asked", FALSE), Record("chat", "asked", NoTokens), Record("chat", m, t))
  BY ChatMetered
<1> QED
  BY <1>5, <1>6, <1>7

(* --------------------------------- Google --------------------------------- *)
GoogleOps == {"chat", "embed", "image"}
GoogleModels == {"asked", "catalog"}
LEMMA GoogleOpsAndModels ==
  /\ "video" \notin GoogleOps /\ "chat" \in GoogleOps /\ "embed" \in GoogleOps /\ "image" \in GoogleOps
  /\ "asked" \in GoogleModels /\ "catalog" \in GoogleModels
  BY DEF GoogleOps, GoogleModels
LEMMA GoogleEnv ==
  ASSUME asked.provider = "google", IsGoogleCall(asked)
  PROVE  /\ asked.env.model = "asked" /\ ~SaidFailed /\ Recording /\ asked.provider # "runway"
         /\ asked.env.blocked \in BOOLEAN /\ asked.env.use \in Amounts /\ asked.env.totalReported \in BOOLEAN
         /\ asked.env.asked \in Nat /\ asked.env.images \in Nat
         /\ asked.entry \in GO!Entries
  BY DEF IsGoogleCall, Recording, SaidFailed, MaySeams, Failures

LEMMA GoogleMetered ==
  ASSUME NEW op, NEW mf, NEW ms, NEW t, NEW model, NEW dated
  PROVE  GO!Metered(asked.env, GO!Judged(model, dated), GO!Record(op, mf, GO!NoTokens), GO!Record(op, ms, t))
           = Metered(asked.env, Judged(model, dated), Record(op, mf, NoTokens), Record(op, ms, t))
<1>1. /\ GO!Judged(model, dated) = Judged(model, dated)
      /\ GO!Record(op, mf, GO!NoTokens) = Record(op, mf, NoTokens)
      /\ GO!Record(op, ms, t) = Record(op, ms, t)
  BY DEF GO!Judged, Judged, GO!Record, Record, GO!NoTokens, NoTokens, GO!Tokens, Tokens
<1> QED
  BY <1>1, MeteredEverywhere

(* What never left the process is recorded by nothing. *)
LEMMA GoogleRecordIsGood ==
  ASSUME asked.provider = "google", IsGoogleCall(asked),
         NEW op \in GoogleOps, NEW mf \in GoogleModels, NEW ms \in GoogleModels, NEW t \in TokenCounts, CountsRight(op, ms, t)
  PROVE  Good(GO!recordedIfSent(asked.env, GO!Judged("asked", FALSE), GO!Record(op, mf, GO!NoTokens), GO!Record(op, ms, t)))
<1> DEFINE e == asked.env
           j == Judged("asked", FALSE)
           f == Record(op, mf, NoTokens)
           s == Record(op, ms, t)
           run == Metered(e, j, f, s)
           o == GO!recordedIfSent(e, GO!Judged("asked", FALSE), GO!Record(op, mf, GO!NoTokens), GO!Record(op, ms, t))
<1>1. GO!Metered(e, GO!Judged("asked", FALSE), GO!Record(op, mf, GO!NoTokens), GO!Record(op, ms, t)) = run
  BY GoogleMetered
<1>2. o = IF run.requests = 0 THEN [run EXCEPT !.records = <<>>] ELSE run
  BY <1>1 DEF GO!recordedIfSent
<1>3. e.blocked \in BOOLEAN /\ ~SaidFailed /\ Recording /\ asked.provider # "runway"
  BY GoogleEnv
<1>4. Covers("asked", FALSE, mf) /\ Covers("asked", FALSE, ms)
  BY DEF GoogleModels, Covers, Spelling
<1>5. Good(run)
  BY <1>3, <1>4, GoogleOpsAndModels, RecordsAreGood
<1>6. run.requests \in Nat /\ run = [judged |-> run.judged, requests |-> run.requests, records |-> run.records, got |-> run.got]
  BY DEF Metered, Stopped, Left
<1> HIDE DEF run, o
<1>7. CASE run.requests = 0
  <2>1. o.records = <<>> /\ o.requests = 0
    BY <1>2, <1>6, <1>7
  <2>2. o.requests \in Nat
    BY <1>2, <1>6, <1>7
  <2>3. Good(o)
    BY <2>1, <2>2, NoRecord
  <2> QED
    BY <2>3 DEF o
<1>8. CASE run.requests # 0
  BY <1>2, <1>5, <1>8 DEF o
<1> QED
  BY <1>7, <1>8

LEMMA GenerateContentIsGood ==
  ASSUME asked.provider = "google", IsGoogleCall(asked) PROVE Good(GO!GenerateContent(asked.env))
<1> DEFINE e == asked.env
           use == e.use
           m == GO!UsageMetadata(use, e.totalReported)
           t == GO!payloadTokens(m)
<1>1. e.model = "asked" /\ use \in Amounts
  BY GoogleEnv
<1>2. PICK fresh \in Nat, read \in Nat, write \in Nat, text \in Nat, thought \in Nat :
        fresh = use.fresh /\ read = use.read /\ write = use.write /\ text = use.text /\ thought = use.thought
  BY <1>1 DEF Amounts
<1>3. /\ m.prompt = fresh + read /\ m.toolUse = write /\ m.cached = read /\ m.candidates = text /\ m.thoughts = thought
      /\ m.total \in Nat
  BY <1>2 DEF GO!UsageMetadata
<1>4. \A n : BilledAs(use, n) = [in |-> fresh + read + write, out |-> text + thought, write |-> 0, read |-> read]
  BY <1>2 DEF BilledAs
<1> HIDE DEF m
<1>5. t \in TokenCounts /\ t.in = fresh + read + write /\ t.out = text + thought /\ t.write = 0 /\ t.read = read
  BY <1>2, <1>3 DEF GO!payloadTokens, GO!billedInputTokens, GO!billedOutputTokens, GO!Tokens, TokenCounts
<1>6. CountsRight("chat", "asked", t)
  BY <1>4, <1>5 DEF CountsRight
<1>7. GO!buildPayload(e, {}) = GO!Record("chat", "asked", GO!NoTokens)
  BY <1>1 DEF GO!buildPayload
<1>8. GO!buildPayload(e, {m}) = GO!Record("chat", "asked", t)
  BY <1>1 DEF GO!buildPayload
<1>9. GO!GenerateContent(e) = GO!recordedIfSent(e, GO!Judged("asked", FALSE), GO!Record("chat", "asked", GO!NoTokens), GO!Record("chat", "asked", t))
  BY <1>1, <1>7, <1>8 DEF GO!GenerateContent, m
<1> HIDE DEF t
<1> QED
  BY <1>5, <1>6, <1>9, GoogleOpsAndModels, GoogleRecordIsGood

LEMMA CreateEmbeddingIsGood ==
  ASSUME asked.provider = "google", IsGoogleCall(asked) PROVE Good(GO!CreateEmbedding(asked.env))
<1> DEFINE e == asked.env
           n == GO!embeddingInputTokens(e)
           t == [GO!NoTokens EXCEPT !.in = n, !.total = n]
<1>1. e.model = "asked" /\ e.use \in Amounts
  BY GoogleEnv
<1>2. n \in Nat
  BY <1>1 DEF GO!embeddingInputTokens, Amounts
<1>3. GO!CreateEmbedding(e) = GO!recordedIfSent(e, GO!Judged("asked", FALSE), GO!Record("embed", "asked", GO!NoTokens), GO!Record("embed", "asked", t))
  BY <1>1 DEF GO!CreateEmbedding
<1> HIDE DEF n
<1>4. t \in TokenCounts
  BY <1>2 DEF GO!NoTokens, GO!Tokens, TokenCounts
<1>5. CountsRight("embed", "asked", t)
  BY DEF CountsRight
<1> HIDE DEF t
<1> QED
  BY <1>3, <1>4, <1>5, GoogleOpsAndModels, GoogleRecordIsGood

LEMMA GoogleImageIsGood ==
  ASSUME asked.provider = "google", IsGoogleCall(asked), NEW n \in Nat PROVE Good(GO!imageCall(asked.env, n))
<1> DEFINE e == asked.env
           m == GO!mediaIdentity(e.setting, e.model)
           t == [GO!NoTokens EXCEPT !.out = e.images, !.total = n]
<1>1. e.model = "asked" /\ e.images \in Nat
  BY GoogleEnv
<1>2. m \in GoogleModels
  BY <1>1 DEF GO!mediaIdentity, GoogleModels
<1>3. GO!imageRecord(e, n) = GO!Record("image", m, t)
  <2>1. GO!imageRecord(e, n) = [GO!Record("image", m, GO!NoTokens) EXCEPT !.tokens = t]
    BY DEF GO!imageRecord
  <2> HIDE DEF t, m
  <2> QED
    BY <2>1 DEF GO!Record
<1>4. GO!imageCall(e, n) = GO!recordedIfSent(e, GO!Judged("asked", FALSE), GO!Record("image", m, GO!NoTokens), GO!Record("image", m, t))
  BY <1>1, <1>3 DEF GO!imageCall
<1> HIDE DEF m
<1>5. t \in TokenCounts
  BY <1>1 DEF GO!NoTokens, GO!Tokens, TokenCounts
<1>6. CountsRight("image", m, t)
  BY DEF CountsRight
<1> HIDE DEF t
<1> QED
  BY <1>2, <1>4, <1>5, <1>6, GoogleOpsAndModels, GoogleRecordIsGood

LEMMA GoogleGood ==
  ASSUME asked.provider = "google", IsGoogleCall(asked)
  PROVE  Good(GO!Call(asked.entry, asked.env))
<1> DEFINE n == GO!requestedImages(asked.env.asked, asked.env.images)
<1>1. asked.entry \in GO!Entries /\ n \in Nat
  BY GoogleEnv DEF GO!requestedImages
<1>2. CASE asked.entry = "generate"
  BY <1>2, GenerateContentIsGood DEF GO!Call
<1>3. CASE asked.entry = "embed"
  BY <1>3, CreateEmbeddingIsGood DEF GO!Call
<1>4. CASE asked.entry \in {"image", "edit"}
  <2>1. GO!Call(asked.entry, asked.env) = GO!imageCall(asked.env, n)
    BY <1>4 DEF GO!Call, GO!GenerateImage, GO!EditImage
  <2> HIDE DEF n
  <2> QED
    BY <2>1, <1>1, GoogleImageIsGood
<1>5. CASE asked.entry = "upscale"
  <2>1. GO!Call(asked.entry, asked.env) = GO!imageCall(asked.env, 1)
    BY <1>5 DEF GO!Call, GO!UpscaleImage
  <2> QED
    BY <2>1, GoogleImageIsGood
<1> QED
  BY <1>1, <1>2, <1>3, <1>4, <1>5 DEF GO!Entries

(* ----------------------------------- fal ---------------------------------- *)
MediaFields == {"what", "operation", "model", "tokens", "status", "length", "unknown"}
MediaRecord(r, op, t, length, unknown) ==
  /\ DOMAIN r = MediaFields /\ r.what = "succeeded" /\ r.operation = op /\ r.model = "asked"
  /\ r.tokens = t /\ r.length = length /\ r.unknown = unknown
LEMMA FalRecordSays ==
  ASSUME NEW op, NEW t
  PROVE  MediaRecord(MC!FalRecord(op, "asked", t), op, t, MC!NoLength, FALSE)
<1> DEFINE r == MC!Record(op, "asked", t)
           more == [length |-> MC!NoLength, unknown |-> FALSE]
<1>1. /\ DOMAIN r = {"what", "operation", "model", "tokens", "status"}
      /\ r.what = "succeeded" /\ r.operation = op /\ r.model = "asked" /\ r.tokens = t
  BY DEF MC!Record
<1>2. DOMAIN more = {"length", "unknown"} /\ more.length = MC!NoLength /\ more.unknown = FALSE
  OBVIOUS
<1>3. MC!FalRecord(op, "asked", t) = MC!With(r, more)
  BY DEF MC!FalRecord
<1> HIDE DEF r, more
<1>4. MC!With(r, more) = [f \in DOMAIN r \cup DOMAIN more |-> IF f \in DOMAIN r THEN r[f] ELSE more[f]]
  BY DEF MC!With
<1>5. DOMAIN MC!With(r, more) = MediaFields
  BY <1>1, <1>2, <1>4 DEF MediaFields
<1> QED
  BY <1>1, <1>2, <1>3, <1>4, <1>5 DEF MediaRecord, MediaFields
LEMMA MediaIsNoPass ==
  ASSUME NEW r, NEW op, NEW t, NEW length, NEW unknown, MediaRecord(r, op, t, length, unknown)
  PROVE  ~IsPass(r)
  BY DEF MediaRecord, MediaFields, IsPass

LEMMA FalEnv ==
  ASSUME asked.provider = "fal", IsFalCall(asked)
  PROVE  /\ asked.env.model = "asked" /\ asked.env.blocked \in BOOLEAN /\ asked.env.enabled \in BOOLEAN
         /\ asked.env.use \in Amounts /\ IsFamily(asked.env.family)
         /\ asked.env.input \in [duration: Nat, frames: Nat, rate: Nat, prompt: BOOLEAN, mask: BOOLEAN]
         /\ asked.env.length \in {MC!NoLength} \cup ((Nat \ {0}) \X (Nat \ {0}))
         /\ ~SaidFailed /\ asked.entry \in {"run", "stream"}
         /\ asked.env.seam \in Failures \cup {"", "broke off", "left"}
         /\ Recording = asked.env.enabled
  BY DEF IsFalCall, Recording, SaidFailed, MaySeams, Failures, Lengths

(* The length a video's record bills is its own, if the result tells it, and   *)
(* else the one asked for.                                                     *)
FalLength(env) ==
  IF env.length # MC!NoLength THEN env.length ELSE MC!requestedVideoSeconds(env.family, MC!meteredInputFields(env.input))
LEMMA FalLengthIsMade ==
  ASSUME asked.provider = "fal", IsFalCall(asked), VideoMade(asked.env) # {}
  PROVE  FalLength(asked.env) \in VideoMade(asked.env)
<1> DEFINE e == asked.env
           input == MC!meteredInputFields(e.input)
<1>1. e.input \in [duration: Nat, frames: Nat, rate: Nat, prompt: BOOLEAN, mask: BOOLEAN]
  BY FalEnv
<1>2. /\ input.duration = e.input.duration /\ input.frames = e.input.frames /\ input.rate = e.input.rate
      /\ input.duration \in Nat /\ input.frames \in Nat /\ input.rate \in Nat
  BY <1>1 DEF MC!meteredInputFields
<1> HIDE DEF input
<1>3. CASE e.length # MC!NoLength
  BY <1>3 DEF FalLength, VideoMade
<1>4. CASE e.length = MC!NoLength /\ e.input.duration > 0
  BY <1>2, <1>4 DEF FalLength, VideoMade, MC!requestedVideoSeconds, input
<1>5. CASE e.length = MC!NoLength /\ e.input.duration = 0 /\ e.input.frames > 0 /\ e.input.rate > 0
  <2>1. MC!requestedFrameSeconds(input, e.family) = <<e.input.frames, e.input.rate>>
    BY <1>2, <1>5 DEF MC!requestedFrameSeconds
  <2>2. <<e.input.frames, e.input.rate>> # MC!NoLength
    BY <1>5 DEF MC!NoLength
  <2>3. MC!requestedVideoSeconds(e.family, input) = <<e.input.frames, e.input.rate>>
    BY <2>1, <2>2, <1>2, <1>5 DEF MC!requestedVideoSeconds
  <2>4. VideoMade(e) = {<<e.input.frames, e.input.rate>>}
    BY <1>5, <1>2 DEF VideoMade
  <2> QED
    BY <2>3, <2>4, <1>5 DEF FalLength, input
<1> QED
  BY <1>1, <1>3, <1>4, <1>5 DEF VideoMade

(* Cached tokens are taken out of the input, and a block that counts nothing   *)
(* is of a call that consumed nothing.                                         *)
LEMMA FalTokens ==
  ASSUME asked.provider = "fal", IsFalCall(asked)
  PROVE  LET t == MC!chatTokens(MC!ChatUsage(asked.env)) IN
         \A m : [in |-> t.in, out |-> t.out, write |-> t.write, read |-> t.read] = BilledAs(asked.env.use, m)
<1> DEFINE use == asked.env.use
           u == MC!ChatUsage(asked.env)
           t == MC!chatTokens(u)
<1>1. use \in Amounts
  BY FalEnv
<1>2. PICK fresh \in Nat, read \in Nat, text \in Nat, thought \in Nat :
        fresh = use.fresh /\ read = use.read /\ text = use.text /\ thought = use.thought
  BY <1>1 DEF Amounts
<1>3. \A m : BilledAs(use, m) = [in |-> fresh, out |-> text + thought, write |-> 0, read |-> read]
  BY <1>2 DEF BilledAs
<1>4. /\ u.input = fresh + read /\ u.output = text + thought /\ u.cacheRead = read
      /\ u.total = fresh + read + text + thought
  BY <1>2 DEF MC!ChatUsage
<1> HIDE DEF u, use
<1>5. MC!uncachedInput(u) = fresh
  BY <1>4 DEF MC!uncachedInput
<1>6. t.in = fresh /\ t.out = text + thought /\ t.write = 0 /\ t.read = read
  <2>1. CASE u.total + u.input + u.output = 0
    <3>1. t = MC!NoTokens
      BY <2>1 DEF MC!chatTokens
    <3>2. fresh = 0 /\ read = 0 /\ text + thought = 0
      BY <2>1, <1>4
    <3> HIDE DEF t
    <3> QED
      BY <3>1, <3>2 DEF MC!NoTokens, MC!Tokens
  <2>2. CASE u.total + u.input + u.output # 0
    BY <2>2, <1>4, <1>5 DEF MC!chatTokens, MC!Tokens
  <2> QED
    BY <2>1, <2>2
<1> HIDE DEF t
<1>7. \A m : [in |-> t.in, out |-> t.out, write |-> t.write, read |-> t.read] = BilledAs(use, m)
  BY <1>3, <1>6
<1> QED
  BY <1>7 DEF t, u, use

(* A stream that could not be read is judged and recorded like any other, but  *)
(* of its result nothing is known: of a readable one, env says what was asked. *)
FalEnvOf(env) ==
  /\ env.model = "asked" /\ env.blocked \in BOOLEAN /\ env.enabled = asked.env.enabled
  /\ Readable => env.use = asked.env.use /\ FalLength(env) = FalLength(asked.env)
RightOfFal(r) == ~IsPass(r) /\ r.model = "asked" /\ TokensRight(r) /\ LengthRight(r)
LEMMA FalResultIsRight ==
  ASSUME asked.provider = "fal", IsFalCall(asked), NEW env, FalEnvOf(env)
  PROVE  LET s == MC!buildPayloadFromResult(env) IN RightOfFal(s) /\ s.what = "succeeded"
<1> DEFINE op == MC!DetectMediaType(env.named, env.fields)
           s == MC!buildPayloadFromResult(env)
           t == MC!chatTokens(MC!ChatUsage(env))
<1>1. op \in {"image", "video", "audio", "chat"} /\ env.model = "asked"
  BY DEF MC!DetectMediaType, MC!CorrectFromResponse, MC!DetectFromEndpointID, FalEnvOf
<1> HIDE DEF op
<1>2. CASE op = "video"
  <2> DEFINE r == MC!FalRecord("video", "asked", MC!NoTokens)
             actual == FalLength(env)
             x == [r EXCEPT !.length = actual, !.unknown = actual = MC!NoLength]
  <2>1. s = x
    BY <1>1, <1>2 DEF MC!buildPayloadFromResult, MC!buildVideoMeteringPayload, FalLength, op
  <2>2. MediaRecord(r, "video", MC!NoTokens, MC!NoLength, FALSE)
    BY FalRecordSays
  <2> HIDE DEF r, actual
  <2>3. MediaRecord(x, "video", MC!NoTokens, actual, actual = MC!NoLength)
    BY <2>2 DEF MediaRecord, MediaFields
  <2> HIDE DEF x
  <2>4. x.what = "succeeded" /\ x.operation = "video" /\ x.model = "asked" /\ x.length = actual
        /\ (x.unknown <=> x.length = MC!NoLength)
    BY <2>3 DEF MediaRecord
  <2>5. Readable /\ VideoMade(asked.env) # {} => actual \in VideoMade(asked.env)
    BY FalLengthIsMade DEF FalEnvOf, actual
  <2>6. TokensRight(x) /\ LengthRight(x)
    BY <2>4, <2>5 DEF TokensRight, LengthRight
  <2> QED
    BY <2>1, <2>3, <2>4, <2>6, MediaIsNoPass DEF RightOfFal
<1>3. CASE op = "chat"
  <2> DEFINE r == MC!FalRecord("chat", "asked", t)
  <2>1. s = r
    BY <1>1, <1>3 DEF MC!buildPayloadFromResult, op
  <2>2. MediaRecord(r, "chat", t, MC!NoLength, FALSE)
    BY FalRecordSays
  <2>3. Readable => \A m : [in |-> t.in, out |-> t.out, write |-> t.write, read |-> t.read] = BilledAs(asked.env.use, m)
    <3>1. ASSUME Readable PROVE MC!ChatUsage(env) = MC!ChatUsage(asked.env)
      BY <3>1 DEF FalEnvOf, MC!ChatUsage
    <3> QED
      BY <3>1, FalTokens
  <2> HIDE DEF r, t
  <2>4. r.what = "succeeded" /\ r.operation = "chat" /\ r.model = "asked" /\ r.tokens = t
    BY <2>2 DEF MediaRecord
  <2>5. TokensRight(r) /\ LengthRight(r)
    BY <2>3, <2>4 DEF TokensRight, LengthRight
  <2> QED
    BY <2>1, <2>2, <2>4, <2>5, MediaIsNoPass DEF RightOfFal
<1>4. CASE op \in {"image", "audio"}
  <2> DEFINE r == MC!FalRecord(op, "asked", MC!NoTokens)
  <2>1. s = r
    BY <1>1, <1>4 DEF MC!buildPayloadFromResult, op
  <2>2. MediaRecord(r, op, MC!NoTokens, MC!NoLength, FALSE)
    BY FalRecordSays
  <2> HIDE DEF r
  <2>4. r.what = "succeeded" /\ r.operation \in {"image", "audio"} /\ r.model = "asked"
    BY <2>2, <1>4 DEF MediaRecord
  <2>5. TokensRight(r) /\ LengthRight(r)
    BY <2>4 DEF TokensRight, LengthRight
  <2> QED
    BY <2>1, <2>2, <2>4, <2>5, MediaIsNoPass DEF RightOfFal
<1> QED
  BY <1>1, <1>2, <1>3, <1>4

LEMMA FalFailureIsRight ==
  ASSUME asked.provider = "fal", NEW op, NEW seam
  PROVE  LET x == asFailedCall(MC!FalRecord(op, "asked", MC!NoTokens), seam) IN RightOfFal(x) /\ x.what = "failed"
<1> DEFINE r == MC!FalRecord(op, "asked", MC!NoTokens)
           x == asFailedCall(r, seam)
<1>1. MediaRecord(r, op, MC!NoTokens, MC!NoLength, FALSE)
  BY FalRecordSays
<1> HIDE DEF r
<1>2. x.what = "failed" /\ x.model = "asked" /\ DOMAIN x = MediaFields
  BY <1>1 DEF asFailedCall, MediaRecord, MediaFields
<1> HIDE DEF x
<1>3. ~IsPass(x)
  BY <1>2 DEF IsPass, MediaFields
<1>4. TokensRight(x) /\ LengthRight(x)
  BY <1>2 DEF TokensRight, LengthRight
<1> QED
  BY <1>2, <1>3, <1>4 DEF RightOfFal, x, r

LEMMA FalRunIsGood ==
  ASSUME asked.provider = "fal", IsFalCall(asked), NEW env, FalEnvOf(env)
  PROVE  Good(MC!Run(env))
<1> DEFINE j == MC!Judged(env.model, FALSE)
           f == MC!FalRecord(MC!operationOf(env.remembered, env.named), "asked", MC!NoTokens)
           x == asFailedCall(f, env.seam)
           s == MC!buildPayloadFromResult(env)
           run == Metered(env, j, f, s)
           o == MC!Run(env)
<1>1. env.model = "asked" /\ env.blocked \in BOOLEAN /\ env.enabled = asked.env.enabled /\ asked.env.enabled \in BOOLEAN
      /\ Recording = asked.env.enabled /\ ~SaidFailed
  BY FalEnv DEF FalEnvOf
<1>2. o = IF ~env.enabled \/ run.requests = 0 THEN [run EXCEPT !.records = <<>>] ELSE run
  <2>1. MC!Metered(env, j, f, s) = run
    BY MeteredEverywhere
  <2>2. f = MC!FalRecord(MC!operationOf(env.remembered, env.named), env.model, MC!NoTokens)
    BY <1>1
  <2> HIDE DEF run, f, s
  <2> QED
    BY <2>1, <2>2 DEF MC!Run, s
<1>3. run.requests \in Nat /\ run = [judged |-> run.judged, requests |-> run.requests, records |-> run.records, got |-> run.got]
  BY DEF Metered, Stopped, Left
<1>4. RightOfFal(s) /\ s.what = "succeeded"
  BY FalResultIsRight
<1>5. RightOfFal(x) /\ x.what = "failed"
  BY FalFailureIsRight
<1>6. j.model = "asked" /\ j.dated = FALSE
  BY <1>1 DEF MC!Judged
<1>7. env.blocked => run.requests = 0
  BY <1>1 DEF Metered, Stopped
<1>8. ~env.blocked => /\ run.judged = {j}
                      /\ run.records = <<IF env.seam \in Failures THEN x ELSE s>>
                      /\ run.got = IF env.seam \in Failures THEN "error" ELSE "reply"
  BY DEF Metered
<1> HIDE DEF run, o, x, s, j
<1>9. \A r : RightOfFal(r) => NamedAs(j, r)
  BY <1>6 DEF RightOfFal, NamedAs, Spelling
<1>10. CASE ~env.enabled \/ run.requests = 0
  <2>1. o.records = <<>> /\ o.requests = run.requests
    BY <1>2, <1>3, <1>10
  <2>2. o.requests \in Nat /\ (Recording => o.requests = 0)
    BY <2>1, <1>1, <1>3, <1>10
  <2>3. Good(o)
    BY <2>1, <2>2, NoRecord
  <2> QED
    BY <2>3 DEF o
<1>11. CASE ~(~env.enabled \/ run.requests = 0)
  <2>1. o = run /\ ~env.blocked /\ Recording
    BY <1>1, <1>2, <1>7, <1>11
  <2>2. CASE env.seam \in Failures
    <3>1. o.records = <<x>> /\ o.judged = {j} /\ o.got = "error" /\ o.requests \in Nat
      BY <2>1, <2>2, <1>3, <1>8
    <3>3. Unsent(o, x)
      BY <3>1, <1>5 DEF Unsent
    <3>2. Good(o)
      BY <3>1, <3>3, <2>1, <1>1, <1>5, <1>9, OneRecord DEF RightOfFal
    <3> QED
      BY <3>2 DEF o
  <2>3. CASE env.seam \notin Failures
    <3>1. o.records = <<s>> /\ o.judged = {j} /\ o.got = "reply" /\ o.requests \in Nat
      BY <2>1, <2>3, <1>3, <1>8
    <3>3. Unsent(o, s)
      BY <2>1, <1>11 DEF Unsent
    <3>2. Good(o)
      BY <3>1, <3>3, <2>1, <1>1, <1>4, <1>9, OneRecord DEF RightOfFal
    <3> QED
      BY <3>2 DEF o
  <2> QED
    BY <2>2, <2>3
<1> QED
  BY <1>10, <1>11

LEMMA FalGood ==
  ASSUME asked.provider = "fal", IsFalCall(asked)
  PROVE  Good(IF asked.entry = "stream" THEN MC!Stream(asked.env) ELSE MC!Run(asked.env))
<1> DEFINE e == asked.env
           unread == [e EXCEPT !.seam = "", !.fields = {}, !.use = MC!Nothing, !.length = MC!NoLength]
           broken == [e EXCEPT !.seam = "network"]
<1>1. e.model = "asked" /\ e.blocked \in BOOLEAN
  BY FalEnv
<1>2. FalEnvOf(e) /\ Good(MC!Run(e))
  BY <1>1, FalRunIsGood DEF FalEnvOf
<1>3. CASE asked.entry = "stream" /\ e.seam = "unusable"
  <2>1. FalEnvOf(unread)
    BY <1>1, <1>3 DEF FalEnvOf, Readable, IsFalCall
  <2>2. MC!Stream(e) = MC!Run(unread)
    BY <1>3 DEF MC!Stream
  <2> HIDE DEF unread
  <2> QED
    BY <2>1, <2>2, <1>3, FalRunIsGood
<1>4. CASE asked.entry = "stream" /\ e.seam \in {"broke off", "left"}
  <2>1. FalEnvOf(broken)
    BY <1>1, <1>4 DEF FalEnvOf, IsFalCall, FalLength
  <2>2. MC!Stream(e) = MC!Run(broken)
    BY <1>4 DEF MC!Stream
  <2> HIDE DEF broken
  <2> QED
    BY <2>1, <2>2, <1>4, FalRunIsGood
<1>5. CASE asked.entry = "stream" /\ e.seam \notin {"unusable", "broke off", "left"}
  BY <1>2, <1>5 DEF MC!Stream
<1>6. CASE asked.entry # "stream"
  BY <1>2, <1>6
<1> QED
  BY <1>3, <1>4, <1>5, <1>6

(* --------------------------------- Runway --------------------------------- *)
TaskFields == MediaFields \cup {"asked"}
TaskRecord(r, what, length, of, unknown) ==
  /\ DOMAIN r = TaskFields /\ r.what = what /\ r.operation = "video" /\ r.model = "asked"
  /\ r.length = length /\ r.asked = of /\ r.unknown = unknown
LEMMA TaskRecordSays ==
  ASSUME NEW length
  PROVE  TaskRecord(MC!taskRecordStart("asked", length), "succeeded", MC!NoLength, length, FALSE)
<1> DEFINE r == MC!FalRecord("video", "asked", MC!NoTokens)
           more == [asked |-> length]
<1>1. MediaRecord(r, "video", MC!NoTokens, MC!NoLength, FALSE)
  BY FalRecordSays
<1>2. DOMAIN more = {"asked"} /\ more.asked = length
  OBVIOUS
<1>3. MC!taskRecordStart("asked", length) = MC!With(r, more)
  BY DEF MC!taskRecordStart
<1> HIDE DEF r, more
<1>4. MC!With(r, more) = [f \in DOMAIN r \cup DOMAIN more |-> IF f \in DOMAIN r THEN r[f] ELSE more[f]]
  BY DEF MC!With
<1>5. DOMAIN MC!With(r, more) = TaskFields
  BY <1>1, <1>2, <1>4 DEF MediaRecord, TaskFields
<1> QED
  BY <1>1, <1>2, <1>3, <1>4, <1>5 DEF MediaRecord, TaskRecord, MediaFields, TaskFields

RunwayEnd(seam) == CASE seam \in {"status", "reply said failed"} -> "failed" [] seam = "canceled" -> "cancelled"
                     [] seam = "unfinished" -> "unfinished" [] OTHER -> "succeeded"
LEMMA RunwayRecordSays ==
  ASSUME NEW env, env.model = "asked", env.seam \in {"status", "reply said failed", "canceled", "unfinished", ""}
  PROVE  LET r == MC!runwayRecord(env) length == MC!taskLength(env) ended == env.seam \in {"unfinished", ""} IN
         TaskRecord(r, RunwayEnd(env.seam), IF ended THEN length ELSE MC!NoLength, length,
                    ended /\ ~MC!isBillableSeconds(length))
<1> DEFINE length == MC!taskLength(env)
           start == MC!taskRecordStart("asked", length)
           r == MC!runwayRecord(env)
           done == [start EXCEPT !.length = length, !.unknown = ~MC!isBillableSeconds(length)]
<1>1. TaskRecord(start, "succeeded", MC!NoLength, length, FALSE)
  BY TaskRecordSays
<1>2. /\ env.seam = "status" => r = MC!asFailedCall(start, "status")
      /\ env.seam = "reply said failed" => r = MC!asFailedCall(start, "reply said failed")
      /\ env.seam = "canceled" => r = MC!asCancelledCall(start)
      /\ env.seam = "unfinished" => r = [done EXCEPT !.what = "unfinished"]
      /\ env.seam = "" => r = done
  BY DEF MC!runwayRecord, MC!buildRejectedTaskPayload, MC!buildEndedTaskPayload, MC!unfinishedRecord, MC!buildFinishedTaskPayload
<1> HIDE DEF start, length, r
<1>3. \A seam : TaskRecord(MC!asFailedCall(start, seam), "failed", MC!NoLength, length, FALSE)
  BY <1>1 DEF TaskRecord, MC!asFailedCall, TaskFields, MediaFields
<1>4. TaskRecord(MC!asCancelledCall(start), "cancelled", MC!NoLength, length, FALSE)
  BY <1>1 DEF TaskRecord, MC!asCancelledCall, TaskFields, MediaFields
<1>5. TaskRecord(done, "succeeded", length, length, ~MC!isBillableSeconds(length))
  BY <1>1 DEF TaskRecord, TaskFields, MediaFields
<1> HIDE DEF done
<1>6. TaskRecord([done EXCEPT !.what = "unfinished"], "unfinished", length, length, ~MC!isBillableSeconds(length))
  BY <1>5 DEF TaskRecord, TaskFields, MediaFields
<1>7. CASE env.seam \in {"status", "reply said failed"}
  BY <1>2, <1>3, <1>7 DEF RunwayEnd, length, r
<1>8. CASE env.seam = "canceled"
  BY <1>2, <1>4, <1>8 DEF RunwayEnd, length, r
<1>9. CASE env.seam = "unfinished"
  BY <1>2, <1>6, <1>9 DEF RunwayEnd, length, r
<1>10. CASE env.seam = ""
  BY <1>2, <1>5, <1>10 DEF RunwayEnd, length, r
<1> QED
  BY <1>7, <1>8, <1>9, <1>10

LEMMA RunwayEnv ==
  ASSUME asked.provider = "runway", IsRunwayCall(asked)
  PROVE  /\ asked.env.model = "asked" /\ asked.env.blocked \in BOOLEAN /\ asked.env.entry \in {"generate", "edit", "upscale"}
         /\ asked.env.requested \in Lengths /\ asked.env.source \in Lengths
         /\ asked.env.seam \in Failures \cup {"server error", "", "reply said failed", "canceled", "unfinished"}
         /\ IsFamily(asked.env.family) /\ asked.env.family.frames = 0
         /\ Recording = MC!confirmed(asked.env)
  BY DEF IsRunwayCall, Recording, MaySeams, Failures

(* A task bills what it makes: the length asked for, its source's, or its      *)
(* family's; the length is unknown exactly when there is none.                 *)
LEMMA RunwayLength ==
  ASSUME asked.provider = "runway", IsRunwayCall(asked),
         ~(asked.env.entry = "upscale" /\ ~MC!isBillableSeconds(asked.env.source))
  PROVE  LET length == MC!taskLength(asked.env) IN
         /\ RunwayMade(asked.env) # {} => length \in RunwayMade(asked.env)
         /\ MC!isBillableSeconds(length) <=> length # MC!NoLength
<1> DEFINE e == asked.env
           length == MC!taskLength(e)
<1>1. /\ e.entry \in {"generate", "edit", "upscale"} /\ e.requested \in Lengths /\ e.source \in Lengths
      /\ IsFamily(e.family) /\ e.family.frames = 0
  BY RunwayEnv
<1>2. \A l \in Lengths : l[1] > 0 <=> MC!isBillableSeconds(l)
  <2>1. \A l \in (Nat \ {0}) \X (Nat \ {0}) : l[1] > 0 /\ l # <<0, 1>> /\ l # <<0, 0>>
    OBVIOUS
  <2>2. <<0, 1>>[1] = 0 /\ <<0, 0>>[1] = 0
    OBVIOUS
  <2> QED
    BY <2>1, <2>2 DEF Lengths, MC!isBillableSeconds, MC!NoLength, MC!NotANumber
<1>3. ~MC!isBillableSeconds(MC!NoLength)
  BY DEF MC!isBillableSeconds
<1>4. LET d == IF e.family.known THEN MC!defaultSeconds(e.family) ELSE MC!NoLength IN
      MC!isBillableSeconds(d) <=> d # MC!NoLength
  <2>1. CASE e.family.known
    <3>1. e.family.seconds \in Nat /\ e.family.seconds > 0
      BY <2>1, <1>1 DEF IsFamily
    <3>2. MC!defaultSeconds(e.family) = <<e.family.seconds, 1>>
      BY <3>1 DEF MC!defaultSeconds
    <3>3. <<e.family.seconds, 1>> # <<0, 1>> /\ <<e.family.seconds, 1>> # <<0, 0>>
      BY <3>1
    <3> QED
      BY <2>1, <3>2, <3>3 DEF MC!isBillableSeconds, MC!NoLength, MC!NotANumber
  <2>2. CASE ~e.family.known
    BY <2>2, <1>3
  <2> QED
    BY <2>1, <2>2
<1>5. CASE e.entry = "upscale"
  <2>1. length = e.source /\ MC!isBillableSeconds(e.source)
    BY <1>5 DEF MC!taskLength
  <2> QED
    BY <2>1, <1>3, <1>5 DEF RunwayMade
<1>6. CASE e.entry # "upscale" /\ MC!isBillableSeconds(e.requested)
  <2>1. length = e.requested
    BY <1>6 DEF MC!taskLength, MC!billedVideoSeconds
  <2>2. RunwayMade(e) = {e.requested}
    BY <1>1, <1>2, <1>6 DEF RunwayMade
  <2> QED
    BY <2>1, <2>2, <1>3, <1>6
<1>7. CASE e.entry = "edit" /\ ~MC!isBillableSeconds(e.requested) /\ MC!isBillableSeconds(e.source)
  <2>1. length = e.source
    BY <1>7 DEF MC!taskLength, MC!billedVideoSeconds
  <2>2. RunwayMade(e) \subseteq {e.source}
    BY <1>1, <1>2, <1>7 DEF RunwayMade
  <2> QED
    BY <2>1, <2>2, <1>3, <1>7
<1>8. CASE /\ e.entry # "upscale" /\ ~MC!isBillableSeconds(e.requested)
           /\ e.entry = "generate" \/ ~MC!isBillableSeconds(e.source)
  <2>1. length = IF e.family.known THEN MC!defaultSeconds(e.family) ELSE MC!NoLength
    BY <1>3, <1>8 DEF MC!taskLength, MC!billedVideoSeconds
  <2>2. RunwayMade(e) = {}
    BY <1>1, <1>2, <1>8 DEF RunwayMade
  <2> HIDE DEF length
  <2>3. MC!isBillableSeconds(length) <=> length # MC!NoLength
    BY <2>1, <1>4
  <2> QED
    BY <2>2, <2>3 DEF length
<1> QED
  BY <1>1, <1>5, <1>6, <1>7, <1>8

LEMMA RunwayGood ==
  ASSUME asked.provider = "runway", IsRunwayCall(asked)
  PROVE  Good(MC!RunwayCall(asked.env))
<1> DEFINE e == asked.env
           j == MC!Judged(e.model, FALSE)
           r == MC!runwayRecord(e)
           length == MC!taskLength(e)
           ended == e.seam \in {"unfinished", ""}
           o == MC!RunwayCall(e)
<1>1. /\ e.model = "asked" /\ e.blocked \in BOOLEAN /\ Recording = MC!confirmed(e)
      /\ e.seam \in Failures \cup {"server error", "", "reply said failed", "canceled", "unfinished"}
  BY RunwayEnv
<1>2. CASE e.entry = "upscale" /\ ~MC!isBillableSeconds(e.source)
  <2>1. o.records = <<>> /\ o.requests = 0
    BY <1>2 DEF MC!RunwayCall, MC!Refused, MC!Stopped
  <2>2. o.requests \in Nat
    BY <1>2 DEF MC!RunwayCall, MC!Refused, MC!Stopped
  <2> HIDE DEF o
  <2>3. Good(o)
    BY <2>1, <2>2, NoRecord
  <2> QED
    BY <2>3 DEF o
<1>3. CASE ~(e.entry = "upscale" /\ ~MC!isBillableSeconds(e.source)) /\ e.blocked
  <2>1. o.records = <<>> /\ o.requests = 0
    BY <1>3 DEF MC!RunwayCall, MC!runVideoTask, MC!Stopped
  <2>2. o.requests \in Nat
    BY <1>3 DEF MC!RunwayCall, MC!runVideoTask, MC!Stopped
  <2> HIDE DEF o
  <2>3. Good(o)
    BY <2>1, <2>2, NoRecord
  <2> QED
    BY <2>3 DEF o
<1>4. CASE ~(e.entry = "upscale" /\ ~MC!isBillableSeconds(e.source)) /\ ~e.blocked
  <2>1. o = [judged |-> {j}, requests |-> MC!Left(e), records |-> IF MC!confirmed(e) THEN <<r>> ELSE <<>>,
             got |-> IF e.seam = "" THEN "reply" ELSE "error"]
    BY <1>4 DEF MC!RunwayCall, MC!runVideoTask
  <2>2. MC!Left(e) \in Nat
    BY DEF MC!Left
  <2>3. CASE ~MC!confirmed(e)
    <3> HIDE DEF o
    <3>1. o.records = <<>> /\ o.requests \in Nat /\ ~Recording
      BY <1>1, <2>1, <2>2, <2>3
    <3>2. Good(o)
      BY <3>1, NoRecord
    <3> QED
      BY <3>2 DEF o
  <2>4. CASE MC!confirmed(e)
    <3>1. e.seam \in {"status", "reply said failed", "canceled", "unfinished", ""}
      BY <1>1, <2>4 DEF MC!confirmed, Failures
    <3>2. TaskRecord(r, RunwayEnd(e.seam), IF ended THEN length ELSE MC!NoLength, length,
                     ended /\ ~MC!isBillableSeconds(length))
      BY <1>1, <3>1, RunwayRecordSays
    <3>3. /\ RunwayMade(e) # {} => length \in RunwayMade(e)
          /\ MC!isBillableSeconds(length) <=> length # MC!NoLength
      BY <1>4, RunwayLength
    <3> HIDE DEF r, o, length, j
    <3>4. /\ ~IsPass(r) /\ r.model = "asked" /\ r.operation = "video" /\ r.what = RunwayEnd(e.seam)
          /\ r.asked = length /\ r.length = (IF ended THEN length ELSE MC!NoLength)
          /\ r.unknown = (ended /\ ~MC!isBillableSeconds(length))
      BY <3>2 DEF TaskRecord, TaskFields, MediaFields, IsPass
    <3>5. /\ r.what = "succeeded" <=> e.seam = ""
          /\ r.what \in {"failed", "cancelled"} => ~ended
          /\ r.what = "unfinished" => ended
      BY <3>1, <3>4 DEF RunwayEnd
    <3>6. TokensRight(r)
      BY <3>4 DEF TokensRight
    <3>7. LengthRight(r)
      BY <3>3, <3>4, <3>5 DEF LengthRight
    <3>8. j.model = "asked"
      BY <1>1 DEF j, MC!Judged
    <3>9. NamedAs(j, r)
      BY <3>4, <3>8 DEF NamedAs, Spelling
    <3>10. /\ o.records = <<r>> /\ o.requests \in Nat /\ o.judged = {j}
           /\ o.got = IF e.seam = "" THEN "reply" ELSE "error"
      BY <2>1, <2>2, <2>4
    <3>11. r.what = "succeeded" <=> o.got = "reply" /\ ~SaidFailed
      BY <3>5, <3>10 DEF SaidFailed
    <3>12. Recording
      BY <1>1, <2>4
    <3>14. o.requests = 1
      BY <2>1, <3>1 DEF MC!Left
    <3>15. Unsent(o, r)
      BY <3>14 DEF Unsent
    <3>13. Good(o)
      BY <3>4, <3>6, <3>7, <3>9, <3>10, <3>11, <3>12, <3>15, OneRecord
    <3> QED
      BY <3>13 DEF o
  <2> QED
    BY <2>3, <2>4
<1> QED
  BY <1>1, <1>2, <1>3, <1>4

(* -------------------------------- LiteLLM --------------------------------- *)
LEMMA LiteLLMEnv ==
  ASSUME asked.provider = "litellm", IsLiteLLMCall(asked)
  PROVE  /\ asked.env.blocked \in BOOLEAN /\ asked.env.enabled \in BOOLEAN /\ asked.env.named \in BOOLEAN
         /\ asked.env.byId \in BOOLEAN /\ asked.env.grouped \in BOOLEAN
         /\ asked.env.use \in Amounts /\ Recording = asked.env.enabled /\ ~SaidFailed /\ Readable /\ ThoughtsTold
         /\ asked.entry \in LL!Entries
  BY DEF IsLiteLLMCall, Recording, SaidFailed, MaySeams, Failures, Readable, ThoughtsTold, LiteLLMFields

(* The record's metadata: whether prompts are captured is as its caller said,  *)
(* and its person is the one remembered, when the answer names no other.       *)
MetaRight(o, r) ==
  /\ SameAt("capturePrompts", r.meta, asked.env.caller)
  /\ LL!answered(asked.env) /\ SameAt("subscriber", asked.env.headers, asked.env.remembered) =>
       SameAt("subscriber", r.meta, o.person)
SentMetadata == LL!meteredMetadata(asked.env.caller, IF LL!answered(asked.env) THEN asked.env.headers ELSE <<>>)
SaidBy(caller) == {f \in DOMAIN caller : caller[f] # "blank"}
(* m has the fields in own as a has them, and of the others those of b. *)
Over(m, own, a, b) ==
  /\ DOMAIN m = own \cup DOMAIN b
  /\ \A f \in DOMAIN m : m[f] = IF f \in own THEN a[f] ELSE b[f]
LEMMA MergedSays ==
  ASSUME NEW caller, NEW headers
  PROVE  Over(LL!MergeMetadata(caller, headers), SaidBy(caller), caller, headers)
  BY DEF LL!MergeMetadata, Over, SaidBy
LEMMA ExtractedSays ==
  ASSUME NEW headers
  PROVE  LET m == LL!ExtractMetadataFromHeaders(headers) IN
         /\ DOMAIN m = {g \in DOMAIN headers \ {"capturePrompts"} : headers[g] # "blank"}
         /\ \A f \in DOMAIN m : m[f] = headers[f]
  BY DEF LL!ExtractMetadataFromHeaders
LEMMA MeteredMetadataSays ==
  ASSUME NEW caller, NEW headers
  PROVE  Over(LL!meteredMetadata(caller, headers), DOMAIN caller \cap {"capturePrompts"}, caller,
              LL!MergeMetadata(caller, LL!ExtractMetadataFromHeaders(headers)))
<1> DEFINE own == [f \in DOMAIN caller \cap {"capturePrompts"} |-> caller[f]]
           merged == LL!MergeMetadata(caller, LL!ExtractMetadataFromHeaders(headers))
<1>1. LL!meteredMetadata(caller, headers) = [f \in DOMAIN own \cup DOMAIN merged |-> IF f \in DOMAIN own THEN own[f] ELSE merged[f]]
  BY DEF LL!meteredMetadata, LL!With
<1>2. DOMAIN own = DOMAIN caller \cap {"capturePrompts"} /\ \A f \in DOMAIN own : own[f] = caller[f]
  OBVIOUS
<1> HIDE DEF own, merged
<1> QED
  BY <1>1, <1>2 DEF merged, Over

LEMMA MetadataIsRight ==
  ASSUME asked.provider = "litellm", IsLiteLLMCall(asked), NEW o, NEW r,
         o.person = LL!MergeMetadata(asked.env.caller, asked.env.remembered), r.meta = SentMetadata
  PROVE  MetaRight(o, r)
<1> DEFINE caller == asked.env.caller
           headers == IF LL!answered(asked.env) THEN asked.env.headers ELSE <<>>
           found == LL!ExtractMetadataFromHeaders(headers)
           merged == LL!MergeMetadata(caller, found)
           said == SaidBy(caller)
           m == SentMetadata
           person == LL!MergeMetadata(asked.env.caller, asked.env.remembered)
<1>1. /\ DOMAIN found = {g \in DOMAIN headers \ {"capturePrompts"} : headers[g] # "blank"}
      /\ \A f \in DOMAIN found : found[f] = headers[f]
  BY ExtractedSays
<1> HIDE DEF found
<1>2. Over(merged, said, caller, found)
  BY MergedSays
<1>3. Over(person, said, caller, asked.env.remembered)
  BY MergedSays
<1> HIDE DEF merged, person
<1>4. Over(m, DOMAIN caller \cap {"capturePrompts"}, caller, merged)
  BY MeteredMetadataSays DEF SentMetadata, merged, found
<1> HIDE DEF m, caller, headers
<1>5. SameAt("capturePrompts", m, caller)
  BY <1>1, <1>2, <1>4 DEF SameAt, Over, SaidBy, said
<1>6. ASSUME LL!answered(asked.env), SameAt("subscriber", asked.env.headers, asked.env.remembered)
      PROVE  SameAt("subscriber", m, person)
  <2>1. headers = asked.env.headers
    BY <1>6 DEF headers
  <2>2. \A f \in DOMAIN asked.env.remembered : asked.env.remembered[f] # "blank"
    BY DEF IsLiteLLMCall
  <2>3. /\ "subscriber" \in DOMAIN found <=> "subscriber" \in DOMAIN asked.env.remembered
        /\ "subscriber" \in DOMAIN found => found["subscriber"] = asked.env.remembered["subscriber"]
    BY <1>1, <1>6, <2>1, <2>2 DEF SameAt
  <2>4. /\ "subscriber" \in DOMAIN m <=> "subscriber" \in DOMAIN merged
        /\ "subscriber" \in DOMAIN m => m["subscriber"] = merged["subscriber"]
    BY <1>4 DEF Over
  <2>5. /\ "subscriber" \in DOMAIN merged <=> "subscriber" \in said \/ "subscriber" \in DOMAIN found
        /\ "subscriber" \in DOMAIN merged => merged["subscriber"] = IF "subscriber" \in said THEN caller["subscriber"] ELSE found["subscriber"]
    BY <1>2 DEF Over
  <2>6. /\ "subscriber" \in DOMAIN person <=> "subscriber" \in said \/ "subscriber" \in DOMAIN asked.env.remembered
        /\ "subscriber" \in DOMAIN person => person["subscriber"] = IF "subscriber" \in said THEN caller["subscriber"] ELSE asked.env.remembered["subscriber"]
    BY <1>3 DEF Over
  <2> HIDE DEF said
  <2> QED
    BY <2>3, <2>4, <2>5, <2>6 DEF SameAt
<1> QED
  BY <1>5, <1>6 DEF MetaRight, caller, m, person

PlainFields == {"what", "operation", "model", "tokens", "status"}
MetaRecord(r, what, op, model, tokens) ==
  /\ DOMAIN r = PlainFields \cup {"meta"} /\ r.what = what /\ r.operation = op /\ r.model = model /\ r.tokens = tokens
  /\ r.meta = SentMetadata
LEMMA WithMeta ==
  ASSUME NEW x, NEW what, NEW op, NEW model, NEW tokens, DOMAIN x = PlainFields,
         x.what = what, x.operation = op, x.model = model, x.tokens = tokens
  PROVE  MetaRecord(LL!With(x, [meta |-> SentMetadata]), what, op, model, tokens)
<1> DEFINE more == [meta |-> SentMetadata]
<1>1. DOMAIN more = {"meta"} /\ more.meta = SentMetadata
  OBVIOUS
<1> HIDE DEF more
<1>2. LL!With(x, more) = [f \in DOMAIN x \cup DOMAIN more |-> IF f \in DOMAIN x THEN x[f] ELSE more[f]]
  BY DEF LL!With
<1>3. DOMAIN LL!With(x, more) = PlainFields \cup {"meta"}
  BY <1>1, <1>2
<1>4. MetaRecord(LL!With(x, more), what, op, model, tokens)
  BY <1>1, <1>2, <1>3 DEF MetaRecord, PlainFields
<1> QED
  BY <1>4 DEF more

SentAs(o, judged, run) ==
  /\ o.judged = judged /\ o.requests = run.requests /\ o.got = run.got
  /\ o.person = LL!MergeMetadata(asked.env.caller, asked.env.remembered)
  /\ o.records = IF asked.env.enabled
                 THEN [i \in DOMAIN run.records |-> LL!With(run.records[i], [meta |-> SentMetadata])] ELSE <<>>
LEMMA SendSays ==
  ASSUME NEW judged, NEW f, NEW s
  PROVE  SentAs(LL!send(asked.env, judged, f, s), judged, Metered(asked.env, LL!Judged("", FALSE), f, s))
<1> DEFINE e == asked.env
           run == Metered(e, LL!Judged("", FALSE), f, s)
           records == IF e.enabled THEN [i \in DOMAIN run.records |-> LL!With(run.records[i], [meta |-> SentMetadata])] ELSE <<>>
           x == [run EXCEPT !.judged = judged, !.records = records]
           more == [person |-> LL!MergeMetadata(e.caller, e.remembered)]
<1>1. LL!Metered(e, LL!Judged("", FALSE), f, s) = run
  BY MeteredEverywhere
<1>2. LL!send(e, judged, f, s) = LL!With(x, more)
  BY <1>1 DEF LL!send, SentMetadata
<1>3. run = [judged |-> run.judged, requests |-> run.requests, records |-> run.records, got |-> run.got]
  BY DEF Metered, Stopped
<1> HIDE DEF run, records
<1>4. /\ DOMAIN x = {"judged", "requests", "records", "got"}
      /\ x.judged = judged /\ x.requests = run.requests /\ x.records = records /\ x.got = run.got
  BY <1>3
<1>5. DOMAIN more = {"person"} /\ more.person = LL!MergeMetadata(e.caller, e.remembered)
  OBVIOUS
<1> HIDE DEF x, more
<1>6. LL!With(x, more) = [g \in DOMAIN x \cup DOMAIN more |-> IF g \in DOMAIN x THEN x[g] ELSE more[g]]
  BY DEF LL!With
<1> QED
  BY <1>2, <1>4, <1>5, <1>6 DEF records, run, SentAs

LEMMA LiteLLMSentIsGood ==
  ASSUME asked.provider = "litellm", IsLiteLLMCall(asked), NEW judged, NEW op, op \in {"chat", "embed"}, NEW mf, NEW ms, NEW t,
         \E j \in judged : Covers(j.model, j.dated, mf), \E j \in judged : Covers(j.model, j.dated, ms), CountsRight(op, ms, t)
  PROVE  LET o == LL!send(asked.env, judged, LL!Record(op, mf, LL!NoTokens), LL!Record(op, ms, t)) IN
         Good(o) /\ \A r : Leaves(o, r) => MetaRight(o, r)
<1> DEFINE e == asked.env
           f == LL!Record(op, mf, LL!NoTokens)
           x == asFailedCall(f, e.seam)
           s == LL!Record(op, ms, t)
           run == Metered(e, LL!Judged("", FALSE), f, s)
           o == LL!send(e, judged, f, s)
           more == [meta |-> SentMetadata]
           rx == LL!With(x, more)
           rs == LL!With(s, more)
<1>1. e.blocked \in BOOLEAN /\ e.enabled \in BOOLEAN /\ Recording = e.enabled /\ ~SaidFailed
  BY LiteLLMEnv
<1>2. DOMAIN f = PlainFields /\ f.model = mf /\ f.operation = op
  BY DEF LL!Record, PlainFields
<1>3. DOMAIN s = PlainFields /\ s.what = "succeeded" /\ s.model = ms /\ s.operation = op /\ s.tokens = t
  BY DEF LL!Record, PlainFields
<1> HIDE DEF f, s
<1>4. DOMAIN x = PlainFields /\ x.what = "failed" /\ x.model = mf /\ x.operation = op
  BY <1>2 DEF asFailedCall, PlainFields
<1> HIDE DEF x
<1>5. MetaRecord(rx, "failed", op, mf, x.tokens)
  BY <1>4, WithMeta
<1>6. MetaRecord(rs, "succeeded", op, ms, t)
  BY <1>3, WithMeta
<1>7. /\ o.judged = judged /\ o.requests = run.requests /\ o.got = run.got
      /\ o.person = LL!MergeMetadata(asked.env.caller, asked.env.remembered)
      /\ o.records = IF e.enabled THEN [i \in DOMAIN run.records |-> LL!With(run.records[i], more)] ELSE <<>>
  <2>1. SentAs(o, judged, run)
    BY SendSays
  <2> HIDE DEF o, run
  <2> QED
    BY <2>1 DEF SentAs
<1>8. /\ run.requests \in Nat
      /\ e.blocked => run.records = <<>> /\ run.requests = 0
      /\ ~e.blocked => /\ run.records = <<IF e.seam \in Failures THEN x ELSE s>>
                       /\ run.got = IF e.seam \in Failures THEN "error" ELSE "reply"
                       /\ run.requests = 0 => e.seam \in Failures
  BY <1>1 DEF Metered, Stopped, Left, Failures, x
<1> HIDE DEF run, o, rx, rs, more
<1>9. \A r : r \in {rx, rs} => ~IsPass(r) /\ TokensRight(r) /\ LengthRight(r) /\ \E j \in judged : NamedAs(j, r)
  <2>1. ~IsPass(rx) /\ ~IsPass(rs)
    BY <1>5, <1>6 DEF MetaRecord, PlainFields, IsPass
  <2>2. \A j : Covers(j.model, j.dated, mf) => NamedAs(j, rx)
    BY <1>5 DEF MetaRecord, NamedAs, Covers
  <2>3. \A j : Covers(j.model, j.dated, ms) => NamedAs(j, rs)
    BY <1>6 DEF MetaRecord, NamedAs, Covers
  <2>4. TokensRight(rx) /\ LengthRight(rx)
    BY <1>5 DEF MetaRecord, TokensRight, LengthRight
  <2>5. TokensRight(rs) /\ LengthRight(rs)
    BY <1>6 DEF MetaRecord, TokensRight, LengthRight, CountsRight
  <2> QED
    BY <2>1, <2>2, <2>3, <2>4, <2>5
<1>10. \A r : r \in {rx, rs} => MetaRight(o, r)
  <2>1. \A r : r \in {rx, rs} => r.meta = SentMetadata
    BY <1>5, <1>6 DEF MetaRecord
  <2> QED
    BY <2>1, <1>7, MetadataIsRight
<1>11. CASE e.blocked \/ ~e.enabled
  <2>1. o.records = <<>>
    BY <1>1, <1>7, <1>8, <1>11
  <2>2. o.requests \in Nat /\ (Recording => o.requests = 0)
    BY <1>1, <1>7, <1>8, <1>11
  <2>3. Good(o)
    BY <2>1, <2>2, NoRecord
  <2>4. \A r : ~Leaves(o, r)
    BY <2>1 DEF Leaves
  <2> QED
    BY <2>3, <2>4 DEF o, f, s
<1>12. ASSUME ~e.blocked, e.enabled, NEW r \in {rx, rs}, o.records = <<r>>,
              r.what = "succeeded" <=> o.got = "reply", Unsent(o, r)
       PROVE  Good(o) /\ \A y : Leaves(o, y) => MetaRight(o, y)
  <2>1. ~IsPass(r) /\ TokensRight(r) /\ LengthRight(r) /\ MetaRight(o, r)
    BY <1>9, <1>10
  <2>2. \E j \in o.judged : NamedAs(j, r)
    BY <1>7, <1>9
  <2>3. o.requests \in Nat
    BY <1>7, <1>8
  <2>4. Good(o)
    BY <2>1, <2>2, <2>3, <1>1, <1>12, OneRecord
  <2>5. \A y : Leaves(o, y) => y = r
    BY <1>12, OneElement DEF Leaves
  <2> QED
    BY <2>1, <2>4, <2>5
<1>13. CASE ~e.blocked /\ e.enabled /\ e.seam \in Failures
  <2>1. o.records = <<rx>> /\ o.got = "error"
    BY <1>7, <1>8, <1>13 DEF rx
  <2>2. rx.what = "failed"
    BY <1>5 DEF MetaRecord
  <2>3. Unsent(o, rx)
    BY <2>1, <2>2 DEF Unsent
  <2> QED
    BY <2>1, <2>2, <2>3, <1>12, <1>13 DEF o, f, s
<1>14. CASE ~e.blocked /\ e.enabled /\ e.seam \notin Failures
  <2>1. o.records = <<rs>> /\ o.got = "reply"
    BY <1>7, <1>8, <1>14 DEF rs
  <2>2. rs.what = "succeeded"
    BY <1>6 DEF MetaRecord
  <2>3. Unsent(o, rs)
    BY <1>7, <1>8, <1>14 DEF Unsent
  <2> QED
    BY <2>1, <2>2, <2>3, <1>12, <1>14 DEF o, f, s
<1> QED
  BY <1>1, <1>11, <1>13, <1>14

(* Whichever name the record of a LiteLLM call carries, it is one of a route   *)
(* the rules were asked about, or a dated snapshot of one that serves those.   *)
LiteLLMModel == LL!recordedModel(LL!AnswerModel(asked.env), asked.env.route, LL!servedDeployment(asked.env), LL!group(asked.env))
JudgedFor(family) == \E j \in LL!checkCostControls(asked.env) : Covers(j.model, j.dated, family)
LEMMA RouteIsJudged ==
  ASSUME NEW r \in LL!costControlModels(asked.env), r.family # "catalog" PROVE JudgedFor(r.family)
<1> DEFINE j == LL!judgedAs(r, TRUE)
<1>1. j \in LL!checkCostControls(asked.env)
  BY DEF LL!checkCostControls
<1>2. j.model = r.family
  BY DEF LL!judgedAs, LL!Judged, LL!ExtractModelName
<1> HIDE DEF j
<1>3. Covers(j.model, j.dated, r.family)
  BY <1>2 DEF Covers, Spelling
<1> QED
  BY <1>1, <1>3 DEF JudgedFor
LEMMA SnapshotIsJudged ==
  ASSUME NEW r \in LL!costControlModels(asked.env), LL!servesDatedSnapshots(r), r.family \in {"gpt", "claude"}
  PROVE  JudgedFor(IF r.family = "gpt" THEN "gpt dated" ELSE "claude dated")
<1> DEFINE j == LL!judgedAs(r, TRUE)
           n == IF r.family = "gpt" THEN "gpt dated" ELSE "claude dated"
<1>1. j \in LL!checkCostControls(asked.env)
  BY DEF LL!checkCostControls
<1>2. j.model = r.family /\ j.dated = LL!servesDatedSnapshots(r)
  BY DEF LL!judgedAs, LL!Judged, LL!ExtractModelName
<1> HIDE DEF j
<1>3. n = DatedName(r.family) /\ Spelling(n) = n
  BY DEF DatedName, Spelling
<1> HIDE DEF n
<1>4. Covers(j.model, j.dated, n)
  BY <1>2, <1>3 DEF Covers
<1>5. JudgedFor(n)
  BY <1>1, <1>4 DEF JudgedFor
<1> QED
  BY <1>5 DEF n

LEMMA LiteLLMRoutes ==
  ASSUME asked.provider = "litellm", IsLiteLLMCall(asked)
  PROVE  /\ asked.env.route \in LL!costControlModels(asked.env) /\ asked.env.by \in LL!costControlModels(asked.env)
         /\ asked.env.routed \subseteq LL!costControlModels(asked.env)
         /\ \A r \in LL!costControlModels(asked.env) : r \in LL!Routes /\ r.family # "catalog"
  BY DEF IsLiteLLMCall, LL!costControlModels, LL!Routes, LL!Families

LEMMA LiteLLMCardinality == ASSUME NEW S PROVE LL!Cardinality(S) = Cardinality(S)
  BY DEF LL!Cardinality, Cardinality
LEMMA DeploymentIsJudged ==
  ASSUME asked.provider = "litellm", IsLiteLLMCall(asked), LL!servedDeployment(asked.env) # LL!NoRoute
  PROVE  LL!servedDeployment(asked.env) \in LL!costControlModels(asked.env)
<1> DEFINE e == asked.env
           only == CHOOSE r \in e.routed : TRUE
<1>1. e.by \in LL!costControlModels(e) /\ e.routed \subseteq LL!costControlModels(e)
      /\ e.named \in BOOLEAN /\ e.byId \in BOOLEAN /\ e.grouped \in BOOLEAN
  BY LiteLLMRoutes, LiteLLMEnv
<1>2. Cardinality(e.routed) = 1 => only \in e.routed
  <2>1. e.routed = {} => Cardinality(e.routed) = 0
    BY FS_EmptySet
  <2>2. e.routed # {} => only \in e.routed
    OBVIOUS
  <2> QED
    BY <2>1, <2>2
<1> HIDE DEF only
<1>5. LL!Cardinality(e.routed) = Cardinality(e.routed)
  BY LiteLLMCardinality
<1>3. CASE e.named
  BY <1>1, <1>3 DEF LL!servedDeployment
<1>4. CASE ~e.named
  <2>1. LL!servedDeployment(e) = LL!deployment(e)
    BY <1>4 DEF LL!servedDeployment
  <2>2. CASE e.byId
    BY <2>1, <2>2, <1>1 DEF LL!deployment
  <2>3. CASE ~e.byId /\ e.grouped /\ Cardinality(e.routed) = 1
    <3>1. LL!deployment(e) = only
      BY <1>1, <1>5, <2>3 DEF LL!deployment, only
    <3> QED
      BY <3>1, <2>1, <2>3, <1>1, <1>2
  <2>4. CASE ~e.byId /\ ~(e.grouped /\ Cardinality(e.routed) = 1)
    <3>1. LL!deployment(e) = LL!NoRoute
      BY <1>1, <1>5, <2>4 DEF LL!deployment
    <3> QED
      BY <3>1, <2>1
  <2> QED
    BY <2>2, <2>3, <2>4, <1>1
<1> QED
  BY <1>1, <1>3, <1>4

LEMMA LiteLLMModelIsJudged ==
  ASSUME asked.provider = "litellm", IsLiteLLMCall(asked)
  PROVE  JudgedFor(LL!ExtractModelName(LiteLLMModel))
<1> DEFINE e == asked.env
           answer == LL!AnswerModel(e)
           deployed == LL!servedDeployment(e)
           grouped == LL!group(e)
           m == LL!recordedModel(answer, e.route, deployed, grouped)
<1>1. /\ e.route \in LL!costControlModels(e) /\ e.by \in LL!costControlModels(e) /\ e.by \in LL!Routes
      /\ \A r \in LL!costControlModels(e) : r.family # "catalog"
  BY LiteLLMRoutes
<1>2. \A r \in LL!costControlModels(e) : JudgedFor(r.family)
  BY <1>1, RouteIsJudged
<1>3. /\ e.answer \in {"none", "echo", "model", "snapshot"}
      /\ e.answer = "snapshot" => LL!servesDatedSnapshots(e.by) /\ e.by.family \in {"gpt", "claude"}
  BY DEF IsLiteLLMCall
<1>4. /\ e.answer = "none" => answer = LL!NoRoute
      /\ e.answer = "echo" => answer = e.route
      /\ e.answer = "model" => answer.family = e.by.family
      /\ e.answer = "snapshot" => answer.family = IF e.by.family = "gpt" THEN "gpt dated" ELSE "claude dated"
  BY <1>1 DEF LL!AnswerModel, LL!Routes
<1>5. answer # LL!NoRoute => JudgedFor(answer.family)
  <2>1. CASE e.answer = "echo"
    BY <2>1, <1>1, <1>2, <1>4
  <2>2. CASE e.answer = "model"
    BY <2>2, <1>1, <1>2, <1>4
  <2>3. CASE e.answer = "snapshot"
    <3>1. JudgedFor(IF e.by.family = "gpt" THEN "gpt dated" ELSE "claude dated")
      BY <2>3, <1>1, <1>3, SnapshotIsJudged
    <3> QED
      BY <2>3, <3>1, <1>4
  <2> QED
    BY <2>1, <2>2, <2>3, <1>3, <1>4
<1>6. deployed # LL!NoRoute => JudgedFor(deployed.family)
  BY <1>2, DeploymentIsJudged
<1>7. JudgedFor(e.route.family)
  BY <1>1, <1>2
<1> HIDE DEF answer, deployed, grouped
<1>8. (m = answer /\ answer # LL!NoRoute) \/ (m = deployed /\ deployed # LL!NoRoute) \/ m = e.route
  BY DEF LL!recordedModel
<1> HIDE DEF m
<1>9. JudgedFor(m.family)
  BY <1>5, <1>6, <1>7, <1>8
<1> QED
  BY <1>9 DEF LiteLLMModel, LL!ExtractModelName, m, answer, deployed, grouped

(* What a usage block tells, wherever its writes are put, is what was used.    *)
UsageIs(c, use) ==
  /\ c = [prompt |-> c.prompt, completion |-> c.completion, total |-> c.total, thought |-> c.thought, read |-> c.read, write |-> c.write]
  /\ c.prompt = use.fresh + use.read + use.write /\ c.completion = use.text + use.thought
  /\ c.total = use.fresh + use.read + use.write + use.text + use.thought
  /\ c.thought = use.thought /\ c.read = use.read /\ c.write = use.write
SomePlaceHas(n, x, y, z, some) ==
  /\ x \in {0, n} /\ y \in {0, n} /\ z \in {0, n}
  /\ n \in {x, y, z} /\ (some \/ y = n)
LEMMA WritesAreFound ==
  ASSUME NEW n \in Nat, NEW x, NEW y, NEW z, NEW some \in BOOLEAN, SomePlaceHas(n, x, y, z, some)
  PROVE  LL!CacheCreationTokenCount(x, y, z, some) = n
  BY DEF LL!CacheCreationTokenCount, SomePlaceHas
LEMMA CountedSays ==
  ASSUME NEW use \in Amounts, NEW places \in SUBSET {"details", "flat", "details write"}, places # {}
  PROVE  UsageIs(LL!Counted(use, places), use)
<1> DEFINE inDetails == IF "details" \in places THEN use.write ELSE 0
           flat == IF "flat" \in places THEN use.write ELSE 0
           cacheWrite == IF "details write" \in places THEN use.write ELSE 0
           details == places \ {"flat"} # {} \/ use.read > 0
           c == LL!Counted(use, places)
           write == LL!CacheCreationTokenCount(inDetails, flat, cacheWrite, details)
<1>1. use.write \in Nat /\ use.read \in Nat
  BY DEF Amounts
<1>2. write = use.write
  <2>1. inDetails \in {0, use.write} /\ flat \in {0, use.write} /\ cacheWrite \in {0, use.write}
    OBVIOUS
  <2>2. details \in BOOLEAN
    OBVIOUS
  <2>3. use.write \in {inDetails, flat, cacheWrite}
    OBVIOUS
  <2>4. details \/ flat = use.write
    <3>1. CASE "flat" \in places
      BY <3>1
    <3>2. CASE "flat" \notin places
      <4>1. places \ {"flat"} = places
        BY <3>2
      <4> QED
        BY <4>1
    <3> QED
      BY <3>1, <3>2
  <2> HIDE DEF inDetails, flat, cacheWrite, details
  <2>5. SomePlaceHas(use.write, inDetails, flat, cacheWrite, details)
    BY <2>1, <2>3, <2>4 DEF SomePlaceHas
  <2> QED
    BY <1>1, <2>2, <2>5, WritesAreFound
<1>3. c = [LL!Reported(use) EXCEPT !.write = write]
  BY DEF LL!Counted
<1> HIDE DEF write
<1>4. c = [prompt |-> use.fresh + use.read + use.write, completion |-> use.text + use.thought,
           total |-> use.fresh + use.read + use.write + use.text + use.thought,
           thought |-> use.thought, read |-> use.read, write |-> use.write]
  BY <1>2, <1>3 DEF LL!Reported
<1> HIDE DEF c
<1>5. UsageIs(c, use)
  BY <1>4 DEF UsageIs
<1> QED
  BY <1>5 DEF c

(* A chat record bills what was used, by the name it carries. *)
LEMMA LiteLLMTokens ==
  ASSUME asked.provider = "litellm", IsLiteLLMCall(asked), NEW model, NEW c, UsageIs(c, asked.env.use)
  PROVE  LET t == LL!tokensOf(model, c) IN
         [in |-> t.in, out |-> t.out, write |-> t.write, read |-> t.read] = BilledAs(asked.env.use, model.family)
<1> DEFINE use == asked.env.use
           t == LL!tokensOf(model, c)
           in == LL!billableInputTokens(model, c.prompt, c.read, c.write)
<1>1. use \in Amounts
  BY LiteLLMEnv
<1>2. BilledAs(use, model.family) = [in |-> use.fresh + IF model.family \in LL!ClaudeNames THEN 0 ELSE use.read + use.write,
         out |-> use.text + use.thought, write |-> use.write, read |-> use.read]
  BY DEF BilledAs
<1> HIDE DEF use
<1>3. PICK fresh \in Nat, read \in Nat, write \in Nat, text \in Nat, thought \in Nat :
        fresh = use.fresh /\ read = use.read /\ write = use.write /\ text = use.text /\ thought = use.thought
  BY <1>1 DEF Amounts
<1>4. c.prompt = fresh + read + write /\ c.completion = text + thought /\ c.read = read /\ c.write = write
  BY <1>3 DEF UsageIs, use
<1>5. in = fresh + IF model.family \in LL!ClaudeNames THEN 0 ELSE read + write
  <2>1. LL!cacheOverlapLeftToClient(model) <=> model.family \in LL!ClaudeNames
    BY DEF LL!cacheOverlapLeftToClient
  <2>2. CASE model.family \in LL!ClaudeNames
    BY <1>4, <2>1, <2>2 DEF LL!billableInputTokens
  <2>3. CASE model.family \notin LL!ClaudeNames
    BY <1>4, <2>1, <2>3 DEF LL!billableInputTokens
  <2> QED
    BY <2>2, <2>3
<1>6. t = LL!Tokens(in, c.completion, c.total, c.thought, c.write, c.read)
  BY DEF LL!tokensOf
<1> HIDE DEF in, t
<1>7. t.in = in /\ t.out = c.completion /\ t.write = c.write /\ t.read = c.read
  BY <1>6 DEF LL!Tokens
<1>8. [in |-> t.in, out |-> t.out, write |-> t.write, read |-> t.read] = BilledAs(use, model.family)
  BY <1>2, <1>3, <1>4, <1>5, <1>7
<1> QED
  BY <1>8 DEF t, use

LEMMA LiteLLMUse ==
  ASSUME asked.provider = "litellm", IsLiteLLMCall(asked)
  PROVE  UsageIs(LL!Counted(asked.env.use, asked.env.places), asked.env.use)
<1>1. asked.env.use \in Amounts
  BY LiteLLMEnv
<1>2. asked.env.places \subseteq {"details", "flat", "details write"} /\ asked.env.places # {}
  BY DEF IsLiteLLMCall
<1>3. asked.env.places # {} /\ asked.env.places \in SUBSET {"details", "flat", "details write"}
  BY <1>2
<1> QED
  BY <1>1, <1>3, CountedSays

LEMMA LiteLLMChatCounts ==
  ASSUME asked.provider = "litellm", IsLiteLLMCall(asked), NEW model, NEW c, UsageIs(c, asked.env.use), NEW op
  PROVE  CountsRight(op, LL!ExtractModelName(model), LL!tokensOf(model, c))
<1>1. LL!ExtractModelName(model) = model.family
  BY DEF LL!ExtractModelName
<1> DEFINE t == LL!tokensOf(model, c)
<1>2. [in |-> t.in, out |-> t.out, write |-> t.write, read |-> t.read] = BilledAs(asked.env.use, model.family)
  BY LiteLLMTokens
<1> HIDE DEF t
<1>3. CountsRight(op, model.family, t)
  BY <1>2 DEF CountsRight
<1> QED
  BY <1>1, <1>3 DEF t

LiteLLMGood(o) == Good(o) /\ \A r : Leaves(o, r) => MetaRight(o, r)
LEMMA LiteLLMChatIsGood ==
  ASSUME asked.provider = "litellm", IsLiteLLMCall(asked), NEW c, UsageIs(c, asked.env.use)
  PROVE  LiteLLMGood(LL!send(asked.env, LL!checkCostControls(asked.env), LL!failedCallRecord("chat", asked.env),
                     LL!Record("chat", LL!ExtractModelName(LiteLLMModel), LL!tokensOf(LiteLLMModel, c))))
<1> DEFINE j == LL!checkCostControls(asked.env)
           mf == LL!ExtractModelName(asked.env.route)
           ms == LL!ExtractModelName(LiteLLMModel)
           t == LL!tokensOf(LiteLLMModel, c)
<1>1. LL!failedCallRecord("chat", asked.env) = LL!Record("chat", mf, LL!NoTokens)
  BY DEF LL!failedCallRecord
<1>2. JudgedFor(ms)
  BY LiteLLMModelIsJudged
<1>3. JudgedFor(mf)
  <2>1. JudgedFor(asked.env.route.family)
    BY LiteLLMRoutes, RouteIsJudged
  <2> QED
    BY <2>1 DEF LL!ExtractModelName
<1>4. CountsRight("chat", ms, t)
  BY LiteLLMChatCounts
<1>5. (\E x \in j : Covers(x.model, x.dated, mf)) /\ (\E x \in j : Covers(x.model, x.dated, ms))
  BY <1>2, <1>3 DEF JudgedFor
<1> HIDE DEF j, mf, ms, t
<1>6. LiteLLMGood(LL!send(asked.env, j, LL!Record("chat", mf, LL!NoTokens), LL!Record("chat", ms, t)))
  BY <1>4, <1>5, LiteLLMSentIsGood DEF LiteLLMGood
<1> QED
  BY <1>1, <1>6 DEF j, ms, t

LEMMA CompletionsAreGood ==
  ASSUME asked.provider = "litellm", IsLiteLLMCall(asked) PROVE LiteLLMGood(LL!completionsNew(asked.env))
<1> DEFINE c == LL!Counted(asked.env.use, asked.env.places)
<1>1. UsageIs(c, asked.env.use)
  BY LiteLLMUse
<1>2. LL!completionRecord(asked.env) = LL!Record("chat", LL!ExtractModelName(LiteLLMModel), LL!tokensOf(LiteLLMModel, c))
  BY DEF LL!completionRecord, LiteLLMModel
<1>3. LL!completionsNew(asked.env) = LL!send(asked.env, LL!checkCostControls(asked.env), LL!failedCallRecord("chat", asked.env),
                     LL!Record("chat", LL!ExtractModelName(LiteLLMModel), LL!tokensOf(LiteLLMModel, c)))
  BY <1>2 DEF LL!completionsNew
<1> HIDE DEF c
<1> QED
  BY <1>1, <1>3, LiteLLMChatIsGood

LEMMA EmbeddingsNewIsGood ==
  ASSUME asked.provider = "litellm", IsLiteLLMCall(asked) PROVE LiteLLMGood(LL!embeddingsNew(asked.env))
<1> DEFINE j == LL!checkEmbeddingCostControls(asked.env)
           mf == LL!ExtractModelName(asked.env.route)
           u == LL!Reported(asked.env.use)
           t == [LL!NoTokens EXCEPT !.in = u.prompt, !.total = u.total]
<1>1. LL!embeddingsNew(asked.env) = LL!send(asked.env, j, LL!Record("embed", mf, LL!NoTokens), LL!Record("embed", mf, t))
  BY DEF LL!embeddingsNew, LL!failedCallRecord
<1>2. mf = asked.env.route.family /\ mf # "catalog"
  BY LiteLLMRoutes DEF LL!ExtractModelName
<1>3. \E x \in j : Covers(x.model, x.dated, mf)
  <2> DEFINE y == LL!judgedAs(asked.env.route, FALSE)
  <2>1. y \in j
    BY DEF LL!checkEmbeddingCostControls
  <2>2. y.model = mf
    BY DEF LL!judgedAs, LL!Judged
  <2> HIDE DEF y, mf, j
  <2>3. Covers(y.model, y.dated, mf)
    BY <1>2, <2>2 DEF Covers, Spelling
  <2> QED
    BY <2>1, <2>3
<1> HIDE DEF j, mf, t
<1>4. CountsRight("embed", mf, t)
  BY DEF CountsRight
<1>5. LiteLLMGood(LL!send(asked.env, j, LL!Record("embed", mf, LL!NoTokens), LL!Record("embed", mf, t)))
  BY <1>3, <1>4, LiteLLMSentIsGood DEF LiteLLMGood
<1> QED
  BY <1>1, <1>5

(* One chunk with the whole usage leaves the stream with that usage. *)
StreamOf(s, of) == s.env = of.env /\ s.served = of.served /\ UsageIs(s.usage, of.use) /\ s.err = ""
LEMMA ChunkUsage ==
  ASSUME NEW use \in Amounts, NEW u, UsageIs(u, use), NEW env, NEW served, NEW s1,
         s1 = LL!processChunkData(LL!proxyStreamOpened(env), [choices |-> [i \in {0} |-> "stop"], output |-> TRUE, served |-> served, usage |-> u], 1)
  PROVE  StreamOf(s1, [env |-> env, served |-> served, use |-> use])
<1> DEFINE s == LL!proxyStreamOpened(env)
           chunk == [choices |-> [i \in {0} |-> "stop"], output |-> TRUE, served |-> served, usage |-> u]
           some == u.prompt + u.completion > 0
           z == s.usage
           kept(new, old) == IF new > 0 THEN new ELSE old
           g == [prompt |-> IF some THEN u.prompt ELSE z.prompt,
                 completion |-> IF some THEN u.completion ELSE z.completion,
                 total |-> IF some THEN u.total ELSE z.total,
                 thought |-> IF some THEN kept(u.thought, z.thought) ELSE z.thought,
                 read |-> kept(u.read, z.read), write |-> kept(u.write, z.write)]
<1>1. s = [env |-> env, usage |-> LL!NoReport, served |-> LL!NoRoute, finish |-> "", first |-> 0, done |-> FALSE, err |-> ""]
  BY DEF LL!proxyStreamOpened
<1>2. z.prompt = 0 /\ z.completion = 0 /\ z.total = 0 /\ z.thought = 0 /\ z.read = 0 /\ z.write = 0
  <2>1. z = LL!NoReport
    BY DEF LL!proxyStreamOpened
  <2>2. LL!NoReport = LL!Reported(LL!Nothing)
    BY DEF LL!NoReport
  <2>3. /\ LL!Nothing.fresh = 0 /\ LL!Nothing.read = 0 /\ LL!Nothing.write = 0
        /\ LL!Nothing.text = 0 /\ LL!Nothing.thought = 0
    BY DEF LL!Nothing
  <2> DEFINE n == LL!Reported(LL!Nothing)
  <2>4. n.prompt = 0 /\ n.completion = 0 /\ n.total = 0 /\ n.thought = 0 /\ n.read = 0 /\ n.write = 0
    BY <2>3 DEF LL!Reported
  <2> HIDE DEF n, z
  <2> QED
    BY <2>1, <2>2, <2>4 DEF n
<1>3. chunk.served = served /\ chunk.usage = u /\ chunk.choices = [i \in {0} |-> "stop"] /\ chunk.output = TRUE
  OBVIOUS
<1>4. PICK fresh \in Nat, read \in Nat, write \in Nat, text \in Nat, thought \in Nat :
        fresh = use.fresh /\ read = use.read /\ write = use.write /\ text = use.text /\ thought = use.thought
  BY DEF Amounts
<1>5. /\ u.prompt = fresh + read + write /\ u.completion = text + thought
      /\ u.total = fresh + read + write + text + thought /\ u.thought = thought /\ u.read = read /\ u.write = write
  BY <1>4 DEF UsageIs
<1> HIDE DEF z, s, chunk
<1>6. /\ g.prompt = fresh + read + write /\ g.completion = text + thought
      /\ g.total = fresh + read + write + text + thought /\ g.thought = thought /\ g.read = read /\ g.write = write
  <2>1. g.read = read /\ g.write = write
    BY <1>2, <1>5
  <2>2. CASE some
    BY <1>2, <1>5, <2>1, <2>2
  <2>3. CASE ~some
    BY <1>2, <1>5, <2>1, <2>3
  <2> QED
    BY <2>2, <2>3
<1>7. DOMAIN g = {"prompt", "completion", "total", "thought", "read", "write"}
  OBVIOUS
<1>8. /\ s1.env = s.env /\ s1.err = s.err
      /\ s1.served = IF s.served = LL!NoRoute THEN chunk.served ELSE s.served
      /\ s1.usage = [prompt |-> IF some THEN u.prompt ELSE z.prompt,
                 completion |-> IF some THEN u.completion ELSE z.completion,
                 total |-> IF some THEN u.total ELSE z.total,
                 thought |-> IF some THEN kept(u.thought, z.thought) ELSE z.thought,
                 read |-> kept(u.read, z.read), write |-> kept(u.write, z.write)]
  BY <1>1, <1>3 DEF LL!processChunkData, z, s, chunk
<1>9. s1.usage = g
  BY <1>8
<1>11. g = [prompt |-> g.prompt, completion |-> g.completion, total |-> g.total, thought |-> g.thought, read |-> g.read, write |-> g.write]
  OBVIOUS
<1> HIDE DEF g
<1>10. UsageIs(g, use)
  BY <1>4, <1>6, <1>11 DEF UsageIs
<1> QED
  BY <1>1, <1>3, <1>8, <1>9, <1>10 DEF StreamOf

LEMMA StreamingIsGood ==
  ASSUME asked.provider = "litellm", IsLiteLLMCall(asked) PROVE LiteLLMGood(LL!newStreaming(asked.env))
<1> DEFINE e == asked.env
           c == LL!Counted(e.use, e.places)
           more == [deployment |-> LL!servedDeployment(e), group |-> LL!group(e)]
           env == LL!With(e, more)
           s1 == LL!processChunkData(LL!proxyStreamOpened(env),
                   [choices |-> [i \in {0} |-> "stop"], output |-> TRUE, served |-> LL!AnswerModel(e), usage |-> c], 1)
<1>1. UsageIs(c, e.use) /\ e.use \in Amounts
  BY LiteLLMUse, LiteLLMEnv
<1>2. LL!newStreaming(e) = LL!send(e, LL!checkCostControls(e), LL!failedCallRecord("chat", e), LL!proxyStreamRecord(s1))
  BY DEF LL!newStreaming
<1>3. DOMAIN more = {"deployment", "group"} /\ more.deployment = LL!servedDeployment(e) /\ more.group = LL!group(e)
  OBVIOUS
<1> HIDE DEF more
<1>4. env = [f \in DOMAIN e \cup DOMAIN more |-> IF f \in DOMAIN e THEN e[f] ELSE more[f]]
  BY DEF LL!With
<1>5. DOMAIN e = LiteLLMFields
  BY DEF IsLiteLLMCall
<1>6. env.route = e.route /\ env.deployment = LL!servedDeployment(e) /\ env.group = LL!group(e)
  BY <1>3, <1>4, <1>5 DEF LiteLLMFields
<1> HIDE DEF env, c
<1> DEFINE of == [env |-> env, served |-> LL!AnswerModel(e), use |-> e.use]
<1>7. StreamOf(s1, of)
  BY <1>1, ChunkUsage
<1> HIDE DEF s1
<1>8. s1.env = env /\ s1.served = LL!AnswerModel(e) /\ UsageIs(s1.usage, e.use) /\ s1.err = ""
  BY <1>7 DEF StreamOf
<1>9. LL!recordedModel(s1.served, s1.env.route, s1.env.deployment, s1.env.group) = LiteLLMModel
  BY <1>6, <1>8 DEF LiteLLMModel
<1>10. LL!proxyStreamRecord(s1) = LL!Record("chat", LL!ExtractModelName(LiteLLMModel), LL!tokensOf(LiteLLMModel, s1.usage))
  BY <1>8, <1>9 DEF LL!proxyStreamRecord
<1> QED
  BY <1>2, <1>8, <1>10, LiteLLMChatIsGood

LEMMA LiteLLMCallIsGood ==
  ASSUME asked.provider = "litellm", IsLiteLLMCall(asked) PROVE LiteLLMGood(Outcome(asked))
<1>1. Outcome(asked) = LL!Call(asked.entry, asked.env)
  BY OutcomeOfProvider
<1>2. asked.entry \in {"chat", "stream", "embeddings"}
  BY LiteLLMEnv DEF LL!Entries
<1> QED
  BY <1>1, <1>2, CompletionsAreGood, StreamingIsGood, EmbeddingsNewIsGood DEF LL!Call

(* ------------------------------- Anthropic -------------------------------- *)
(* The rank of an element of a set of numbers, and the element of a rank, by   *)
(* which a turn's billed passes are laid out after the turn itself.            *)
Rank(I, i) == Cardinality({j \in I : j <= i})
Ranked(I, n) == CHOOSE i \in I : Rank(I, i) = n
LEMMA RankGrows ==
  ASSUME NEW I \in SUBSET Nat, IsFiniteSet(I)
  PROVE  /\ \A i \in I : Rank(I, i) \in 1 .. Cardinality(I)
         /\ \A i, j \in I : i < j => Rank(I, i) < Rank(I, j)
<1>1. Cardinality(I) \in Nat
  BY FS_CardinalityType
<1>2. ASSUME NEW i \in I PROVE Rank(I, i) \in 1 .. Cardinality(I)
  <2> DEFINE below == {j \in I : j <= i}
  <2>1. IsFiniteSet(below) /\ Cardinality(below) <= Cardinality(I)
    BY FS_Subset
  <2>2. Cardinality(below) \in Nat
    BY <2>1, FS_CardinalityType
  <2>3. i \in below
    OBVIOUS
  <2>4. Cardinality(below) # 0
    BY <2>1, <2>3, FS_EmptySet
  <2> HIDE DEF below
  <2>5. Cardinality(below) \in 1 .. Cardinality(I)
    BY <1>1, <2>1, <2>2, <2>4
  <2> QED
    BY <2>5 DEF Rank, below
<1>3. ASSUME NEW i \in I, NEW j \in I, i < j PROVE Rank(I, i) < Rank(I, j)
  <2> DEFINE low == {k \in I : k <= i}
             high == {k \in I : k <= j}
  <2>1. IsFiniteSet(high)
    BY FS_Subset
  <2>2. low \in SUBSET high /\ j \in high /\ j \notin low
    <3>1. i \in Nat /\ j \in Nat /\ \A k \in I : k \in Nat
      OBVIOUS
    <3>2. \A k \in I : k <= i => k <= j
      BY <1>3, <3>1
    <3>3. ~(j <= i)
      BY <1>3, <3>1
    <3>4. low \in SUBSET high
      BY <3>2
    <3> QED
      BY <3>3, <3>4
  <2> HIDE DEF low, high
  <2>3. IsFiniteSet(low) /\ Cardinality(low) <= Cardinality(high) /\ Cardinality(low) # Cardinality(high)
    BY <2>1, <2>2, FS_Subset
  <2>4. Cardinality(low) \in Nat /\ Cardinality(high) \in Nat
    BY <2>1, <2>3, FS_CardinalityType
  <2>5. Cardinality(low) < Cardinality(high)
    BY <2>3, <2>4
  <2> QED
    BY <2>5 DEF Rank, low, high
<1> QED
  BY <1>2, <1>3
LEMMA RankedIsInverse ==
  ASSUME NEW I \in SUBSET Nat, IsFiniteSet(I)
  PROVE  /\ \A k \in 1 .. Cardinality(I) : Ranked(I, k) \in I /\ Rank(I, Ranked(I, k)) = k
         /\ \A i \in I : Ranked(I, Rank(I, i)) = i
<1> DEFINE n == Cardinality(I)
           rank == [i \in I |-> Rank(I, i)]
<1>1. n \in Nat
  BY FS_CardinalityType
<1>2. rank \in [I -> 1 .. n]
  BY RankGrows
<1>3. ASSUME NEW i \in I, NEW j \in I, Rank(I, i) = Rank(I, j) PROVE i = j
  <2>1. i \in Nat /\ j \in Nat
    OBVIOUS
  <2>2. Rank(I, i) \in 1 .. n /\ Rank(I, j) \in 1 .. n
    BY RankGrows
  <2>3. ~(i < j) /\ ~(j < i)
    BY <1>1, <1>3, <2>2, RankGrows
  <2> QED
    BY <2>1, <2>3
<1>4. rank \in Injection(I, 1 .. n)
  BY <1>2, <1>3 DEF Injection, IsInjective
<1>5. IsFiniteSet(1 .. n) /\ Cardinality(1 .. n) = n
  BY <1>1, FS_Interval
<1>6. rank \in Surjection(I, 1 .. n)
  BY <1>4, <1>5, FS_Injection
<1>7. \A k \in 1 .. n : \E i \in I : Rank(I, i) = k
  BY <1>6 DEF Surjection
<1>8. ASSUME NEW k \in 1 .. n PROVE Ranked(I, k) \in I /\ Rank(I, Ranked(I, k)) = k
  <2>1. PICK i \in I : Rank(I, i) = k
    BY <1>7
  <2> QED
    BY <2>1 DEF Ranked, Rank
<1>9. ASSUME NEW i \in I PROVE Ranked(I, Rank(I, i)) = i
  <2>1. Rank(I, i) \in 1 .. n
    BY RankGrows
  <2>2. Ranked(I, Rank(I, i)) \in I /\ Rank(I, Ranked(I, Rank(I, i))) = Rank(I, i)
    BY <1>8, <2>1
  <2> QED
    BY <1>3, <2>2
<1> QED
  BY <1>8, <1>9

(* As many values as places, when no two places hold the same one.             *)
LEMMA DistinctValues ==
  ASSUME NEW S, IsFiniteSet(S), NEW f, DOMAIN f = S, f = [i \in S |-> f[i]],
         \A i, j \in S : f[i] = f[j] => i = j
  PROVE  Cardinality({f[k] : k \in S}) = Cardinality(S)
<1> DEFINE T == {f[k] : k \in S}
<1>1. f \in [S -> T]
  OBVIOUS
<1>2. f \in Injection(S, T)
  BY <1>1 DEF Injection, IsInjective
<1>3. f \in Surjection(S, T)
  BY <1>1 DEF Surjection
<1>4. ExistsBijection(S, T)
  BY <1>2, <1>3 DEF ExistsBijection, Bijection
<1> HIDE DEF T
<1>5. Cardinality(T) = Cardinality(S)
  BY <1>4, FS_Bijection
<1> QED
  BY <1>5 DEF T

LEMMA AnthropicCardinality == ASSUME NEW S PROVE AN!Cardinality(S) = Cardinality(S)
  BY Zenon DEF AN!Cardinality, Cardinality

(* What a turn's records are: its own, and one for each billed pass.           *)
TurnFields == PlainFields \cup {"id", "key", "pass", "parent"}
TurnRecord(r, main) ==
  /\ DOMAIN r = TurnFields /\ r.what = main.what /\ r.operation = main.operation /\ r.model = main.model
  /\ r.tokens = main.tokens /\ r.id = <<"call">> /\ r.key = asked.env.key /\ r.pass = 0 /\ r.parent = FALSE
PassRecord(r, its, i) ==
  /\ DOMAIN r = TurnFields /\ r.what = "succeeded" /\ r.operation = its[i].kind /\ r.tokens = its[i].tokens
  /\ r.id = <<"call", i>> /\ r.key = (IF asked.env.key = <<>> THEN <<"call", i>> ELSE <<"key", i>>)
  /\ r.pass = i /\ r.parent = TRUE
TurnRecords(recs, main, its, billed) ==
  /\ recs \in Seq({recs[i] : i \in DOMAIN recs})
  /\ Len(recs) = 1 + Cardinality(billed) /\ DOMAIN recs = 1 .. 1 + Cardinality(billed)
  /\ TurnRecord(recs[1], main)
  /\ \A n \in 1 .. Cardinality(billed) : PassRecord(recs[n + 1], its, Ranked(billed, n))

LEMMA MainRecord ==
  ASSUME NEW env, env.key = asked.env.key, NEW main, DOMAIN main = PlainFields
  PROVE  LET m == AN!identified(env, main) IN
         /\ m.id = <<"call">> /\ m.key = asked.env.key
         /\ TurnRecord(AN!With(m, [pass |-> 0, parent |-> FALSE]), main)
<1> DEFINE more == [id |-> <<"call">>, key |-> env.key]
           m == AN!identified(env, main)
           last == [pass |-> 0, parent |-> FALSE]
           r == AN!With(m, last)
<1>1. DOMAIN more = {"id", "key"} /\ more.id = <<"call">> /\ more.key = asked.env.key
  OBVIOUS
<1>2. m = AN!With(main, more)
  BY DEF AN!identified
<1> HIDE DEF more
<1>9. AN!With(main, more) = [f \in DOMAIN main \cup DOMAIN more |-> IF f \in DOMAIN main THEN main[f] ELSE more[f]]
  BY DEF AN!With
<1>3. /\ DOMAIN m = PlainFields \cup {"id", "key"}
      /\ \A f \in DOMAIN m : m[f] = IF f \in PlainFields THEN main[f] ELSE more[f]
  BY <1>1, <1>2, <1>9
<1>4. /\ m.what = main.what /\ m.operation = main.operation /\ m.model = main.model /\ m.tokens = main.tokens
      /\ m.id = <<"call">> /\ m.key = asked.env.key
  BY <1>1, <1>3 DEF PlainFields
<1>5. DOMAIN last = {"pass", "parent"} /\ last.pass = 0 /\ last.parent = FALSE
  OBVIOUS
<1> HIDE DEF last, m
<1>10. AN!With(m, last) = [f \in DOMAIN m \cup DOMAIN last |-> IF f \in DOMAIN m THEN m[f] ELSE last[f]]
  BY DEF AN!With
<1>6. /\ DOMAIN r = TurnFields
      /\ \A f \in DOMAIN r : r[f] = IF f \in DOMAIN m THEN m[f] ELSE last[f]
  BY <1>3, <1>5, <1>10 DEF TurnFields
<1> HIDE DEF r
<1>7. /\ r.what = m.what /\ r.operation = m.operation /\ r.model = m.model /\ r.tokens = m.tokens
      /\ r.id = m.id /\ r.key = m.key /\ r.pass = 0 /\ r.parent = FALSE
  BY <1>3, <1>5, <1>6 DEF PlainFields, TurnFields
<1>8. TurnRecord(r, main)
  BY <1>4, <1>6, <1>7 DEF TurnRecord
<1> QED
  BY <1>4, <1>8 DEF m, r, last

LEMMA OneAppended ==
  ASSUME NEW S, NEW q, q \in Seq(S), Len(q) = 1, NEW y \in S
  PROVE  Append(q, y) \in Seq(S) /\ Len(Append(q, y)) = 2 /\ Append(q, y)[1] = q[1] /\ Append(q, y)[2] = y
<1>1. Append(q, y) \in Seq(S)
  OBVIOUS
<1>2. Len(Append(q, y)) = 2
  OBVIOUS
<1>3. Append(q, y)[1] = q[1]
  OBVIOUS
<1>4. Append(q, y)[2] = y
  <2>1. Append(q, y)[Len(q) + 1] = y
    BY AppendProperties
  <2> QED
    BY <2>1
<1> QED
  BY <1>1, <1>2, <1>3, <1>4
LEMMA AppendToOne == ASSUME NEW x, NEW y PROVE Append(<<x>>, y) = <<x, y>>
<1> DEFINE S == {x, y}
           one == <<x>>
           s == Append(one, y)
           t == <<x, y>>
<1>1. one \in Seq(S) /\ Len(one) = 1 /\ one[1] = x
  OBVIOUS
<1> HIDE DEF one
<1>2. s \in Seq(S) /\ Len(s) = 2 /\ s[1] = x /\ s[2] = y
  <2>1. y \in S
    OBVIOUS
  <2> HIDE DEF S
  <2> QED
    BY <1>1, <2>1, OneAppended
<1>3. t \in Seq(S) /\ Len(t) = 2 /\ t[1] = x /\ t[2] = y
  OBVIOUS
<1> HIDE DEF s, t, S
<1>4. s = t
  BY <1>2, <1>3, SeqEqual
<1> QED
  BY <1>4 DEF s, t, one
LEMMA PassIDs ==
  ASSUME NEW i
  PROVE  AN!iterationTransactionID(<<"call">>, i) = <<"call", i>> /\ AN!iterationTransactionID(<<"key">>, i) = <<"key", i>>
  BY AppendToOne DEF AN!iterationTransactionID

LEMMA IterationRecordSays ==
  ASSUME NEW m, m.id = <<"call">>, m.key = asked.env.key, asked.env.key \in {<<>>, <<"key">>},
         NEW its, NEW i \in Nat, NEW advisor
  PROVE  PassRecord(AN!iterationRecord(m, its[i], i, advisor), its, i)
<1> DEFINE base == [AN!Record("chat", AN!passModel(m, its[i], advisor), its[i].tokens) EXCEPT !.operation = its[i].kind]
           more == [pass |-> i, parent |-> TRUE, id |-> AN!iterationTransactionID(m.id, i),
                    key |-> AN!passIdempotencyKey(m.key, m.id, i)]
           r == AN!iterationRecord(m, its[i], i, advisor)
<1>1. /\ DOMAIN base = PlainFields /\ base.what = "succeeded" /\ base.operation = its[i].kind
      /\ base.tokens = its[i].tokens
  BY DEF AN!Record, PlainFields
<1>2. r = AN!With(base, more)
  BY DEF AN!iterationRecord
<1>3. AN!iterationTransactionID(m.id, i) = <<"call", i>>
  BY PassIDs
<1>4. AN!passIdempotencyKey(m.key, m.id, i) = IF asked.env.key = <<>> THEN <<"call", i>> ELSE <<"key", i>>
  <2>1. CASE asked.env.key = <<>>
    BY <1>3, <2>1 DEF AN!passIdempotencyKey
  <2>2. CASE asked.env.key = <<"key">>
    <3>1. <<"key">> # <<>>
      OBVIOUS
    <3>2. AN!passIdempotencyKey(m.key, m.id, i) = AN!iterationTransactionID(<<"key">>, i)
      BY <2>2, <3>1 DEF AN!passIdempotencyKey
    <3> QED
      BY <2>2, <3>1, <3>2, PassIDs
  <2> QED
    BY <2>1, <2>2
<1>5. /\ DOMAIN more = {"pass", "parent", "id", "key"} /\ more.pass = i /\ more.parent = TRUE /\ more.id = <<"call", i>>
      /\ more.key = IF asked.env.key = <<>> THEN <<"call", i>> ELSE <<"key", i>>
  BY <1>3, <1>4
<1> HIDE DEF base, more
<1>6. AN!With(base, more) = [f \in DOMAIN base \cup DOMAIN more |-> IF f \in DOMAIN base THEN base[f] ELSE more[f]]
  BY DEF AN!With
<1>7. /\ DOMAIN r = TurnFields
      /\ \A f \in DOMAIN r : r[f] = IF f \in DOMAIN base THEN base[f] ELSE more[f]
  BY <1>1, <1>2, <1>5, <1>6 DEF TurnFields
<1> HIDE DEF r
<1>8. /\ r.what = base.what /\ r.operation = base.operation /\ r.tokens = base.tokens
      /\ r.pass = more.pass /\ r.parent = more.parent /\ r.id = more.id /\ r.key = more.key
  BY <1>1, <1>5, <1>7 DEF TurnFields, PlainFields
<1>9. PassRecord(r, its, i)
  BY <1>1, <1>5, <1>7, <1>8 DEF PassRecord
<1> QED
  BY <1>9 DEF r

LEMMA BilledSays ==
  ASSUME NEW its, its \in Seq(Passes)
  PROVE  LET billed == AN!billedPassesOf(its) IN
         /\ billed = {n \in DOMAIN its : its[n].kind # "message"}
         /\ billed \in SUBSET Nat /\ IsFiniteSet(billed) /\ Cardinality(billed) \in Nat
         /\ \A n \in billed : its[n].kind \in {"advisor_message", "compaction"}
<1> DEFINE billed == AN!billedPassesOf(its)
<1>1. DOMAIN its = 1 .. Len(its) /\ Len(its) \in Nat /\ \A n \in DOMAIN its : its[n] \in Passes
  OBVIOUS
<1>2. \A n \in DOMAIN its : its[n].kind \in {"message", "advisor_message", "compaction"}
  BY <1>1 DEF Passes
<1>3. billed = {n \in DOMAIN its : its[n].kind \in {"advisor_message", "compaction"}}
  BY DEF AN!billedPassesOf, AN!advisorPass, AN!compactionPass
<1>4. billed = {n \in DOMAIN its : its[n].kind # "message"}
  BY <1>2, <1>3
<1>5. billed \subseteq 1 .. Len(its) /\ IsFiniteSet(1 .. Len(its))
  BY <1>1, <1>3, FS_Interval
<1>6. IsFiniteSet(billed) /\ Cardinality(billed) \in Nat
  BY <1>5, FS_Subset, FS_CardinalityType
<1>7. billed \in SUBSET Nat
  BY <1>5
<1> QED
  BY <1>3, <1>4, <1>6, <1>7

LEMMA TurnSays ==
  ASSUME NEW env, env.key = asked.env.key, asked.env.key \in {<<>>, <<"key">>}, NEW main, DOMAIN main = PlainFields,
         NEW its, its \in Seq(Passes), NEW advisor
  PROVE  TurnRecords(AN!sendTurnRecords(AN!identified(env, main), its, advisor), main, its, AN!billedPassesOf(its))
<1> DEFINE m == AN!identified(env, main)
           billed == AN!billedPassesOf(its)
           c == Cardinality(billed)
           first == AN!With(m, [pass |-> 0, parent |-> FALSE])
           Nth(n) == CHOOSE i \in billed : AN!Cardinality({j \in billed : j <= i}) = n
           passes == [n \in 1 .. AN!Cardinality(billed) |-> AN!iterationRecord(m, its[Nth(n)], Nth(n), advisor)]
           recs == AN!sendTurnRecords(m, its, advisor)
<1>1. m.id = <<"call">> /\ m.key = asked.env.key /\ TurnRecord(first, main)
  BY MainRecord
<1> HIDE DEF m
<1>2. billed \in SUBSET Nat /\ IsFiniteSet(billed) /\ c \in Nat
  BY BilledSays
<1>3. \A n \in 1 .. c : Ranked(billed, n) \in billed
  BY <1>2, RankedIsInverse
<1>4. recs = <<first>> \o passes
  BY DEF AN!sendTurnRecords
<1>15. AN!Cardinality(billed) = c
  BY AnthropicCardinality
<1>16. \A n : Nth(n) = Ranked(billed, n)
  BY AnthropicCardinality DEF Ranked, Rank
<1> HIDE DEF first, billed
<1>6. DOMAIN passes = 1 .. c
  BY <1>15
<1>17. \A n \in 1 .. c : passes[n] = AN!iterationRecord(m, its[Nth(n)], Nth(n), advisor)
  BY <1>15
<1> HIDE DEF Nth, passes
<1>5. \A n \in 1 .. c : PassRecord(passes[n], its, Ranked(billed, n))
  <2> TAKE n \in 1 .. c
  <2>1. Ranked(billed, n) \in Nat
    BY <1>2, <1>3
  <2>2. PassRecord(AN!iterationRecord(m, its[Ranked(billed, n)], Ranked(billed, n), advisor), its, Ranked(billed, n))
    BY <1>1, <2>1, IterationRecordSays
  <2> QED
    BY <1>16, <1>17, <2>2
<1> DEFINE S == {first} \cup {passes[n] : n \in 1 .. c}
<1>7. <<first>> \in Seq(S) /\ Len(<<first>>) = 1 /\ <<first>>[1] = first
  OBVIOUS
<1>8. passes \in Seq(S) /\ Len(passes) = c
  <2>1. passes \in [1 .. c -> S]
    BY <1>6, <1>15 DEF passes
  <2> HIDE DEF S, c
  <2> QED
    BY <1>2, <1>6, <2>1
<1> HIDE DEF recs, S, c
<1>9. /\ recs \in Seq(S) /\ Len(recs) = 1 + c
      /\ \A i \in 1 .. 1 + c : recs[i] = IF i <= 1 THEN first ELSE passes[i - 1]
  BY <1>2, <1>4, <1>7, <1>8, ConcatProperties
<1>10. DOMAIN recs = 1 .. 1 + c
  BY <1>9
<1>11. recs[1] = first
  BY <1>2, <1>9
<1>12. \A n \in 1 .. c : recs[n + 1] = passes[n]
  BY <1>2, <1>9
<1>13. recs \in Seq({recs[i] : i \in DOMAIN recs})
  BY <1>9, <1>10, <1>2
<1>14. TurnRecords(recs, main, its, billed)
  BY <1>1, <1>5, <1>9, <1>10, <1>11, <1>12, <1>13 DEF TurnRecords, c
<1> QED
  BY <1>14 DEF recs, billed, m

(* A turn's passes are each billed, under an id and a key of their own.        *)
BilledPasses == {n \in DOMAIN asked.env.iterations : asked.env.iterations[n].kind # "message"}
PassesRight(recs) ==
  /\ {recs[k].pass : k \in DOMAIN recs} = {0} \cup BilledPasses
  /\ Len(recs) = 1 + Cardinality(BilledPasses)
  /\ Cardinality({recs[k].id : k \in DOMAIN recs}) = Len(recs)
  /\ Cardinality({recs[k].key : k \in DOMAIN recs}) = Len(recs)
  /\ \A i \in DOMAIN recs : IsPass(recs[i]) => recs[i].tokens = asked.env.iterations[recs[i].pass].tokens
PassesPlain(recs) ==
  \A i \in DOMAIN recs : IsPass(recs[i]) => recs[i].what = "succeeded" /\ recs[i].operation \in {"advisor_message", "compaction"}
AnthropicGood(o) ==
  /\ Good(o) /\ PassesPlain(o.records)
  /\ (\E i \in DOMAIN o.records : o.records[i].what = "succeeded") => PassesRight(o.records)

LEMMA NothingIsAnthropicGood ==
  ASSUME NEW o, o.records = <<>>, o.requests \in Nat, Recording => o.requests = 0
  PROVE  AnthropicGood(o)
<1>1. Good(o)
  BY NoRecord
<1>2. DOMAIN o.records = {}
  OBVIOUS
<1> QED
  BY <1>1, <1>2 DEF AnthropicGood, PassesPlain

LEMMA TurnPositions ==
  ASSUME NEW c \in Nat, NEW k \in 1 .. 1 + c
  PROVE  k = 1 \/ \E n \in 1 .. c : k = n + 1
<1>1. k # 1 => k - 1 \in 1 .. c /\ k = (k - 1) + 1
  OBVIOUS
<1> QED
  BY <1>1

LEMMA PairsDiffer ==
  ASSUME NEW x, NEW y, NEW i, NEW j
  PROVE  /\ <<x, i>> = <<y, j>> => i = j
         /\ <<x>> # <<y, j>> /\ <<>> # <<y, j>>
  OBVIOUS

LEMMA TurnsPassesAreRight ==
  ASSUME NEW recs, NEW main, NEW its, its \in Seq(Passes), asked.env.key \in {<<>>, <<"key">>},
         TurnRecords(recs, main, its, AN!billedPassesOf(its))
  PROVE  /\ ~IsPass(recs[1]) /\ \A i \in DOMAIN recs : i # 1 => IsPass(recs[i])
         /\ PassesPlain(recs)
         /\ its = asked.env.iterations => PassesRight(recs)
<1> DEFINE billed == AN!billedPassesOf(its)
           c == Cardinality(billed)
<1>1. /\ billed = {n \in DOMAIN its : its[n].kind # "message"}
      /\ billed \in SUBSET Nat /\ IsFiniteSet(billed) /\ c \in Nat
      /\ \A n \in billed : its[n].kind \in {"advisor_message", "compaction"}
  BY BilledSays
<1>2. /\ Len(recs) = 1 + c /\ DOMAIN recs = 1 .. 1 + c /\ TurnRecord(recs[1], main)
      /\ recs = [i \in DOMAIN recs |-> recs[i]]
      /\ \A n \in 1 .. c : PassRecord(recs[n + 1], its, Ranked(billed, n))
  BY DEF TurnRecords
<1>3. /\ \A n \in 1 .. c : Ranked(billed, n) \in billed /\ Rank(billed, Ranked(billed, n)) = n
      /\ \A i \in billed : Rank(billed, i) \in 1 .. c /\ Ranked(billed, Rank(billed, i)) = i
  BY <1>1, RankGrows, RankedIsInverse
<1> HIDE DEF billed, c
<1>4. recs[1].pass = 0 /\ recs[1].id = <<"call">> /\ recs[1].key = asked.env.key /\ ~IsPass(recs[1])
  BY <1>2 DEF TurnRecord, IsPass, TurnFields
<1>5. \A n \in 1 .. c : LET r == recs[n + 1] i == Ranked(billed, n) IN
        /\ r.pass = i /\ IsPass(r) /\ r.what = "succeeded" /\ r.operation = its[i].kind /\ r.tokens = its[i].tokens
        /\ r.id = <<"call", i>> /\ r.key = (IF asked.env.key = <<>> THEN <<"call", i>> ELSE <<"key", i>>)
  BY <1>2 DEF PassRecord, IsPass, TurnFields
<1>6. \A k \in DOMAIN recs : k = 1 \/ \E n \in 1 .. c : k = n + 1
  BY <1>1, <1>2, TurnPositions
<1>7. \A i \in DOMAIN recs : i # 1 => IsPass(recs[i])
  BY <1>5, <1>6
<1>8. PassesPlain(recs)
  <2>1. \A n \in 1 .. c : recs[n + 1].what = "succeeded" /\ recs[n + 1].operation \in {"advisor_message", "compaction"}
    BY <1>1, <1>3, <1>5
  <2> QED
    BY <1>4, <1>6, <2>1 DEF PassesPlain
<1>9. ASSUME its = asked.env.iterations PROVE PassesRight(recs)
  <2>1. billed = BilledPasses
    BY <1>1, <1>9 DEF BilledPasses
  <2>2. {recs[k].pass : k \in DOMAIN recs} = {0} \cup billed
    <3>1. ASSUME NEW k \in DOMAIN recs PROVE recs[k].pass \in {0} \cup billed
      BY <1>3, <1>4, <1>5, <1>6
    <3>2. ASSUME NEW i \in billed PROVE \E k \in DOMAIN recs : recs[k].pass = i
      <4>1. Rank(billed, i) \in 1 .. c /\ Ranked(billed, Rank(billed, i)) = i
        BY <1>3
      <4>2. Rank(billed, i) + 1 \in DOMAIN recs
        BY <1>1, <1>2, <4>1
      <4> QED
        BY <1>5, <4>1, <4>2
    <3>3. 1 \in DOMAIN recs /\ recs[1].pass = 0
      BY <1>1, <1>2, <1>4
    <3> QED
      BY <3>1, <3>2, <3>3
  <2>3. IsFiniteSet(DOMAIN recs) /\ Cardinality(DOMAIN recs) = Len(recs)
    <3> DEFINE last == 1 + c
    <3>1. last \in Nat /\ DOMAIN recs = 1 .. last /\ Len(recs) = last
      BY <1>1, <1>2
    <3> HIDE DEF last
    <3>2. IsFiniteSet(1 .. last) /\ Cardinality(1 .. last) = last
      BY <3>1, FS_Interval
    <3> QED
      BY <3>1, <3>2
  <2>4. ASSUME NEW n \in 1 .. c, NEW m \in 1 .. c, Ranked(billed, n) = Ranked(billed, m) PROVE n = m
    BY <1>3, <2>4
  <2>5. Cardinality({recs[k].id : k \in DOMAIN recs}) = Len(recs)
    <3> DEFINE f == [k \in DOMAIN recs |-> recs[k].id]
    <3>1. ASSUME NEW k \in DOMAIN recs, NEW l \in DOMAIN recs, recs[k].id = recs[l].id PROVE k = l
      <4>1. \A n \in 1 .. c : recs[n + 1].id = <<"call", Ranked(billed, n)>>
        BY <1>5
      <4>2. \A n \in 1 .. c : recs[n + 1].id # recs[1].id
        BY <1>4, <4>1, PairsDiffer
      <4>3. ASSUME NEW n \in 1 .. c, NEW m \in 1 .. c, recs[n + 1].id = recs[m + 1].id PROVE n = m
        <5>1. Ranked(billed, n) = Ranked(billed, m)
          BY <4>1, <4>3, PairsDiffer
        <5> QED
          BY <2>4, <5>1
      <4> QED
        BY <1>6, <3>1, <4>2, <4>3
    <3>2. DOMAIN f = DOMAIN recs /\ f = [k \in DOMAIN recs |-> f[k]] /\ \A k \in DOMAIN recs : f[k] = recs[k].id
      OBVIOUS
    <3> HIDE DEF f
    <3>3. \A k, l \in DOMAIN recs : f[k] = f[l] => k = l
      BY <3>1, <3>2
    <3>4. Cardinality({f[k] : k \in DOMAIN recs}) = Cardinality(DOMAIN recs)
      BY <2>3, <3>2, <3>3, DistinctValues
    <3>5. {f[k] : k \in DOMAIN recs} = {recs[k].id : k \in DOMAIN recs}
      BY <3>2
    <3> QED
      BY <2>3, <3>4, <3>5
  <2>6. Cardinality({recs[k].key : k \in DOMAIN recs}) = Len(recs)
    <3> DEFINE f == [k \in DOMAIN recs |-> recs[k].key]
    <3>1. ASSUME NEW k \in DOMAIN recs, NEW l \in DOMAIN recs, recs[k].key = recs[l].key PROVE k = l
      <4>1. \A n \in 1 .. c : recs[n + 1].key = <<"call", Ranked(billed, n)>> \/ recs[n + 1].key = <<"key", Ranked(billed, n)>>
        BY <1>5
      <4>2. \A n \in 1 .. c : recs[n + 1].key # recs[1].key
        BY <1>4, <4>1, PairsDiffer
      <4>3. ASSUME NEW n \in 1 .. c, NEW m \in 1 .. c, recs[n + 1].key = recs[m + 1].key PROVE n = m
        <5>1. Ranked(billed, n) = Ranked(billed, m)
          BY <4>1, <4>3, PairsDiffer
        <5> QED
          BY <2>4, <5>1
      <4> QED
        BY <1>6, <3>1, <4>2, <4>3
    <3>2. DOMAIN f = DOMAIN recs /\ f = [k \in DOMAIN recs |-> f[k]] /\ \A k \in DOMAIN recs : f[k] = recs[k].key
      OBVIOUS
    <3> HIDE DEF f
    <3>3. \A k, l \in DOMAIN recs : f[k] = f[l] => k = l
      BY <3>1, <3>2
    <3>4. Cardinality({f[k] : k \in DOMAIN recs}) = Cardinality(DOMAIN recs)
      BY <2>3, <3>2, <3>3, DistinctValues
    <3>5. {f[k] : k \in DOMAIN recs} = {recs[k].key : k \in DOMAIN recs}
      BY <3>2
    <3> QED
      BY <2>3, <3>4, <3>5
  <2>7. \A i \in DOMAIN recs : IsPass(recs[i]) => recs[i].tokens = asked.env.iterations[recs[i].pass].tokens
    BY <1>4, <1>5, <1>6, <1>9
  <2> QED
    BY <1>2, <2>1, <2>2, <2>5, <2>6, <2>7 DEF PassesRight, c
<1> QED
  BY <1>4, <1>7, <1>8, <1>9

LEMMA AnthropicEnv ==
  ASSUME asked.provider = "anthropic", IsAnthropicCall(asked)
  PROVE  /\ asked.env.blocked \in BOOLEAN /\ asked.env.blocked2 \in BOOLEAN /\ asked.env.fallback \in BOOLEAN
         /\ asked.env.setUp \in BOOLEAN /\ asked.env.tries \in Nat \ {0}
         /\ asked.env.named \in AN!Named /\ asked.env.served \in {"", "served"} /\ asked.env.use \in Amounts
         /\ asked.env.iterations \in Seq(Passes) /\ asked.env.key \in {<<>>, <<"key">>}
         /\ Recording /\ ~SaidFailed /\ Readable /\ ThoughtsTold /\ NamesServing
         /\ asked.env = [setting |-> asked.env.setting, named |-> asked.env.named, fallback |-> asked.env.fallback,
                         setUp |-> asked.env.setUp, blocked |-> asked.env.blocked, blocked2 |-> asked.env.blocked2,
                         seam |-> asked.env.seam, seam2 |-> asked.env.seam2, tries |-> asked.env.tries,
                         use |-> asked.env.use, iterations |-> asked.env.iterations,
                         advisorModel |-> asked.env.advisorModel, served |-> asked.env.served,
                         model |-> asked.env.model, key |-> asked.env.key]
  BY DEF IsAnthropicCall, Recording, SaidFailed, MaySeams, Failures, Readable, ThoughtsTold, NamesServing

LEMMA EmptySequences == <<>> \in Seq(Passes)
  OBVIOUS

(* The record a turn starts from: what it came to, and what it consumed.       *)
Takes(j, m) == Covers(j.model, j.dated, m) \/ (TakesAnyName /\ asked.env.served = "" /\ m = "")
Main(main, judged) ==
  /\ DOMAIN main = PlainFields /\ main.operation = "chat" /\ main.what \in {"succeeded", "failed"}
  /\ main.what = "succeeded" => CountsRight("chat", main.model, main.tokens)
  /\ \E j \in judged : Takes(j, main.model)
LEMMA TurnIsGood ==
  ASSUME asked.provider = "anthropic", IsAnthropicCall(asked), NEW o, NEW main, NEW its, its \in Seq(Passes),
         NEW env, env.key = asked.env.key, NEW advisor,
         o.records = AN!sendTurnRecords(AN!identified(env, main), its, advisor),
         Main(main, o.judged), o.requests \in Nat, main.what = "succeeded" <=> o.got = "reply", Unsent(o, main),
         its = IF main.what = "succeeded" THEN asked.env.iterations ELSE <<>>
  PROVE  AnthropicGood(o)
<1> DEFINE recs == o.records
           r == recs[1]
<1>1. asked.env.key \in {<<>>, <<"key">>} /\ Recording /\ ~SaidFailed
  BY AnthropicEnv
<1>2. DOMAIN main = PlainFields
  BY DEF Main
<1>3. TurnRecords(recs, main, its, AN!billedPassesOf(its))
  BY <1>1, <1>2, TurnSays
<1> HIDE DEF recs
<1>4. /\ ~IsPass(r) /\ \A i \in DOMAIN recs : i # 1 => IsPass(recs[i])
      /\ PassesPlain(recs)
      /\ its = asked.env.iterations => PassesRight(recs)
  BY <1>1, <1>3, TurnsPassesAreRight
<1>5. Cardinality(AN!billedPassesOf(its)) \in Nat
  BY BilledSays
<1>6. 1 \in DOMAIN recs /\ TurnRecord(r, main)
  BY <1>3, <1>5 DEF TurnRecords
<1>7. r.what = main.what /\ r.operation = "chat" /\ r.model = main.model /\ r.tokens = main.tokens
  BY <1>6 DEF TurnRecord, Main
<1> HIDE DEF r
<1>8. Leaves(o, r)
  BY <1>1, <1>4, <1>6, <1>7 DEF Leaves, Unsent, recs, r
<1>9. o.judged # {}
  BY DEF Main
<1>10. Once(o)
  BY <1>1, <1>8, <1>9 DEF Once
<1>11. \A x : Leaves(o, x) => x = r
  BY DEF Leaves, recs, r
<1>12. \E j \in o.judged : NamedAs(j, r)
  BY <1>7 DEF Main, NamedAs, Takes, Nameless, Covers
<1>13. TokensRight(r)
  BY <1>7 DEF Main, TokensRight, CountsRight
<1>14. LengthRight(r)
  <2>1. r.what \in {"succeeded", "failed"}
    BY <1>7 DEF Main
  <2> QED
    BY <1>7, <2>1 DEF LengthRight
<1>15. Good(o)
  BY <1>10, <1>11, <1>12, <1>13, <1>14 DEF Good
<1>16. ASSUME NEW i \in DOMAIN recs, recs[i].what = "succeeded" PROVE PassesRight(recs)
  <2>1. CASE main.what = "succeeded"
    BY <1>4, <2>1
  <2>2. CASE main.what = "failed"
    <3>1. its = <<>>
      BY <2>2
    <3>2. AN!billedPassesOf(its) = {}
      BY <3>1 DEF AN!billedPassesOf
    <3>3. Cardinality(AN!billedPassesOf(its)) = 0
      BY <3>2, FS_EmptySet
    <3>4. i = 1
      <4>1. DOMAIN recs = 1 .. 1 + Cardinality(AN!billedPassesOf(its))
        BY <1>3 DEF TurnRecords
      <4> QED
        BY <3>3, <4>1
    <3> QED
      BY <1>7, <1>16, <2>2, <3>4 DEF r
  <2> QED
    BY <2>1, <2>2 DEF Main
<1> QED
  BY <1>4, <1>15, <1>16 DEF AnthropicGood, recs

(* What a turn sent to a provider comes to. *)
LEMMA TurnMeteredSays ==
  ASSUME NEW env, env.blocked \in BOOLEAN, NEW judged, NEW recorded, NEW advisor
  PROVE  LET o == AN!turnMetered(env, judged, recorded, advisor)
             failed == asFailedCall(AN!Record("chat", judged.model, AN!NoTokens), env.seam) IN
         /\ o.judged = {judged} /\ o.requests \in Nat /\ DOMAIN o = {"judged", "requests", "records", "got"}
         /\ env.blocked => o.records = <<>> /\ o.requests = 0 /\ o.got = "stopped"
         /\ ~env.blocked /\ o.requests = 0 => env.seam \in Failures
         /\ ~env.blocked /\ env.seam \in Failures =>
              o.got = "error" /\ o.records = AN!sendTurnRecords(AN!identified(env, failed), <<>>, advisor)
         /\ ~env.blocked /\ env.seam \notin Failures =>
              /\ o.got = "reply"
              /\ o.records = AN!sendTurnRecords(AN!identified(env, AN!turnRecord(env, recorded)), env.iterations, advisor)
<1> DEFINE f == AN!Record("chat", judged.model, AN!NoTokens)
           s == AN!turnRecord(env, recorded)
           run == Metered(env, judged, f, s)
           failed == asFailedCall(f, env.seam)
           turn == AN!sendTurnRecords(AN!identified(env, run.records[1]), IF run.got = "reply" THEN env.iterations ELSE <<>>, advisor)
           o == AN!turnMetered(env, judged, recorded, advisor)
<1>1. AN!Metered(env, judged, f, s) = run
  BY MeteredEverywhere
<1>2. o = [run EXCEPT !.records = IF run.records = <<>> THEN run.records ELSE turn]
  BY <1>1 DEF AN!turnMetered, AN!withPasses
<1> HIDE DEF f, s
<1>3. /\ run.judged = {judged} /\ run.requests \in Nat
      /\ env.blocked => run.records = <<>> /\ run.requests = 0 /\ run.got = "stopped"
      /\ ~env.blocked => run.records = <<IF env.seam \in Failures THEN failed ELSE s>>
                         /\ run.got = IF env.seam \in Failures THEN "error" ELSE "reply"
  BY DEF Metered, Stopped, Left
<1>9. ~env.blocked /\ run.requests = 0 => env.seam \in Failures
  BY DEF Metered, Left, Failures
<1>4. run = [judged |-> run.judged, requests |-> run.requests, records |-> run.records, got |-> run.got]
  BY DEF Metered, Stopped
<1> HIDE DEF run, failed, turn, o
<1>5. /\ o.judged = run.judged /\ o.requests = run.requests /\ o.got = run.got
      /\ o.records = IF run.records = <<>> THEN run.records ELSE turn
      /\ DOMAIN o = {"judged", "requests", "records", "got"}
  BY <1>2, <1>4
<1>6. CASE env.blocked
  BY <1>3, <1>5, <1>6 DEF o
<1>10. ~env.blocked /\ o.requests = 0 => env.seam \in Failures
  BY <1>5, <1>9
<1>7. CASE ~env.blocked /\ env.seam \in Failures
  <2>1. run.records = <<failed>> /\ run.got = "error"
    BY <1>3, <1>7
  <2>2. run.records # <<>> /\ run.records[1] = failed
    BY <2>1
  <2>3. turn = AN!sendTurnRecords(AN!identified(env, failed), <<>>, advisor)
    BY <2>1, <2>2 DEF turn
  <2> QED
    BY <1>3, <1>5, <1>7, <1>10, <2>1, <2>2, <2>3 DEF o, failed, f
<1>8. CASE ~env.blocked /\ env.seam \notin Failures
  <2>1. run.records = <<s>> /\ run.got = "reply"
    BY <1>3, <1>8
  <2>2. run.records # <<>> /\ run.records[1] = s
    BY <2>1
  <2>3. turn = AN!sendTurnRecords(AN!identified(env, s), env.iterations, advisor)
    BY <2>1, <2>2 DEF turn
  <2> QED
    BY <1>3, <1>5, <1>8, <1>10, <2>1, <2>2, <2>3 DEF o, s
<1> QED
  BY <1>6, <1>7, <1>8

(* A turn sent to a provider under a name the rules covered.                   *)
LEMMA TurnMeteredIsGood ==
  ASSUME asked.provider = "anthropic", IsAnthropicCall(asked), NEW env, env.blocked \in BOOLEAN, env.key = asked.env.key,
         env.use = asked.env.use, env.iterations = asked.env.iterations,
         NEW judged, NEW recorded, NEW advisor, Takes(judged, judged.model), Takes(judged, recorded),
         NEW o, judged \in o.judged, o.requests \in Nat,
         ~env.blocked, o.requests = 0 => env.seam \in Failures,
         o.records = AN!turnMetered(env, judged, recorded, advisor).records,
         o.got = AN!turnMetered(env, judged, recorded, advisor).got
  PROVE  AnthropicGood(o)
<1> DEFINE base == AN!Record("chat", judged.model, AN!NoTokens)
           failed == asFailedCall(base, env.seam)
           s == AN!turnRecord(env, recorded)
<1>1. asked.env.iterations \in Seq(Passes) /\ asked.env.use \in Amounts
  BY AnthropicEnv
<1>2. DOMAIN failed = PlainFields /\ failed.operation = "chat" /\ failed.what = "failed" /\ failed.model = judged.model
  BY DEF AN!Record, asFailedCall, PlainFields
<1>3. /\ DOMAIN s = PlainFields /\ s.operation = "chat" /\ s.what = "succeeded" /\ s.model = recorded
      /\ s.tokens = AN!turnTokens(asked.env.use)
  BY DEF AN!turnRecord, AN!Record, PlainFields
<1>4. CountsRight("chat", recorded, s.tokens)
  <2> DEFINE u == asked.env.use
             t == AN!turnTokens(u)
  <2>1. t.in = u.fresh /\ t.out = u.text + u.thought /\ t.write = u.write /\ t.read = u.read
    BY DEF AN!turnTokens, AN!Tokens
  <2>2. BilledAs(u, recorded) = [in |-> u.fresh, out |-> u.text + u.thought, write |-> u.write, read |-> u.read]
    BY DEF BilledAs
  <2> HIDE DEF u, t
  <2>3. CountsRight("chat", recorded, t)
    BY <2>1, <2>2 DEF CountsRight, u
  <2> HIDE DEF s
  <2> QED
    BY <1>3, <2>3 DEF t, u
<1>5. /\ env.seam \in Failures => o.got = "error" /\ o.records = AN!sendTurnRecords(AN!identified(env, failed), <<>>, advisor)
      /\ env.seam \notin Failures => o.got = "reply"
           /\ o.records = AN!sendTurnRecords(AN!identified(env, s), asked.env.iterations, advisor)
  BY TurnMeteredSays
<1> HIDE DEF failed, s
<1>6. CASE env.seam \in Failures
  <2>1. Main(failed, o.judged)
    BY <1>2 DEF Main
  <2>2. <<>> = IF failed.what = "succeeded" THEN asked.env.iterations ELSE <<>>
    BY <1>2
  <2>3. failed.what = "succeeded" <=> o.got = "reply"
    BY <1>2, <1>5, <1>6
  <2>4. o.records = AN!sendTurnRecords(AN!identified(env, failed), <<>>, advisor)
    BY <1>5, <1>6
  <2> QED
    BY <1>2, <1>5, <1>6, <2>1, <2>2, <2>3, <2>4, EmptySequences, TurnIsGood DEF Unsent
<1>7. CASE env.seam \notin Failures
  <2>1. Main(s, o.judged)
    BY <1>3, <1>4 DEF Main
  <2>2. asked.env.iterations = IF s.what = "succeeded" THEN asked.env.iterations ELSE <<>>
    BY <1>3
  <2>3. s.what = "succeeded" <=> o.got = "reply"
    BY <1>3, <1>5, <1>7
  <2>4. o.records = AN!sendTurnRecords(AN!identified(env, s), asked.env.iterations, advisor)
    BY <1>5, <1>7
  <2> QED
    BY <1>1, <1>7, <2>1, <2>2, <2>3, <2>4, TurnIsGood DEF Unsent
<1> QED
  BY <1>6, <1>7

(* Names: a Bedrock record carries the name judged; the Anthropic API serves   *)
(* a model under its name, or a dated snapshot of it.                          *)
LEMMA AnthropicNames ==
  /\ \A j : j.model = "asked" /\ j.dated = TRUE => Takes(j, "asked")
  /\ asked.provider = "anthropic" /\ asked.env.served \in {"", "served"} =>
       \A j : j.model = "asked" /\ j.dated = TRUE => Takes(j, asked.env.served)
  /\ \A n \in AN!Named : Covers(AN!recordedBedrockModel(n), FALSE, AN!recordedBedrockModel(n))
<1>1. ASSUME NEW j, j.model = "asked", j.dated = TRUE
      PROVE  /\ Takes(j, "asked")
             /\ asked.provider = "anthropic" /\ asked.env.served \in {"", "served"} => Takes(j, asked.env.served)
  BY <1>1 DEF Takes, TakesAnyName, Covers, Spelling, DatedName
<1>2. ASSUME NEW n \in AN!Named PROVE Covers(AN!recordedBedrockModel(n), FALSE, AN!recordedBedrockModel(n))
  BY DEF Covers, Spelling, AN!recordedBedrockModel, AN!Named
<1> QED
  BY <1>1, <1>2

TurnEnds(m, j, env) ==
  /\ m.judged = {j} /\ m.requests \in Nat /\ DOMAIN m = {"judged", "requests", "records", "got"}
  /\ env.blocked => m.records = <<>> /\ m.requests = 0 /\ m.got = "stopped"
  /\ ~env.blocked => m.got # "stopped" /\ (m.requests = 0 => env.seam \in Failures)
LEMMA TurnMeteredEnds ==
  ASSUME NEW env, env.blocked \in BOOLEAN, NEW judged, NEW recorded, NEW advisor
  PROVE  TurnEnds(AN!turnMetered(env, judged, recorded, advisor), judged, env)
<1> DEFINE m == AN!turnMetered(env, judged, recorded, advisor)
<1>1. /\ m.judged = {judged} /\ m.requests \in Nat /\ DOMAIN m = {"judged", "requests", "records", "got"}
      /\ env.blocked => m.records = <<>> /\ m.requests = 0 /\ m.got = "stopped"
      /\ ~env.blocked /\ m.requests = 0 => env.seam \in Failures
      /\ ~env.blocked /\ env.seam \in Failures => m.got = "error"
      /\ ~env.blocked /\ env.seam \notin Failures => m.got = "reply"
  BY TurnMeteredSays
<1> HIDE DEF m
<1>2. TurnEnds(m, judged, env)
  BY <1>1 DEF TurnEnds
<1> QED
  BY <1>2 DEF m

(* What the Anthropic API is asked, first or as a fallback. *)
AskedAgain(a, env) ==
  /\ a.requests \in Nat /\ DOMAIN a = {"judged", "requests", "records", "got"}
  /\ AN!fallbackNotSent(env, a) => a.records = <<>> /\ a.requests = 0 /\ a.got # "reply"
  /\ ~AN!fallbackNotSent(env, a) =>
       /\ a.judged = {AN!Judged("asked", TRUE)} /\ ~env.blocked /\ (a.requests = 0 => env.seam \in Failures)
       /\ a = AN!turnMetered(env, AN!Judged("asked", TRUE), env.served, "")
LEMMA AnthropicAsked ==
  ASSUME asked.provider = "anthropic", IsAnthropicCall(asked), NEW env, env.blocked \in BOOLEAN, env.key = asked.env.key,
         env.use = asked.env.use, env.iterations = asked.env.iterations, env.named = asked.env.named
  PROVE  AskedAgain(AN!createMessageAnthropic(env), env)
<1>0. PICK j : j = AN!Judged("asked", TRUE)
  OBVIOUS
<1> DEFINE a == AN!createMessageAnthropic(env)
           m == AN!turnMetered(env, j, env.served, "")
           names == AN!ConvertBedrockARNToAnthropicModel(env.named)
<1>1. AN!fallbackNotSent(env, a) <=> a.got = "stopped" \/ names = {}
  BY DEF AN!fallbackNotSent
<1>2. CASE names = {}
  <2>1. a = [AN!Refused EXCEPT !.got = "error"]
    BY <1>2 DEF AN!createMessageAnthropic
  <2>2. AN!Refused = [judged |-> {}, requests |-> 0, records |-> <<>>, got |-> "stopped"]
    BY DEF AN!Refused, AN!Stopped
  <2>3. a.records = <<>> /\ a.requests = 0 /\ a.got = "error" /\ DOMAIN a = {"judged", "requests", "records", "got"}
    BY <2>1, <2>2
  <2> HIDE DEF a, names
  <2> QED
    BY <1>1, <1>2, <2>3 DEF a, AskedAgain
<1>3. CASE names # {}
  <2>1. a = m
    BY <1>0, <1>3 DEF AN!createMessageAnthropic
  <2>2. /\ m.judged = {j} /\ m.requests \in Nat /\ DOMAIN m = {"judged", "requests", "records", "got"}
        /\ env.blocked => m.records = <<>> /\ m.requests = 0 /\ m.got = "stopped"
        /\ ~env.blocked => m.got # "stopped" /\ (m.requests = 0 => env.seam \in Failures)
    <3>2. \A recorded, advisor : TurnEnds(AN!turnMetered(env, j, recorded, advisor), j, env)
      BY TurnMeteredEnds
    <3>1. TurnEnds(m, j, env)
      BY <3>2
    <3> HIDE DEF m
    <3> QED
      BY <3>1 DEF TurnEnds
  <2> HIDE DEF a, names, m
  <2>3. AN!fallbackNotSent(env, a) <=> env.blocked
    BY <1>1, <1>3, <2>1, <2>2
  <2> QED
    BY <1>0, <2>1, <2>2, <2>3 DEF a, m, AskedAgain
<1> QED
  BY <1>2, <1>3

LEMMA MessageIsGood ==
  ASSUME asked.provider = "anthropic", IsAnthropicCall(asked)
  PROVE  AnthropicGood(AN!createMessageAnthropic(asked.env))
<1> DEFINE e == asked.env
           o == AN!createMessageAnthropic(e)
           notSent == AN!fallbackNotSent(e, o)
<1>1. e.blocked \in BOOLEAN
  BY AnthropicEnv
<1>5. e.served \in {"", "served"}
  BY AnthropicEnv
<1>0. AskedAgain(o, e)
  BY <1>1, AnthropicAsked
<1> HIDE DEF o
<1>2. /\ o.requests \in Nat
      /\ notSent => o.records = <<>> /\ o.requests = 0 /\ o.got # "reply"
      /\ ~notSent => /\ o.judged = {AN!Judged("asked", TRUE)} /\ ~e.blocked /\ (o.requests = 0 => e.seam \in Failures)
                     /\ o = AN!turnMetered(e, AN!Judged("asked", TRUE), e.served, "")
  BY <1>0 DEF AskedAgain
<1> HIDE DEF notSent
<1>3. CASE notSent
  <2>1. AnthropicGood(o)
    BY <1>2, <1>3, NothingIsAnthropicGood
  <2> QED
    BY <2>1 DEF o
<1>4. CASE ~notSent
  <2>1. PICK j, served, none : j = AN!Judged("asked", TRUE) /\ served = e.served /\ none = ""
    OBVIOUS
  <2>2. j.model = "asked" /\ j.dated = TRUE /\ Takes(j, "asked") /\ Takes(j, served)
    BY <1>5, <2>1, AnthropicNames DEF AN!Judged
  <2>3. j \in o.judged /\ ~e.blocked /\ o = AN!turnMetered(e, j, served, none)
    BY <1>2, <1>4, <2>1
  <2>4. o.records = AN!turnMetered(e, j, served, none).records /\ o.got = AN!turnMetered(e, j, served, none).got
    BY <2>3
  <2>5. Takes(j, j.model) /\ Takes(j, served) /\ o.requests \in Nat
    BY <1>2, <2>2
  <2>7. j \in o.judged /\ ~e.blocked /\ (o.requests = 0 => e.seam \in Failures)
    BY <1>2, <1>4, <2>3
  <2>6. AnthropicGood(o)
    BY <1>1, <2>4, <2>5, <2>7, TurnMeteredIsGood
  <2> QED
    BY <2>6 DEF o
<1> QED
  BY <1>3, <1>4

LEMMA BetaIsGood ==
  ASSUME asked.provider = "anthropic", IsAnthropicCall(asked)
  PROVE  AnthropicGood(AN!betaCreateMessage(asked.env))
<1> DEFINE e == asked.env
           adv == e.advisorModel
           o == AN!betaCreateMessage(e)
<1>1. e.blocked \in BOOLEAN
  BY AnthropicEnv
<1>0. e.served \in {"", "served"}
  BY AnthropicEnv
<1>2. PICK j : j = AN!Judged("asked", TRUE)
  OBVIOUS
<1>3. Takes(j, j.model) /\ Takes(j, e.served)
  BY <1>0, <1>2, AnthropicNames DEF AN!Judged
<1>4. o = AN!turnMetered(e, j, e.served, adv)
  BY <1>1, <1>2 DEF AN!betaCreateMessage
<1> HIDE DEF o, adv
<1>5. TurnEnds(o, j, e)
  <2>1. \A recorded, advisor : TurnEnds(AN!turnMetered(e, j, recorded, advisor), j, e)
    BY <1>1, TurnMeteredEnds
  <2> QED
    BY <1>4, <2>1
<1>6. CASE e.blocked
  <2>1. o.records = <<>> /\ o.requests = 0 /\ o.requests \in Nat
    BY <1>5, <1>6 DEF TurnEnds
  <2>2. AnthropicGood(o)
    BY <2>1, NothingIsAnthropicGood
  <2> QED
    BY <2>2 DEF o
<1>7. CASE ~e.blocked
  <2>1. j \in o.judged /\ o.requests \in Nat /\ (o.requests = 0 => e.seam \in Failures)
    BY <1>5, <1>7 DEF TurnEnds
  <2>2. o.records = AN!turnMetered(e, j, e.served, adv).records /\ o.got = AN!turnMetered(e, j, e.served, adv).got
    BY <1>4
  <2>3. AnthropicGood(o)
    BY <1>1, <1>3, <1>7, <2>1, <2>2, TurnMeteredIsGood
  <2> QED
    BY <2>3 DEF o
<1> QED
  BY <1>1, <1>6, <1>7

(* A Bedrock attempt that failed and is not sent again. *)
LEMMA BedrockFailureIsGood ==
  ASSUME asked.provider = "anthropic", IsAnthropicCall(asked), NEW o,
         o.records = AN!recordBedrockFailure(asked.env), o.requests = IF asked.env.setUp THEN asked.env.tries * AN!Left(asked.env) ELSE 0,
         o.got # "reply", NEW j \in o.judged, Covers(j.model, j.dated, AN!recordedBedrockModel(asked.env.named))
  PROVE  AnthropicGood(o) /\ o.requests \in Nat
<1> DEFINE e == asked.env
           name == AN!recordedBedrockModel(e.named)
           main == AN!buildFailedTurnPayload(e, name)
<1>1. e.tries \in Nat \ {0} /\ e.setUp \in BOOLEAN
  BY AnthropicEnv
<1>2. AN!Left(e) = IF e.seam = "unsendable" THEN 0 ELSE 1
  BY DEF AN!Left
<1>3. o.requests \in Nat
  BY <1>1, <1>2
<1>4. CASE ~e.setUp \/ e.seam = "unsendable"
  <2>1. o.records = <<>>
    BY <1>4 DEF AN!recordBedrockFailure
  <2>2. o.requests = 0
    BY <1>1, <1>2, <1>4
  <2> QED
    BY <1>3, <2>1, <2>2, NothingIsAnthropicGood
<1>5. CASE ~(~e.setUp \/ e.seam = "unsendable")
  <2>1. o.records = AN!sendTurnRecords(AN!identified(e, main), <<>>, "")
    BY <1>5 DEF AN!recordBedrockFailure
  <2>2. DOMAIN main = PlainFields /\ main.operation = "chat" /\ main.what = "failed" /\ main.model = name
    BY DEF AN!buildFailedTurnPayload, AN!Record, AN!asFailedCall, PlainFields
  <2> HIDE DEF main, name
  <2>3. Main(main, o.judged)
    BY <2>2 DEF Main, Takes, name
  <2>4. <<>> = IF main.what = "succeeded" THEN e.iterations ELSE <<>>
    BY <2>2
  <2>5. main.what = "succeeded" <=> o.got = "reply"
    BY <2>2
  <2>7. o.requests = e.tries /\ Unsent(o, main)
    BY <1>1, <1>2, <1>5 DEF Unsent
  <2>6. AnthropicGood(o)
    BY <1>3, <2>1, <2>3, <2>4, <2>5, <2>7, EmptySequences, TurnIsGood
  <2> QED
    BY <1>3, <2>6
<1> QED
  BY <1>4, <1>5

LEMMA BedrockFailedIsGood ==
  ASSUME asked.provider = "anthropic", IsAnthropicCall(asked), NEW j,
         Covers(j.model, j.dated, AN!recordedBedrockModel(asked.env.named))
  PROVE  AnthropicGood(AN!bedrockFailed(asked.env, j))
<1> DEFINE e == asked.env
           again == [e EXCEPT !.blocked = e.blocked2, !.seam = e.seam2]
           a == AN!createMessageAnthropic(again)
           requests == IF e.setUp THEN e.tries * AN!Left(e) ELSE 0
           notSent == AN!fallbackNotSent(e, a)
           own == AN!recordBedrockFailure(e)
           o == AN!bedrockFailed(e, j)
<1>1. /\ again.blocked \in BOOLEAN /\ again.key = e.key /\ again.use = e.use /\ again.iterations = e.iterations
      /\ again.named = e.named /\ again.served = e.served
  BY AnthropicEnv
<1>6. again.served = e.served /\ e.served \in {"", "served"}
  BY AnthropicEnv
<1>2. e.fallback \in BOOLEAN /\ e.tries \in Nat /\ e.setUp \in BOOLEAN
  BY AnthropicEnv
<1>3. requests \in Nat
  BY <1>2 DEF AN!Left
<1>4. CASE ~e.fallback
  <2>1. o = [judged |-> {j}, requests |-> requests, records |-> own, got |-> "error"]
    BY <1>4 DEF AN!bedrockFailed
  <2> HIDE DEF own, o, requests
  <2>2. j \in o.judged /\ o.requests = requests /\ o.records = own /\ o.got # "reply"
    BY <2>1
  <2>3. AnthropicGood(o)
    BY <2>2, BedrockFailureIsGood DEF own, requests
  <2> QED
    BY <2>3 DEF o
<1>5. CASE e.fallback
  <2>1. o = [judged |-> {j} \cup a.judged, requests |-> requests + a.requests, got |-> a.got,
             records |-> IF notSent THEN own ELSE a.records]
    BY <1>5 DEF AN!bedrockFailed
  <2> HIDE DEF again
  <2>2. AN!fallbackNotSent(again, a) <=> notSent
    BY <1>1 DEF AN!fallbackNotSent
  <2>3. /\ a.requests \in Nat
        /\ notSent => a.records = <<>> /\ a.requests = 0 /\ a.got # "reply"
        /\ ~notSent => /\ a.judged = {AN!Judged("asked", TRUE)} /\ ~again.blocked
                       /\ a.requests = 0 => again.seam \in Failures
                       /\ a = AN!turnMetered(again, AN!Judged("asked", TRUE), again.served, "")
    <3>1. AskedAgain(a, again)
      BY <1>1, AnthropicAsked
    <3> HIDE DEF a, notSent
    <3> QED
      BY <2>2, <3>1 DEF AskedAgain
  <2> HIDE DEF a, notSent, own, o, requests
  <2>4. j \in o.judged /\ a.judged \subseteq o.judged /\ o.requests = requests + a.requests /\ o.got = a.got
        /\ o.records = IF notSent THEN own ELSE a.records
    BY <2>1
  <2>5. CASE notSent
    <3>1. o.records = own
      BY <2>3, <2>4, <2>5
    <3>2. o.requests = requests /\ o.got # "reply"
      BY <1>3, <2>3, <2>4, <2>5
    <3>3. AnthropicGood(o)
      BY <2>4, <3>1, <3>2, BedrockFailureIsGood DEF own, requests
    <3> QED
      BY <3>3 DEF o
  <2>6. CASE ~notSent
    <3>1. PICK k, served, none : k = AN!Judged("asked", TRUE) /\ served = again.served /\ none = ""
      OBVIOUS
    <3>2. Takes(k, k.model) /\ Takes(k, served)
      BY <1>6, <3>1, AnthropicNames DEF AN!Judged
    <3>3. k \in o.judged /\ ~again.blocked /\ a = AN!turnMetered(again, k, served, none)
      BY <2>3, <2>4, <2>6, <3>1
    <3>10. a.requests \in Nat
      BY <2>3
    <3>7. requests + a.requests \in Nat
      BY <1>3, <3>10
    <3>8. o.requests \in Nat
      BY <2>4, <3>7
    <3>9. o.records = a.records
      BY <2>4, <2>6
    <3>4. o.records = a.records /\ o.requests \in Nat
      BY <3>8, <3>9
    <3>5. o.records = AN!turnMetered(again, k, served, none).records /\ o.got = AN!turnMetered(again, k, served, none).got
      BY <2>4, <3>3, <3>4
    <3>11. o.requests = 0 => again.seam \in Failures
      <4>1. a.requests = 0 => again.seam \in Failures
        BY <2>3, <2>6
      <4>2. o.requests = 0 => a.requests = 0
        BY <1>3, <2>4, <3>10
      <4> QED
        BY <4>1, <4>2
    <3>6. AnthropicGood(o)
      BY <1>1, <3>2, <3>3, <3>4, <3>5, <3>11, TurnMeteredIsGood
    <3> QED
      BY <3>6 DEF o
  <2> QED
    BY <2>5, <2>6
<1> QED
  BY <1>2, <1>4, <1>5

LEMMA BedrockIsGood ==
  ASSUME asked.provider = "anthropic", IsAnthropicCall(asked)
  PROVE  AnthropicGood(AN!createMessageBedrock(asked.env))
<1> DEFINE e == asked.env
           o == AN!createMessageBedrock(e)
<1>1. PICK name : name = AN!recordedBedrockModel(e.named)
  OBVIOUS
<1>2. PICK j, none : j = AN!Judged(name, FALSE) /\ none = ""
  OBVIOUS
<1>3. e.blocked \in BOOLEAN /\ e.setUp \in BOOLEAN /\ e.tries \in Nat \ {0} /\ e.named \in AN!Named
  BY AnthropicEnv
<1>4. j.model = name /\ Covers(j.model, j.dated, name)
  BY <1>1, <1>2, <1>3, AnthropicNames DEF AN!Judged
<1>5. o = CASE e.blocked -> AN!Stopped({j})
            [] ~e.blocked /\ (~e.setUp \/ e.seam \in AN!Failures) -> AN!bedrockFailed(e, j)
            [] OTHER -> [AN!turnMetered(e, j, name, none) EXCEPT !.requests = e.tries]
  BY <1>1, <1>2 DEF AN!createMessageBedrock
<1> HIDE DEF o
<1>6. CASE e.blocked
  <2>1. o = AN!Stopped({j})
    BY <1>5, <1>6
  <2>2. o.records = <<>> /\ o.requests = 0 /\ o.requests \in Nat
    BY <2>1 DEF AN!Stopped
  <2>3. AnthropicGood(o)
    BY <2>2, NothingIsAnthropicGood
  <2> QED
    BY <2>3 DEF o
<1>7. CASE ~e.blocked /\ (~e.setUp \/ e.seam \in AN!Failures)
  <2>1. o = AN!bedrockFailed(e, j)
    BY <1>5, <1>7
  <2>2. AnthropicGood(AN!bedrockFailed(e, j))
    BY <1>1, <1>4, BedrockFailedIsGood
  <2> QED
    BY <2>1, <2>2 DEF o
<1>8. CASE ~e.blocked /\ ~(~e.setUp \/ e.seam \in AN!Failures)
  <2> DEFINE m == AN!turnMetered(e, j, name, none)
  <2>1. o = [m EXCEPT !.requests = e.tries]
    BY <1>3, <1>5, <1>8
  <2>2. TurnEnds(m, j, e)
    <3>1. \A recorded, advisor : TurnEnds(AN!turnMetered(e, j, recorded, advisor), j, e)
      BY <1>3, TurnMeteredEnds
    <3> QED
      BY <3>1
  <2> HIDE DEF m
  <2>3. o.judged = {j} /\ o.requests = e.tries /\ o.records = m.records /\ o.got = m.got
    BY <2>1, <2>2 DEF TurnEnds
  <2>4. o.records = AN!turnMetered(e, j, name, none).records /\ o.got = AN!turnMetered(e, j, name, none).got
    BY <2>3 DEF m
  <2>5. j \in o.judged /\ o.requests \in Nat /\ o.requests # 0 /\ Takes(j, j.model) /\ Takes(j, name)
    BY <1>3, <1>4, <2>3 DEF Takes
  <2>6. AnthropicGood(o)
    BY <1>3, <1>4, <1>8, <2>4, <2>5, TurnMeteredIsGood
  <2> QED
    BY <2>6 DEF o
<1> QED
  BY <1>3, <1>6, <1>7, <1>8

LEMMA AnthropicCallIsGood ==
  ASSUME asked.provider = "anthropic", IsAnthropicCall(asked) PROVE AnthropicGood(Outcome(asked))
<1>1. Outcome(asked) = AN!Call(asked.entry, asked.env)
  BY OutcomeOfProvider
<1>2. Outcome(asked) \in {AN!betaCreateMessage(asked.env), AN!createMessageBedrock(asked.env), AN!createMessageAnthropic(asked.env)}
  BY <1>1 DEF AN!Call, AN!CreateMessage
<1> QED
  BY <1>2, BetaIsGood, BedrockIsGood, MessageIsGood

(* ------------------------------- all calls -------------------------------- *)
CallGood(o) ==
  /\ Good(o)
  /\ asked.provider = "litellm" => \A r : Leaves(o, r) => MetaRight(o, r)
  /\ asked.provider = "anthropic" => AnthropicGood(o)
LEMMA CallsAreGood == ASSUME asked \in AskedCalls PROVE CallGood(Outcome(asked))
<1>1. CASE asked.provider = "openai"
  BY <1>1, CallOfProvider, OutcomeOfProvider, OpenAIGood DEF CallGood
<1>2. CASE asked.provider = "groq"
  BY <1>2, CallOfProvider, OutcomeOfProvider, GroqIsGood DEF CallGood
<1>3. CASE asked.provider = "grok"
  BY <1>3, CallOfProvider, OutcomeOfProvider, GrokIsGood DEF CallGood
<1>4. CASE asked.provider = "ollama"
  BY <1>4, CallOfProvider, OutcomeOfProvider, OllamaIsGood DEF CallGood
<1>5. CASE asked.provider = "perplexity"
  BY <1>5, CallOfProvider, OutcomeOfProvider, PerplexityIsGood DEF CallGood
<1>6. CASE asked.provider = "google"
  BY <1>6, CallOfProvider, OutcomeOfProvider, GoogleGood DEF CallGood
<1>7. CASE asked.provider = "anthropic"
  BY <1>7, CallOfProvider, AnthropicCallIsGood DEF CallGood, AnthropicGood
<1>8. CASE asked.provider = "litellm"
  BY <1>8, CallOfProvider, LiteLLMCallIsGood DEF CallGood, LiteLLMGood
<1>9. CASE asked.provider = "fal"
  <2>1. Good(IF asked.entry = "stream" THEN MC!Stream(asked.env) ELSE MC!Run(asked.env))
    BY <1>9, CallOfProvider, FalGood
  <2> QED
    BY <1>9, <2>1, OutcomeOfProvider DEF CallGood
<1>10. CASE asked.provider = "runway"
  BY <1>10, CallOfProvider, OutcomeOfProvider, RunwayGood DEF CallGood
<1> QED
  BY <1>1, <1>2, <1>3, <1>4, <1>5, <1>6, <1>7, <1>8, <1>9, <1>10, CallOfProvider

LEMMA RanIsGood == ASSUME CallsInv PROVE (ran = {} /\ Ran.records = <<>> /\ Ran.requests = 0) \/ CallGood(Ran)
<1>1. asked \in AskedCalls /\ (ran = {} \/ ran = {Outcome(asked)})
  BY DEF CallsInv
<1>2. CASE ran = {}
  BY <1>2, RanIsOutcome
<1>3. CASE ran = {Outcome(asked)}
  BY <1>1, <1>3, RanIsOutcome, CallsAreGood
<1> QED
  BY <1>1, <1>2, <1>3

LEMMA NothingRecorded ==
  ASSUME Ran.records = <<>>
  PROVE  /\ JudgedAsRecorded /\ BilledAsConsumed
         /\ Ran.requests = 0 => EveryRequestRecordedOnce
<1>5. Mains = {}
  BY MainsOfNone
<1>6. DOMAIN Ran.records = {}
  OBVIOUS
<1>1. Mains = {} /\ Cardinality(Mains) = 0 /\ DOMAIN Ran.records = {}
  BY <1>5, <1>6, FS_EmptySet
<1>2. JudgedAsRecorded
  BY <1>1 DEF JudgedAsRecorded
<1>3. BilledAsConsumed
  BY <1>1 DEF BilledAsConsumed
<1>4. Ran.requests = 0 => EveryRequestRecordedOnce
  BY <1>1 DEF EveryRequestRecordedOnce
<1> QED
  BY <1>2, <1>3, <1>4

LEMMA RecordedOnce == CallsInv => EveryRequestRecordedOnce
<1> SUFFICES ASSUME CallsInv PROVE EveryRequestRecordedOnce
  OBVIOUS
<1>1. CASE CallGood(Ran)
  <2>1. Once(Ran) /\ Ran.requests \in Nat
    BY <1>1 DEF CallGood, Good
  <2> QED
    BY <2>1, OnceIsRecordedOnce
<1> QED
  BY <1>1, RanIsGood, NothingRecorded

LEMMA RecordedAsJudged == CallsInv => JudgedAsRecorded
<1> SUFFICES ASSUME CallsInv, CallGood(Ran), NEW r, Leaves(Ran, r) PROVE JudgedAsRecorded
  BY RanIsGood, NothingRecorded DEF CallGood, Good, Once, LeavesNone
<1>1. Mains = {1} /\ Ran.records[1] = r
  BY MainsOfSome DEF Leaves
<1>2. PICK j \in Ran.judged : NamedAs(j, r)
  BY DEF CallGood, Good
<1>3. asked.provider = "litellm" => MetaRight(Ran, r)
  BY DEF CallGood
<1>4. NamesServing => Nameless(r) \/ Spelling(r.model) \in {j.model} \cup (IF j.dated THEN {DatedName(j.model)} ELSE {})
  BY <1>2 DEF NamedAs
<1>5. asked.provider = "litellm" =>
       /\ SameAt("capturePrompts", r.meta, asked.env.caller)
       /\ LL!answered(asked.env) /\ SameAt("subscriber", asked.env.headers, asked.env.remembered) =>
            SameAt("subscriber", r.meta, Ran.person)
  BY <1>3 DEF MetaRight
<1> QED
  BY <1>1, <1>2, <1>4, <1>5 DEF JudgedAsRecorded

(* What BilledAsConsumed says of one record. *)
BilledRight(r) ==
  /\ asked.provider = "runway" /\ r.what \in {"failed", "cancelled"} => r.length = MC!NoLength
  /\ r.what = "unfinished" => r.length = r.asked
  /\ r.what = "succeeded" /\ Readable =>
    /\ r.operation \in {"chat", "vision"} /\ ~IsPass(r) /\ ThoughtsTold =>
         [in |-> r.tokens.in, out |-> r.tokens.out, write |-> r.tokens.write, read |-> r.tokens.read]
           = BilledAs(asked.env.use, r.model)
    /\ r.operation = "video" =>
         LET made == IF asked.provider = "runway" THEN RunwayMade(asked.env) ELSE VideoMade(asked.env) IN
         /\ made # {} => r.length \in made
         /\ r.unknown <=> r.length = MC!NoLength
    /\ asked.provider = "anthropic" =>
         /\ {Ran.records[k].pass : k \in DOMAIN Ran.records} = {0} \cup BilledPasses
         /\ Len(Ran.records) = 1 + Cardinality(BilledPasses)
         /\ Cardinality({Ran.records[k].id : k \in DOMAIN Ran.records}) = Len(Ran.records)
         /\ Cardinality({Ran.records[k].key : k \in DOMAIN Ran.records}) = Len(Ran.records)
         /\ IsPass(r) => r.tokens = asked.env.iterations[r.pass].tokens
LEMMA BilledRecordwise == (\A i \in DOMAIN Ran.records : BilledRight(Ran.records[i])) => BilledAsConsumed
  BY DEF BilledAsConsumed, BilledRight, BilledPasses
LEMMA OwnRecordIsBilled ==
  ASSUME NEW r, TokensRight(r), LengthRight(r), ~IsPass(r),
         asked.provider = "anthropic" /\ r.what = "succeeded" => PassesRight(Ran.records)
  PROVE  BilledRight(r)
<1>1. r.what = "succeeded" /\ Readable /\ r.operation \in {"chat", "vision"} /\ ThoughtsTold =>
        [in |-> r.tokens.in, out |-> r.tokens.out, write |-> r.tokens.write, read |-> r.tokens.read]
          = BilledAs(asked.env.use, r.model)
  BY DEF TokensRight
<1> QED
  BY <1>1 DEF LengthRight, PassesRight, BilledRight
LEMMA PassIsBilled ==
  ASSUME asked.provider = "anthropic", NEW i \in DOMAIN Ran.records, IsPass(Ran.records[i]), PassesPlain(Ran.records),
         PassesRight(Ran.records)
  PROVE  BilledRight(Ran.records[i])
<1>1. Ran.records[i].what = "succeeded" /\ Ran.records[i].operation \in {"advisor_message", "compaction"}
  BY DEF PassesPlain
<1> QED
  BY <1>1 DEF PassesRight, BilledRight

LEMMA BilledWhatWasConsumed == CallsInv => BilledAsConsumed
<1> SUFFICES ASSUME CallsInv, CallGood(Ran), NEW r, Leaves(Ran, r) PROVE BilledAsConsumed
  BY RanIsGood, NothingRecorded DEF CallGood, Good, Once, LeavesNone
<1>1. /\ TokensRight(r) /\ LengthRight(r) /\ ~IsPass(r) /\ Ran.records[1] = r /\ 1 \in DOMAIN Ran.records
      /\ \A i \in DOMAIN Ran.records : i # 1 => IsPass(Ran.records[i])
  BY DEF CallGood, Good, Leaves
<1>2. CASE asked.provider = "anthropic"
  <2>1. PassesPlain(Ran.records) /\ ((\E i \in DOMAIN Ran.records : Ran.records[i].what = "succeeded") => PassesRight(Ran.records))
    BY <1>2 DEF CallGood, AnthropicGood
  <2>2. BilledRight(r)
    BY <1>1, <2>1, OwnRecordIsBilled
  <2>3. ASSUME NEW i \in DOMAIN Ran.records, i # 1 PROVE BilledRight(Ran.records[i])
    <3>1. IsPass(Ran.records[i])
      BY <1>1, <2>3
    <3>2. Ran.records[i].what = "succeeded"
      BY <2>1, <3>1 DEF PassesPlain
    <3>3. PassesRight(Ran.records)
      BY <2>1, <3>2
    <3> QED
      BY <1>2, <2>1, <3>1, <3>3, PassIsBilled
  <2> QED
    BY <1>1, <2>2, <2>3, BilledRecordwise
<1>3. CASE asked.provider # "anthropic"
  <2>1. Ran.records # <<>>
    BY <1>1
  <2>2. DOMAIN Ran.records = {1}
    BY <1>3, <2>1 DEF CallGood, Good
  <2>3. BilledRight(r)
    BY <1>1, <1>3, OwnRecordIsBilled
  <2> QED
    BY <1>1, <2>2, <2>3, BilledRecordwise
<1> QED
  BY <1>2, <1>3

(* Every call of every provider, whatever it asks and meets: what left the     *)
(* process has one record of its own, which tells success exactly when the     *)
(* caller was given a usable reply (trackedCall, metering/failure.go and the   *)
(* providers' middlewares).                                                    *)
THEOREM CallsAreRecordedOnce == CallsSpec => []EveryRequestRecordedOnce
<1>1. CallsInv => EveryRequestRecordedOnce
  BY RecordedOnce
<1> QED
  BY <1>1, CallsInvariant, PTL

(* The model a record names is one the cost controls were asked about, or the  *)
(* dated snapshot they were told of, and a LiteLLM record's person and capture *)
(* switch are those the rules and the caller decided on.                       *)
THEOREM RecordsAreAsJudged == CallsSpec => []JudgedAsRecorded
<1>1. CallsInv => JudgedAsRecorded
  BY RecordedAsJudged
<1> QED
  BY <1>1, CallsInvariant, PTL

(* What a record bills is what its call consumed, for any amounts, lengths and *)
(* sequences of passes: no token twice and none lost, and every billed pass of *)
(* an Anthropic turn once, under an id and a key of its own.                   *)
THEOREM RecordsBillWhatWasConsumed == CallsSpec => []BilledAsConsumed
<1>1. CallsInv => BilledAsConsumed
  BY BilledWhatWasConsumed
<1> QED
  BY <1>1, CallsInvariant, PTL

(* ----------------------------- the record itself -------------------------- *)
(* UsageRecords, for any texts, metadata and settings: the record a call       *)
(* leaves names whom the call was judged by, and a retry of it is the same     *)
(* record.  The lemmas say what each fold of the metadata into it finds.       *)
LEMMA OneOf == ASSUME NEW who PROVE One({who}) = who
  BY DEF One
LEMMA OneOfNone == One({}) = NoSubscriber
  BY DEF One

(* The text found under the first of the keys that has one is no blank.       *)
LEMMA FirstStringIsText ==
  ASSUME NEW m, IsMetadata(m), NEW key
  PROVE  /\ firstString(m, <<key>>) = IF key \in DOMAIN m.text /\ ~IsBlank(m.text[key]) THEN m.text[key] ELSE ""
         /\ firstString(m, <<key>>) \in Text
         /\ firstString(m, <<key>>) = "" \/ ~IsBlank(firstString(m, <<key>>))
<1> DEFINE found == {i \in DOMAIN <<key>> : <<key>>[i] \in DOMAIN m.text /\ ~IsBlank(m.text[<<key>>[i]])}
<1>1. DOMAIN <<key>> = {1} /\ <<key>>[1] = key
  OBVIOUS
<1>2. CASE key \in DOMAIN m.text /\ ~IsBlank(m.text[key])
  <2>1. found = {1}
    BY <1>1, <1>2
  <2>2. (CHOOSE i \in found : \A j \in found : i <= j) = 1
    BY <2>1
  <2>3. firstString(m, <<key>>) = m.text[key]
    BY <2>1, <2>2, <1>1 DEF firstString
  <2> QED
    BY <2>3, <1>2 DEF IsMetadata
<1>3. CASE ~(key \in DOMAIN m.text /\ ~IsBlank(m.text[key]))
  <2>1. found = {}
    BY <1>1, <1>3
  <2>2. firstString(m, <<key>>) = ""
    BY <2>1 DEF firstString
  <2>3. "" \in Text
    BY TextAssumption
  <2> QED
    BY <2>2, <2>3, <1>3
<1> QED
  BY <1>2, <1>3

LEMMA FirstOfTwo ==
  ASSUME NEW m, IsMetadata(m), NEW a, NEW b
  PROVE  firstString(m, <<a, b>>) = IF firstString(m, <<a>>) # "" THEN firstString(m, <<a>>) ELSE firstString(m, <<b>>)
<1> DEFINE keys == <<a, b>>
           Says(k) == k \in DOMAIN m.text /\ ~IsBlank(m.text[k])
           found == {i \in DOMAIN keys : keys[i] \in DOMAIN m.text /\ ~IsBlank(m.text[keys[i]])}
<1>1. DOMAIN keys = {1, 2} /\ keys[1] = a /\ keys[2] = b
  OBVIOUS
<1>2. /\ firstString(m, <<a>>) = IF Says(a) THEN m.text[a] ELSE ""
      /\ firstString(m, <<b>>) = IF Says(b) THEN m.text[b] ELSE ""
  BY FirstStringIsText
<1>3. Says(a) => m.text[a] # ""
  BY DEF IsBlank
<1>4. firstString(m, keys) = IF found = {} THEN "" ELSE m.text[keys[CHOOSE i \in found : \A j \in found : i <= j]]
  BY DEF firstString
<1>5. found = {i \in {1, 2} : (i = 1 /\ Says(a)) \/ (i = 2 /\ Says(b))}
  BY <1>1
<1> HIDE DEF found
<1>6. CASE Says(a)
  <2>1. 1 \in found /\ \A j \in found : 1 <= j
    BY <1>5, <1>6
  <2>2. (CHOOSE i \in found : \A j \in found : i <= j) = 1
    BY <2>1, <1>5
  <2> QED
    BY <2>1, <2>2, <1>1, <1>2, <1>3, <1>4, <1>6
<1>7. CASE ~Says(a) /\ Says(b)
  <2>1. found = {2}
    BY <1>5, <1>7
  <2>2. (CHOOSE i \in found : \A j \in found : i <= j) = 2
    BY <2>1
  <2> QED
    BY <2>1, <2>2, <1>1, <1>2, <1>4, <1>7
<1>8. CASE ~Says(a) /\ ~Says(b)
  BY <1>5, <1>8, <1>2, <1>4
<1> QED
  BY <1>6, <1>7, <1>8

(* What layers say of a call's person: no two people, and no mark for a text.  *)
LEMMA OverlayIsMetadata ==
  ASSUME NEW base, NEW top, IsMetadata(base), IsMetadata(top)
  PROVE  /\ IsMetadata(overlay(base, top))
         /\ overlay(base, top).sub = IF top.sub # {} THEN top.sub ELSE base.sub
  BY DEF IsMetadata, overlay, Metadata

LEMMA OnePerson ==
  ASSUME NEW m, IsMetadata(m)
  PROVE  One(m.sub) \in People /\ (m.sub # {} => m.sub = {One(m.sub)})
<1>1. CASE m.sub = {}
  <2>1. One(m.sub) = NoSubscriber
    BY <1>1, OneOfNone
  <2>2. NoSubscriber \in People
    BY TextAssumption DEF NoSubscriber, Subscriber, People
  <2> QED
    BY <1>1, <2>1, <2>2
<1>2. CASE m.sub # {}
  <2>1. PICK who \in m.sub : who \in People /\ m.sub = {who}
    BY <1>2 DEF IsMetadata
  <2>2. One(m.sub) = who
    BY <2>1, OneOf
  <2> QED
    BY <2>1, <2>2
<1> QED
  BY <1>1, <1>2

(* The person of the decision is the person of the metadata a record takes.    *)
LEMMA JudgedPerson ==
  ASSUME NEW s, IsSetting(s)
  PROVE  LET m == UsageMetadataOver(s.ctx) sub == One(m.sub) IN
         /\ IsMetadata(m)
         /\ (IF identifiesPerson(GetSubscriber(s.ctx)) THEN GetSubscriber(s.ctx) ELSE sub).id = sub.id
         /\ (IF identifiesPerson(GetSubscriber(s.ctx)) THEN GetSubscriber(s.ctx) ELSE sub).email = sub.email
<1> DEFINE ctx == s.ctx
           lay == overlay(overlay(ctx.defaults, ctx.argument), ctx.stored)
           m == UsageMetadataOver(ctx)
<1>1. IsMetadata(lay) /\ (ctx.stored.sub # {} => lay.sub = ctx.stored.sub)
  BY OverlayIsMetadata DEF IsSetting
<1>2. CASE ~identifiesPerson(ctx.typed)
  <2>1. m = lay
    BY <1>2 DEF UsageMetadataOver, ApplySubscriber
  <2>2. CASE identifiesPerson(One(ctx.stored.sub))
    <3>1. ASSUME ctx.stored.sub = {} PROVE FALSE
      <4>1. One(ctx.stored.sub) = NoSubscriber
        BY <3>1, OneOfNone
      <4>2. ~identifiesPerson(NoSubscriber)
        BY DEF identifiesPerson, NoSubscriber, Subscriber
      <4> QED
        BY <4>1, <4>2, <2>2
    <3> QED
      BY <3>1, <2>1, <2>2, <1>1, <1>2 DEF GetSubscriber
  <2>3. CASE ~identifiesPerson(One(ctx.stored.sub))
    BY <2>1, <2>3, <1>1, <1>2 DEF GetSubscriber
  <2> QED
    BY <2>2, <2>3
<1>3. CASE identifiesPerson(ctx.typed)
  <2> DEFINE who == Subscriber(ctx.typed.id, ctx.typed.email, One(lay.sub).credential)
  <2>1. m = [lay EXCEPT !.sub = {who}]
    BY <1>3 DEF UsageMetadataOver, ApplySubscriber
  <2>2. who \in People
    BY <1>1, OnePerson DEF IsSetting, People, Subscriber
  <2>3. m = Metadata(lay.text, {who})
    BY <2>1, <1>1 DEF IsMetadata, Metadata
  <2>4. m.sub = {who} /\ m.text = lay.text /\ m = Metadata(m.text, m.sub)
    BY <2>3 DEF Metadata
  <2>5. IsMetadata(m)
    BY <2>2, <2>4, <1>1 DEF IsMetadata
  <2>6. One(m.sub) = who
    BY <2>4, OneOf
  <2> QED
    BY <2>5, <2>6, <1>3 DEF GetSubscriber, Subscriber
<1> QED
  BY <1>2, <1>3

Filled(text, default) == IF IsBlank(text) THEN default ELSE text
NamedBy(alias, who) == CredentialAliasFor(alias, who.id, who.email, who.credential)
Payloads(transactions, keys) ==
  [organization: Text, alias: Text, sub: SUBSET People, transaction: transactions, key: keys, failed: BOOLEAN]
KeyFor(key, own) == IF key = "" THEN <<"generated", own>> ELSE <<key>>

LEMMA OrganizationIsText ==
  ASSUME NEW m, IsMetadata(m)
  PROVE  firstString(m, <<"organizationName", "organizationId">>) \in Text
<1>1. firstString(m, <<"organizationName">>) \in Text /\ firstString(m, <<"organizationId">>) \in Text
  BY FirstStringIsText
<1>2. \/ firstString(m, <<"organizationName", "organizationId">>) = firstString(m, <<"organizationName">>)
      \/ firstString(m, <<"organizationName", "organizationId">>) = firstString(m, <<"organizationId">>)
  BY FirstOfTwo
<1> QED
  BY <1>1, <1>2

(* A record takes the organization, the alias and the person of the metadata,  *)
(* and the ids it names.                                                       *)
LEMMA ApplyMetadataTakes ==
  ASSUME NEW m, IsMetadata(m), NEW own, NEW new, new \in Payloads({own}, {<<"generated", own>>}),
         new.organization = "", new.alias = "", new.sub = {}
  PROVE  LET p == ApplyMetadata(new, m) IN
         /\ p \in Payloads({p.transaction}, {p.key})
         /\ p.organization = firstString(m, <<"organizationName", "organizationId">>)
         /\ p.alias = firstString(m, <<"credentialAlias">>)
         /\ p.sub = m.sub
         /\ p.transaction = IF firstString(m, <<"transactionId">>) = "" THEN own ELSE firstString(m, <<"transactionId">>)
         /\ p.key = KeyFor(firstString(m, <<"idempotencyKey">>), own)
<1> DEFINE Says(key) == firstString(m, <<key>>)
           org == firstString(m, <<"organizationName", "organizationId">>)
           transaction == IF Says("transactionId") = "" THEN own ELSE Says("transactionId")
           p == ApplyMetadata(new, m)
<1>1. org = IF Says("organizationName") # "" THEN Says("organizationName") ELSE Says("organizationId")
  BY FirstOfTwo
<1>2. org \in Text /\ Says("credentialAlias") \in Text /\ m.sub \subseteq People
  BY OrganizationIsText, FirstStringIsText DEF IsMetadata
<1>3. p \in [organization: {org}, alias: {Says("credentialAlias")}, sub: {m.sub}, transaction: {transaction},
             key: {KeyFor(Says("idempotencyKey"), own)}, failed: BOOLEAN]
  BY <1>1 DEF ApplyMetadata, Payloads, KeyFor
<1> HIDE DEF p
<1> QED
  BY <1>2, <1>3 DEF Payloads, p

(* What a record says of its caller, once the process's defaults are in.       *)
LEMMA PreparedSays ==
  ASSUME NEW s, IsSetting(s), NEW p, p \in Payloads({p.transaction}, {p.key})
  PROVE  LET d     == RecordDefaults(s.process)
             named == NamedBy(Filled(p.alias, d.alias), One(p.sub))
             r     == prepared(s, p)
         IN /\ r.organization = Filled(p.organization, d.organization)
            /\ r.sub = IF One(p.sub).credential = "opaque" \/ named = "" THEN p.sub
                       ELSE {[One(p.sub) EXCEPT !.credential = named]}
            /\ r.transaction = p.transaction /\ r.key = p.key
<1> DEFINE d == RecordDefaults(s.process)
           f == fillUnsetFields(p, d)
           sub == One(p.sub)
           named == NamedBy(f.alias, sub)
<1>1. d.organization \in Text /\ d.alias \in Text
  BY DEF IsSetting, RecordDefaults, codeOrEnv
<1> HIDE DEF d
<1>2. /\ f \in Payloads({p.transaction}, {p.key}) /\ f.sub = p.sub /\ f.transaction = p.transaction /\ f.key = p.key
      /\ f.organization = Filled(p.organization, d.organization) /\ f.alias = Filled(p.alias, d.alias)
  BY <1>1 DEF fillUnsetFields, Payloads, Filled
<1>3. prepared(s, p) = IF sub.credential = "opaque" \/ named = "" THEN f
                       ELSE [f EXCEPT !.sub = {[sub EXCEPT !.credential = named]}]
  BY <1>2 DEF prepared, subscriberWithCredentialAlias, NamedBy, d
<1> HIDE DEF f, named, sub
<1>4. /\ prepared(s, p).organization = f.organization
      /\ prepared(s, p).sub = IF sub.credential = "opaque" \/ named = "" THEN f.sub ELSE {[sub EXCEPT !.credential = named]}
      /\ prepared(s, p).transaction = f.transaction /\ prepared(s, p).key = f.key
  BY <1>2, <1>3 DEF Payloads
<1> QED
  BY <1>2, <1>4 DEF named, sub, d

(* The caller as the decision knows it, with the alias that names it.          *)
Contexts == [id: Text, email: Text, organization: Text, credential: Text \cup {"none"}, opaque: BOOLEAN]
As(ec, alias) ==
  LET named == CredentialAliasFor(alias, ec.id, ec.email, ec.credential) IN
  IF ec.opaque \/ named = "" THEN ec.credential ELSE named
LEMMA AliasedContext ==
  ASSUME NEW ec \in Contexts, NEW alias \in Text
  PROVE  LET e == withCredentialAlias(ec, alias) IN
         /\ e \in Contexts
         /\ e.id = ec.id /\ e.email = ec.email /\ e.organization = ec.organization /\ (e.opaque <=> ec.opaque)
         /\ e.credential = As(ec, alias)
<1>1. CredentialAliasFor(alias, ec.id, ec.email, ec.credential) \in Text
  BY TextAssumption DEF CredentialAliasFor
<1> QED
  BY <1>1 DEF withCredentialAlias, Contexts, As

LEMMA DecisionSays ==
  ASSUME NEW s, IsSetting(s)
  PROVE  LET m     == UsageMetadataOver(s.ctx)
             sub   == One(m.sub)
             org   == firstString(m, <<"organizationName", "organizationId">>)
             alias == firstString(m, <<"credentialAlias">>)
             d     == RecordDefaults(s.process)
         IN \E ec \in Contexts, filled \in Contexts :
              /\ ec.id = sub.id /\ ec.email = sub.email /\ (ec.opaque <=> sub.credential = "opaque")
              /\ ec.credential = IF sub.credential = "opaque" THEN "none" ELSE sub.credential
              /\ filled.id = sub.id /\ filled.email = sub.email /\ (filled.opaque <=> sub.credential = "opaque")
              /\ filled.credential = As(ec, alias)
              /\ decision(s).id = sub.id /\ decision(s).email = sub.email
              /\ decision(s).opaque <=> sub.credential = "opaque"
              /\ decision(s).organization = Filled(org, d.organization)
              /\ decision(s).credential = As(filled, d.alias)
<1> DEFINE m     == UsageMetadataOver(s.ctx)
           sub   == One(m.sub)
           who   == IF identifiesPerson(GetSubscriber(s.ctx)) THEN GetSubscriber(s.ctx) ELSE sub
           org   == firstString(m, <<"organizationName", "organizationId">>)
           alias == firstString(m, <<"credentialAlias">>)
           d     == RecordDefaults(s.process)
           ec    == [id |-> who.id, email |-> who.email, organization |-> org,
                     credential |-> IF sub.credential = "opaque" THEN "none" ELSE sub.credential,
                     opaque |-> sub.credential = "opaque"]
           judged == withCredentialAlias(ec, alias)
           filled == [judged EXCEPT !.organization = IF IsBlank(@) THEN d.organization ELSE @]
<1>1. IsMetadata(m) /\ who.id = sub.id /\ who.email = sub.email
  BY JudgedPerson
<1>2. sub \in People /\ alias \in Text /\ d.alias \in Text /\ d.organization \in Text
  BY <1>1, OnePerson, FirstStringIsText DEF IsSetting, RecordDefaults, codeOrEnv
<1>3. org \in Text
  BY <1>1, OrganizationIsText
<1>4. decision(s) = withCredentialAlias(filled, d.alias)
  BY DEF decision, complete, NewEvalContextFromMetadata
<1> HIDE DEF m, sub, who, org, alias, d
<1>5. ec \in Contexts
  BY <1>1, <1>2, <1>3 DEF Contexts, People
<1>6. /\ ec.id = sub.id /\ ec.email = sub.email /\ (ec.opaque <=> sub.credential = "opaque")
      /\ ec.credential = IF sub.credential = "opaque" THEN "none" ELSE sub.credential
      /\ ec.organization = org
  BY <1>1
<1> HIDE DEF ec
<1>7. /\ judged \in Contexts /\ judged.id = sub.id /\ judged.email = sub.email /\ judged.organization = org
      /\ judged.opaque <=> sub.credential = "opaque"
      /\ judged.credential = As(ec, alias)
  BY <1>2, <1>5, <1>6, AliasedContext
<1> HIDE DEF judged
<1>8. /\ filled \in Contexts /\ filled.id = sub.id /\ filled.email = sub.email
      /\ filled.organization = Filled(org, d.organization)
      /\ filled.opaque <=> sub.credential = "opaque"
      /\ filled.credential = As(ec, alias)
  BY <1>2, <1>7 DEF Contexts, Filled
<1> HIDE DEF filled
<1>9. /\ decision(s).id = sub.id /\ decision(s).email = sub.email
      /\ decision(s).opaque <=> sub.credential = "opaque"
      /\ decision(s).organization = Filled(org, d.organization)
      /\ decision(s).credential = As(filled, d.alias)
  BY <1>2, <1>4, <1>8, AliasedContext
<1> QED
  BY <1>5, <1>6, <1>8, <1>9 DEF m, sub, org, alias, d

LEMMA DecisionIsRecord ==
  ASSUME NEW s, IsSetting(s)
  PROVE  LET d == decision(s) r == SendAttempts(s).success sub == One(r.sub) IN
         /\ Same(d.id, sub.id) /\ Same(d.email, sub.email) /\ Same(d.organization, r.organization)
         /\ sub.credential = IF d.opaque THEN "opaque" ELSE d.credential
<1> DEFINE m     == UsageMetadataOver(s.ctx)
           sub   == One(m.sub)
           org   == firstString(m, <<"organizationName", "organizationId">>)
           alias == firstString(m, <<"credentialAlias">>)
           d     == RecordDefaults(s.process)
           r     == SendAttempts(s).success
           named == NamedBy(Filled(alias, d.alias), sub)
<1>1. IsMetadata(m)
  BY JudgedPerson
<1>2. sub \in People /\ alias \in Text /\ (alias = "" \/ ~IsBlank(alias)) /\ d.alias \in Text
  BY <1>1, OnePerson, FirstStringIsText DEF IsSetting, RecordDefaults
<1>3. PICK ec \in Contexts, filled \in Contexts :
        /\ ec.id = sub.id /\ ec.email = sub.email /\ (ec.opaque <=> sub.credential = "opaque")
        /\ ec.credential = IF sub.credential = "opaque" THEN "none" ELSE sub.credential
        /\ filled.id = sub.id /\ filled.email = sub.email /\ (filled.opaque <=> sub.credential = "opaque")
        /\ filled.credential = As(ec, alias)
        /\ decision(s).id = sub.id /\ decision(s).email = sub.email
        /\ decision(s).opaque <=> sub.credential = "opaque"
        /\ decision(s).organization = Filled(org, d.organization)
        /\ decision(s).credential = As(filled, d.alias)
  BY DecisionSays
<1> DEFINE new == NewPayload("own")
           p   == ApplyMetadata(new, m)
<1>4. r = prepared(s, p)
  BY DEF SendAttempts
<1> HIDE DEF m, d, r, org, alias, sub
<1>5. new \in Payloads({"own"}, {<<"generated", "own">>}) /\ new.organization = "" /\ new.alias = "" /\ new.sub = {}
  BY TextAssumption DEF NewPayload, Payloads
<1> HIDE DEF new
<1>6. /\ p \in Payloads({p.transaction}, {p.key})
      /\ p.organization = org /\ p.alias = alias /\ p.sub = m.sub
  BY <1>1, <1>5, ApplyMetadataTakes DEF org, alias
<1> HIDE DEF p
<1>8. /\ r.organization = Filled(org, d.organization)
      /\ r.sub = IF sub.credential = "opaque" \/ named = "" THEN m.sub ELSE {[sub EXCEPT !.credential = named]}
  <2>1. /\ prepared(s, p).organization = Filled(p.organization, d.organization)
        /\ prepared(s, p).sub = IF One(p.sub).credential = "opaque" \/ NamedBy(Filled(p.alias, d.alias), One(p.sub)) = ""
                                THEN p.sub
                                ELSE {[One(p.sub) EXCEPT !.credential = NamedBy(Filled(p.alias, d.alias), One(p.sub))]}
    BY <1>6, PreparedSays DEF d
  <2> QED
    BY <1>4, <1>6, <2>1 DEF sub
<1>7. One(r.sub) = IF sub.credential = "opaque" \/ named = "" THEN sub ELSE [sub EXCEPT !.credential = named]
  BY <1>8, OneOf DEF sub
<1>9. One(r.sub).id = sub.id /\ One(r.sub).email = sub.email
  BY <1>2, <1>7 DEF People
<1>10. One(r.sub).credential = IF sub.credential = "opaque" \/ named = "" THEN sub.credential ELSE named
  BY <1>2, <1>7 DEF People
<1>11. One(r.sub).credential = IF decision(s).opaque THEN "opaque" ELSE decision(s).credential
  BY <1>2, <1>3, <1>10, TextAssumption DEF CredentialAliasFor, IsBlank, People, NamedBy, Filled, As
<1> QED
  BY <1>3, <1>8, <1>9, <1>11 DEF Same, r

(* A failed attempt keeps an id and a key of its own.                          *)
LEMMA AttemptKeepsItsIds ==
  ASSUME NEW s, IsSetting(s), NEW own
  PROVE  LET m == UsageMetadataOver(s.ctx)
             key == firstString(m, <<"idempotencyKey">>)
             r == prepared(s, ApplyFailedCall(NewPayload(own), m)) IN
         /\ r.transaction = own
         /\ r.key = IF key = "" THEN <<"generated", own>> ELSE <<key, "err", own>>
<1> DEFINE m == UsageMetadataOver(s.ctx)
           key == firstString(m, <<"idempotencyKey">>)
           id == firstString(m, <<"transactionId">>)
           new == [NewPayload(own) EXCEPT !.failed = TRUE]
           p == ApplyMetadata(new, m)
           kept == [p EXCEPT !.transaction = IF id # "" /\ @ = id THEN new.transaction ELSE @]
           ownKey == IF key = "" THEN <<"generated", own>> ELSE <<key, "err", own>>
           f == [kept EXCEPT !.key = IF key # "" /\ @ = <<key>> THEN failedCallIdempotencyKey(key, kept.transaction) ELSE @]
<1>1. IsMetadata(m)
  BY JudgedPerson
<1>2. f = ApplyFailedCall(NewPayload(own), m)
  BY DEF ApplyFailedCall, applyMetadataApartFromRetry
<1> HIDE DEF m, id, key
<1>3. /\ new \in Payloads({own}, {<<"generated", own>>}) /\ new.organization = "" /\ new.alias = "" /\ new.sub = {}
      /\ new.transaction = own
  BY TextAssumption DEF NewPayload, Payloads
<1> HIDE DEF new
<1>4. /\ p \in Payloads({p.transaction}, {p.key})
      /\ p.transaction = IF id = "" THEN own ELSE id
      /\ p.key = IF key = "" THEN <<"generated", own>> ELSE <<key>>
  BY <1>1, <1>3, ApplyMetadataTakes DEF id, key, KeyFor
<1> HIDE DEF p
<1>5. kept \in Payloads({own}, {p.key}) /\ kept.key = p.key /\ kept.transaction = own
  BY <1>3, <1>4 DEF Payloads
<1> HIDE DEF kept
<1>6. f \in Payloads({own}, {ownKey}) /\ f.transaction = own /\ f.key = ownKey
  BY <1>4, <1>5 DEF Payloads, failedCallIdempotencyKey
<1> HIDE DEF f, ownKey
<1>7. prepared(s, f).transaction = own /\ prepared(s, f).key = ownKey
  <2>1. f \in Payloads({f.transaction}, {f.key})
    BY <1>6
  <2> QED
    BY <1>6, <2>1, PreparedSays
<1> QED
  BY <1>2, <1>7 DEF ownKey, m, key

LEMMA RetryKeepsApart ==
  ASSUME NEW s, IsSetting(s)
  PROVE  LET sent == SendAttempts(s) IN
         /\ \A r \in sent.attempts : r.key # sent.success.key /\ r.transaction \in s.failures
         /\ Cardinality({r.key : r \in sent.attempts}) = Cardinality(s.failures)
         /\ Cardinality({r.transaction : r \in sent.attempts}) = Cardinality(s.failures)
<1> DEFINE m == UsageMetadataOver(s.ctx)
           key == firstString(m, <<"idempotencyKey">>)
           sent == SendAttempts(s)
           Attempt(own) == prepared(s, ApplyFailedCall(NewPayload(own), m))
           Key(own) == IF key = "" THEN <<"generated", own>> ELSE <<key, "err", own>>
           new == NewPayload("own")
           p == ApplyMetadata(new, m)
<1>1. sent.attempts = {Attempt(own) : own \in s.failures} /\ sent.success = prepared(s, p)
  BY DEF SendAttempts
<1>2. \A own : Attempt(own).transaction = own /\ Attempt(own).key = Key(own)
  BY AttemptKeepsItsIds
<1>3. IsMetadata(m)
  BY JudgedPerson
<1> HIDE DEF m, key, sent, Attempt
<1>4. sent.success.key = IF key = "" THEN <<"generated", "own">> ELSE <<key>>
  <2>1. new \in Payloads({"own"}, {<<"generated", "own">>}) /\ new.organization = "" /\ new.alias = "" /\ new.sub = {}
    BY TextAssumption DEF NewPayload, Payloads
  <2> HIDE DEF new
  <2>2. p \in Payloads({p.transaction}, {p.key}) /\ p.key = KeyFor(key, "own")
    BY <1>3, <2>1, ApplyMetadataTakes DEF key
  <2> HIDE DEF p
  <2>3. prepared(s, p).key = p.key
    BY <2>2, PreparedSays
  <2> QED
    BY <1>1, <2>2, <2>3 DEF KeyFor
<1>5. {r.key : r \in sent.attempts} = {Key(own) : own \in s.failures}
  <2>1. \A own \in s.failures : Attempt(own) \in sent.attempts
    BY <1>1
  <2>2. \A r \in sent.attempts : \E own \in s.failures : r = Attempt(own)
    BY <1>1
  <2>3. ASSUME NEW x \in {r.key : r \in sent.attempts} PROVE x \in {Key(own) : own \in s.failures}
    <3>1. PICK r \in sent.attempts : x = r.key
      OBVIOUS
    <3>2. PICK own \in s.failures : r = Attempt(own)
      BY <2>2
    <3>3. x = Key(own)
      BY <3>1, <3>2, <1>2
    <3> QED
      BY <3>3
  <2>4. ASSUME NEW own \in s.failures PROVE Key(own) \in {r.key : r \in sent.attempts}
    <3>1. Attempt(own) \in sent.attempts /\ Attempt(own).key = Key(own)
      BY <2>1, <1>2
    <3> QED
      BY <3>1
  <2> QED
    BY <2>3, <2>4
<1>6. {r.transaction : r \in sent.attempts} = s.failures
  <2>1. \A own \in s.failures : Attempt(own) \in sent.attempts
    BY <1>1
  <2>2. \A r \in sent.attempts : \E own \in s.failures : r = Attempt(own)
    BY <1>1
  <2>3. ASSUME NEW x \in {r.transaction : r \in sent.attempts} PROVE x \in s.failures
    <3>1. PICK r \in sent.attempts : x = r.transaction
      OBVIOUS
    <3>2. PICK own \in s.failures : r = Attempt(own)
      BY <2>2
    <3>3. x = own
      BY <3>1, <3>2, <1>2
    <3> QED
      BY <3>3
  <2>4. ASSUME NEW own \in s.failures PROVE own \in {r.transaction : r \in sent.attempts}
    <3>1. Attempt(own) \in sent.attempts /\ Attempt(own).transaction = own
      BY <2>1, <1>2
    <3> QED
      BY <3>1
  <2> QED
    BY <2>3, <2>4
<1>7. \A a, b : Key(a) = Key(b) => a = b
  OBVIOUS
<1>8. \A r \in sent.attempts : r.key # sent.success.key /\ r.transaction \in s.failures
  <2> SUFFICES ASSUME NEW own \in s.failures
               PROVE  Key(own) # sent.success.key
    BY <1>1, <1>2
  <2>1. own # "own"
    BY DEF IsSetting
  <2>2. <<"generated", own>> # <<"generated", "own">> /\ <<key, "err", own>> # <<key>>
    BY <2>1
  <2> QED
    BY <1>4, <2>2
<1>9. Cardinality({Key(own) : own \in s.failures}) = Cardinality(s.failures)
  <2> DEFINE g == [own \in s.failures |-> Key(own)]
  <2>1. g \in Bijection(s.failures, {Key(own) : own \in s.failures})
    BY <1>7, Fun_IsBij
  <2>2. IsFiniteSet(s.failures)
    BY DEF IsSetting
  <2> QED
    BY <2>1, <2>2, FS_Bijection DEF ExistsBijection
<1> QED
  BY <1>5, <1>6, <1>8, <1>9 DEF sent

(* core/context.go, enforcement/defaults.go: whatever is set for a call and    *)
(* wherever, its record says of its caller what the cost controls decided on.  *)
UsageInv == setting \in UsageSettings /\ usageSent \subseteq {SendAttempts(setting)}
LEMMA UsageInvariant == UsageSpec => []UsageInv
<1>1. UsageInit => UsageInv
  BY DEF UsageInit, UsageInv
<1>2. UsageInv /\ [SendUsage]_usageVars => UsageInv'
  BY DEF UsageInv, SendUsage, usageVars
<1> QED
  BY <1>1, <1>2, PTL DEF UsageSpec

THEOREM RecordsAreAttributedAsJudged == UsageSpec => []AttributedAsJudged
<1>1. UsageInv => AttributedAsJudged
  <2> SUFFICES ASSUME UsageInv, NEW x \in usageSent
               PROVE  LET d == x.decided r == x.success sub == One(r.sub) IN
                      /\ Same(d.id, sub.id) /\ Same(d.email, sub.email) /\ Same(d.organization, r.organization)
                      /\ sub.credential = IF d.opaque THEN "opaque" ELSE d.credential
    BY DEF AttributedAsJudged
  <2>1. x = SendAttempts(setting) /\ IsSetting(setting)
    BY UsageAssumption DEF UsageInv
  <2>2. x.decided = decision(setting)
    BY <2>1 DEF SendAttempts
  <2> QED
    BY <2>1, <2>2, DecisionIsRecord
<1> QED
  BY <1>1, UsageInvariant, PTL

(* failure.go: whatever ids the metadata of a call names, the records of its   *)
(* failed attempts and of the one that succeeded are told apart by the         *)
(* platform.                                                                   *)
THEOREM RetriesAreNoDuplicates == UsageSpec => []RetryIsNoDuplicate
<1>1. UsageInv => RetryIsNoDuplicate
  BY RetryKeepsApart, UsageAssumption DEF UsageInv, RetryIsNoDuplicate
<1> QED
  BY <1>1, UsageInvariant, PTL
=============================================================================
