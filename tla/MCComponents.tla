----------------------------- MODULE MCComponents ----------------------------
(* Components that share no state, under one roof: a behaviour is of one of    *)
(* them, chosen at its start, and leaves the others where they began.          *)
EXTENDS SharedClients, JobOutcome, MCProviderCalls, MeteredStreams, EnforcementEval, ToolTurns,
        LiteLLMProxy, UsageRecords, TLC
VARIABLE moving

(* ---------------------- UsageRecords: what may be set ---------------------- *)
Texts(keys, values) == UNION {[ks -> values] : ks \in SUBSET keys}
Named(layer, keys, subs) == {Metadata(ts, who) : ts \in Texts(keys, {layer, "blank"}), who \in {{}} \cup {{p} : p \in subs}}
Persons == {NoSubscriber, Subscriber("u", "", "none"), Subscriber("", "e", "none")}
PeopleOf(layer) ==
  {Subscriber(id, "", c) : id \in {"", "blank", layer}, c \in {"none", "named", "opaque"}}
Settings(typed, defaults, arguments, inStore, failures, codes, aliases) ==
  [ctx: [typed: typed, defaults: defaults, argument: arguments, stored: inStore], failures: failures,
   process: [codeOrganization: codes, envOrganization: {"env"}, envAlias: aliases]]
Organization == {"organizationName", "organizationId"}
RetryIds == {"transactionId", "idempotencyKey"}
MCUsageSettings ==
  Settings({NoSubscriber}, Named("default", {"organizationName"}, {}), Named("argument", Organization, {}),
           Named("stored", Organization, {}), {{"failed 1"}}, {"", "code"}, {""})
  \cup Settings(Persons, {NoMetadata, Metadata([k \in {} |-> ""], {Subscriber("default", "", "none")})},
                Named("argument", {}, PeopleOf("argument")), Named("stored", {"credentialAlias"}, PeopleOf("stored")),
                {{"failed 1"}}, {""}, {"", "env alias"})
  \cup Settings({NoSubscriber}, {NoMetadata}, Named("argument", RetryIds, {}), Named("stored", RetryIds, {}),
                {{"failed 1", "failed 2"}, {"stored", "failed 2"}}, {""}, {""})

(* ------------------- EnforcementEval: rules a poll may bring --------------- *)
Plain == Name(FALSE, "", "-", FALSE)
MCCalledModels == {Plain}
Blocking(groupBys, filters) == {Shape(g, "block", {f}, TRUE) : g \in groupBys, f \in filters}
Groupings == {"", "SUBSCRIBER", "DEPARTMENT"}
Shapes == {Shape(g, a, {}, TRUE) : g \in Groupings, a \in {"block", "observe", "unset", "unheard of"}}
          \cup {Shape("SUBSCRIBER", "block", {}, FALSE)}
          \cup Blocking(Groupings, {Filter(d, "IS", st) : d \in {"PRODUCT", "CREDENTIAL", "unheard of"}, st \in Stands})
          \cup Blocking(Groupings, {Filter("SUBSCRIBER", "IS", st) : st \in Stands \ {"call has none"}})
          \cup Blocking({""}, {ModelFilter("IS", {Name(FALSE, "d1", "@", FALSE)}), ModelFilter("IS_NOT", {Plain}),
                               ModelFilter("IN", {}), ModelFilter("IN", {Name(FALSE, "", "-", TRUE)})})
MCRuleLists == {<<first, Shape("SUBSCRIBER", "block", {}, TRUE)>> : first \in Shapes}
               \cup {<<Shape("", "observe", {}, TRUE), last>> : last \in {r \in Shapes : r.filters = {} /\ r.action # "unset"}}

(* -------------------- MeteredStreams: what providers send ------------------ *)
Part == [fresh |-> 3, read |-> 1, write |-> 1, text |-> 1, thought |-> 0]
Full == [fresh |-> 3, read |-> 1, write |-> 2, text |-> 2, thought |-> 1]
Choice(i, finish, all) == Moment("content_block_delta", finish = "", i :> finish, finish, all)
UsageOnly(all) == Moment("usage", FALSE, <<>>, "", all)
Event(type, finish, all) == Moment(type, type = "content_block_delta", <<>>, finish, all)
Split(m) == [m EXCEPT !.split = TRUE]
OutputOnly(m) == [m EXCEPT !.use = {[u EXCEPT !.fresh = 0, !.read = 0, !.write = 0] : u \in @}]
Uncached(u) == [u EXCEPT !.read = 0, !.write = 0, !.thought = 0]
ChatScripts(all) ==
  {<<Choice(0, "", {}), Choice(0, "stop", {}), UsageOnly(all)>>,
   <<Choice(0, "", {}), Choice(1, "", {}), Choice(1, "length", {}), Choice(0, "stop", {}), UsageOnly(all)>>,
   <<Choice(0, "", {}), Choice(0, "stop", {}), Choice(1, "", {}), Choice(1, "stop", all)>>}
MessageScripts ==
  {<<start, Event("content_block_delta", "", {}), delta, Event("message_stop", "", {})>> :
     start \in {Event("message_start", "", {Part}), Split(Event("message_start", "", {Part}))},
     delta \in {Event("message_delta", "end_turn", {Full}), Split(Event("message_delta", "end_turn", {Full})),
                OutputOnly(Event("message_delta", "end_turn", {[Full EXCEPT !.write = Part.write]}))}}
Scripts(of) ==
  CASE of \in {"openai", "azure", "xai", "litellm"} -> ChatScripts({Full})
    [] of = "perplexity" -> {<<Choice(0, "", {Uncached(Part)}), Choice(0, "stop", {Uncached(Full)})>>}
    [] of = "responses"  -> {<<Event("content_block_delta", "", {}), Event("final", end, {Full})>> :
                               end \in {"completed", "incomplete", "failed"}}
    [] of = "google"     -> {<<Event("content_block_delta", "", {Part}), Event("content_block_delta", "STOP", {Full})>>}
    [] of = "converse"   -> {<<Event("content_block_delta", "", {}), Event("message_stop", "end_turn", {}),
                               Split(Event("metadata", "", {Full}))>>}
    [] of = "invoke"     -> {[w EXCEPT ![4] = Event("message_stop", "", w[3].told)] : w \in MessageScripts}
    [] OTHER             -> MessageScripts
MCStreams == [k \in Kinds |-> Scripts(k)]
MCChunks == UNION {UNION {{w[i] : i \in DOMAIN w} : w \in Scripts(k)} : k \in Kinds}

AnyContent == CHOOSE x \in Contents : TRUE
AnyCall == CHOOSE c \in FalCalls : TRUE
AnyCheck == CHOOSE c \in ModelChecks : TRUE
AnySetting == CHOOSE s0 \in Settings({NoSubscriber}, {NoMetadata}, {NoMetadata}, {NoMetadata}, {{}}, {""}, {""}) : TRUE
JobAtRest == /\ sent = [c \in Calls |-> [content |-> AnyContent, by |-> Nobody, metrics |-> FALSE]]
             /\ job = NoOutcome /\ late = [c \in Calls |-> 0] /\ applied = late
             /\ call = [c \in Calls |-> Begin]
StreamAtRest == /\ kind = "google" /\ wire = <<>> /\ s = Opened("google") /\ broke = FALSE /\ reader = "idle"
                /\ holding = NoMoment /\ clock = 1 /\ closed = FALSE /\ records = <<>>
                /\ seen = NothingSeen
ComponentsInit ==
  /\ moving \in {"clients", "job", "call", "stream", "check", "turns", "proxy", "usage"}
  /\ SharedInit /\ TurnsInit /\ ProxyInit
  /\ IF moving = "job" THEN JobInit ELSE JobAtRest
  /\ IF moving = "call" THEN CallsInit ELSE asked = AnyCall /\ ran = {}
  /\ IF moving = "stream" THEN StreamInit ELSE StreamAtRest
  /\ IF moving = "check" THEN EvalInit ELSE check = AnyCheck /\ verdict = ""
  /\ IF moving = "usage" THEN UsageInit ELSE setting = AnySetting /\ usageSent = {}

Still(part) ==
  /\ part # "clients" => UNCHANGED sharedVars
  /\ part # "job"     => UNCHANGED jvars
  /\ part # "call"    => UNCHANGED callVars
  /\ part # "stream"  => UNCHANGED streamVars
  /\ part # "check"   => UNCHANGED evalVars
  /\ part # "turns"   => UNCHANGED turnVars
  /\ part # "proxy"   => UNCHANGED proxyVars
  /\ part # "usage"   => UNCHANGED usageVars
ComponentsNext ==
  /\ UNCHANGED moving
  /\ \/ moving = "clients" /\ SharedNext /\ Still("clients")
     \/ moving = "job"     /\ JobNext    /\ Still("job")
     \/ moving = "call"    /\ Make       /\ Still("call")
     \/ moving = "stream"  /\ StreamNext /\ Still("stream")
     \/ moving = "check"   /\ Decide     /\ Still("check")
     \/ moving = "turns"   /\ TurnsNext  /\ Still("turns")
     \/ moving = "proxy"   /\ ProxyNext  /\ Still("proxy")
     \/ moving = "usage"   /\ SendUsage  /\ Still("usage")
ComponentsVars == <<moving, sharedVars, jvars, callVars, streamVars, evalVars, turnVars, proxyVars, usageVars>>
ComponentsSpec == ComponentsInit /\ [][ComponentsNext]_ComponentsVars
=============================================================================
