---------------------------- MODULE UsageRecords -----------------------------
(* core and core/metering: who a call is attributed to - in the cost-control   *)
(* decision made before it and in the record prepared after it - and the ids that  *)
(* tell the records of a call's attempts apart.  One behaviour is one call     *)
(* that failed and one that was retried with the same metadata.                *)
EXTENDS Naturals, FiniteSets

CONSTANTS Text,             \* what a text may be
          UsageSettings     \* what may be set for a call, in its context and its process
VARIABLES setting, usageSent
usageVars == <<setting, usageSent>>

(* ------------------------------- metadata --------------------------------- *)
(* Usage metadata: text by key, and perhaps a subscriber.  "blank" is text of  *)
(* white space only.                                                           *)
IsBlank(s) == s \in {"", "blank"}
Metadata(texts, subs) == [text |-> texts, sub |-> subs]
NoMetadata == Metadata([k \in {} |-> ""], {})
overlay(base, top) ==
  LET b == base.text t == top.text IN
  Metadata([k \in DOMAIN b \cup DOMAIN t |->
              IF k \in DOMAIN t /\ ~(k \in DOMAIN b /\ IsBlank(t[k])) THEN t[k] ELSE b[k]],
           IF top.sub # {} THEN top.sub ELSE base.sub)
Subscriber(id, email, credential) == [id |-> id, email |-> email, credential |-> credential]
NoSubscriber == Subscriber("", "", "none")
identifiesPerson(s) == s.id # "" \/ s.email # ""
One(set) == IF set = {} THEN NoSubscriber ELSE CHOOSE s \in set : TRUE
ApplySubscriber(ctx, m) ==
  IF ~identifiesPerson(ctx.typed) THEN m
  ELSE [m EXCEPT !.sub = {Subscriber(ctx.typed.id, ctx.typed.email, One(@).credential)}]
UsageMetadataOver(ctx) == ApplySubscriber(ctx, overlay(overlay(ctx.defaults, ctx.argument), ctx.stored))
(* Mutant: metadata goes before the typed subscriber.                         *)
GetSubscriberOfMetadata(ctx) ==
  IF identifiesPerson(One(ctx.stored.sub)) THEN One(ctx.stored.sub) ELSE ctx.typed

GetSubscriber(ctx) ==
  IF identifiesPerson(ctx.typed) THEN ctx.typed
  ELSE IF identifiesPerson(One(ctx.stored.sub)) THEN One(ctx.stored.sub) ELSE ctx.typed
firstString(m, keys) ==
  LET found == {i \in DOMAIN keys : keys[i] \in DOMAIN m.text /\ ~IsBlank(m.text[keys[i]])} IN
  IF found = {} THEN "" ELSE m.text[keys[CHOOSE i \in found : \A j \in found : i <= j]]
CredentialAliasFor(alias, id, email, credential) ==
  IF IsBlank(id) /\ IsBlank(email) /\ credential \in {"none", ""} /\ ~IsBlank(alias) THEN alias ELSE ""
(* RecordDefaults: what the process or its configuration gives every record.   *)
codeOrEnv(code, env) == IF IsBlank(code) THEN env ELSE code
RecordDefaults(p) == [organization |-> codeOrEnv(p.codeOrganization, p.envOrganization), alias |-> p.envAlias]

(* ------------------------------ the decision ------------------------------ *)
withCredentialAlias(ec, alias) ==
  LET named == CredentialAliasFor(alias, ec.id, ec.email, ec.credential) IN
  IF ec.opaque \/ named = "" THEN ec ELSE [ec EXCEPT !.credential = named]
NewEvalContextFromMetadata(ctx, m) ==
  LET sub == One(m.sub)
      who == IF identifiesPerson(GetSubscriber(ctx)) THEN GetSubscriber(ctx) ELSE sub
      ec  == [id |-> who.id, email |-> who.email, organization |-> firstString(m, <<"organizationName", "organizationId">>),
              credential |-> IF sub.credential = "opaque" THEN "none" ELSE sub.credential,
              opaque |-> sub.credential = "opaque"]
  IN withCredentialAlias(ec, firstString(m, <<"credentialAlias">>))
complete(ec, d) ==
  withCredentialAlias([ec EXCEPT !.organization = IF IsBlank(@) THEN d.organization ELSE @], d.alias)
decision(s) == complete(NewEvalContextFromMetadata(s.ctx, UsageMetadataOver(s.ctx)), RecordDefaults(s.process))

(* ------------------------------- the record ------------------------------- *)
NewPayload(own) == [organization |-> "", alias |-> "", sub |-> {}, transaction |-> own, key |-> <<"generated", own>>,
                    failed |-> FALSE]
ApplyMetadata(p, m) ==
  LET Given(key, otherwise) == IF firstString(m, <<key>>) = "" THEN otherwise ELSE firstString(m, <<key>>) IN
  [p EXCEPT !.organization = Given("organizationName", Given("organizationId", @)), !.alias = Given("credentialAlias", @),
            !.sub = IF m.sub = {} THEN @ ELSE m.sub, !.transaction = Given("transactionId", @),
            !.key = IF firstString(m, <<"idempotencyKey">>) = "" THEN @ ELSE <<firstString(m, <<"idempotencyKey">>)>>]
(* A failed attempt's record keeps its own id, and a key of its own. *)
failedCallIdempotencyKey(key, transaction) == <<key, "err", transaction>>
(* Mutant: a failed attempt takes the call's ids like any record.             *)
applyMetadataAndRetry(p, m) == ApplyMetadata(p, m)

applyMetadataApartFromRetry(p, m) ==
  LET r == ApplyMetadata(p, m)
      id == firstString(m, <<"transactionId">>)
      key == firstString(m, <<"idempotencyKey">>)
      kept == [r EXCEPT !.transaction = IF id # "" /\ @ = id THEN p.transaction ELSE @]
  IN [kept EXCEPT !.key = IF key # "" /\ @ = <<key>> THEN failedCallIdempotencyKey(key, kept.transaction) ELSE @]
ApplyFailedCall(p, m) == applyMetadataApartFromRetry([p EXCEPT !.failed = TRUE], m)
fillUnsetFields(p, d) ==
  [p EXCEPT !.organization = IF IsBlank(@) THEN d.organization ELSE @, !.alias = IF IsBlank(@) THEN d.alias ELSE @]
subscriberWithCredentialAlias(p) ==
  LET sub == One(p.sub) alias == CredentialAliasFor(p.alias, sub.id, sub.email, sub.credential) IN
  IF sub.credential = "opaque" \/ alias = "" THEN p ELSE [p EXCEPT !.sub = {[sub EXCEPT !.credential = alias]}]
prepared(s, p) == subscriberWithCredentialAlias(fillUnsetFields(p, RecordDefaults(s.process)))
SendAttempts(s) ==
  LET m == UsageMetadataOver(s.ctx) IN
  [decided |-> decision(s),
   attempts |-> {prepared(s, ApplyFailedCall(NewPayload(own), m)) : own \in s.failures},
   success  |-> prepared(s, ApplyMetadata(NewPayload("own"), m))]

(* ------------------------------- one call --------------------------------- *)
(* Any texts and any person may be set anywhere.  "none" and "opaque" mark a   *)
(* credential that is absent or has no name, and "own" is the id of the        *)
(* attempt that succeeded: ids generated for the attempts differ.              *)
ASSUME TextAssumption == "" \in Text /\ Text \cap {"none", "opaque"} = {}
People == [id: Text, email: Text, credential: Text \cup {"none", "opaque"}]
IsMetadata(m) == /\ m = Metadata(m.text, m.sub) /\ m.text = [k \in DOMAIN m.text |-> m.text[k]]
                 /\ \A k \in DOMAIN m.text : m.text[k] \in Text
                 /\ m.sub = {} \/ \E who \in m.sub : who \in People /\ m.sub = {who}
IsSetting(s) == /\ s.ctx.typed \in People
                /\ IsMetadata(s.ctx.defaults) /\ IsMetadata(s.ctx.argument) /\ IsMetadata(s.ctx.stored)
                /\ s.process \in [codeOrganization: Text, envOrganization: Text, envAlias: Text]
                /\ IsFiniteSet(s.failures) /\ "own" \notin s.failures
ASSUME UsageAssumption == \A s \in UsageSettings : IsSetting(s)
UsageInit == setting \in UsageSettings /\ usageSent = {}
SendUsage == usageSent = {} /\ usageSent' = {SendAttempts(setting)} /\ UNCHANGED setting
UsageSpec == UsageInit /\ [][SendUsage]_usageVars

(* core/context.go, enforcement/defaults.go: the record says of a call's       *)
(* person, credential and organization what the cost controls decided on,      *)
(* wherever each was set.                                                      *)
Same(a, b) == a = b \/ (IsBlank(a) /\ IsBlank(b))
AttributedAsJudged ==
  \A s \in usageSent : LET d == s.decided r == s.success sub == One(r.sub) IN
    /\ Same(d.id, sub.id) /\ Same(d.email, sub.email) /\ Same(d.organization, r.organization)
    /\ sub.credential = IF d.opaque THEN "opaque" ELSE d.credential

(* failure.go: the platform drops a record whose id or key it has seen, so the *)
(* records of failed attempts and of the retry that succeeded, all carrying    *)
(* the call's metadata, differ in both.                                        *)
RetryIsNoDuplicate ==
  \A s \in usageSent :
    /\ \A r \in s.attempts : r.key # s.success.key
                             /\ (r.transaction = s.success.transaction => r.transaction \in setting.failures)
    /\ Cardinality({r.key : r \in s.attempts}) = Cardinality(setting.failures)
    /\ Cardinality({r.transaction : r \in s.attempts}) = Cardinality(setting.failures)
=============================================================================
