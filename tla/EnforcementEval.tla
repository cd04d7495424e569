--------------------------- MODULE EnforcementEval ---------------------------
(* core/enforcement's decision: which rules cover a call, whose balance each   *)
(* is judged on, and which names a MODEL filter takes a dated model for.  One  *)
(* behaviour is one check of a call against the rules a poll brought.          *)
EXTENDS Naturals, Sequences, FiniteSets

CONSTANTS Dates,          \* the dates of a model's snapshots
          CalledModels,   \* the models called, among the names below
          RuleLists       \* what a poll may bring: sequences of rules
VARIABLES check, verdict
evalVars == <<check, verdict>>

(* ------------------------------ model names ------------------------------- *)
(* base, base-latest, base-<date>, base@<date>, or one of those behind a route. *)
ASSUME DatesAssumption == Dates # {} /\ "" \notin Dates
Name(routed, date, sep, latest) == [routed |-> routed, date |-> date, sep |-> sep, latest |-> latest]
ModelNames == {m \in [routed: BOOLEAN, date: Dates \cup {""}, sep: {"-", "@"}, latest: BOOLEAN] :
                 /\ m.date = "" => m.sep = "-"
                 /\ m.date # "" => ~m.latest}
Unrouted == {n \in ModelNames : ~n.routed}
ASSUME ModelsAssumption == CalledModels \subseteq ModelNames
dashDated(m) == [m EXCEPT !.sep = "-"]
modelCarriesSnapshot(m) == m.date # "" /\ m.sep = "-"
modelSnapshotTail(v) == IF modelCarriesSnapshot(v) THEN {v.date} ELSE {}
meteredModelForms(m) ==
  LET unrouted == {m, [m EXCEPT !.routed = FALSE]}
      dashed   == unrouted \cup {dashDated(f) : f \in unrouted}
  IN dashed \cup {[f EXCEPT !.latest = FALSE] : f \in dashed}
(* (A date put after another, or after -latest, is no model's name.)           *)
meteredModelCandidates(m, expected) ==
  LET forms == meteredModelForms(m) IN
  forms \cup {[f EXCEPT !.date = d] : f \in {g \in forms : g.date = "" /\ ~g.latest},
                                         d \in UNION {modelSnapshotTail(v) : v \in expected}}
filterSpellings(expected) == {expected, {dashDated(v) : v \in expected}}
(* Mutant: an exclusion is compared to the letter.                            *)
modelMatchesExactly(m, operator, expected) ==
  IF operator = "IS_NOT" THEN m \notin expected
  ELSE \E values \in filterSpellings(expected) : meteredModelCandidates(m, values) \cap values # {}

modelMatches(m, operator, expected) ==
  IF operator = "IS_NOT"
  THEN ~modelCarriesSnapshot(dashDated(m)) \/ dashDated(CHOOSE v \in expected : TRUE) \notin meteredModelForms(m)
  ELSE \E values \in filterSpellings(expected) : meteredModelCandidates(m, values) \cap values # {}

(* -------------------------------- filters --------------------------------- *)
(* A filter on the model is compared so; of the others only how its value      *)
(* stands to the call's is kept.                                               *)
Filter(dimension, operator, stands) == [dimension |-> dimension, operator |-> operator, stands |-> stands]
ModelFilter(operator, values) == Filter("MODEL", operator, values)
Dimensions == {"MODEL", "PRODUCT", "SUBSCRIBER", "DEPARTMENT", "CREDENTIAL", "unheard of"}
Stands == {"equal", "equal but for case", "other", "call has none", "filter has none"}
settledByServer(f) == f.dimension \in {"DEPARTMENT", "SUBSCRIBER"}
evaluable(f) == f.operator \in {"IS", "IS_NOT", "IN"} /\ f.dimension \notin {"DEPARTMENT", "unheard of"}
compare(f, stands) ==
  CASE stands = "filter has none" -> TRUE
    [] stands = "call has none"   -> f.operator = "IS_NOT"
    [] OTHER -> (stands = "equal" <=> f.operator # "IS_NOT")
(* subscriberValue: the email or else the id; only an email is one identity    *)
(* across letter case.                                                         *)
standsAs(f, call) ==
  CASE f.dimension # "SUBSCRIBER" \/ f.stands = "filter has none" -> f.stands
    [] call.email # ""                                             -> IF f.stands = "other" THEN "other" ELSE "equal"
    [] call.email = "" /\ call.id # ""                             -> f.stands
    [] OTHER                                                       -> "call has none"
matches(f, call) ==
  /\ evaluable(f)
  /\ IF f.dimension # "MODEL" THEN compare(f, standsAs(f, call))
     ELSE IF f.stands = {} THEN TRUE
     ELSE IF call.dated THEN modelMatches(call.model, f.operator, f.stands)
     ELSE call.model \in f.stands <=> f.operator # "IS_NOT"
covers(r, call) == \A f \in r.filters : matches(f, call)
caseFolded(f) == IF f.stands = "equal but for case" THEN [f EXCEPT !.stands = "equal"] ELSE f
coversFoldedCallScope(r, call) ==
  \A f \in r.filters :
    \/ settledByServer(f) \/ ~evaluable(f) \/ (f.dimension = "CREDENTIAL" /\ call.rawCredential)
    \/ matches(IF f.dimension = "MODEL" THEN f ELSE caseFolded(f), call)

(* --------------------------------- rules ---------------------------------- *)
normalizeEmail(email) == IF email = "E1" THEN "e1" ELSE email
isDepartmentRule(r) == r.groupBy = "DEPARTMENT"
isObservationOnly(r) == r.action = "observe"      \* in shadow mode, WARN_ONLY or THROTTLE
blocksAsDepartmentBudget(r) == r.action \in {"block", "unset"}
(* Mutant: an address is looked up as it was given.                           *)
groupEntryAsGiven(r, call) ==
  LET Under(k) == {e \in r.breakdown : e.key = k /\ k # ""}
  IN IF Under(call.id) # {} THEN Under(call.id) ELSE Under(call.email)

groupEntryFor(r, call) ==
  LET Under(k) == {e \in r.breakdown : e.key = k /\ k # ""}
  IN IF Under(call.id) # {} THEN Under(call.id) ELSE Under(normalizeEmail(call.email))
breachFor(r, call) ==
  IF r.groupBy # "SUBSCRIBER" THEN r.breached
  ELSE IF r.breakdown # {} THEN \E e \in groupEntryFor(r, call) : e.breached
  ELSE ~r.cost /\ r.breached
ruleByID(rs, id) == {rs.rules[i] : i \in {j \in DOMAIN rs.rules : j = id}}
departmentBudgetVerdict(rs, id) == \A r \in ruleByID(rs, id) : blocksAsDepartmentBudget(r)
departmentCandidateVerdict(rs, candidates, call) ==
  LET covering == {i \in DOMAIN candidates : \A r \in ruleByID(rs, candidates[i].rule) : coversFoldedCallScope(r, call)}
  IN \E i \in covering : /\ \A j \in covering : i <= j
                         /\ candidates[i].tier = "BLOCK" /\ departmentBudgetVerdict(rs, candidates[i].rule)
departmentBlock(rs, call) ==
  LET email == normalizeEmail(call.email) IN
  IF email \in DOMAIN rs.candidates THEN departmentCandidateVerdict(rs, rs.candidates[email], call)
  ELSE email \in DOMAIN rs.blocks /\ departmentBudgetVerdict(rs, rs.blocks[email])
stopsAt(r, call) ==
  ~isDepartmentRule(r) /\ covers(r, call) /\ breachFor(r, call) /\ ~isObservationOnly(r) /\ r.action = "block"
evaluate(rs, call) ==
  IF departmentBlock(rs, call) \/ \E i \in DOMAIN rs.rules : stopsAt(rs.rules[i], call) THEN "block" ELSE "allow"

(* payload.go: entries of one address in several spellings are put under one   *)
(* key, and a map's order decides which of them stays.                         *)
putFirst(entries) ==
  LET emails == {normalizeEmail(e.email) : e \in entries} \ {""} IN
  {f \in [emails -> {e.of : e \in entries}] :
     \A email \in emails : \E e \in entries : normalizeEmail(e.email) = email /\ e.of = f[email]}
decodeRuleSet(published) ==
  {[rules |-> published.rules, blocks |-> b, candidates |-> c] :
     b \in putFirst(published.blocks), c \in putFirst(published.candidates)}

(* ------------------------------- the platform ----------------------------- *)
(* "me" spends as u1 and e1; who is over a per-person cap, whose department is *)
(* over its budget, how spend is filed and whether it is broken down: external. *)
Worlds == [over: SUBSET {"me", "other"}, department: SUBSET {"me", "other"}, detailed: BOOLEAN, filedById: BOOLEAN]
KeyOf(who, w) == IF who = "other" THEN "u2" ELSE IF w.filedById THEN "u1" ELSE "e1"
Compiled(shape, w) ==
  [groupBy |-> shape.groupBy, action |-> shape.action, filters |-> shape.filters, cost |-> shape.cost,
   breached |-> IF isDepartmentRule(shape) THEN w.department # {} ELSE w.over # {},
   breakdown |-> IF shape.groupBy = "SUBSCRIBER" /\ w.detailed
                 THEN {[key |-> KeyOf(who, w), breached |-> who \in w.over] : who \in {"me", "other"}} ELSE {}]
Mails(who) == IF who = "other" THEN {"e2"} ELSE {"e1", "E1"}
Publish(shapes, w, scoped) ==
  LET budget == {i \in DOMAIN shapes : isDepartmentRule(shapes[i])} IN
  [rules |-> [i \in DOMAIN shapes |-> Compiled(shapes[i], w)],
   blocks |-> UNION {[email: Mails(who), of: budget \cup {9}] : who \in w.department},
   candidates |-> IF ~scoped THEN {}
                  ELSE UNION {[email: Mails(who), of: {<<[rule |-> i, tier |-> "BLOCK"], [rule |-> 9, tier |-> "WARN"]>> : i \in budget}]
                              : who \in w.department}]
Shape(groupBy, action, filters, cost) == [groupBy |-> groupBy, action |-> action, filters |-> filters, cost |-> cost]
(* Any filters, of the ones that name models and of the others.                *)
IsFilter(f) ==
  /\ f = Filter(f.dimension, f.operator, f.stands)
  /\ IF f.dimension = "MODEL"
     THEN f.stands \subseteq Unrouted /\ (f.operator = "IS_NOT" => \A v \in f.stands : f.stands = {v})
     ELSE f.stands \in Stands /\ (f.dimension = "SUBSCRIBER" => f.stands # "call has none")
IsShape(shape) == /\ shape = Shape(shape.groupBy, shape.action, shape.filters, shape.cost)
                  /\ shape.cost \in BOOLEAN /\ \A f \in shape.filters : IsFilter(f)
ASSUME RulesAssumption == \A rules \in RuleLists : \A i \in DOMAIN rules : IsShape(rules[i])
PeopleCalls == [id: {"", "u1"}, email: {"", "e1", "E1"}, model: CalledModels, dated: {TRUE}, rawCredential: BOOLEAN]
Checks == [about: {"people"}, rules: RuleLists, world: Worlds, scoped: BOOLEAN, call: PeopleCalls]

(* The names a platform may meter a call under: as sent, unrouted, or under    *)
(* the snapshot that served a name that carries none.                          *)
MayBeMetered(m) ==
  LET base == dashDated([m EXCEPT !.routed = FALSE]) IN
  {base} \cup IF base.date # "" THEN {} ELSE {[base EXCEPT !.date = d, !.latest = FALSE] : d \in Dates \cup {""}}
Counts(f, name) == name \in {dashDated(v) : v \in f.stands} <=> f.operator # "IS_NOT"
ModelChecks ==
  [about: {"model"}, name: ModelNames,
   filter: [dimension: {"MODEL"}, operator: {"IS", "IS_NOT"}, stands: {{v} : v \in Unrouted}]
           \cup [dimension: {"MODEL"}, operator: {"IN"}, stands: SUBSET Unrouted]]

EvalInit == check \in Checks \cup ModelChecks /\ verdict = ""
Verdicts(c) ==
  IF c.about = "people"
  THEN {evaluate(rs, c.call) : rs \in decodeRuleSet(Publish(c.rules, c.world, c.scoped))}
  ELSE {IF matches(c.filter, [model |-> c.name, dated |-> TRUE]) THEN "covered" ELSE "not covered"}
Decide == verdict = "" /\ verdict' \in Verdicts(check) /\ UNCHANGED check
EvalSpec == EvalInit /\ [][Decide]_evalVars

(* ------------------------------- properties ------------------------------- *)
(* evaluator.go: a caller is stopped for what the caller, the caller's         *)
(* department or the whole team spent and never for another's spending, and is *)
(* stopped wherever the payload tells that this caller is over - whichever     *)
(* spelling or key the call carries, and whatever rules stand before that one. *)
(* (Of a per-person cap that is not on money, an unbroken-down total is all    *)
(* the SDK knows.)                                                             *)
TellsOfMe(c) ==
  c.world.detailed /\ IF c.world.filedById THEN c.call.id = "u1" ELSE normalizeEmail(c.call.email) = "e1"
InScope(c, f) ==
  evaluable(f) /\ IF f.dimension # "MODEL" THEN compare(f, standsAs(f, c.call))
                  ELSE f.stands = {} \/ \E name \in MayBeMetered(c.call.model) : Counts(f, name)
(* The rules that stop this call once the spending they cap is over.            *)
Enforced(c) == {i \in DOMAIN c.rules : c.rules[i].action = "block" /\ \A f \in c.rules[i].filters : InScope(c, f)}
OnTheTeam(c) == {i \in Enforced(c) : c.rules[i].groupBy \notin {"SUBSCRIBER", "DEPARTMENT"}}
OnAPerson(c) == {i \in Enforced(c) : c.rules[i].groupBy = "SUBSCRIBER"}
StopsTheOverspent ==
  check.about = "people" /\ verdict # "" =>
    LET over == check.world.over IN
    /\ verdict = "block" =>
         \/ OnTheTeam(check) # {} /\ over # {}
         \/ OnAPerson(check) # {} /\ "me" \in over
         \/ "me" \in check.world.department /\ check.call.email # ""
         \/ over # {} /\ ~check.world.detailed /\ \E i \in OnAPerson(check) : ~check.rules[i].cost
    /\ OnTheTeam(check) # {} /\ over # {} => verdict = "block"
    /\ OnAPerson(check) # {} /\ "me" \in over /\ TellsOfMe(check) => verdict = "block"

(* model_match.go: a filter covers a call that may be metered under a name the *)
(* platform counts against the filter, and one that names models covers no     *)
(* call whose every possible name is another's.                                *)
ModelFilterCoversWhatIsCounted ==
  check.about = "model" /\ verdict # "" /\ check.filter.stands # {} =>
    (verdict = "covered" <=> \E name \in MayBeMetered(check.name) : Counts(check.filter, name))
=============================================================================
