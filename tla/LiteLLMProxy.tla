---------------------------- MODULE LiteLLMProxy -----------------------------
(* What the LiteLLM module learns from a proxy and judges later calls by       *)
(* (litellm/model_aliases.go, proxy_people.go): the list of models an alias is *)
(* routed to, read once for all waiting callers, and the person the proxy      *)
(* named for a user last time.                                                 *)
EXTENDS Naturals, FiniteSets

CONSTANTS ProxyCallers,   \* goroutines calling an alias
          Users,          \* values of a request's `user`
          proxyPeopleLimit,
          MaxProxyCalls   \* calls altogether (bound)
ASSUME ProxyAssumption == proxyPeopleLimit \in Nat \ {0} /\ MaxProxyCalls \in Nat

VARIABLES config,     \* the proxy's own routing of the alias: a version of it (external)
          list,       \* modelRoutes: the version read last, 0 if none; whether it is fresh
          reads,      \* the read under way (0: none), those not ended, how many were started, and
                      \* what the ended ones brought (0: nothing)
          person,     \* who the proxy attributes each user's calls to (external), {} for nobody
          people,     \* proxyPeople.byUser
          told,       \* who the last answer that tells named for each user (history)
          pcall,      \* [at, user, waits, judged, person] per caller
          made        \* calls begun
proxyVars == <<config, list, reads, person, people, told, pcall, made>>

NoProxyCall == [at |-> "idle", user |-> CHOOSE u \in Users : TRUE, waits |-> 0, judged |-> 0, person |-> {}]
ProxyInit ==
  /\ config = 1 /\ list = [version |-> 0, fresh |-> FALSE]
  /\ reads = [refreshing |-> 0, running |-> {}, brought |-> <<>>]
  /\ person = [u \in Users |-> {"ann"}] /\ people = [u \in {} |-> {}] /\ told = [u \in Users |-> {}]
  /\ pcall = [c \in ProxyCallers |-> NoProxyCall] /\ made = 0

(* refreshIfExpired, under the lock: join the read under way, start one, or    *)
(* use the list read last.                                                     *)
refreshIfExpired(r, fresh) ==
  IF r.refreshing # 0 \/ fresh THEN r
  ELSE LET id == Cardinality(DOMAIN r.brought) + 1 IN
       [refreshing |-> id, running |-> r.running \cup {id}, brought |-> [i \in 1 .. id |-> IF i = id THEN 0 ELSE r.brought[i]]]
CallModel(c, user) ==
  /\ pcall[c].at = "idle" /\ made < MaxProxyCalls
  /\ reads' = refreshIfExpired(reads, list.fresh)
  /\ pcall' = [pcall EXCEPT ![c] = [NoProxyCall EXCEPT !.at = "looking", !.user = user, !.waits = reads'.refreshing]]
  /\ made' = made + 1 /\ UNCHANGED <<config, list, person, people, told>>
(* refresh's end: the list is replaced, or kept for a while when it could not  *)
(* be read, and the channel is closed.                                         *)
record(l, version) == [version |-> IF version = 0 THEN l.version ELSE version, fresh |-> TRUE]
EndRead(id, version) ==
  /\ id \in reads.running /\ version \in {0, config}
  /\ reads' = [refreshing |-> 0, running |-> reads.running \ {id}, brought |-> [reads.brought EXCEPT ![id] = version]]
  /\ list' = record(list, version)
  /\ UNCHANGED <<config, person, people, told, pcall, made>>
(* lookup: wait until the read ends or the caller's context does; the routes   *)
(* are then read under the lock, and the person is recalled after them.        *)
recall(user) == IF user \in DOMAIN people THEN people[user] ELSE {}
mayStopWaiting(c, cancelled) == cancelled \/ pcall[c].waits \notin reads.running
JudgeModels(c, cancelled) ==
  /\ pcall[c].at = "looking" /\ mayStopWaiting(c, cancelled)
  /\ pcall' = [pcall EXCEPT ![c].at = IF cancelled THEN "gaveUp" ELSE "judged", ![c].judged = list.version,
                            ![c].person = recall(pcall[c].user)]
  /\ UNCHANGED <<config, list, reads, person, people, told, made>>
(* Mutant: the limit is not looked at.                                        *)
rememberEveryone(known, user, named) ==
  IF named = {} THEN [u \in DOMAIN known \ {user} |-> known[u]]
  ELSE [u \in DOMAIN known \cup {user} |-> IF u = user THEN named ELSE known[u]]

(* rememberProxyPerson: the person an answer names, whatever its status, and   *)
(* nobody only when it is a success.                                           *)
remember(known, user, named) ==
  IF named = {} THEN [u \in DOMAIN known \ {user} |-> known[u]]
  ELSE IF user \notin DOMAIN known /\ Cardinality(DOMAIN known) >= proxyPeopleLimit THEN [u \in {user} |-> named]
  ELSE [u \in DOMAIN known \cup {user} |-> IF u = user THEN named ELSE known[u]]
saysNothing(ok, named) == named = {} /\ ~ok
Answer(c, ok, named) ==
  /\ pcall[c].at \in {"judged", "gaveUp"}
  /\ named \in {person[pcall[c].user]} \cup (IF ok THEN {} ELSE {{}})
  /\ people' = IF saysNothing(ok, named) THEN people ELSE remember(people, pcall[c].user, named)
  /\ told' = IF named = {} /\ ~ok THEN told ELSE [told EXCEPT ![pcall[c].user] = named]
  /\ pcall' = [pcall EXCEPT ![c] = NoProxyCall]
  /\ UNCHANGED <<config, list, reads, person, made>>
(* Time, and the proxy's operator. *)
ListExpires == list.fresh /\ list' = [list EXCEPT !.fresh = FALSE]
               /\ UNCHANGED <<config, reads, person, people, told, pcall, made>>
Reconfigure == config = 1 /\ config' = 2 /\ UNCHANGED <<list, reads, person, people, told, pcall, made>>
Unattribute(u) == person[u] # {} /\ person' = [person EXCEPT ![u] = {}]
                  /\ UNCHANGED <<config, list, reads, people, told, pcall, made>>

ProxyNext ==
  \/ \E c \in ProxyCallers, u \in Users : CallModel(c, u)
  \/ \E c \in ProxyCallers, cancelled \in BOOLEAN : JudgeModels(c, cancelled)
  \/ \E c \in ProxyCallers, ok \in BOOLEAN, named \in {{}, {"ann"}} : Answer(c, ok, named)
  \/ \E id \in reads.running : EndRead(id, 0) \/ EndRead(id, config)
  \/ ListExpires \/ Reconfigure \/ \E u \in Users : Unattribute(u)
ProxySpec == ProxyInit /\ [][ProxyNext]_proxyVars

(* model_aliases.go, proxy_people.go: at most one read of the proxy's list is  *)
(* under way, and a call that waited for one is judged by that list or a later *)
(* one; what is remembered of people stays bounded, and is never another       *)
(* person than the proxy's last word on that user.                             *)
ProxyKnowledgeCurrent ==
  /\ Cardinality(reads.running) <= 1
  /\ \A c \in ProxyCallers :
       pcall[c].at = "judged" /\ pcall[c].waits # 0 => pcall[c].judged >= reads.brought[pcall[c].waits]
  /\ Cardinality(DOMAIN people) <= proxyPeopleLimit
  /\ \A u \in DOMAIN people : people[u] = told[u] /\ people[u] # {}
=============================================================================
