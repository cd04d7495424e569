--------------------------- MODULE SharedClients ---------------------------
(* The client one module shares across a process (core/shared_client.go) and  *)
(* the circuit breakers all clients share per endpoint, address and key       *)
(* (core/resilience/global.go).  Goroutines initialise, reset and close       *)
(* clients; building one acquires its key's breaker, closing it gives the     *)
(* breaker back.                                                              *)
EXTENDS Naturals, FiniteSets

CONSTANTS Goroutines, Keys, NoKey,
          MaxClients       \* bound: clients built in all
ASSUME SharedAssumption == NoKey \notin Keys

ClientIds == 1 .. MaxClients     \* of clients, and of the breakers made for them
VARIABLES goroutine,       \* what each goroutine is doing
          setupMu,         \* who holds it
          installed,       \* the shared client, 0 for none
          clients,         \* the clients built: id -> key, breaker and life
          scopedCBs,       \* the registered breaker of a key, 0 for none
          breakers         \* breakers made: id -> key, users, and whether Reset forgot it
sharedVars == <<goroutine, setupMu, installed, clients, scopedCBs, breakers>>

Idle == [pc |-> "idle"]
SharedInit == /\ goroutine = [g \in Goroutines |-> Idle] /\ setupMu = {}
              /\ installed = 0 /\ clients = <<>> /\ breakers = <<>>
              /\ scopedCBs = [k \in Keys |-> 0]
become(g, r) == goroutine' = [goroutine EXCEPT ![g] = r]
ids(f) == DOMAIN f
fresh(f) == 1 + Cardinality(DOMAIN f)
extended(f, v) == [i \in 1 .. fresh(f) |-> IF i = fresh(f) THEN v ELSE f[i]]

(* ------------------------------- breakers --------------------------------- *)
(* AcquireCircuitBreaker, and the release it returns, each under globalMu.    *)
AcquireCircuitBreaker(k) ==
  IF scopedCBs[k] = 0
  THEN /\ breakers' = extended(breakers, [key |-> k, users |-> 1, forgotten |-> FALSE])
       /\ scopedCBs' = [scopedCBs EXCEPT ![k] = fresh(breakers)]
  ELSE /\ breakers' = [breakers EXCEPT ![scopedCBs[k]].users = @ + 1]
       /\ UNCHANGED scopedCBs
acquired(k) == IF scopedCBs[k] = 0 THEN fresh(breakers) ELSE scopedCBs[k]
(* Mutant: the key is forgotten whichever breaker it has by now.              *)
releaseScopedBreakerByKey(c) ==
  LET e == clients[c].breaker
      left == breakers[e].users - 1
  IN /\ breakers' = [breakers EXCEPT ![e].users = left]
     /\ scopedCBs' = IF left = 0 THEN [scopedCBs EXCEPT ![clients[c].key] = 0] ELSE scopedCBs

releaseScopedBreaker(c) ==
  LET e == clients[c].breaker
      k == clients[c].key
      left == breakers[e].users - 1
  IN /\ breakers' = [breakers EXCEPT ![e].users = left]
     /\ scopedCBs' = IF left = 0 /\ scopedCBs[k] = e THEN [scopedCBs EXCEPT ![k] = 0] ELSE scopedCBs
ResetCircuitBreakers ==
  /\ scopedCBs' = [k \in Keys |-> 0]
  /\ breakers' = [e \in DOMAIN breakers |->
                    [breakers[e] EXCEPT !.forgotten = @ \/ scopedCBs[breakers[e].key] = e]]
  /\ breakers' # breakers
  /\ UNCHANGED <<goroutine, setupMu, installed, clients>>

(* ----------------------------- shared client ------------------------------ *)
(* Mutant: set-ups do not wait for each other.                                *)
InitializeUnlocked(g, k) ==
  /\ goroutine[g] = Idle /\ setupMu' = setupMu \cup {g}
  /\ become(g, [pc |-> IF installed = 0 THEN "building" ELSE "checking", key |-> k])
  /\ UNCHANGED <<installed, clients, scopedCBs, breakers>>

(* Initialize, asking for key k or naming none: one set-up at a time.  With a *)
(* client installed it only compares accounts, and says so in its error.      *)
Initialize(g, k) ==
  /\ goroutine[g] = Idle /\ setupMu = {} /\ setupMu' = {g}
  /\ become(g, [pc |-> IF installed = 0 THEN "building" ELSE "checking", key |-> k])
  /\ UNCHANGED <<installed, clients, scopedCBs, breakers>>
unlocked(g, r) == become(g, r) /\ setupMu' = {}
CheckReinitialization(g) ==
  /\ goroutine[g].pc = "checking" /\ unlocked(g, Idle)
  /\ UNCHANGED <<installed, clients, scopedCBs, breakers>>
(* build: the configuration is refused, or a metering client is made.         *)
BuildFails(g) ==
  /\ goroutine[g].pc = "building" /\ unlocked(g, Idle)
  /\ UNCHANGED <<installed, clients, scopedCBs, breakers>>
BuildClient(g) ==
  /\ goroutine[g].pc = "building" /\ fresh(clients) \in ClientIds
  /\ \E k \in IF goroutine[g].key = NoKey THEN Keys ELSE {goroutine[g].key} :
       /\ AcquireCircuitBreaker(k)
       /\ clients' = extended(clients, [key |-> k, breaker |-> acquired(k), life |-> "open"])
  /\ become(g, [pc |-> "installing", key |-> goroutine[g].key, client |-> fresh(clients)])
  /\ UNCHANGED <<setupMu, installed>>
install(g) ==
  /\ goroutine[g].pc = "installing" /\ installed' = goroutine[g].client
  /\ unlocked(g, Idle)
  /\ UNCHANGED <<clients, scopedCBs, breakers>>
(* Reset forgets the installed client; ResetAndClose then closes it with no   *)
(* lock held, so the next Initialize may run beside that Close.               *)
ResetAndClose(g) ==
  /\ goroutine[g] = Idle /\ setupMu = {} /\ installed # 0
  /\ installed' = 0
  /\ become(g, [pc |-> "closing", client |-> installed])
  /\ UNCHANGED <<setupMu, clients, scopedCBs, breakers>>
(* A client built by its caller: NewJobClient, NewReveniumFal and the like.   *)
NewClient(g, k) ==
  /\ goroutine[g] = Idle /\ fresh(clients) \in ClientIds
  /\ AcquireCircuitBreaker(k)
  /\ clients' = extended(clients, [key |-> k, breaker |-> acquired(k), life |-> "open"])
  /\ become(g, [pc |-> "owning", client |-> fresh(clients)])
  /\ UNCHANGED <<setupMu, installed>>
(* A caller may close the client it holds, and the shared one, more than once *)
(* and from several goroutines; a closed client may go on being used.         *)
CloseOwn(g) ==
  /\ goroutine[g].pc = "owning" /\ become(g, [goroutine[g] EXCEPT !.pc = "closing"])
  /\ UNCHANGED <<setupMu, installed, clients, scopedCBs, breakers>>
CloseShared(g) ==
  /\ goroutine[g] = Idle /\ installed # 0
  /\ become(g, [pc |-> "closing", client |-> installed])
  /\ UNCHANGED <<setupMu, installed, clients, scopedCBs, breakers>>
(* Close reaches the release, which runs once per client. *)
CloseClient(g) ==
  /\ goroutine[g].pc = "closing"
  /\ LET c == goroutine[g].client IN
       IF clients[c].life = "open"
       THEN releaseScopedBreaker(c) /\ clients' = [clients EXCEPT ![c].life = "closed"]
       ELSE UNCHANGED <<scopedCBs, breakers, clients>>
  /\ become(g, Idle)
  /\ UNCHANGED <<setupMu, installed>>

SharedNext == \/ \E g \in Goroutines :
                   \/ \E k \in Keys \cup {NoKey} : Initialize(g, k)
                   \/ \E k \in Keys : NewClient(g, k)
                   \/ CheckReinitialization(g) \/ BuildFails(g) \/ BuildClient(g) \/ install(g)
                   \/ ResetAndClose(g) \/ CloseOwn(g) \/ CloseShared(g) \/ CloseClient(g)
              \/ ResetCircuitBreakers
SharedSpec == SharedInit /\ [][SharedNext]_sharedVars

(* ------------------------------- properties ------------------------------- *)
open(e) == {c \in ids(clients) : clients[c].breaker = e /\ clients[c].life = "open"}

(* Every breaker is registered exactly as long as it has a client, unless the *)
(* registry was reset under it; so a late release of a forgotten breaker does *)
(* not take down the one its key has since been given, and clients of a key   *)
(* that nothing reset share one breaker.                                      *)
BreakerLivesWithItsClients ==
  \A e \in ids(breakers) :
    /\ breakers[e].users = Cardinality(open(e))
    /\ scopedCBs[breakers[e].key] = e <=> open(e) # {} /\ ~breakers[e].forgotten

(* No client is left open with nobody able to close it: it is installed, or a *)
(* goroutine holds it.                                                        *)
NoClientOrphaned ==
  \A c \in ids(clients) : clients[c].life = "open" =>
    c = installed \/ \E g \in Goroutines : "client" \in DOMAIN goroutine[g] /\ goroutine[g].client = c
=============================================================================
