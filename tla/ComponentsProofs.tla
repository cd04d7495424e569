-------------------------- MODULE ComponentsProofs ---------------------------
(***************************************************************************)
(* Proofs about the components that MCComponents checks under one roof:    *)
(* the shared clients and their breakers, the outcome of a job over a      *)
(* network that loses answers, the knowledge kept of a LiteLLM proxy and   *)
(* the turns of the tool runner.                                           *)
(***************************************************************************)
EXTENDS SharedClients, JobOutcome, LiteLLMProxy, ToolTurns, TLAPS, FiniteSetTheorems

-----------------------------------------------------------------------------
(* Shared clients.  Clients and breakers are numbered in the order they    *)
(* were made; a breaker has as many users as open clients.                 *)

Numbered(f) == \E n \in Nat : DOMAIN f = 1 .. n
ClientRecords == [key : Keys, breaker : Nat, life : {"open", "closed"}]
BreakerRecords == [key : Keys, users : Nat, forgotten : BOOLEAN]

BreakersTyped ==
  /\ Numbered(clients) /\ Numbered(breakers)
  /\ clients \in [DOMAIN clients -> ClientRecords]
  /\ breakers \in [DOMAIN breakers -> BreakerRecords]
  /\ scopedCBs \in [Keys -> Nat]
BreakersOfKeys ==
  /\ \A c \in DOMAIN clients : /\ clients[c].breaker \in DOMAIN breakers
                               /\ breakers[clients[c].breaker].key = clients[c].key
  /\ \A k \in Keys : scopedCBs[k] # 0 => scopedCBs[k] \in DOMAIN breakers /\ breakers[scopedCBs[k]].key = k
BreakersInv == BreakersTyped /\ BreakersOfKeys /\ BreakerLivesWithItsClients

\* A numbered function is finite, and the next number is one more than its last.
LEMMA NumberedIsFinite ==
    ASSUME NEW f, NEW n \in Nat, DOMAIN f = 1 .. n
    PROVE  fresh(f) = n + 1 /\ IsFiniteSet(DOMAIN f) /\ fresh(f) \notin DOMAIN f
  BY FS_Interval DEF fresh

\* A table numbers values of S; g is the table f with v entered under the next number, i.
Table(f, S) == Numbered(f) /\ f \in [DOMAIN f -> S]
Entered(g, f, i, v, S) ==
  /\ Table(g, S)
  /\ DOMAIN g = DOMAIN f \cup {i}
  /\ i \in Nat \ {0}
  /\ i \notin DOMAIN f
  /\ g[i] = v
  /\ \A j \in DOMAIN f : g[j] = f[j]

\* extended adds one entry, under the next number.
LEMMA ExtendedByOne ==
    ASSUME NEW S, NEW f, Table(f, S), NEW v \in S
    PROVE  Entered(extended(f, v), f, fresh(f), v, S)
  <1>g. PICK g : g = extended(f, v) OBVIOUS
  <1>1. PICK n \in Nat : DOMAIN f = 1 .. n BY DEF Table, Numbered
  <1>2. fresh(f) = n + 1 BY <1>1, NumberedIsFinite
  <1>3. DOMAIN g = 1 .. n + 1 /\ g = [i \in DOMAIN g |-> g[i]] BY <1>g, <1>2 DEF extended
  <1>4. 1 .. n + 1 = 1 .. n \cup {n + 1} /\ n + 1 \in Nat \ {0} /\ n + 1 \notin 1 .. n OBVIOUS
  <1>5. \A i \in 1 .. n + 1 : g[i] = IF i = n + 1 THEN v ELSE f[i] BY <1>g, <1>2 DEF extended
  <1>6. \A i \in DOMAIN g : g[i] \in S BY <1>1, <1>3, <1>4, <1>5 DEF Table
  <1>7. g \in [DOMAIN g -> S] BY <1>3, <1>6
  <1>8. Entered(g, f, fresh(f), v, S)
    BY <1>1, <1>2, <1>3, <1>4, <1>5, <1>7 DEF Numbered, Table, Entered
  <1> QED BY <1>g, <1>8

\* The open clients of a breaker are finitely many.
LEMMA OpenIsFinite ==
    ASSUME Numbered(clients), NEW e
    PROVE  open(e) \subseteq DOMAIN clients /\ IsFiniteSet(open(e))
  <1>1. PICK n \in Nat : DOMAIN clients = 1 .. n BY DEF Numbered
  <1>2. IsFiniteSet(DOMAIN clients) BY <1>1, NumberedIsFinite
  <1>3. open(e) \subseteq DOMAIN clients BY DEF open, ids
  <1> QED BY <1>2, <1>3, FS_Subset

-----------------------------------------------------------------------------
(* A client is built: its key's breaker gains a user, or is made.          *)

Built(k) == /\ AcquireCircuitBreaker(k)
            /\ clients' = extended(clients, [key |-> k, breaker |-> acquired(k), life |-> "open"])

LEMMA BuiltWithNewBreaker ==
    ASSUME BreakersInv, NEW k \in Keys, Built(k), scopedCBs[k] = 0
    PROVE  BreakersInv'
  <1>e. PICK e0 : e0 = fresh(breakers) OBVIOUS
  <1>c. PICK c0 : c0 = fresh(clients) OBVIOUS
  <1>b. PICK b0 : b0 = [key |-> k, users |-> 1, forgotten |-> FALSE] OBVIOUS
  <1>n. PICK new : new = [key |-> k, breaker |-> e0, life |-> "open"] OBVIOUS
  <1>1. clients' = extended(clients, new) /\ breakers' = extended(breakers, b0)
        /\ scopedCBs' = [scopedCBs EXCEPT ![k] = e0]
    BY <1>e, <1>b, <1>n DEF Built, AcquireCircuitBreaker, acquired
  <1>2. fresh(breakers) \in Nat
    <2>1. PICK n \in Nat : DOMAIN breakers = 1 .. n BY DEF BreakersInv, BreakersTyped, Numbered
    <2> QED BY <2>1, NumberedIsFinite
  <1>3. new \in ClientRecords /\ b0 \in BreakerRecords
    BY <1>2, <1>e, <1>b, <1>n DEF ClientRecords, BreakerRecords
  <1>4. Table(clients, ClientRecords) /\ Table(breakers, BreakerRecords)
    BY DEF BreakersInv, BreakersTyped, Table
  <1>5. /\ Numbered(clients')
        /\ clients' \in [DOMAIN clients' -> ClientRecords]
        /\ DOMAIN clients' = DOMAIN clients \cup {c0}
        /\ c0 \notin DOMAIN clients
        /\ clients'[c0] = new
        /\ \A c \in DOMAIN clients : clients'[c] = clients[c]
    <2>1. Entered(clients', clients, c0, new, ClientRecords) BY <1>1, <1>3, <1>4, <1>c, ExtendedByOne
    <2> QED BY <2>1 DEF Entered, Table
  <1>6. /\ Numbered(breakers')
        /\ breakers' \in [DOMAIN breakers' -> BreakerRecords]
        /\ DOMAIN breakers' = DOMAIN breakers \cup {e0}
        /\ e0 \in Nat \ {0}
        /\ e0 \notin DOMAIN breakers
        /\ breakers'[e0] = b0
        /\ \A e \in DOMAIN breakers : breakers'[e] = breakers[e]
    <2>1. Entered(breakers', breakers, e0, b0, BreakerRecords) BY <1>1, <1>3, <1>4, <1>e, ExtendedByOne
    <2> QED BY <2>1 DEF Entered, Table
  <1>7. BreakersTyped'
    BY <1>1, <1>5, <1>6 DEF BreakersInv, BreakersTyped
  <1>8. BreakersOfKeys'
    <2>1. scopedCBs \in [Keys -> Nat] BY DEF BreakersInv, BreakersTyped
    <2>2. ASSUME NEW c \in DOMAIN clients'
          PROVE  clients'[c].breaker \in DOMAIN breakers' /\ breakers'[clients'[c].breaker].key = clients'[c].key
      BY <1>5, <1>6, <1>b, <1>n DEF BreakersInv, BreakersOfKeys
    <2>3. ASSUME NEW j \in Keys, scopedCBs'[j] # 0
          PROVE  scopedCBs'[j] \in DOMAIN breakers' /\ breakers'[scopedCBs'[j]].key = j
      <3>1. CASE j = k BY <1>1, <1>6, <1>b, <2>1, <3>1
      <3>2. CASE j # k
        <4>1. scopedCBs'[j] = scopedCBs[j] BY <1>1, <2>1, <3>2
        <4>2. scopedCBs[j] \in DOMAIN breakers /\ breakers[scopedCBs[j]].key = j
          BY <2>3, <4>1 DEF BreakersInv, BreakersOfKeys
        <4> QED BY <1>6, <4>1, <4>2
      <3> QED BY <3>1, <3>2
    <2> QED BY <2>2, <2>3 DEF BreakersOfKeys
  <1>9. BreakerLivesWithItsClients'
    <2>1. scopedCBs \in [Keys -> Nat] BY DEF BreakersInv, BreakersTyped
    <2>2. open(e0)' = {c0}
      BY <1>5, <1>6, <1>n DEF open, ids, BreakersInv, BreakersOfKeys
    <2>3. ASSUME NEW e \in DOMAIN breakers PROVE open(e)' = open(e)
      BY <1>5, <1>6, <1>n DEF open, ids
    <2>4. ASSUME NEW e \in DOMAIN breakers
          PROVE /\ breakers'[e].users = Cardinality(open(e)')
                /\ scopedCBs'[breakers'[e].key] = e <=> open(e)' # {} /\ ~breakers'[e].forgotten
      <3>1. /\ breakers[e].users = Cardinality(open(e))
            /\ scopedCBs[breakers[e].key] = e <=> open(e) # {} /\ ~breakers[e].forgotten
        BY DEF BreakersInv, BreakerLivesWithItsClients, ids
      <3>2. breakers'[e] = breakers[e] /\ e # e0 BY <1>6
      <3>3. breakers[e].key \in Keys BY DEF BreakersInv, BreakersTyped, BreakerRecords
      <3>4. e # 0 BY DEF BreakersInv, BreakersTyped, Numbered
      <3>5. scopedCBs'[breakers[e].key] = e <=> scopedCBs[breakers[e].key] = e
        BY <1>1, <2>1, <3>2, <3>3, <3>4
      <3> QED BY <2>3, <3>1, <3>2, <3>5
    <2>5. breakers'[e0].users = Cardinality(open(e0)')
      <3>1. Cardinality({c0}) = 1 BY FS_Singleton
      <3>2. breakers'[e0].users = 1 BY <1>6, <1>b
      <3> QED BY <2>2, <3>1, <3>2
    <2>6. scopedCBs'[breakers'[e0].key] = e0 <=> open(e0)' # {} /\ ~breakers'[e0].forgotten
      BY <1>1, <1>6, <1>b, <2>1, <2>2
    <2> QED BY <1>6, <2>4, <2>5, <2>6 DEF BreakerLivesWithItsClients, ids
  <1> QED BY <1>7, <1>8, <1>9 DEF BreakersInv

LEMMA BuiltWithItsBreaker ==
    ASSUME BreakersInv, NEW k \in Keys, Built(k), scopedCBs[k] # 0
    PROVE  BreakersInv'
  <1>e. PICK e0 : e0 = scopedCBs[k] OBVIOUS
  <1>c. PICK c0 : c0 = fresh(clients) OBVIOUS
  <1>n. PICK new : new = [key |-> k, breaker |-> e0, life |-> "open"] OBVIOUS
  <1>1. clients' = extended(clients, new) /\ breakers' = [breakers EXCEPT ![e0].users = @ + 1]
        /\ scopedCBs' = scopedCBs
    BY <1>e, <1>n DEF Built, AcquireCircuitBreaker, acquired
  <1>2. e0 \in DOMAIN breakers /\ breakers[e0].key = k /\ e0 \in Nat
    BY <1>e DEF BreakersInv, BreakersTyped, BreakersOfKeys
  <1>3. new \in ClientRecords BY <1>2, <1>n DEF ClientRecords
  <1>4. Table(clients, ClientRecords) BY DEF BreakersInv, BreakersTyped, Table
  <1>5. /\ Numbered(clients')
        /\ clients' \in [DOMAIN clients' -> ClientRecords]
        /\ DOMAIN clients' = DOMAIN clients \cup {c0}
        /\ c0 \notin DOMAIN clients
        /\ clients'[c0] = new
        /\ \A c \in DOMAIN clients : clients'[c] = clients[c]
    <2>1. Entered(clients', clients, c0, new, ClientRecords) BY <1>1, <1>3, <1>4, <1>c, ExtendedByOne
    <2> QED BY <2>1 DEF Entered, Table
  <1>6. /\ DOMAIN breakers' = DOMAIN breakers
        /\ \A e \in DOMAIN breakers : /\ breakers'[e].key = breakers[e].key
                                      /\ breakers'[e].forgotten = breakers[e].forgotten
                                      /\ breakers'[e].users = breakers[e].users + IF e = e0 THEN 1 ELSE 0
        /\ breakers' \in [DOMAIN breakers' -> BreakerRecords]
    BY <1>1, <1>2 DEF BreakersInv, BreakersTyped, BreakerRecords
  <1>7. BreakersTyped'
    BY <1>1, <1>5, <1>6 DEF BreakersInv, BreakersTyped, Numbered
  <1>8. BreakersOfKeys'
    BY <1>1, <1>5, <1>2, <1>6, <1>n DEF BreakersInv, BreakersTyped, BreakersOfKeys
  <1>9. BreakerLivesWithItsClients'
    <2>1. ASSUME NEW e \in DOMAIN breakers
          PROVE /\ breakers'[e].users = Cardinality(open(e)')
                /\ scopedCBs'[breakers'[e].key] = e <=> open(e)' # {} /\ ~breakers'[e].forgotten
      <3>1. /\ breakers[e].users = Cardinality(open(e))
            /\ scopedCBs[breakers[e].key] = e <=> open(e) # {} /\ ~breakers[e].forgotten
        BY DEF BreakersInv, BreakerLivesWithItsClients, ids
      <3>2. open(e) \subseteq DOMAIN clients /\ IsFiniteSet(open(e))
        BY OpenIsFinite DEF BreakersInv, BreakersTyped
      <3>3. CASE e # e0
        <4>1. open(e)' = open(e) BY <1>5, <1>n, <3>3 DEF open, ids
        <4> QED BY <1>1, <1>6, <3>1, <3>3, <4>1 DEF BreakersInv, BreakersTyped, BreakerRecords
      <3>4. CASE e = e0
        <4>1. open(e)' = open(e) \cup {c0} BY <1>5, <1>n, <3>4 DEF open, ids
        <4>2. Cardinality(open(e)') = Cardinality(open(e)) + 1
          BY <1>5, <3>2, <4>1, FS_AddElement
        <4>3. scopedCBs[breakers[e].key] = e BY <1>2, <1>e, <3>4
        <4> QED BY <1>1, <1>6, <3>1, <3>4, <4>1, <4>2, <4>3
      <3> QED BY <3>3, <3>4
    <2> QED BY <1>6, <2>1 DEF BreakerLivesWithItsClients, ids
  <1> QED BY <1>7, <1>8, <1>9 DEF BreakersInv

\* A client closes: its breaker loses a user, and is forgotten with its last.
LEMMA ReleasedBreakers ==
    ASSUME BreakersInv, NEW c0 \in DOMAIN clients, clients[c0].life = "open",
           releaseScopedBreaker(c0), clients' = [clients EXCEPT ![c0].life = "closed"]
    PROVE  BreakersInv'
  <1>e. PICK e0 : e0 = clients[c0].breaker OBVIOUS
  <1>k. PICK k : k = clients[c0].key OBVIOUS
  <1>l. PICK left : left = breakers[e0].users - 1 OBVIOUS
  <1>1. e0 \in DOMAIN breakers /\ breakers[e0].key = k /\ k \in Keys /\ breakers[e0].users \in Nat
    BY <1>e, <1>k DEF BreakersInv, BreakersTyped, BreakersOfKeys, BreakerRecords, ClientRecords
  <1>2. /\ breakers' = [breakers EXCEPT ![e0].users = left]
        /\ scopedCBs' = IF left = 0 /\ scopedCBs[k] = e0 THEN [scopedCBs EXCEPT ![k] = 0] ELSE scopedCBs
    BY <1>e, <1>k, <1>l DEF releaseScopedBreaker
  <1>3. /\ DOMAIN clients' = DOMAIN clients /\ clients' \in [DOMAIN clients -> ClientRecords]
        /\ \A c \in DOMAIN clients : /\ clients'[c].breaker = clients[c].breaker /\ clients'[c].key = clients[c].key
                                     /\ clients'[c].life = IF c = c0 THEN "closed" ELSE clients[c].life
    BY DEF BreakersInv, BreakersTyped, ClientRecords
  <1>4. c0 \in open(e0) BY <1>e DEF open, ids
  <1>5. IsFiniteSet(open(e0)) BY OpenIsFinite DEF BreakersInv, BreakersTyped
  <1>6. breakers[e0].users = Cardinality(open(e0)) BY <1>1 DEF BreakersInv, BreakerLivesWithItsClients, ids
  <1>7. Cardinality(open(e0) \ {c0}) = Cardinality(open(e0)) - 1 /\ IsFiniteSet(open(e0) \ {c0})
    BY <1>4, <1>5, FS_RemoveElement
  <1>8. left = Cardinality(open(e0) \ {c0}) BY <1>l, <1>6, <1>7
  <1>9. left \in Nat /\ (left = 0 <=> open(e0) \ {c0} = {})
    BY <1>7, <1>8, FS_CardinalityType, FS_EmptySet
  <1>10. open(e0)' = open(e0) \ {c0} BY <1>3 DEF open, ids
  <1>11. \A e : e # e0 => open(e)' = open(e) BY <1>e, <1>3 DEF open, ids
  <1>12. /\ DOMAIN breakers' = DOMAIN breakers /\ breakers' \in [DOMAIN breakers -> BreakerRecords]
         /\ \A e \in DOMAIN breakers : /\ breakers'[e].key = breakers[e].key
                                       /\ breakers'[e].forgotten = breakers[e].forgotten
                                       /\ breakers'[e].users = IF e = e0 THEN left ELSE breakers[e].users
    BY <1>1, <1>2, <1>9 DEF BreakersInv, BreakersTyped, BreakerRecords
  <1>13. scopedCBs' \in [Keys -> Nat] /\ \A j \in Keys : j # k => scopedCBs'[j] = scopedCBs[j]
    BY <1>1, <1>2 DEF BreakersInv, BreakersTyped
  <1>14. scopedCBs'[k] = IF left = 0 /\ scopedCBs[k] = e0 THEN 0 ELSE scopedCBs[k]
    BY <1>1, <1>2 DEF BreakersInv, BreakersTyped
  <1>15. BreakersTyped'
    BY <1>3, <1>12, <1>13 DEF BreakersInv, BreakersTyped, Numbered
  <1>16. BreakersOfKeys'
    <2>1. ASSUME NEW c \in DOMAIN clients'
          PROVE  clients'[c].breaker \in DOMAIN breakers' /\ breakers'[clients'[c].breaker].key = clients'[c].key
      BY <1>3, <1>12 DEF BreakersInv, BreakersOfKeys
    <2>2. ASSUME NEW j \in Keys, scopedCBs'[j] # 0
          PROVE  scopedCBs'[j] \in DOMAIN breakers' /\ breakers'[scopedCBs'[j]].key = j
      <3>1. scopedCBs'[j] = scopedCBs[j] BY <1>13, <1>14, <2>2
      <3> QED BY <1>12, <2>2, <3>1 DEF BreakersInv, BreakersOfKeys
    <2> QED BY <2>1, <2>2 DEF BreakersOfKeys
  <1>17. ASSUME NEW e \in DOMAIN breakers
         PROVE /\ breakers'[e].users = Cardinality(open(e)')
               /\ scopedCBs'[breakers'[e].key] = e <=> open(e)' # {} /\ ~breakers'[e].forgotten
    <2>1. /\ breakers[e].users = Cardinality(open(e))
          /\ scopedCBs[breakers[e].key] = e <=> open(e) # {} /\ ~breakers[e].forgotten
      BY DEF BreakersInv, BreakerLivesWithItsClients, ids
    <2>2. breakers[e].key \in Keys /\ e # 0 BY DEF BreakersInv, BreakersTyped, BreakerRecords, Numbered
    <2>3. CASE e # e0
      <3>1. scopedCBs'[breakers[e].key] = e <=> scopedCBs[breakers[e].key] = e
        BY <1>13, <1>14, <2>2, <2>3
      <3> QED BY <1>11, <1>12, <2>1, <2>3, <3>1
    <2>4. CASE e = e0
      <3>1. breakers'[e].users = Cardinality(open(e)') BY <1>8, <1>10, <1>12, <2>4
      <3>2. scopedCBs[k] = e0 <=> open(e0) # {} /\ ~breakers[e0].forgotten BY <1>1, <2>1, <2>4
      <3>3. scopedCBs'[k] = e0 <=> left # 0 /\ scopedCBs[k] = e0 BY <1>14, <2>2, <2>4
      <3>4. scopedCBs'[k] = e0 <=> open(e0)' # {} /\ ~breakers[e0].forgotten
        BY <1>4, <1>9, <1>10, <3>2, <3>3
      <3> QED BY <1>1, <1>12, <2>4, <3>1, <3>4
    <2> QED BY <2>3, <2>4
  <1>18. BreakerLivesWithItsClients' BY <1>12, <1>17 DEF BreakerLivesWithItsClients, ids
  <1> QED BY <1>15, <1>16, <1>18 DEF BreakersInv

\* The registry is reset: no key has a breaker, and those that were registered are forgotten.
LEMMA ResetKeepsBreakers ==
    ASSUME BreakersInv, ResetCircuitBreakers
    PROVE  BreakersInv'
  <1>1. /\ scopedCBs' = [k \in Keys |-> 0] /\ clients' = clients
        /\ breakers' = [e \in DOMAIN breakers |->
                          [breakers[e] EXCEPT !.forgotten = @ \/ scopedCBs[breakers[e].key] = e]]
    BY DEF ResetCircuitBreakers
  <1>2. ASSUME NEW e \in DOMAIN breakers
        PROVE  /\ breakers[e] \in BreakerRecords
               /\ breakers'[e] = [breakers[e] EXCEPT !.forgotten = @ \/ scopedCBs[breakers[e].key] = e]
    BY <1>1 DEF BreakersInv, BreakersTyped
  <1>3. ASSUME NEW e \in DOMAIN breakers
        PROVE  /\ breakers'[e].key = breakers[e].key /\ breakers'[e].users = breakers[e].users
               /\ breakers'[e].forgotten = (breakers[e].forgotten \/ scopedCBs[breakers[e].key] = e)
               /\ breakers'[e] \in BreakerRecords
    <2> DEFINE b == breakers[e]
               f == b.forgotten \/ scopedCBs[b.key] = e
    <2>1. b \in BreakerRecords /\ breakers'[e] = [b EXCEPT !.forgotten = f] BY <1>2
    <2>2. f \in BOOLEAN BY ZenonT(30) DEF f
    <2> HIDE DEF b, f
    <2>3. breakers'[e] \in BreakerRecords BY <2>1, <2>2 DEF BreakerRecords
    <2>4. breakers'[e].key = b.key /\ breakers'[e].users = b.users BY <2>1 DEF BreakerRecords
    <2>5. breakers'[e].forgotten = f BY <2>1, <2>2 DEF BreakerRecords
    <2> QED BY <2>3, <2>4, <2>5 DEF b, f
  <1>4. DOMAIN breakers' = DOMAIN breakers BY <1>1
  <1>5. breakers' \in [DOMAIN breakers' -> BreakerRecords] BY <1>1, <1>3, <1>4
  <1>6. BreakersTyped' BY <1>1, <1>4, <1>5 DEF BreakersInv, BreakersTyped, Numbered
  <1>7. BreakersOfKeys' BY <1>1, <1>3, <1>4 DEF BreakersInv, BreakersOfKeys
  <1>8. ASSUME NEW e \in DOMAIN breakers
        PROVE /\ breakers'[e].users = Cardinality(open(e)')
              /\ scopedCBs'[breakers'[e].key] = e <=> open(e)' # {} /\ ~breakers'[e].forgotten
    <2>1. /\ breakers[e].users = Cardinality(open(e))
          /\ scopedCBs[breakers[e].key] = e <=> open(e) # {} /\ ~breakers[e].forgotten
      BY DEF BreakersInv, BreakerLivesWithItsClients, ids
    <2>2. breakers[e].key \in Keys /\ e # 0 BY DEF BreakersInv, BreakersTyped, BreakerRecords, Numbered
    <2>3. open(e)' = open(e) BY <1>1 DEF open, ids
    <2>4. scopedCBs'[breakers'[e].key] # e BY <1>1, <1>3, <2>2
    <2>5. ~(open(e)' # {} /\ ~breakers'[e].forgotten) BY <1>3, <2>1, <2>3
    <2> QED BY <1>3, <2>1, <2>3, <2>4, <2>5
  <1> QED BY <1>4, <1>6, <1>7, <1>8 DEF BreakersInv, BreakerLivesWithItsClients, ids

-----------------------------------------------------------------------------
(* What each goroutine is doing: a set-up is one goroutine's, who holds the *)
(* lock, and a client being built or installed finds none installed.       *)

Doing(D) == {Idle} \cup [pc : {"building", "checking"}, key : Keys \cup {NoKey}]
                   \cup [pc : {"installing"}, key : Keys \cup {NoKey}, client : D]
                   \cup [pc : {"owning", "closing"}, client : D]
SettingUp == {"building", "checking", "installing"}
holding(g, c) == "client" \in DOMAIN goroutine[g] /\ goroutine[g].client = c

GoroutinesTyped == goroutine \in [Goroutines -> Doing(DOMAIN clients)] /\ installed \in {0} \cup DOMAIN clients
SetupInv == \A g \in Goroutines :
  /\ goroutine[g].pc \in SettingUp => setupMu = {g}
  /\ goroutine[g].pc \in {"building", "installing"} => installed = 0
SharedInv == BreakersInv /\ GoroutinesTyped /\ SetupInv /\ NoClientOrphaned

\* What a goroutine may be doing only grows with the clients.
LEMMA DoingGrows == ASSUME NEW D, NEW E, D \subseteq E PROVE Doing(D) \subseteq Doing(E)
  BY DEF Doing

\* A goroutine with a stage of its own, and what it then knows.
LEMMA StageOf ==
    ASSUME NEW D, NEW r \in Doing(D)
    PROVE  /\ r.pc = "idle" <=> r = Idle
           /\ r.pc \in {"building", "checking"} => r.key \in Keys \cup {NoKey} /\ DOMAIN r = {"pc", "key"}
           /\ r.pc = "installing" => r.key \in Keys \cup {NoKey} /\ r.client \in D /\ DOMAIN r = {"pc", "key", "client"}
           /\ r.pc \in {"owning", "closing"} => r.client \in D /\ DOMAIN r = {"pc", "client"}
           /\ r.pc \in {"idle", "building", "checking", "installing", "owning", "closing"}
           /\ DOMAIN Idle = {"pc"} /\ Idle.pc = "idle"
  BY DEF Doing, Idle

\* Only what goroutine g does changes, and stays one of the things to do.
LEMMA OneGoroutine ==
    ASSUME NEW D, NEW E, D \subseteq E, goroutine \in [Goroutines -> Doing(D)],
           NEW g \in Goroutines, NEW r \in Doing(E), become(g, r)
    PROVE  /\ goroutine' \in [Goroutines -> Doing(E)]
           /\ goroutine'[g] = r
           /\ \A h \in Goroutines : h # g => goroutine'[h] = goroutine[h]
  BY DoingGrows DEF become

\* The steps that leave clients and breakers alone.
LEMMA GoroutineStepKept ==
    ASSUME BreakersInv, UNCHANGED <<clients, scopedCBs, breakers>>
    PROVE  BreakersInv'
  <1>1. BreakersTyped' BY DEF BreakersInv, BreakersTyped, Numbered
  <1>2. BreakersOfKeys' BY DEF BreakersInv, BreakersOfKeys
  <1>3. BreakerLivesWithItsClients' BY DEF BreakersInv, BreakerLivesWithItsClients, open, ids
  <1> QED BY <1>1, <1>2, <1>3 DEF BreakersInv

OnlyMoved(g) == \A h \in Goroutines : h # g => goroutine'[h] = goroutine[h]

\* A step of g with the set-up lock free, or its own, or left alone.
LEMMA SetupKept ==
    ASSUME SetupInv, NEW g \in Goroutines, OnlyMoved(g),
           setupMu = {} \/ setupMu = {g} \/ UNCHANGED <<setupMu, installed>>,
           goroutine'[g].pc \in SettingUp => setupMu' = {g},
           goroutine'[g].pc \in {"building", "installing"} => installed' = 0
    PROVE  SetupInv'
  <1>1. ASSUME NEW h \in Goroutines, h # g, goroutine'[h].pc \in SettingUp
        PROVE  setupMu' = {h} /\ (goroutine'[h].pc \in {"building", "installing"} => installed' = 0)
    <2>1. goroutine'[h] = goroutine[h] BY <1>1 DEF OnlyMoved
    <2>2. setupMu = {h} /\ (goroutine[h].pc \in {"building", "installing"} => installed = 0)
      BY <1>1, <2>1 DEF SetupInv
    <2>3. UNCHANGED <<setupMu, installed>> BY <1>1, <2>2
    <2> QED BY <2>1, <2>2, <2>3
  <1> QED BY <1>1 DEF SetupInv, SettingUp

\* A step of g keeps clients from being orphaned when each that is open after
\* it is installed, or g's, or was neither before and so is another's.
LEMMA OrphansKept ==
    ASSUME NoClientOrphaned, NEW g \in Goroutines, OnlyMoved(g),
           \A c \in DOMAIN clients' : clients'[c].life = "open" =>
             \/ c = installed'
             \/ holding(g, c)'
             \/ c \in DOMAIN clients /\ clients[c].life = "open" /\ c # installed /\ ~holding(g, c)
    PROVE  NoClientOrphaned'
  <1>1. ASSUME NEW c \in DOMAIN clients', clients'[c].life = "open", c # installed'
        PROVE  \E h \in Goroutines : "client" \in DOMAIN goroutine'[h] /\ goroutine'[h].client = c
    <2>1. CASE holding(g, c)' BY <2>1 DEF holding
    <2>2. CASE c \in DOMAIN clients /\ clients[c].life = "open" /\ c # installed /\ ~holding(g, c)
      <3>1. PICK h \in Goroutines : holding(h, c) BY <2>2 DEF NoClientOrphaned, holding, ids
      <3>2. goroutine'[h] = goroutine[h] BY <2>2, <3>1 DEF OnlyMoved
      <3> QED BY <3>1, <3>2 DEF holding
    <2> QED BY <1>1, <2>1, <2>2
  <1> QED BY <1>1 DEF NoClientOrphaned, ids

\* A step of g that leaves the clients alone.
LEMMA MoveKept ==
    ASSUME SharedInv, NEW g \in Goroutines, NEW r \in Doing(DOMAIN clients), become(g, r),
           UNCHANGED <<clients, scopedCBs, breakers>>, installed' \in {0} \cup DOMAIN clients,
           setupMu = {} \/ setupMu = {g} \/ UNCHANGED <<setupMu, installed>>,
           r.pc \in SettingUp => setupMu' = {g},
           r.pc \in {"building", "installing"} => installed' = 0,
           \A c \in DOMAIN clients : c = installed \/ holding(g, c) =>
             c = installed' \/ ("client" \in DOMAIN r /\ r.client = c)
    PROVE  SharedInv'
  <1>1. BreakersInv' BY GoroutineStepKept DEF SharedInv
  <1>2. goroutine \in [Goroutines -> Doing(DOMAIN clients)] BY DEF SharedInv, GoroutinesTyped
  <1>3. /\ goroutine' \in [Goroutines -> Doing(DOMAIN clients)]
        /\ goroutine'[g] = r
        /\ OnlyMoved(g)
    BY <1>2, OneGoroutine DEF OnlyMoved
  <1>4. GoroutinesTyped' BY <1>3 DEF GoroutinesTyped
  <1>5. SetupInv' BY <1>3, SetupKept DEF SharedInv
  <1>6. NoClientOrphaned'
    <2>1. \A c \in DOMAIN clients' : clients'[c].life = "open" =>
            \/ c = installed'
            \/ holding(g, c)'
            \/ c \in DOMAIN clients /\ clients[c].life = "open" /\ c # installed /\ ~holding(g, c)
      BY <1>3 DEF holding
    <2> QED BY <1>3, <2>1, OrphansKept DEF SharedInv
  <1> QED BY <1>1, <1>4, <1>5, <1>6 DEF SharedInv

LEMMA InitializeKept ==
    ASSUME SharedInv, NEW g \in Goroutines, NEW k \in Keys \cup {NoKey}, Initialize(g, k)
    PROVE  SharedInv'
  <1>r. PICK r : r = [pc |-> IF installed = 0 THEN "building" ELSE "checking", key |-> k] OBVIOUS
  <1>1. r \in Doing(DOMAIN clients) /\ r.pc \in {"building", "checking"} /\ (r.pc = "building" => installed = 0)
    BY <1>r DEF Doing
  <1>2. \A c : ~holding(g, c) BY StageOf DEF Initialize, holding, Idle
  <1> QED BY <1>r, <1>1, <1>2, MoveKept DEF Initialize, SharedInv, GoroutinesTyped

LEMMA UnlockKept ==
    ASSUME SharedInv, NEW g \in Goroutines, CheckReinitialization(g) \/ BuildFails(g)
    PROVE  SharedInv'
  <1>1. /\ goroutine[g].pc \in {"building", "checking"} /\ become(g, Idle) /\ setupMu' = {}
        /\ UNCHANGED <<installed, clients, scopedCBs, breakers>>
    BY DEF CheckReinitialization, BuildFails, unlocked
  <1>2. goroutine[g] \in Doing(DOMAIN clients) /\ setupMu = {g}
    BY <1>1 DEF SharedInv, GoroutinesTyped, SetupInv, SettingUp
  <1>3. \A c : ~holding(g, c) BY <1>1, <1>2, StageOf DEF holding
  <1>4. Idle \in Doing(DOMAIN clients) /\ Idle.pc = "idle" BY DEF Doing, Idle
  <1> QED BY <1>1, <1>2, <1>3, <1>4, MoveKept DEF SharedInv, GoroutinesTyped, SettingUp

LEMMA InstallKept ==
    ASSUME SharedInv, NEW g \in Goroutines, install(g)
    PROVE  SharedInv'
  <1>1. /\ goroutine[g].pc = "installing" /\ become(g, Idle) /\ setupMu' = {} /\ installed' = goroutine[g].client
        /\ UNCHANGED <<clients, scopedCBs, breakers>>
    BY DEF install, unlocked
  <1>2. goroutine[g] \in Doing(DOMAIN clients) /\ setupMu = {g} /\ installed = 0
    BY <1>1 DEF SharedInv, GoroutinesTyped, SetupInv, SettingUp
  <1>3. goroutine[g].client \in DOMAIN clients BY <1>1, <1>2, StageOf
  <1>4. 0 \notin DOMAIN clients BY DEF SharedInv, BreakersInv, BreakersTyped, Numbered
  <1>5. \A c \in DOMAIN clients : c = installed \/ holding(g, c) => c = installed'
    BY <1>1, <1>2, <1>4 DEF holding
  <1>6. Idle \in Doing(DOMAIN clients) /\ Idle.pc = "idle" BY DEF Doing, Idle
  <1> QED BY <1>1, <1>2, <1>3, <1>5, <1>6, MoveKept DEF SettingUp

LEMMA ToCloseKept ==
    ASSUME SharedInv, NEW g \in Goroutines, ResetAndClose(g) \/ CloseShared(g)
    PROVE  SharedInv'
  <1>r. PICK r : r = [pc |-> "closing", client |-> installed] OBVIOUS
  <1>1. /\ goroutine[g] = Idle /\ installed # 0 /\ become(g, r)
        /\ UNCHANGED <<setupMu, clients, scopedCBs, breakers>>
        /\ installed' = installed \/ (setupMu = {} /\ installed' = 0)
    BY <1>r DEF ResetAndClose, CloseShared
  <1>2. installed \in DOMAIN clients BY <1>1 DEF SharedInv, GoroutinesTyped
  <1>3. r \in Doing(DOMAIN clients) /\ r.pc = "closing" /\ DOMAIN r = {"pc", "client"} /\ r.client = installed
    BY <1>r, <1>2 DEF Doing
  <1>4. \A c : ~holding(g, c) BY <1>1, StageOf DEF holding, Idle
  <1> QED BY <1>1, <1>2, <1>3, <1>4, MoveKept DEF SettingUp

LEMMA CloseOwnKept ==
    ASSUME SharedInv, NEW g \in Goroutines, CloseOwn(g)
    PROVE  SharedInv'
  <1>1. /\ goroutine[g].pc = "owning" /\ become(g, [goroutine[g] EXCEPT !.pc = "closing"])
        /\ UNCHANGED <<setupMu, installed, clients, scopedCBs, breakers>>
    BY DEF CloseOwn
  <1>2. goroutine[g] \in Doing(DOMAIN clients) BY DEF SharedInv, GoroutinesTyped
  <1>3. goroutine[g].client \in DOMAIN clients /\ DOMAIN goroutine[g] = {"pc", "client"}
    BY <1>1, <1>2, StageOf
  <1>r. PICK r : r = [goroutine[g] EXCEPT !.pc = "closing"] OBVIOUS
  <1>4. r.pc = "closing" /\ r.client = goroutine[g].client /\ DOMAIN r = {"pc", "client"}
    BY <1>3, <1>r
  <1>5. r = [pc |-> "closing", client |-> goroutine[g].client]
    BY <1>1, <1>2, <1>3, <1>r DEF Doing, Idle
  <1>6. r \in Doing(DOMAIN clients) BY <1>3, <1>5 DEF Doing
  <1>7. installed \in {0} \cup DOMAIN clients BY DEF SharedInv, GoroutinesTyped
  <1>8. \A c : holding(g, c) => r.client = c BY <1>4 DEF holding
  <1> QED BY <1>1, <1>r, <1>4, <1>6, <1>7, <1>8, MoveKept DEF SettingUp

\* A client is built, by the set-up that g is doing or by g for itself: all the
\* others are as they were, and this one is g's.
LEMMA ClientBuilt ==
    ASSUME SharedInv, NEW g \in Goroutines, NEW k \in Keys, Built(k),
           NEW pc \in {"installing", "owning"}, NEW r, become(g, r),
           r = (IF pc = "owning" THEN [pc |-> pc, client |-> fresh(clients)]
                ELSE [pc |-> pc, key |-> goroutine[g].key, client |-> fresh(clients)]),
           goroutine[g].pc = IF pc = "owning" THEN "idle" ELSE "building",
           UNCHANGED <<setupMu, installed>>
    PROVE  SharedInv'
  <1>1. BreakersInv' BY BuiltWithNewBreaker, BuiltWithItsBreaker DEF SharedInv
  <1>c. PICK c0 : c0 = fresh(clients) OBVIOUS
  <1>2. Table(clients, ClientRecords) BY DEF SharedInv, BreakersInv, BreakersTyped, Table
  <1>n. PICK e0 : e0 = acquired(k) OBVIOUS
  <1>3. clients' = extended(clients, [key |-> k, breaker |-> e0, life |-> "open"]) BY <1>n DEF Built
  <1>4. DOMAIN clients' = DOMAIN clients \cup {c0} /\ \A c \in DOMAIN clients : clients'[c] = clients[c]
    <2>1. PICK n \in Nat : DOMAIN clients = 1 .. n BY <1>2 DEF Table, Numbered
    <2>2. c0 = n + 1 BY <2>1, <1>c, NumberedIsFinite
    <2>3. DOMAIN clients' = 1 .. n + 1 BY <1>3, <1>c, <2>2 DEF extended
    <2>4. \A c \in 1 .. n : clients'[c] = clients[c] BY <1>3, <1>c, <2>2 DEF extended
    <2> QED BY <2>1, <2>2, <2>3, <2>4
  <1>5. goroutine \in [Goroutines -> Doing(DOMAIN clients)] BY DEF SharedInv, GoroutinesTyped
  <1>6. pc = "installing" => goroutine[g].key \in Keys \cup {NoKey} BY <1>5, StageOf
  <1>7. r \in Doing(DOMAIN clients') /\ "client" \in DOMAIN r /\ r.client = c0 /\ r.pc = pc
    BY <1>4, <1>6, <1>c DEF Doing
  <1>8. "client" \notin DOMAIN goroutine[g] BY <1>5, StageOf
  <1>9. /\ goroutine' \in [Goroutines -> Doing(DOMAIN clients')]
        /\ goroutine'[g] = r
        /\ OnlyMoved(g)
    BY <1>4, <1>5, <1>7, OneGoroutine DEF OnlyMoved
  <1>10. GoroutinesTyped' BY <1>4, <1>9 DEF SharedInv, GoroutinesTyped
  <1>11. SetupInv'
    <2>1. pc = "installing" => setupMu = {g} /\ installed = 0 BY DEF SharedInv, SetupInv, SettingUp
    <2>2. goroutine'[g].pc = pc BY <1>7, <1>9
    <2> QED BY <1>9, <2>1, <2>2, SetupKept DEF SharedInv, SettingUp
  <1>12. NoClientOrphaned'
    <2>1. ASSUME NEW c \in DOMAIN clients', clients'[c].life = "open"
          PROVE  \/ c = installed'
                 \/ holding(g, c)'
                 \/ c \in DOMAIN clients /\ clients[c].life = "open" /\ c # installed /\ ~holding(g, c)
      <3>1. CASE c = c0 BY <1>7, <1>9, <3>1 DEF holding
      <3>2. CASE c # c0 BY <1>4, <1>8, <2>1, <3>2 DEF holding
      <3> QED BY <3>1, <3>2
    <2> QED BY <1>9, <2>1, OrphansKept DEF SharedInv
  <1> QED BY <1>1, <1>10, <1>11, <1>12 DEF SharedInv

LEMMA BuildClientKept ==
    ASSUME SharedInv, NEW g \in Goroutines, BuildClient(g)
    PROVE  SharedInv'
  <1>1. goroutine \in [Goroutines -> Doing(DOMAIN clients)] BY DEF SharedInv, GoroutinesTyped
  <1>2. goroutine[g].pc = "building" /\ goroutine[g].key \in Keys \cup {NoKey} BY <1>1, StageOf DEF BuildClient
  <1>3. PICK k \in IF goroutine[g].key = NoKey THEN Keys ELSE {goroutine[g].key} : Built(k)
    BY DEF BuildClient, Built
  <1>4. k \in Keys BY <1>2, <1>3
  <1>r. PICK r : r = [pc |-> "installing", key |-> goroutine[g].key, client |-> fresh(clients)] OBVIOUS
  <1>5. become(g, r) /\ UNCHANGED <<setupMu, installed>> BY <1>r DEF BuildClient
  <1> QED BY <1>2, <1>3, <1>4, <1>r, <1>5, ClientBuilt

LEMMA NewClientKept ==
    ASSUME SharedInv, NEW g \in Goroutines, NEW k \in Keys, NewClient(g, k)
    PROVE  SharedInv'
  <1>1. Built(k) /\ goroutine[g] = Idle /\ UNCHANGED <<setupMu, installed>> BY DEF NewClient, Built
  <1>2. goroutine[g].pc = "idle" BY <1>1 DEF Idle
  <1>r. PICK r : r = [pc |-> "owning", client |-> fresh(clients)] OBVIOUS
  <1>3. become(g, r) BY <1>r DEF NewClient
  <1> QED BY <1>1, <1>2, <1>r, <1>3, ClientBuilt

LEMMA CloseClientKept ==
    ASSUME SharedInv, NEW g \in Goroutines, CloseClient(g)
    PROVE  SharedInv'
  <1>c. PICK c0 : c0 = goroutine[g].client OBVIOUS
  <1>1. /\ goroutine[g].pc = "closing" /\ become(g, Idle) /\ UNCHANGED <<setupMu, installed>>
        /\ IF clients[c0].life = "open"
           THEN releaseScopedBreaker(c0) /\ clients' = [clients EXCEPT ![c0].life = "closed"]
           ELSE UNCHANGED <<scopedCBs, breakers, clients>>
    BY <1>c DEF CloseClient
  <1>2. goroutine \in [Goroutines -> Doing(DOMAIN clients)] BY DEF SharedInv, GoroutinesTyped
  <1>3. c0 \in DOMAIN clients BY <1>1, <1>2, <1>c, StageOf
  <1>4. clients \in [DOMAIN clients -> ClientRecords]
    BY DEF SharedInv, BreakersInv, BreakersTyped
  <1>5. DOMAIN clients' = DOMAIN clients /\ \A c \in DOMAIN clients : c # c0 => clients'[c] = clients[c]
    BY <1>1, <1>4
  <1>6. clients'[c0].life = "closed" BY <1>1, <1>3, <1>4 DEF ClientRecords
  <1>7. BreakersInv' BY <1>1, <1>3, ReleasedBreakers, GoroutineStepKept DEF SharedInv
  <1>8. Idle \in Doing(DOMAIN clients) /\ Idle.pc = "idle" BY DEF Doing, Idle
  <1>9. /\ goroutine' \in [Goroutines -> Doing(DOMAIN clients)]
        /\ goroutine'[g] = Idle
        /\ OnlyMoved(g)
    BY <1>1, <1>2, <1>8, OneGoroutine DEF OnlyMoved
  <1>10. GoroutinesTyped' BY <1>1, <1>5, <1>9 DEF SharedInv, GoroutinesTyped
  <1>11. SetupInv' BY <1>1, <1>8, <1>9, SetupKept DEF SharedInv, SettingUp
  <1>12. NoClientOrphaned'
    <2>1. \A c \in DOMAIN clients' : clients'[c].life = "open" =>
            \/ c = installed'
            \/ holding(g, c)'
            \/ c \in DOMAIN clients /\ clients[c].life = "open" /\ c # installed /\ ~holding(g, c)
      BY <1>1, <1>5, <1>6, <1>c DEF holding
    <2> QED BY <1>9, <2>1, OrphansKept DEF SharedInv
  <1> QED BY <1>7, <1>10, <1>11, <1>12 DEF SharedInv

LEMMA ResetKept ==
    ASSUME SharedInv, ResetCircuitBreakers
    PROVE  SharedInv'
  <1>1. BreakersInv' BY ResetKeepsBreakers DEF SharedInv
  <1>2. UNCHANGED <<goroutine, setupMu, installed, clients>> BY DEF ResetCircuitBreakers
  <1> QED BY <1>1, <1>2 DEF SharedInv, GoroutinesTyped, SetupInv, NoClientOrphaned, ids

LEMMA SharedStart == SharedInit => SharedInv
  <1> SUFFICES ASSUME SharedInit PROVE SharedInv OBVIOUS
  <1>1. DOMAIN clients = {} /\ DOMAIN breakers = {} BY DEF SharedInit
  <1>2. Numbered(clients) /\ Numbered(breakers)
    <2>1. 0 \in Nat /\ 1 .. 0 = {} OBVIOUS
    <2> QED BY <1>1, <2>1 DEF Numbered
  <1>3. clients = [i \in {} |-> clients[i]] /\ breakers = [i \in {} |-> breakers[i]] BY DEF SharedInit
  <1>4. BreakersTyped BY <1>1, <1>2, <1>3 DEF BreakersTyped, SharedInit
  <1>5. BreakersInv BY <1>1, <1>4 DEF BreakersInv, BreakersOfKeys, BreakerLivesWithItsClients, ids, SharedInit
  <1>6. GoroutinesTyped BY DEF GoroutinesTyped, SharedInit, Doing
  <1>7. SetupInv BY DEF SetupInv, SettingUp, SharedInit, Idle
  <1> QED BY <1>1, <1>5, <1>6, <1>7 DEF SharedInv, NoClientOrphaned, ids

LEMMA SharedStep == SharedInv /\ [SharedNext]_sharedVars => SharedInv'
  <1> SUFFICES ASSUME SharedInv, [SharedNext]_sharedVars PROVE SharedInv' OBVIOUS
  <1>1. CASE UNCHANGED sharedVars
    <2>1. BreakersInv' BY <1>1, GoroutineStepKept DEF SharedInv, sharedVars
    <2> QED BY <1>1, <2>1 DEF SharedInv, GoroutinesTyped, SetupInv, NoClientOrphaned, ids, sharedVars
  <1>2. ASSUME NEW g \in Goroutines, NEW k \in Keys \cup {NoKey}, Initialize(g, k) PROVE SharedInv'
    BY <1>2, InitializeKept
  <1>3. ASSUME NEW g \in Goroutines, NEW k \in Keys, NewClient(g, k) PROVE SharedInv'
    BY <1>3, NewClientKept
  <1>4. ASSUME NEW g \in Goroutines, CheckReinitialization(g) \/ BuildFails(g) PROVE SharedInv'
    BY <1>4, UnlockKept
  <1>5. ASSUME NEW g \in Goroutines, BuildClient(g) PROVE SharedInv' BY <1>5, BuildClientKept
  <1>6. ASSUME NEW g \in Goroutines, install(g) PROVE SharedInv' BY <1>6, InstallKept
  <1>7. ASSUME NEW g \in Goroutines, ResetAndClose(g) \/ CloseShared(g) PROVE SharedInv'
    BY <1>7, ToCloseKept
  <1>8. ASSUME NEW g \in Goroutines, CloseOwn(g) PROVE SharedInv' BY <1>8, CloseOwnKept
  <1>9. ASSUME NEW g \in Goroutines, CloseClient(g) PROVE SharedInv' BY <1>9, CloseClientKept
  <1>10. CASE ResetCircuitBreakers BY <1>10, ResetKept
  <1> QED BY <1>1, <1>2, <1>3, <1>4, <1>5, <1>6, <1>7, <1>8, <1>9, <1>10 DEF SharedNext

\* A breaker of the registry lives exactly as long as it has an open client,
\* unless the registry was reset under it, and counts its clients, for any
\* goroutines and keys and however many clients are built.
THEOREM BreakersLiveWithClients == SharedSpec => []BreakerLivesWithItsClients
  <1>1. SharedInv => BreakerLivesWithItsClients BY DEF SharedInv, BreakersInv
  <1> QED BY SharedStart, SharedStep, <1>1, PTL DEF SharedSpec

\* A client that is open is installed or held by a goroutine that can close it,
\* whatever set-ups, resets and closes run beside each other.
THEOREM ClientsHaveHolders == SharedSpec => []NoClientOrphaned
  <1>1. SharedInv => NoClientOrphaned BY DEF SharedInv
  <1> QED BY SharedStart, SharedStep, <1>1, PTL DEF SharedSpec

-----------------------------------------------------------------------------
(* The outcome of a job.  What Revenium holds came from one report, and an *)
(* amendment changes all of it but whose report it was; a call that is     *)
(* still sending knows whether one of its attempts may have been applied.  *)

JobStages == {"sending", "ok", "error", "reading", "readingHistory", "alreadyReported", "confirmed"}
CallRecords == [stage : JobStages, retries : Nat, timeouts : Nat, mayBeApplied : BOOLEAN,
                unread : BOOLEAN]
Outcomes == [has : {TRUE}, content : Contents, by : Calls \cup {Nobody}, from : Reporters, amended : BOOLEAN]

JobTyped ==
  /\ sent \in [Calls -> [content : Contents, by : Calls \cup {Nobody}, metrics : BOOLEAN]]
  /\ job \in {NoOutcome} \cup Outcomes
  /\ late \in [Calls -> Nat] /\ applied \in [Calls -> Nat]
  /\ call \in [Calls -> CallRecords]
JobSound ==
  /\ \A c \in Calls : sent[c].by \in {c, Nobody}
  /\ job.has => /\ job.by = sent[job.from].by
                /\ ~job.amended => job.content = sent[job.from].content
ReporterSound(c) ==
  /\ applied[c] > 0 => job.has /\ job.from = c
  /\ call[c].stage = "sending" /\ ~call[c].mayBeApplied => applied[c] = 0 /\ late[c] = 0
  /\ call[c].stage \in {"readingHistory", "confirmed"} => job.has /\ sent[job.from].content = sent[c].content
  /\ call[c].stage = "readingHistory" => sent[c].by # Nobody
  /\ call[c].stage = "confirmed" /\ sent[c].by # Nobody => job.from = c
  /\ call[c].stage \in {"reading", "alreadyReported"} => job.has
  /\ call[c].stage = "alreadyReported" /\ applied[c] > 0
       => sent[c].metrics \/ job.amended \/ call[c].unread
WriterSound(c) ==
  /\ applied[c] + late[c] <= 1
  /\ call[c].stage = "sending" => applied[c] = 0 /\ late[c] = 0
  /\ call[c].stage = "ok" => applied[c] = 1
  /\ call[c].stage \in {"sending", "ok", "error"}
CallsSound == /\ \A c \in Reporters : ReporterSound(c)
              /\ \A c \in Writers : WriterSound(c)
JobInv == JobTyped /\ JobSound /\ CallsSound

\* What Revenium holds only grows: of whose report it is, and that it was amended.
JobGrew == /\ job' \in {NoOutcome} \cup Outcomes
           /\ job.has => job'.has /\ job'.from = job.from /\ (job.amended => job'.amended)
\* Call c, and nothing else of the calls, moved.
CallMoved(c) ==
  /\ sent' = sent
  /\ late' \in [Calls -> Nat] /\ applied' \in [Calls -> Nat] /\ call' \in [Calls -> CallRecords]
  /\ \A d \in Calls : d # c => late'[d] = late[d] /\ applied'[d] = applied[d] /\ call'[d] = call[d]

LEMMA OutcomeOf ==
    ASSUME NEW o \in {NoOutcome} \cup Outcomes
    PROVE  /\ o.has \in BOOLEAN
           /\ o.has => o \in Outcomes
           /\ ~o.has => o = NoOutcome
  <1>1. NoOutcome.has = FALSE BY DEF NoOutcome
  <1>2. CASE o = NoOutcome BY <1>1, <1>2
  <1>3. CASE o \in Outcomes
    <2>1. o.has = TRUE BY <1>3 DEF Outcomes
    <2> QED BY <1>3, <2>1
  <1> QED BY <1>2, <1>3

\* Revenium receives a request.
LEMMA Received ==
    ASSUME JobTyped, JobSound, NEW c \in Calls, Receive(c), sent' = sent
    PROVE  /\ JobGrew
           /\ JobSound'
           /\ applied' \in [Calls -> Nat]
           /\ \A d \in Calls : d # c => applied'[d] = applied[d]
           /\ applied'[c] = applied[c] + IF Applies(c) THEN 1 ELSE 0
           /\ c \in Reporters /\ Applies(c) => ~job.has /\ job'.has /\ job'.from = c
           /\ c \in Reporters /\ ~Applies(c) => job.has /\ job' = job
  <1>1. job.has \in BOOLEAN /\ (job.has => job \in Outcomes) BY OutcomeOf DEF JobTyped
  <1>2. applied \in [Calls -> Nat] /\ sent[c] \in [content : Contents, by : Calls \cup {Nobody}, metrics : BOOLEAN]
    BY DEF JobTyped
  <1>3. CASE ~Applies(c)
    <2>1. UNCHANGED <<job, applied>> BY <1>3 DEF Receive
    <2>2. JobSound' BY <2>1 DEF JobSound
    <2>3. c \in Reporters => job.has BY <1>3 DEF Applies
    <2>4. JobGrew BY <2>1 DEF JobGrew, JobTyped
    <2> QED BY <1>2, <1>3, <2>1, <2>2, <2>3, <2>4
  <1>4. CASE Applies(c) /\ c \in Reporters
    <2>1. /\ job' = [has |-> TRUE, content |-> sent[c].content, by |-> sent[c].by, from |-> c, amended |-> FALSE]
          /\ applied' = [applied EXCEPT ![c] = @ + 1]
          /\ ~job.has
      BY <1>4 DEF Receive, Applies, stored
    <2>2. job' \in Outcomes BY <1>2, <1>4, <2>1 DEF Outcomes
    <2>3. JobSound' BY <2>1 DEF JobSound
    <2>4. JobGrew BY <2>1, <2>2 DEF JobGrew
    <2> QED BY <1>2, <1>4, <2>1, <2>3, <2>4
  <1>5. CASE Applies(c) /\ c \notin Reporters
    <2>1. /\ job' = [job EXCEPT !.content = sent[c].content, !.amended = TRUE]
          /\ applied' = [applied EXCEPT ![c] = @ + 1]
          /\ job.has
      BY <1>5 DEF Receive, Applies, stored
    <2>2. /\ job' \in Outcomes /\ job'.has /\ job'.amended
          /\ job'.from = job.from /\ job'.by = job.by
      BY <1>1, <1>2, <2>1 DEF Outcomes
    <2>3. JobSound' BY <2>1, <2>2 DEF JobSound
    <2>4. JobGrew BY <2>1, <2>2 DEF JobGrew
    <2> QED BY <1>2, <1>5, <2>1, <2>3, <2>4
  <1> QED BY <1>3, <1>4, <1>5

\* The other calls stay sound when one moves.
LEMMA OneCallMoves ==
    ASSUME JobInv, NEW c \in Calls, JobGrew, JobSound', CallMoved(c),
           c \in Reporters => ReporterSound(c)',
           c \in Writers => WriterSound(c)'
    PROVE  JobInv'
  <1>1. JobTyped' BY DEF JobInv, JobTyped, JobGrew, CallMoved
  <1>2. ASSUME NEW d \in Reporters, d # c PROVE ReporterSound(d)'
    <2>1. d \in Calls BY DEF Calls
    <2>2. ReporterSound(d) BY DEF JobInv, CallsSound
    <2>3. sent' = sent /\ late'[d] = late[d] /\ applied'[d] = applied[d] /\ call'[d] = call[d]
      BY <1>2, <2>1 DEF CallMoved
    <2>4. job.has => job'.has /\ job'.from = job.from /\ (job.amended => job'.amended) BY DEF JobGrew
    <2> QED BY <2>2, <2>3, <2>4 DEF ReporterSound
  <1>3. ASSUME NEW d \in Writers, d # c PROVE WriterSound(d)'
    <2>1. d \in Calls BY DEF Calls
    <2> QED BY <1>3, <2>1 DEF JobInv, CallsSound, CallMoved, WriterSound
  <1>4. CallsSound' BY <1>2, <1>3 DEF CallsSound
  <1> QED BY <1>1, <1>4 DEF JobInv

OthersCall(c) == call' \in [Calls -> CallRecords] /\ \A d \in Calls : d # c => call'[d] = call[d]

\* A call goes to a stage, and starts afresh there.
LEMMA Went ==
    ASSUME JobTyped, NEW c \in Calls, NEW stage \in JobStages, go(c, stage)
    PROVE  OthersCall(c) /\ call'[c].stage = stage
  <1>r. PICK r : r = [Begin EXCEPT !.stage = stage] OBVIOUS
  <1>1. r \in CallRecords /\ r.stage = stage BY <1>r DEF Begin, CallRecords
  <1>2. call' = [call EXCEPT ![c] = r] BY <1>r DEF go
  <1> QED BY <1>1, <1>2 DEF JobTyped, OthersCall

\* A failed attempt is repeated, and then it is known whether it may have been
\* applied, or given up; only a report is repeated after more than a throttling.
LEMMA Judged ==
    ASSUME JobTyped, NEW c \in Calls, NEW how \in {"timeout", "lost", "throttled"}, Judge(c, how)
    PROVE  /\ OthersCall(c)
           /\ \/ call'[c].stage = "error"
              \/ /\ call'[c].stage = "sending"
                 /\ how # "throttled" => call'[c].mayBeApplied /\ c \in Reporters
                 /\ how = "throttled" => call'[c].mayBeApplied = call[c].mayBeApplied
  <1> DEFINE timeouts == call[c].timeouts + (IF how = "timeout" THEN 1 ELSE 0)
             may == call[c].mayBeApplied \/ how # "throttled"
  <1>1. call[c] \in CallRecords BY DEF JobTyped
  <1>2. timeouts \in Nat /\ call[c].retries + 1 \in Nat BY <1>1 DEF CallRecords
  <1>3. may \in BOOLEAN BY ZenonT(30) DEF may
  <1>4. CASE go(c, "error") BY <1>4, Went DEF JobStages
  <1>r. PICK r : r = [stage |-> "sending", retries |-> call[c].retries + 1, timeouts |-> timeouts, mayBeApplied |-> may,
                   unread |-> FALSE]
    OBVIOUS
  <1> HIDE DEF timeouts, may
  <1>5. CASE call' = [call EXCEPT ![c] = r] /\ allowsRetry(c, how, timeouts)
    <2>1. r \in CallRecords BY <1>2, <1>3, <1>r DEF CallRecords, JobStages
    <2>2. OthersCall(c) /\ call'[c] = r BY <1>5, <2>1 DEF JobTyped, OthersCall
    <2>3. how # "throttled" => c \in Reporters BY <1>5 DEF allowsRetry
    <2>4. r.stage = "sending" /\ r.mayBeApplied = may BY <1>r
    <2>5. how # "throttled" => may = TRUE BY DEF may
    <2>6. how = "throttled" => may = call[c].mayBeApplied BY <1>1 DEF may, CallRecords
    <2> QED BY <2>2, <2>3, <2>4, <2>5, <2>6
  <1>6. \/ go(c, "error")
        \/ call' = [call EXCEPT ![c] = r] /\ allowsRetry(c, how, timeouts)
    BY <1>r DEF Judge, timeouts, may
  <1> QED BY <1>4, <1>5, <1>6

\* A call moves on with what Revenium holds left alone.
LEMMA QuietCall ==
    ASSUME JobInv, NEW c \in Calls, OthersCall(c), UNCHANGED <<sent, job, late, applied>>
    PROVE  JobGrew /\ JobSound' /\ CallMoved(c)
  <1>1. JobGrew BY DEF JobInv, JobTyped, JobGrew
  <1>2. JobSound' BY DEF JobInv, JobSound
  <1>3. CallMoved(c) BY DEF JobInv, JobTyped, CallMoved, OthersCall
  <1> QED BY <1>1, <1>2, <1>3

LEMMA KindsOfCalls == ASSUME NEW c \in Calls PROVE c \in Reporters \/ c \in Writers
  BY DEF Calls

LEMMA LateRequestKept ==
    ASSUME JobInv, NEW c \in Calls, LateRequest(c)
    PROVE  JobInv'
  <1>1. /\ late[c] > 0 /\ late' = [late EXCEPT ![c] = @ - 1] /\ Receive(c) /\ sent' = sent /\ call' = call
    BY DEF LateRequest
  <1>2. late \in [Calls -> Nat] /\ applied \in [Calls -> Nat] /\ call \in [Calls -> CallRecords]
    BY DEF JobInv, JobTyped
  <1>3. late' \in [Calls -> Nat] /\ late'[c] = late[c] - 1 /\ \A d \in Calls : d # c => late'[d] = late[d]
    BY <1>1, <1>2
  <1>4. /\ JobGrew
        /\ JobSound'
        /\ applied' \in [Calls -> Nat]
        /\ \A d \in Calls : d # c => applied'[d] = applied[d]
        /\ applied'[c] = applied[c] + IF Applies(c) THEN 1 ELSE 0
        /\ c \in Reporters /\ Applies(c) => ~job.has /\ job'.has /\ job'.from = c
        /\ c \in Reporters /\ ~Applies(c) => job.has /\ job' = job
    BY <1>1, Received DEF JobInv
  <1>5. CallMoved(c) BY <1>1, <1>2, <1>3, <1>4 DEF CallMoved
  <1>6. ASSUME c \in Reporters PROVE ReporterSound(c)'
    <2>1. ReporterSound(c) BY <1>6 DEF JobInv, CallsSound
    <2>2. ~(call[c].stage = "sending" /\ ~call[c].mayBeApplied) BY <1>1, <1>2, <2>1 DEF ReporterSound
    <2>3. CASE Applies(c)
      <3>1. ~job.has /\ job'.has /\ job'.from = c BY <1>4, <1>6, <2>3
      <3> QED BY <1>1, <2>1, <2>2, <3>1 DEF ReporterSound
    <2>4. CASE ~Applies(c)
      <3>1. job' = job /\ applied'[c] = applied[c] BY <1>2, <1>4, <1>6, <2>4
      <3> QED BY <1>1, <2>1, <2>2, <3>1 DEF ReporterSound
    <2> QED BY <2>3, <2>4
  <1>7. ASSUME c \in Writers PROVE WriterSound(c)'
    <2>1. WriterSound(c) BY <1>7 DEF JobInv, CallsSound
    <2>2. applied[c] \in Nat /\ late[c] \in Nat BY <1>2
    <2> QED BY <1>1, <1>3, <1>4, <2>1, <2>2 DEF WriterSound
  <1> QED BY <1>4, <1>5, <1>6, <1>7, OneCallMoves

LEMMA AnsweredKept ==
    ASSUME JobInv, NEW c \in Calls, Answered(c)
    PROVE  JobInv'
  <1>s. PICK stage : stage = IF Applies(c) THEN "ok"
                             ELSE IF c \in Writers THEN "error"
                             ELSE IF call[c].mayBeApplied /\ ~sent[c].metrics THEN "reading" ELSE "alreadyReported"
    OBVIOUS
  <1>1. call[c].stage = "sending" /\ Receive(c) /\ sent' = sent /\ late' = late /\ go(c, stage)
    BY <1>s DEF Answered
  <1>2. OthersCall(c) /\ call'[c].stage = stage BY <1>1, <1>s, Went DEF JobInv, JobStages
  <1>3. late \in [Calls -> Nat] /\ applied \in [Calls -> Nat] BY DEF JobInv, JobTyped
  <1>4. /\ JobGrew
        /\ JobSound'
        /\ applied' \in [Calls -> Nat]
        /\ \A d \in Calls : d # c => applied'[d] = applied[d]
        /\ applied'[c] = applied[c] + IF Applies(c) THEN 1 ELSE 0
        /\ c \in Reporters /\ Applies(c) => ~job.has /\ job'.has /\ job'.from = c
        /\ c \in Reporters /\ ~Applies(c) => job.has /\ job' = job
    BY <1>1, Received DEF JobInv
  <1>5. CallMoved(c) BY <1>1, <1>2, <1>3, <1>4 DEF CallMoved, OthersCall
  <1>6. ASSUME c \in Reporters PROVE ReporterSound(c)'
    <2>1. ReporterSound(c) BY <1>6 DEF JobInv, CallsSound
    <2>2. CASE Applies(c)
      <3>1. job'.has /\ job'.from = c BY <1>4, <1>6, <2>2
      <3> QED BY <1>2, <1>s, <2>2, <3>1 DEF ReporterSound
    <2>3. CASE ~Applies(c)
      <3>1. job' = job /\ applied'[c] = applied[c] /\ job.has BY <1>3, <1>4, <1>6, <2>3
      <3>2. c \notin Writers BY <1>6, JobAssumption
      <3>3. stage \in {"reading", "alreadyReported"}
            /\ (stage = "alreadyReported" => ~call[c].mayBeApplied \/ sent[c].metrics)
        BY <1>s, <2>3, <3>2
      <3>4. applied[c] > 0 => job.from = c BY <2>1 DEF ReporterSound
      <3>5. ~call[c].mayBeApplied => applied[c] = 0 BY <1>1, <2>1 DEF ReporterSound
      <3> QED BY <1>1, <1>2, <3>1, <3>3, <3>4, <3>5 DEF ReporterSound
    <2> QED BY <2>2, <2>3
  <1>7. ASSUME c \in Writers PROVE WriterSound(c)'
    <2>1. WriterSound(c) BY <1>7 DEF JobInv, CallsSound
    <2>2. applied[c] = 0 /\ late[c] = 0 BY <1>1, <2>1 DEF WriterSound
    <2>3. stage = IF Applies(c) THEN "ok" ELSE "error" BY <1>7, <1>s
    <2> QED BY <1>1, <1>2, <1>4, <2>2, <2>3 DEF WriterSound
  <1> QED BY <1>4, <1>5, <1>6, <1>7, OneCallMoves

LEMMA AnswerLostKept ==
    ASSUME JobInv, NEW c \in Calls, AnswerLost(c)
    PROVE  JobInv'
  <1>1. /\ call[c].stage = "sending" /\ sent' = sent
        /\ \/ Receive(c) /\ late' = late
           \/ late' = [late EXCEPT ![c] = @ + 1] /\ UNCHANGED <<job, applied>>
           \/ UNCHANGED <<job, applied, late>>
    BY DEF AnswerLost
  <1>2. PICK how \in {"timeout", "lost"} : Judge(c, how) BY DEF AnswerLost
  <1>3. OthersCall(c) /\ (call'[c].stage = "error" \/ (call'[c].stage = "sending" /\ call'[c].mayBeApplied /\ c \in Reporters))
    BY <1>2, Judged DEF JobInv
  <1>4. late \in [Calls -> Nat] /\ applied \in [Calls -> Nat] BY DEF JobInv, JobTyped
  <1>5. /\ late' \in [Calls -> Nat]
        /\ \A d \in Calls : d # c => late'[d] = late[d]
    BY <1>1, <1>4
  <1>6. /\ JobGrew
        /\ JobSound'
        /\ applied' \in [Calls -> Nat]
        /\ \A d \in Calls : d # c => applied'[d] = applied[d]
        /\ applied'[c] = applied[c] \/ (applied'[c] = applied[c] + 1 /\ late' = late)
        /\ c \in Reporters => job' = job \/ (job'.has /\ job'.from = c)
        /\ c \in Reporters /\ applied'[c] # applied[c] => job'.has /\ job'.from = c
    <2>1. CASE Receive(c) /\ late' = late
      <3>1. /\ JobGrew
            /\ JobSound'
            /\ applied' \in [Calls -> Nat]
            /\ \A d \in Calls : d # c => applied'[d] = applied[d]
            /\ applied'[c] = applied[c] + IF Applies(c) THEN 1 ELSE 0
            /\ c \in Reporters /\ Applies(c) => ~job.has /\ job'.has /\ job'.from = c
            /\ c \in Reporters /\ ~Applies(c) => job.has /\ job' = job
        BY <1>1, <2>1, Received DEF JobInv
      <3>2. applied[c] \in Nat BY <1>4
      <3> QED BY <2>1, <3>1, <3>2
    <2>2. CASE UNCHANGED <<job, applied>>
      <3>1. JobGrew BY <2>2 DEF JobInv, JobTyped, JobGrew
      <3>2. JobSound' BY <1>1, <2>2 DEF JobInv, JobSound
      <3> QED BY <1>4, <2>2, <3>1, <3>2
    <2> QED BY <1>1, <2>1, <2>2
  <1>7. CallMoved(c) BY <1>1, <1>3, <1>5, <1>6 DEF CallMoved, OthersCall
  <1>8. ASSUME c \in Reporters PROVE ReporterSound(c)'
    <2>1. ReporterSound(c) BY <1>8 DEF JobInv, CallsSound
    <2>2. applied'[c] > 0 => job'.has /\ job'.from = c
      BY <1>4, <1>6, <1>8, <2>1 DEF ReporterSound, JobGrew
    <2> QED BY <1>3, <2>2 DEF ReporterSound
  <1>9. ASSUME c \in Writers PROVE WriterSound(c)'
    <2>1. WriterSound(c) BY <1>9 DEF JobInv, CallsSound
    <2>2. applied[c] = 0 /\ late[c] = 0 BY <1>1, <2>1 DEF WriterSound
    <2>3. applied'[c] + late'[c] <= 1 BY <1>1, <1>4, <1>6, <2>2
    <2>4. c \notin Reporters BY <1>9, JobAssumption
    <2> QED BY <1>3, <2>3, <2>4 DEF WriterSound
  <1> QED BY <1>6, <1>7, <1>8, <1>9, OneCallMoves

\* A call is refused before anything was applied, or ends in an error.
LEMMA RefusedKept ==
    ASSUME JobInv, NEW c \in Calls, Throttled(c) \/ NotSent(c)
    PROVE  JobInv'
  <1>1. call[c].stage = "sending" /\ UNCHANGED <<sent, job, late, applied>> BY DEF Throttled, NotSent
  <1>2. /\ OthersCall(c)
        /\ \/ call'[c].stage = "error"
           \/ call'[c].stage = "sending" /\ call'[c].mayBeApplied = call[c].mayBeApplied
    <2>1. CASE Throttled(c) BY <2>1, Judged DEF Throttled, JobInv
    <2>2. CASE NotSent(c) BY <2>2, Went DEF NotSent, JobInv, JobStages
    <2> QED BY <2>1, <2>2
  <1>3. JobGrew /\ JobSound' /\ CallMoved(c) BY <1>1, <1>2, QuietCall
  <1>4. c \in Reporters => ReporterSound(c)'
    BY <1>1, <1>2 DEF JobInv, CallsSound, ReporterSound
  <1>5. c \in Writers => WriterSound(c)'
    BY <1>1, <1>2 DEF JobInv, CallsSound, WriterSound
  <1> QED BY <1>3, <1>4, <1>5, OneCallMoves

LEMMA ReadsKept ==
    ASSUME JobInv, NEW c \in Calls, ReadJob(c) \/ historyShowsOnlyReportBy(c) \/ ReadFails(c)
    PROVE  JobInv'
  <1>1. call[c].stage \in {"reading", "readingHistory"} /\ UNCHANGED <<sent, job, late, applied>>
    BY DEF ReadJob, historyShowsOnlyReportBy, ReadFails
  <1>2. c \in Reporters
    BY <1>1, KindsOfCalls DEF JobInv, CallsSound, WriterSound
  <1>3. c \notin Writers BY <1>2, JobAssumption
  <1>4. ReporterSound(c) /\ sent[c].by \in {c, Nobody} /\ Nobody # c
    BY <1>2, JobAssumption DEF JobInv, CallsSound, JobSound
  <1>5. job.has => job \in Outcomes BY OutcomeOf DEF JobInv, JobTyped
  <1>6. job.has => job.from \in Reporters /\ job.by = sent[job.from].by /\ sent[job.from].by \in {job.from, Nobody}
                   /\ (~job.amended => job.content = sent[job.from].content)
    BY <1>5 DEF JobInv, JobSound, Outcomes, Calls
  <1>7. OthersCall(c) /\ ReporterSound(c)'
    <2>1. CASE ReadJob(c)
      <3>s. PICK stage : stage = IF ~storesReportUnamended(c) THEN "alreadyReported"
                                 ELSE IF sent[c].by = Nobody THEN "confirmed" ELSE "readingHistory"
        OBVIOUS
      <3>1. OthersCall(c) /\ call'[c].stage = stage
        BY <2>1, <3>s, Went DEF ReadJob, JobInv, JobStages
      <3>2. call[c].stage = "reading" BY <2>1 DEF ReadJob
      <3>3. CASE stage = "alreadyReported"
        <4>1. ~storesReportUnamended(c) BY <3>s, <3>3
        <4> QED BY <1>1, <1>4, <1>6, <3>1, <3>3, <4>1 DEF ReporterSound, storesReportUnamended
      <3>4. CASE stage # "alreadyReported"
        <4>1. storesReportUnamended(c) /\ stage \in {"confirmed", "readingHistory"}
              /\ (stage = "confirmed" <=> sent[c].by = Nobody)
          BY <3>s, <3>4
        <4>2. job.has /\ sent[job.from].content = sent[c].content
          BY <1>6, <4>1 DEF storesReportUnamended
        <4> QED BY <1>1, <1>4, <3>1, <4>1, <4>2 DEF ReporterSound
      <3> QED BY <3>1, <3>3, <3>4
    <2>2. CASE historyShowsOnlyReportBy(c)
      <3>s. PICK stage : stage = IF ~job.amended /\ job.by = sent[c].by THEN "confirmed" ELSE "alreadyReported"
        OBVIOUS
      <3>1. OthersCall(c) /\ call'[c].stage = stage
        BY <2>2, <3>s, Went DEF historyShowsOnlyReportBy, JobInv, JobStages
      <3>2. call[c].stage = "readingHistory" BY <2>2 DEF historyShowsOnlyReportBy
      <3>3. job.has /\ sent[job.from].content = sent[c].content /\ sent[c].by = c BY <1>4, <3>2 DEF ReporterSound
      <3>4. job.by = c <=> job.from = c
        <4>1. job.by \in {job.from, Nobody} BY <1>6, <3>3
        <4>2. job.from = c => job.by = sent[c].by BY <1>6, <3>3
        <4> QED BY <1>4, <3>3, <4>1, <4>2
      <3>5. CASE stage = "confirmed"
        <4>1. job.by = sent[c].by BY <3>s, <3>5
        <4> QED BY <1>1, <1>4, <3>1, <3>3, <3>4, <3>5, <4>1 DEF ReporterSound
      <3>6. CASE stage # "confirmed"
        <4>1. stage = "alreadyReported" /\ (job.by = sent[c].by => job.amended) BY <3>s, <3>6
        <4> QED BY <1>1, <1>4, <3>1, <3>3, <3>4, <4>1 DEF ReporterSound
      <3> QED BY <3>1, <3>5, <3>6
    <2>3. CASE ReadFails(c)
      <3>r. PICK r : r = [Begin EXCEPT !.stage = "alreadyReported", !.unread = TRUE] OBVIOUS
      <3>1. r \in CallRecords /\ r.stage = "alreadyReported" /\ r.unread
        BY <3>r DEF Begin, CallRecords, JobStages
      <3>2. OthersCall(c) /\ call'[c] = r
        BY <2>3, <3>r, <3>1 DEF ReadFails, OthersCall, JobInv, JobTyped
      <3>3. job.has BY <1>1, <1>4 DEF ReporterSound
      <3> QED BY <1>1, <1>4, <3>1, <3>2, <3>3 DEF ReporterSound
    <2> QED BY <2>1, <2>2, <2>3
  <1>8. JobGrew /\ JobSound' /\ CallMoved(c) BY <1>1, <1>7, QuietCall
  <1> QED BY <1>3, <1>7, <1>8, OneCallMoves

LEMMA JobStart == JobInit => JobInv
  <1> SUFFICES ASSUME JobInit PROVE JobInv OBVIOUS
  <1>1. ASSUME NEW c \in Calls
        PROVE  /\ late[c] = 0 /\ applied[c] = 0 /\ call[c] = Begin
               /\ sent[c].by \in {c, Nobody}
    BY DEF JobInit
  <1>2. Begin \in CallRecords /\ Begin.stage = "sending" BY DEF Begin, CallRecords, JobStages
  <1>3. JobTyped BY <1>2 DEF JobInit, JobTyped
  <1>4. job.has = FALSE BY DEF JobInit, NoOutcome
  <1>5. JobSound BY <1>1, <1>4 DEF JobSound
  <1>6. CallsSound BY <1>1, <1>2 DEF CallsSound, ReporterSound, WriterSound, Calls
  <1> QED BY <1>3, <1>5, <1>6 DEF JobInv

LEMMA JobStep == JobInv /\ [JobNext]_jvars => JobInv'
  <1> SUFFICES ASSUME JobInv, [JobNext]_jvars PROVE JobInv' OBVIOUS
  <1>1. CASE UNCHANGED jvars
    BY <1>1 DEF jvars, JobInv, JobTyped, JobSound, CallsSound, ReporterSound, WriterSound
  <1>2. ASSUME NEW c \in Calls, LateRequest(c) PROVE JobInv' BY <1>2, LateRequestKept
  <1>3. ASSUME NEW c \in Calls, Answered(c) PROVE JobInv' BY <1>3, AnsweredKept
  <1>4. ASSUME NEW c \in Calls, AnswerLost(c) PROVE JobInv' BY <1>4, AnswerLostKept
  <1>5. ASSUME NEW c \in Calls, Throttled(c) \/ NotSent(c) PROVE JobInv' BY <1>5, RefusedKept
  <1>6. ASSUME NEW c \in Calls, ReadJob(c) \/ historyShowsOnlyReportBy(c) \/ ReadFails(c) PROVE JobInv'
    BY <1>6, ReadsKept
  <1> QED BY <1>1, <1>2, <1>3, <1>4, <1>5, <1>6 DEF JobNext

\* What a report, an amendment or appended metrics tell their caller is true,
\* however many answers are lost or applied late, for any number of calls,
\* contents and retries.
THEOREM JobAnswersAreTrue == JobSpec => []AnswersAreTrue
  <1>1. JobInv => AnswersAreTrue
    <2> SUFFICES ASSUME JobInv PROVE AnswersAreTrue OBVIOUS
    <2>1. ASSUME NEW c \in Reporters
          PROVE  /\ call[c].stage = "confirmed" => /\ job.has /\ sent[job.from].content = sent[c].content
                                                   /\ sent[c].by # Nobody => job.from = c
                 /\ call[c].stage = "alreadyReported" /\ applied[c] > 0
                      => sent[c].metrics \/ job.amended \/ call[c].unread
      BY DEF JobInv, CallsSound, ReporterSound
    <2>2. ASSUME NEW c \in Writers PROVE applied[c] <= 1 /\ (call[c].stage = "ok" => applied[c] = 1)
      <3>1. applied[c] \in Nat /\ late[c] \in Nat BY DEF JobInv, JobTyped, Calls
      <3> QED BY <3>1 DEF JobInv, CallsSound, WriterSound
    <2> QED BY <2>1, <2>2 DEF AnswersAreTrue
  <1> QED BY JobStart, JobStep, <1>1, PTL DEF JobSpec

-----------------------------------------------------------------------------
(* A LiteLLM proxy.  Reads of its list are numbered as they start, at most *)
(* the newest is under way, and the list read last is no older than what   *)
(* any ended read brought.                                                 *)

Persons == {{}, {"ann"}}
Callers == [at : {"idle", "looking", "judged", "gaveUp"}, user : Users \cup {NoProxyCall.user},
            waits : Nat, judged : Nat, person : Persons]

ReadsTyped(r) ==
  /\ r = [refreshing |-> r.refreshing, running |-> r.running, brought |-> r.brought]
  /\ Table(r.brought, Nat)
  /\ r.refreshing \in {0} \cup DOMAIN r.brought
  /\ r.running = IF r.refreshing = 0 THEN {} ELSE {r.refreshing}
ProxyTyped ==
  /\ config \in Nat \ {0} /\ list \in [version : Nat, fresh : BOOLEAN]
  /\ ReadsTyped(reads)
  /\ told \in [Users -> Persons]
  /\ people \in [DOMAIN people -> Persons] /\ DOMAIN people \subseteq Users /\ IsFiniteSet(DOMAIN people)
  /\ pcall \in [ProxyCallers -> Callers]
NewestRead ==
  /\ list.version <= config
  /\ \A i \in DOMAIN reads.brought : reads.brought[i] <= list.version
WaitedFor(c) ==
  /\ pcall[c].at # "idle" => pcall[c].user \in Users
  /\ pcall[c].waits \in {0} \cup DOMAIN reads.brought
  /\ pcall[c].at = "judged" /\ pcall[c].waits # 0 =>
       pcall[c].waits \notin reads.running /\ pcall[c].judged >= reads.brought[pcall[c].waits]
PeopleBounded == Cardinality(DOMAIN people) <= proxyPeopleLimit
PeopleAsTold == \A u \in DOMAIN people : people[u] = told[u] /\ people[u] # {}
ProxyInv == ProxyTyped /\ NewestRead /\ (\A c \in ProxyCallers : WaitedFor(c)) /\ PeopleBounded /\ PeopleAsTold

\* A caller joins the read under way, starts one under the next number, or none.
LEMMA Refreshed ==
    ASSUME NEW r, ReadsTyped(r), NEW isFresh \in BOOLEAN, NEW q, q = refreshIfExpired(r, isFresh)
    PROVE  /\ ReadsTyped(q)
           /\ DOMAIN r.brought \subseteq DOMAIN q.brought
           /\ \A i \in DOMAIN r.brought : q.brought[i] = r.brought[i]
           /\ \A i \in DOMAIN q.brought : i \notin DOMAIN r.brought => q.brought[i] = 0
           /\ \A i \in DOMAIN r.brought : i \in q.running => i \in r.running
  <1>1. CASE r.refreshing # 0 \/ isFresh
    <2>1. q = r BY <1>1 DEF refreshIfExpired
    <2> QED BY <2>1
  <1>2. CASE ~(r.refreshing # 0 \/ isFresh)
    <2>1. PICK n \in Nat : DOMAIN r.brought = 1 .. n BY DEF ReadsTyped, Table, Numbered
    <2>2. fresh(r.brought) = n + 1 BY <2>1, NumberedIsFinite
    <2>i. PICK id : id = Cardinality(DOMAIN r.brought) + 1 OBVIOUS
    <2>3. id = n + 1
      <3>1. Cardinality(1 .. n) = n BY FS_Interval
      <3> QED BY <2>1, <2>i, <3>1
    <2>4. r.refreshing = 0 /\ r.running = {} BY <1>2 DEF ReadsTyped
    <2>5. q = [refreshing |-> id, running |-> r.running \cup {id},
               brought |-> [i \in 1 .. id |-> IF i = id THEN 0 ELSE r.brought[i]]]
      BY <1>2, <2>i DEF refreshIfExpired
    <2>6. q.brought = extended(r.brought, 0) BY <2>2, <2>3, <2>5 DEF extended
    <2>7. Entered(q.brought, r.brought, id, 0, Nat) BY <2>2, <2>3, <2>6, ExtendedByOne DEF ReadsTyped
    <2>8. q.refreshing = id /\ q.running = {id} BY <2>4, <2>5
    <2>9. ReadsTyped(q) BY <2>5, <2>7, <2>8 DEF ReadsTyped, Entered
    <2> QED BY <2>7, <2>8, <2>9 DEF Entered
  <1> QED BY <1>1, <1>2

LEMMA CallModelKept ==
    ASSUME ProxyInv, NEW c \in ProxyCallers, NEW user \in Users, CallModel(c, user)
    PROVE  ProxyInv'
  <1>1. reads' = refreshIfExpired(reads, list.fresh) /\ UNCHANGED <<config, list, person, people, told>>
    BY DEF CallModel
  <1>2. ReadsTyped(reads) /\ list.fresh \in BOOLEAN BY DEF ProxyInv, ProxyTyped
  <1>3. /\ ReadsTyped(reads')
        /\ DOMAIN reads.brought \subseteq DOMAIN reads'.brought
        /\ \A i \in DOMAIN reads.brought : reads'.brought[i] = reads.brought[i]
        /\ \A i \in DOMAIN reads'.brought : i \notin DOMAIN reads.brought => reads'.brought[i] = 0
        /\ \A i \in DOMAIN reads.brought : i \in reads'.running => i \in reads.running
    BY <1>1, <1>2, Refreshed
  <1>r. PICK r : r = [NoProxyCall EXCEPT !.at = "looking", !.user = user, !.waits = reads'.refreshing] OBVIOUS
  <1>4. reads'.refreshing \in {0} \cup DOMAIN reads'.brought /\ reads'.refreshing \in Nat
    <2>1. reads'.refreshing \in {0} \cup DOMAIN reads'.brought BY <1>3 DEF ReadsTyped
    <2>2. PICK n \in Nat : DOMAIN reads'.brought = 1 .. n BY <1>3 DEF ReadsTyped, Table, Numbered
    <2> QED BY <2>1, <2>2
  <1>5. r \in Callers /\ r.at = "looking" /\ r.user = user /\ r.waits = reads'.refreshing
    BY <1>r, <1>4 DEF NoProxyCall, Callers, Persons
  <1>6. pcall' = [pcall EXCEPT ![c] = r] BY <1>r DEF CallModel
  <1>7. pcall \in [ProxyCallers -> Callers] BY DEF ProxyInv, ProxyTyped
  <1>8. ProxyTyped'
    <2>1. pcall' \in [ProxyCallers -> Callers] BY <1>5, <1>6, <1>7
    <2> QED BY <1>1, <1>3, <2>1 DEF ProxyInv, ProxyTyped
  <1>9. NewestRead'
    <2>1. list.version \in Nat BY DEF ProxyInv, ProxyTyped
    <2> QED BY <1>1, <1>3, <2>1 DEF ProxyInv, NewestRead
  <1>10. ASSUME NEW d \in ProxyCallers PROVE WaitedFor(d)'
    <2>1. CASE d = c
      <3>1. pcall'[d] = r BY <1>6, <1>7, <2>1
      <3> QED BY <1>4, <1>5, <3>1 DEF WaitedFor
    <2>2. CASE d # c
      <3>1. pcall'[d] = pcall[d] /\ WaitedFor(d) BY <1>6, <1>7, <2>2 DEF ProxyInv
      <3> QED BY <1>3, <3>1 DEF WaitedFor
    <2> QED BY <2>1, <2>2
  <1>11. PeopleBounded' /\ PeopleAsTold' BY <1>1 DEF ProxyInv, PeopleBounded, PeopleAsTold
  <1> QED BY <1>8, <1>9, <1>10, <1>11 DEF ProxyInv

LEMMA EndReadKept ==
    ASSUME ProxyInv, NEW id \in reads.running, NEW version \in {0, config}, EndRead(id, version)
    PROVE  ProxyInv'
  <1>1. /\ reads' = [refreshing |-> 0, running |-> reads.running \ {id}, brought |-> [reads.brought EXCEPT ![id] = version]]
        /\ list' = [version |-> IF version = 0 THEN list.version ELSE version, fresh |-> TRUE]
        /\ UNCHANGED <<config, person, people, told, pcall, made>>
    BY DEF EndRead, record
  <1>2. ReadsTyped(reads) /\ config \in Nat \ {0} /\ list.version \in Nat BY DEF ProxyInv, ProxyTyped
  <1>3. id \in DOMAIN reads.brought /\ reads.running = {id} BY <1>2 DEF ReadsTyped
  <1>b. PICK brought : brought = [reads.brought EXCEPT ![id] = version] OBVIOUS
  <1>4. /\ reads'.refreshing = 0 /\ reads'.running = {} /\ reads'.brought = brought
        /\ reads' = [refreshing |-> reads'.refreshing, running |-> reads'.running, brought |-> reads'.brought]
    BY <1>1, <1>3, <1>b
  <1>5. /\ DOMAIN brought = DOMAIN reads.brought
        /\ \A i \in DOMAIN brought : brought[i] = IF i = id THEN version ELSE reads.brought[i]
    BY <1>b
  <1>6. Table(brought, Nat)
    <2>1. Table(reads.brought, Nat) /\ version \in Nat BY <1>2 DEF ReadsTyped
    <2> QED BY <1>b, <2>1, <1>5 DEF Table, Numbered
  <1>7. ReadsTyped(reads') BY <1>4, <1>6 DEF ReadsTyped
  <1>8. list' \in [version : Nat, fresh : BOOLEAN] /\ list'.version = IF version = 0 THEN list.version ELSE version
    BY <1>1, <1>2
  <1>9. ProxyTyped' BY <1>1, <1>7, <1>8 DEF ProxyInv, ProxyTyped
  <1>10. NewestRead'
    <2>1. list.version <= config /\ \A i \in DOMAIN reads.brought : reads.brought[i] <= list.version
      BY DEF ProxyInv, NewestRead
    <2>2. \A i \in DOMAIN reads.brought : reads.brought[i] \in Nat BY <1>2 DEF ReadsTyped, Table
    <2>3. list'.version <= config /\ list.version <= list'.version /\ version <= list'.version
      BY <1>2, <1>8, <2>1
    <2>4. list'.version \in Nat BY <1>8
    <2>5. \A i \in DOMAIN brought : brought[i] <= list'.version BY <1>2, <1>5, <2>1, <2>2, <2>3, <2>4
    <2> QED BY <1>1, <1>4, <2>3, <2>5 DEF NewestRead
  <1>11. ASSUME NEW d \in ProxyCallers PROVE WaitedFor(d)'
    <2>1. WaitedFor(d) /\ pcall'[d] = pcall[d] BY <1>1 DEF ProxyInv
    <2> QED BY <1>3, <1>4, <1>5, <2>1 DEF WaitedFor
  <1>12. PeopleBounded' /\ PeopleAsTold' BY <1>1 DEF ProxyInv, PeopleBounded, PeopleAsTold
  <1> QED BY <1>9, <1>10, <1>11, <1>12 DEF ProxyInv

\* One caller moves on while the reads and the list stay.
LEMMA CallerMoves ==
    ASSUME ProxyInv, NEW c \in ProxyCallers, NEW r \in Callers, pcall' = [pcall EXCEPT ![c] = r],
           UNCHANGED <<config, list, reads, person, made>>, WaitedFor(c)'
    PROVE  /\ pcall' \in [ProxyCallers -> Callers] /\ NewestRead'
           /\ \A d \in ProxyCallers : WaitedFor(d)'
  <1>1. pcall \in [ProxyCallers -> Callers] BY DEF ProxyInv, ProxyTyped
  <1>2. NewestRead' BY DEF ProxyInv, NewestRead
  <1>3. ASSUME NEW d \in ProxyCallers, d # c PROVE WaitedFor(d)'
    <2>1. pcall'[d] = pcall[d] /\ WaitedFor(d) BY <1>1, <1>3 DEF ProxyInv
    <2> QED BY <2>1 DEF WaitedFor
  <1> QED BY <1>1, <1>2, <1>3

LEMMA JudgeModelsKept ==
    ASSUME ProxyInv, NEW c \in ProxyCallers, NEW cancelled \in BOOLEAN, JudgeModels(c, cancelled)
    PROVE  ProxyInv'
  <1>1. /\ pcall[c].at = "looking" /\ mayStopWaiting(c, cancelled)
        /\ UNCHANGED <<config, list, reads, person, people, told, made>>
    BY DEF JudgeModels
  <1>p. PICK p : p = recall(pcall[c].user) OBVIOUS
  <1>r. PICK r : r = [pcall[c] EXCEPT !.at = IF cancelled THEN "gaveUp" ELSE "judged", !.judged = list.version, !.person = p]
    OBVIOUS
  <1>2. pcall \in [ProxyCallers -> Callers] /\ pcall[c] \in Callers /\ list.version \in Nat BY DEF ProxyInv, ProxyTyped
  <1>3. p \in Persons BY <1>p DEF ProxyInv, ProxyTyped, recall, Persons
  <1>4. r \in Callers BY <1>2, <1>3, <1>r DEF Callers
  <1>5. /\ r.at = IF cancelled THEN "gaveUp" ELSE "judged"
        /\ r.judged = list.version /\ r.waits = pcall[c].waits /\ r.user = pcall[c].user
    BY <1>2, <1>r DEF Callers
  <1>6. pcall' = [pcall EXCEPT ![c] = r] BY <1>2, <1>p, <1>r DEF JudgeModels
  <1>7. WaitedFor(c)'
    <2>1. pcall'[c] = r /\ WaitedFor(c) BY <1>2, <1>6 DEF ProxyInv
    <2>2. r.at = "judged" => pcall[c].waits \notin reads.running BY <1>1, <1>5 DEF mayStopWaiting
    <2>3. \A i \in DOMAIN reads.brought : list.version >= reads.brought[i]
      <3>1. \A i \in DOMAIN reads.brought : reads.brought[i] \in Nat BY DEF ProxyInv, ProxyTyped, ReadsTyped, Table
      <3> QED BY <1>2, <3>1 DEF ProxyInv, NewestRead
    <2> QED BY <1>1, <1>5, <2>1, <2>2, <2>3 DEF WaitedFor
  <1>8. /\ pcall' \in [ProxyCallers -> Callers] /\ NewestRead'
        /\ \A d \in ProxyCallers : WaitedFor(d)'
    BY <1>1, <1>4, <1>6, <1>7, CallerMoves
  <1>9. ProxyTyped' BY <1>1, <1>8 DEF ProxyInv, ProxyTyped
  <1>10. PeopleBounded' /\ PeopleAsTold' BY <1>1 DEF ProxyInv, PeopleBounded, PeopleAsTold
  <1> QED BY <1>8, <1>9, <1>10 DEF ProxyInv

\* What is remembered of people: a bounded table of the last word on some users.
PeopleKnown(known, word) ==
  /\ word \in [Users -> Persons]
  /\ known \in [DOMAIN known -> Persons] /\ DOMAIN known \subseteq Users /\ IsFiniteSet(DOMAIN known)
  /\ Cardinality(DOMAIN known) <= proxyPeopleLimit
  /\ \A u \in DOMAIN known : known[u] = word[u] /\ known[u] # {}

\* remember keeps the table bounded and true of the word just heard.
LEMMA Remembered ==
    ASSUME NEW known, NEW word, PeopleKnown(known, word), NEW user \in Users, NEW named \in Persons,
           NEW q, q = remember(known, user, named), NEW w, w = [word EXCEPT ![user] = named]
    PROVE  PeopleKnown(q, w)
  <1>1. proxyPeopleLimit \in Nat \ {0} BY ProxyAssumption
  <1>2. w \in [Users -> Persons] /\ w[user] = named /\ \A u \in Users : u # user => w[u] = word[u]
    BY DEF PeopleKnown
  <1>d. PICK D : D = DOMAIN known OBVIOUS
  <1>3. D \subseteq Users /\ IsFiniteSet(D) /\ Cardinality(D) \in Nat /\ Cardinality(D) <= proxyPeopleLimit
    BY <1>d, FS_CardinalityType DEF PeopleKnown
  <1>4. CASE named = {}
    <2>1. q = [u \in D \ {user} |-> known[u]] BY <1>4, <1>d DEF remember
    <2>2. DOMAIN q = D \ {user} /\ \A u \in D \ {user} : q[u] = known[u] BY <2>1
    <2>3. IsFiniteSet(D \ {user}) /\ Cardinality(D \ {user}) <= Cardinality(D)
          /\ Cardinality(D \ {user}) \in Nat
      BY <1>3, FS_Subset, FS_CardinalityType
    <2>4. Cardinality(DOMAIN q) <= proxyPeopleLimit BY <1>1, <1>3, <2>2, <2>3
    <2>5. q \in [DOMAIN q -> Persons] BY <1>d, <2>1 DEF PeopleKnown
    <2>6. \A u \in DOMAIN q : q[u] = w[u] /\ q[u] # {} BY <1>2, <1>3, <1>d, <2>2 DEF PeopleKnown
    <2> QED BY <1>2, <1>3, <2>2, <2>3, <2>4, <2>5, <2>6 DEF PeopleKnown
  <1>5. CASE named # {} /\ user \notin D /\ Cardinality(D) >= proxyPeopleLimit
    <2>1. q = [u \in {user} |-> named] BY <1>5, <1>d DEF remember
    <2>2. DOMAIN q = {user} /\ q[user] = named BY <2>1
    <2>3. IsFiniteSet({user}) /\ Cardinality({user}) = 1 BY FS_Singleton
    <2>4. Cardinality(DOMAIN q) <= proxyPeopleLimit BY <1>1, <2>2, <2>3
    <2>5. q \in [DOMAIN q -> Persons] BY <2>1
    <2> QED BY <1>2, <1>5, <2>2, <2>3, <2>4, <2>5 DEF PeopleKnown
  <1>6. CASE named # {} /\ ~(user \notin D /\ Cardinality(D) >= proxyPeopleLimit)
    <2>1. q = [u \in D \cup {user} |-> IF u = user THEN named ELSE known[u]] BY <1>6, <1>d DEF remember
    <2>2. DOMAIN q = D \cup {user} /\ \A u \in D \cup {user} : q[u] = IF u = user THEN named ELSE known[u]
      BY <2>1
    <2>3. IsFiniteSet(D \cup {user})
          /\ Cardinality(D \cup {user}) = IF user \in D THEN Cardinality(D) ELSE Cardinality(D) + 1
      BY <1>3, FS_AddElement
    <2>4. Cardinality(D \cup {user}) <= proxyPeopleLimit BY <1>1, <1>3, <1>6, <2>3
    <2>5. q \in [DOMAIN q -> Persons] BY <1>d, <2>1 DEF PeopleKnown
    <2>6. \A u \in DOMAIN q : q[u] = w[u] /\ q[u] # {} BY <1>2, <1>3, <1>6, <1>d, <2>2 DEF PeopleKnown
    <2> QED BY <1>2, <1>3, <2>2, <2>3, <2>4, <2>5, <2>6 DEF PeopleKnown
  <1> QED BY <1>4, <1>5, <1>6

LEMMA AnswerKept ==
    ASSUME ProxyInv, NEW c \in ProxyCallers, NEW ok \in BOOLEAN, NEW named \in Persons, Answer(c, ok, named)
    PROVE  ProxyInv'
  <1>u. PICK user : user = pcall[c].user OBVIOUS
  <1>1. /\ pcall[c].at \in {"judged", "gaveUp"}
        /\ people' = IF saysNothing(ok, named) THEN people ELSE remember(people, user, named)
        /\ told' = IF saysNothing(ok, named) THEN told ELSE [told EXCEPT ![user] = named]
        /\ pcall' = [pcall EXCEPT ![c] = NoProxyCall]
        /\ UNCHANGED <<config, list, reads, person, made>>
    BY <1>u DEF Answer, saysNothing
  <1>2. user \in Users BY <1>1, <1>u DEF ProxyInv, WaitedFor
  <1>3. PeopleKnown(people, told) BY DEF ProxyInv, ProxyTyped, PeopleBounded, PeopleAsTold, PeopleKnown
  <1>4. PeopleKnown(people', told')
    <2>1. CASE saysNothing(ok, named) BY <1>1, <1>3, <2>1
    <2>2. CASE ~saysNothing(ok, named)
      <3>1. people' = remember(people, user, named) /\ told' = [told EXCEPT ![user] = named] BY <1>1, <2>2
      <3> QED BY <1>2, <1>3, <3>1, Remembered
    <2> QED BY <2>1, <2>2
  <1>5. NoProxyCall \in Callers /\ NoProxyCall.at = "idle" /\ NoProxyCall.waits = 0
    BY DEF NoProxyCall, Callers, Persons
  <1>6. pcall \in [ProxyCallers -> Callers] BY DEF ProxyInv, ProxyTyped
  <1>7. WaitedFor(c)'
    <2>1. pcall'[c] = NoProxyCall BY <1>1, <1>6
    <2> QED BY <1>5, <2>1 DEF WaitedFor
  <1>8. /\ pcall' \in [ProxyCallers -> Callers] /\ NewestRead'
        /\ \A d \in ProxyCallers : WaitedFor(d)'
    BY <1>1, <1>5, <1>7, CallerMoves
  <1>9. ProxyTyped' BY <1>1, <1>4, <1>8 DEF ProxyInv, ProxyTyped, PeopleKnown
  <1>10. PeopleBounded' /\ PeopleAsTold' BY <1>4 DEF PeopleKnown, PeopleBounded, PeopleAsTold
  <1> QED BY <1>8, <1>9, <1>10 DEF ProxyInv

\* Time passes, or the proxy is configured otherwise.
LEMMA ProxyChangesKept ==
    ASSUME ProxyInv, ListExpires \/ Reconfigure \/ (\E u \in Users : Unattribute(u))
    PROVE  ProxyInv'
  <1>1. /\ UNCHANGED <<reads, people, told, pcall, made>>
        /\ config' = config \/ (config = 1 /\ config' = 2)
        /\ list' = list \/ list' = [list EXCEPT !.fresh = FALSE]
    BY DEF ListExpires, Reconfigure, Unattribute
  <1>2. config \in Nat \ {0} /\ list \in [version : Nat, fresh : BOOLEAN] BY DEF ProxyInv, ProxyTyped
  <1>3. config' \in Nat \ {0} /\ config <= config' BY <1>1, <1>2
  <1>4. list' \in [version : Nat, fresh : BOOLEAN] /\ list'.version = list.version BY <1>1, <1>2
  <1>5. ProxyTyped' BY <1>1, <1>3, <1>4 DEF ProxyInv, ProxyTyped, ReadsTyped, Table, Numbered
  <1>6. NewestRead'
    <2>1. list.version \in Nat BY <1>2
    <2> QED BY <1>1, <1>2, <1>3, <1>4, <2>1 DEF ProxyInv, NewestRead
  <1>7. \A d \in ProxyCallers : WaitedFor(d)' BY <1>1 DEF ProxyInv, WaitedFor
  <1>8. PeopleBounded' /\ PeopleAsTold' BY <1>1 DEF ProxyInv, PeopleBounded, PeopleAsTold
  <1> QED BY <1>5, <1>6, <1>7, <1>8 DEF ProxyInv

LEMMA ProxyStart == ProxyInit => ProxyInv
  <1> SUFFICES ASSUME ProxyInit PROVE ProxyInv OBVIOUS
  <1>1. DOMAIN reads.brought = {} /\ reads.brought = [i \in {} |-> reads.brought[i]]
    BY DEF ProxyInit
  <1>2. Table(reads.brought, Nat)
    <2>1. 0 \in Nat /\ 1 .. 0 = {} OBVIOUS
    <2> QED BY <1>1, <2>1 DEF Table, Numbered
  <1>3. ReadsTyped(reads) BY <1>2 DEF ProxyInit, ReadsTyped
  <1>4. NoProxyCall \in Callers /\ NoProxyCall.at = "idle" /\ NoProxyCall.waits = 0
    BY DEF NoProxyCall, Callers, Persons
  <1>5. DOMAIN people = {} /\ people = [u \in {} |-> people[u]] BY DEF ProxyInit
  <1>6. ProxyTyped BY <1>3, <1>4, <1>5, FS_EmptySet DEF ProxyInit, ProxyTyped, Persons
  <1>7. NewestRead BY <1>1 DEF ProxyInit, NewestRead
  <1>8. \A c \in ProxyCallers : WaitedFor(c) BY <1>4 DEF ProxyInit, WaitedFor
  <1>9. PeopleBounded
    <2>1. Cardinality(DOMAIN people) = 0 BY <1>5, FS_EmptySet
    <2> QED BY <2>1, ProxyAssumption DEF PeopleBounded
  <1> QED BY <1>5, <1>6, <1>7, <1>8, <1>9 DEF ProxyInv, PeopleAsTold

LEMMA ProxyStep == ProxyInv /\ [ProxyNext]_proxyVars => ProxyInv'
  <1> SUFFICES ASSUME ProxyInv, [ProxyNext]_proxyVars PROVE ProxyInv' OBVIOUS
  <1>1. CASE UNCHANGED proxyVars
    BY <1>1 DEF proxyVars, ProxyInv, ProxyTyped, ReadsTyped, Table, Numbered, NewestRead, WaitedFor,
                PeopleBounded, PeopleAsTold
  <1>2. ASSUME NEW c \in ProxyCallers, NEW u \in Users, CallModel(c, u) PROVE ProxyInv' BY <1>2, CallModelKept
  <1>3. ASSUME NEW c \in ProxyCallers, NEW cancelled \in BOOLEAN, JudgeModels(c, cancelled) PROVE ProxyInv'
    BY <1>3, JudgeModelsKept
  <1>4. ASSUME NEW c \in ProxyCallers, NEW ok \in BOOLEAN, NEW named \in {{}, {"ann"}}, Answer(c, ok, named)
        PROVE  ProxyInv'
    BY <1>4, AnswerKept DEF Persons
  <1>5. ASSUME NEW id \in reads.running, EndRead(id, 0) \/ EndRead(id, config) PROVE ProxyInv' BY <1>5, EndReadKept
  <1>6. CASE ListExpires \/ Reconfigure \/ (\E u \in Users : Unattribute(u)) BY <1>6, ProxyChangesKept
  <1> QED BY <1>1, <1>2, <1>3, <1>4, <1>5, <1>6 DEF ProxyNext

\* One read of the proxy's list at a time, a caller that waited for one judged
\* by it or a later one, and the people remembered bounded and as last told,
\* for any callers and users, and whatever the limit.
THEOREM ProxyStaysCurrent == ProxySpec => []ProxyKnowledgeCurrent
  <1>1. ProxyInv => ProxyKnowledgeCurrent
    <2> SUFFICES ASSUME ProxyInv PROVE ProxyKnowledgeCurrent OBVIOUS
    <2>1. Cardinality(reads.running) <= 1
      <3>1. reads.running = {} \/ reads.running = {reads.refreshing} BY DEF ProxyInv, ProxyTyped, ReadsTyped
      <3>2. Cardinality({}) = 0 /\ Cardinality({reads.refreshing}) = 1 BY FS_EmptySet, FS_Singleton
      <3> QED BY <3>1, <3>2
    <2>2. \A c \in ProxyCallers :
            pcall[c].at = "judged" /\ pcall[c].waits # 0 => pcall[c].judged >= reads.brought[pcall[c].waits]
      BY DEF ProxyInv, WaitedFor
    <2>3. Cardinality(DOMAIN people) <= proxyPeopleLimit BY DEF ProxyInv, PeopleBounded
    <2>4. \A u \in DOMAIN people : people[u] = told[u] /\ people[u] # {} BY DEF ProxyInv, PeopleAsTold
    <2> QED BY <2>1, <2>2, <2>3, <2>4 DEF ProxyKnowledgeCurrent
  <1> QED BY ProxyStart, ProxyStep, <1>1, PTL DEF ProxySpec

-----------------------------------------------------------------------------
(* The turns of the tool runner.  The wrapper's prediction of a turn is    *)
(* what the runner does, and each request sent is on one record or ended   *)
(* silently.                                                               *)

Talks == [stop : Stops \cup {"none"}, tool : BOOLEAN, taken : Nat, completed : BOOLEAN]
Gates == [blocked : BOOLEAN, sent : BOOLEAN]
Counts == [steps : Nat, requests : Nat, judged : Nat, records : Nat, silent : Nat]
TurnsTyped == talk \in Talks /\ gate \in Gates /\ turns \in Counts
TurnsInv == TurnsTyped /\ TurnsJudgedAndRecorded

\* The wrapper asks about a turn exactly when the runner will call the model.
LEMMA Predicted == ASSUME NEW t \in Talks PROVE runnerWillCallModel(t) <=> UpstreamCalls(t)
  <1>1. t.stop \in {"none", "end_turn", "max_tokens", "pause_turn", "compaction", "tool_use"}
    BY DEF Talks, Stops
  <1> DEFINE done == t.completed \/ t.taken >= MaxIterations
  <1>2. done <=> t.completed \/ ~(t.taken < MaxIterations)
    BY TurnsAssumption DEF Talks
  <1>3. runnerWillCallModel(t) <=>
          ~done /\ (t.stop \in {"none", "pause_turn", "compaction"} \/ (t.stop = "tool_use" /\ t.tool))
    BY ZenonT(30) DEF runnerWillCallModel
  <1>4. UpstreamCalls(t) <=>
          ~done /\ (t.stop = "tool_use" => t.tool) /\ t.stop \notin {"end_turn", "max_tokens"}
    BY <1>2, ZenonT(30) DEF UpstreamCalls
  <1> HIDE DEF done
  <1> QED BY <1>1, <1>3, <1>4

\* A step sends a request only if the runner calls the model, and an answer
\* comes only to a request.
LEMMA StepOf ==
    ASSUME NEW t \in Talks, NEW step \in UpstreamStep(t)
    PROVE  /\ step.sent \in BOOLEAN /\ step.err \in BOOLEAN /\ step.tool \in BOOLEAN
           /\ step.stop \in Stops \cup {"none"}
           /\ step.sent => UpstreamCalls(t)
           /\ step.stop # "none" => step.sent /\ ~step.err
           /\ step.sent /\ ~step.err => step.stop # "none"
  <1>1. CASE ~UpstreamCalls(t)
    <2>1. step = Step(FALSE, FALSE, "none", FALSE) BY <1>1 DEF UpstreamStep
    <2>2. step.sent = FALSE /\ step.err = FALSE /\ step.stop = "none" /\ step.tool = FALSE BY <2>1 DEF Step
    <2> QED BY <2>2
  <1>2. CASE UpstreamCalls(t)
    <2> DEFINE Failed == {Step(sent0, TRUE, "none", FALSE) : sent0 \in BOOLEAN}
               Came == {Step(TRUE, FALSE, stop, tool) : stop \in Stops, tool \in BOOLEAN}
    <2>1. UpstreamStep(t) = Failed \cup Came BY <1>2 DEF UpstreamStep, Step
    <2>2. ASSUME step \in Failed
          PROVE  step.sent \in BOOLEAN /\ step.err = TRUE /\ step.stop = "none" /\ step.tool = FALSE
      BY <2>2 DEF Step
    <2>3. ASSUME step \in Came
          PROVE  step.sent = TRUE /\ step.err = FALSE /\ step.stop \in Stops /\ step.tool \in BOOLEAN
      BY <2>3 DEF Step
    <2>4. "none" \notin Stops BY DEF Stops
    <2> HIDE DEF Failed, Came
    <2>5. step \in Failed \/ step \in Came BY <2>1
    <2> QED BY <1>2, <2>2, <2>3, <2>4, <2>5
  <1> QED BY <1>1, <1>2

\* The conversation goes on as a step says.
LEMMA TalkGoesOn ==
    ASSUME NEW t \in Talks, NEW step, step.stop \in Stops \cup {"none"}, step.tool \in BOOLEAN
    PROVE  AfterStep(t, step) \in Talks
  <1>1. t.completed \in BOOLEAN /\ t.tool \in BOOLEAN /\ t.taken \in Nat /\ t.stop \in Stops \cup {"none"}
    BY DEF Talks
  <1>2. (t.completed \/ ~UpstreamCalls(t)) \in BOOLEAN BY ZenonT(30)
  <1>3. t.taken + (IF UpstreamCalls(t) THEN 1 ELSE 0) \in Nat BY <1>1
  <1> QED BY <1>1, <1>2, <1>3 DEF AfterStep, Talks

\* A turn that is let through: what it sent is judged, and told once or silent.
LEMMA TurnCounted ==
    ASSUME TurnsInv, NEW step \in UpstreamStep(talk), NEW record0 \in BOOLEAN, NEW silent \in BOOLEAN,
           turns' = Counted(step, record0, silent),
           step.sent <=> record0 \/ silent, ~(record0 /\ silent)
    PROVE  /\ turns' \in Counts
           /\ turns'.judged = turns'.requests
           /\ turns'.records + turns'.silent = turns'.requests
  <1>1. turns \in Counts /\ turns.judged = turns.requests /\ turns.records + turns.silent = turns.requests
    BY DEF TurnsInv, TurnsTyped, TurnsJudgedAndRecorded
  <1>2. step.sent /\ runnerWillCallModel(talk) <=> step.sent
    BY StepOf, Predicted DEF TurnsInv, TurnsTyped
  <1>n. PICK n \in {0, 1} : n = IF step.sent THEN 1 ELSE 0 OBVIOUS
  <1>j. PICK j \in {0, 1} : j = IF step.sent /\ runnerWillCallModel(talk) THEN 1 ELSE 0 OBVIOUS
  <1>a. PICK a \in {0, 1} : a = IF record0 THEN 1 ELSE 0 OBVIOUS
  <1>b. PICK b \in {0, 1} : b = IF silent THEN 1 ELSE 0 OBVIOUS
  <1>3. j = n BY <1>2, <1>n, <1>j
  <1>4. a + b = n BY <1>n, <1>a, <1>b
  <1>5. turns' = [steps |-> turns.steps + 1, requests |-> turns.requests + n, judged |-> turns.judged + j,
                  records |-> turns.records + a, silent |-> turns.silent + b]
    BY <1>n, <1>j, <1>a, <1>b DEF Counted
  <1> QED BY <1>1, <1>3, <1>4, <1>5 DEF Counts

\* The gate of a turn let through: open, and marked if this turn sent a request.
LetThrough(step) == requestSent(startTurn(admit(TRUE)), step)
LEMMA GateLetThrough ==
    ASSUME TurnsTyped, NEW step \in UpstreamStep(talk), gate' = LetThrough(step)
    PROVE  gate' \in Gates /\ gate'.blocked = FALSE /\ gate'.sent = step.sent
  <1>0. step.sent \in BOOLEAN BY StepOf DEF TurnsTyped
  <1>b. PICK b : b = (runnerWillCallModel(talk) /\ ~TRUE) OBVIOUS
  <1>1. b = FALSE BY <1>b
  <1>a. PICK a : a = admit(TRUE) OBVIOUS
  <1>2. a = [gate EXCEPT !.blocked = b] BY <1>a, <1>b DEF admit
  <1>3. a = [blocked |-> FALSE, sent |-> gate.sent] BY <1>1, <1>2 DEF TurnsTyped, Gates
  <1>g. PICK g : g = startTurn(a) OBVIOUS
  <1>4. g = [blocked |-> FALSE, sent |-> FALSE] BY <1>3, <1>g DEF startTurn
  <1>s. PICK sent0 \in BOOLEAN : sent0 = step.sent BY <1>0
  <1>d. PICK d : d = (g.sent \/ step.sent) OBVIOUS
  <1>5. d = sent0
    <2>1. g.sent = FALSE BY <1>4
    <2> QED BY <2>1, <1>s, <1>d
  <1>6. gate' = [g EXCEPT !.sent = d] BY <1>a, <1>g, <1>d DEF LetThrough, requestSent
  <1>7. gate' = [blocked |-> FALSE, sent |-> sent0] BY <1>4, <1>5, <1>6
  <1>8. gate'.blocked = FALSE /\ gate'.sent = sent0 BY <1>7
  <1>9. gate' \in Gates BY <1>7 DEF Gates
  <1> QED BY <1>8, <1>9, <1>s

LEMMA BlockedKept ==
    ASSUME TurnsInv, Blocked
    PROVE  TurnsInv'
  <1>1. /\ talk' = talk /\ turns' = [turns EXCEPT !.steps = @ + 1]
        /\ gate' = [gate EXCEPT !.blocked = runnerWillCallModel(talk) /\ ~FALSE] /\ gate'.blocked
    BY DEF Blocked, admit
  <1>2. (runnerWillCallModel(talk) /\ ~FALSE) \in BOOLEAN BY ZenonT(30)
  <1>3. gate' \in Gates /\ (gate'.blocked => runnerWillCallModel(talk))
    <2>b. PICK b \in BOOLEAN : b = (runnerWillCallModel(talk) /\ ~FALSE) BY <1>2
    <2>1. gate' = [gate EXCEPT !.blocked = b] BY <1>1, <2>b
    <2>2. gate' \in Gates /\ gate'.blocked = b BY <2>1 DEF TurnsInv, TurnsTyped, Gates
    <2>3. b => runnerWillCallModel(talk) BY <2>b
    <2> QED BY <2>2, <2>3
  <1>4. turns' \in Counts /\ turns'.judged = turns.judged /\ turns'.requests = turns.requests
        /\ turns'.records = turns.records /\ turns'.silent = turns.silent
    BY <1>1 DEF TurnsInv, TurnsTyped, Counts
  <1>5. gate'.blocked => UpstreamCalls(talk') BY <1>1, <1>3, Predicted DEF TurnsInv, TurnsTyped
  <1> QED BY <1>1, <1>3, <1>4, <1>5 DEF TurnsInv, TurnsTyped, TurnsJudgedAndRecorded

LEMMA NextMessageKept ==
    ASSUME TurnsInv, NextMessage
    PROVE  TurnsInv'
  <1>1. CASE Blocked BY <1>1, BlockedKept
  <1>2. ASSUME NEW step \in UpstreamStep(talk),
               gate' = requestSent(startTurn(admit(TRUE)), step),
               talk' = AfterStep(talk, step),
               turns' = Counted(step, step.stop # "none" \/ (step.err /\ gate'.sent), FALSE)
        PROVE  TurnsInv'
    <2>1. /\ step.sent \in BOOLEAN /\ step.err \in BOOLEAN /\ step.tool \in BOOLEAN
          /\ step.stop \in Stops \cup {"none"}
          /\ step.stop # "none" => step.sent /\ ~step.err
          /\ step.sent /\ ~step.err => step.stop # "none"
      BY StepOf DEF TurnsInv, TurnsTyped
    <2>g. TurnsTyped /\ gate' = LetThrough(step)
      BY <1>2 DEF TurnsInv, LetThrough
    <2>2. gate' \in Gates /\ gate'.blocked = FALSE /\ gate'.sent = step.sent
      BY <2>g, GateLetThrough
    <2>r. PICK record0 \in BOOLEAN : record0 = (step.stop # "none" \/ (step.err /\ gate'.sent)) OBVIOUS
    <2>3. step.sent <=> record0 \/ FALSE BY <2>1, <2>2, <2>r
    <2>4. turns' = Counted(step, record0, FALSE) BY <1>2, <2>r
    <2>5. /\ turns' \in Counts
          /\ turns'.judged = turns'.requests
          /\ turns'.records + turns'.silent = turns'.requests
      BY <2>3, <2>4, TurnCounted
    <2>6. talk' \in Talks BY <1>2, <2>1, TalkGoesOn DEF TurnsInv, TurnsTyped
    <2> QED BY <2>2, <2>5, <2>6 DEF TurnsInv, TurnsTyped, TurnsJudgedAndRecorded
  <1> QED BY <1>1, <1>2 DEF NextMessage

LEMMA NextStreamingKept ==
    ASSUME TurnsInv, NextStreaming
    PROVE  TurnsInv'
  <1>1. CASE Blocked BY <1>1, BlockedKept
  <1>2. ASSUME NEW step \in UpstreamStep(talk), NEW started \in BOOLEAN, NEW left \in BOOLEAN, NEW broke0 \in BOOLEAN,
               started \/ left \/ broke0 => step.sent /\ ~step.err,
               left => started,
               gate' = requestSent(startTurn(admit(TRUE)), step),
               talk' = AfterStep(talk, IF started /\ ~left /\ ~broke0 THEN step ELSE Step(step.sent, step.err, "none", FALSE)),
               NEW failed \in BOOLEAN, failed = ((step.err \/ (broke0 /\ ~left)) /\ gate'.sent),
               turns' = Counted(step, failed \/ (~step.err /\ started), step.sent /\ ~failed /\ ~started)
        PROVE  TurnsInv'
    <2>1. /\ step.sent \in BOOLEAN /\ step.err \in BOOLEAN /\ step.tool \in BOOLEAN
          /\ step.stop \in Stops \cup {"none"}
      BY StepOf DEF TurnsInv, TurnsTyped
    <2>g. TurnsTyped /\ gate' = LetThrough(step)
      BY <1>2 DEF TurnsInv, LetThrough
    <2>2. gate' \in Gates /\ gate'.blocked = FALSE /\ gate'.sent = step.sent
      BY <2>g, GateLetThrough
    <2>r. PICK record0 \in BOOLEAN : record0 = (failed \/ (~step.err /\ started)) OBVIOUS
    <2>s. PICK silent \in BOOLEAN : silent = (step.sent /\ ~failed /\ ~started) OBVIOUS
    <2>3. (step.sent <=> record0 \/ silent) /\ ~(record0 /\ silent) BY <1>2, <2>1, <2>2, <2>r, <2>s
    <2>4. turns' = Counted(step, record0, silent) BY <1>2, <2>r, <2>s
    <2>5. /\ turns' \in Counts
          /\ turns'.judged = turns'.requests
          /\ turns'.records + turns'.silent = turns'.requests
      BY <2>3, <2>4, TurnCounted
    <2>6. talk' \in Talks
      <3>1. CASE started /\ ~left /\ ~broke0
        BY <1>2, <2>1, <3>1, TalkGoesOn DEF TurnsInv, TurnsTyped
      <3>2. CASE ~(started /\ ~left /\ ~broke0)
        <4>1. talk' = AfterStep(talk, Step(step.sent, step.err, "none", FALSE)) BY <1>2, <3>2
        <4>2. Step(step.sent, step.err, "none", FALSE).stop = "none"
              /\ Step(step.sent, step.err, "none", FALSE).tool = FALSE
          BY DEF Step
        <4> QED BY <4>1, <4>2, TalkGoesOn DEF TurnsInv, TurnsTyped
      <3> QED BY <3>1, <3>2
    <2> QED BY <2>2, <2>5, <2>6 DEF TurnsInv, TurnsTyped, TurnsJudgedAndRecorded
  <1>3. CASE ~Blocked
    <2>1. PICK step \in UpstreamStep(talk), started \in BOOLEAN, left \in BOOLEAN, broke0 \in BOOLEAN :
            /\ started \/ left \/ broke0 => step.sent /\ ~step.err
            /\ left => started
            /\ gate' = requestSent(startTurn(admit(TRUE)), step)
            /\ talk' = AfterStep(talk, IF started /\ ~left /\ ~broke0 THEN step ELSE Step(step.sent, step.err, "none", FALSE))
            /\ LET failed == (step.err \/ (broke0 /\ ~left)) /\ gate'.sent IN
               turns' = Counted(step, failed \/ (~step.err /\ started), step.sent /\ ~failed /\ ~started)
      BY <1>3 DEF NextStreaming
    <2>f. PICK failed \in BOOLEAN : failed = ((step.err \/ (broke0 /\ ~left)) /\ gate'.sent) OBVIOUS
    <2>2. turns' = Counted(step, failed \/ (~step.err /\ started), step.sent /\ ~failed /\ ~started) BY <2>1, <2>f
    <2> QED BY <1>2, <2>1, <2>f, <2>2
  <1> QED BY <1>1, <1>3

\* Every request the tool runner sends was judged, and is on one record or
\* ended without an event, and a conversation that ended is not reported
\* blocked, whatever the limit on its turns.
THEOREM TurnsStayJudged == TurnsSpec => []TurnsJudgedAndRecorded
  <1>1. TurnsInit => TurnsInv
    <2> SUFFICES ASSUME TurnsInit PROVE TurnsInv OBVIOUS
    <2>1. talk \in Talks BY DEF TurnsInit, Talks, Stops
    <2>2. gate \in Gates /\ gate.blocked = FALSE BY DEF TurnsInit, Gates
    <2>3. turns \in Counts BY DEF TurnsInit, Counts
    <2>4. turns.judged = turns.requests /\ turns.records + turns.silent = turns.requests BY DEF TurnsInit
    <2> QED BY <2>1, <2>2, <2>3, <2>4 DEF TurnsInv, TurnsTyped, TurnsJudgedAndRecorded
  <1>2. TurnsInv /\ [TurnsNext]_turnVars => TurnsInv'
    <2> SUFFICES ASSUME TurnsInv, [TurnsNext]_turnVars PROVE TurnsInv' OBVIOUS
    <2>1. CASE UNCHANGED turnVars
      BY <2>1 DEF turnVars, TurnsInv, TurnsTyped, TurnsJudgedAndRecorded, UpstreamCalls
    <2> QED BY <2>1, NextMessageKept, NextStreamingKept DEF TurnsNext
  <1>3. TurnsInv => TurnsJudgedAndRecorded BY DEF TurnsInv
  <1> QED BY <1>1, <1>2, <1>3, PTL DEF TurnsSpec
=============================================================================
