------------------------- MODULE EnforcementProofs -------------------------
(***************************************************************************)
(* Proofs about EnforcementRegistry, for any clients, keys and pollers:    *)
(* type correctness, that no poll is left behind, and that a running poll  *)
(* counts exactly the leases nobody has released.  Then about              *)
(* EnforcementEval, for any dates, models called and lists of rules: what  *)
(* evaluateBlock decides is what the rules it was shown say.               *)
(***************************************************************************)
EXTENDS EnforcementRegistry, EnforcementEval, FiniteSetTheorems, TLAPS

Registered(p) == \E k \in Keys : running[k] = p
InHand(c) == pc[c] \in {"stopping", "draining"}
Owner(c) == pc[c] \in {"owner", "booting"}

\* A poll is registered under one key, or in the hands of one Release.
Apart ==
    /\ \A k, l \in Keys : running[k] # None /\ running[k] = running[l] => k = l
    /\ \A c \in Clients : InHand(c) => mine[c] # None /\ ~Registered(mine[c])
    /\ \A c, d \in Clients : InHand(c) /\ InHand(d) /\ mine[c] = mine[d] => c = d

\* A poll is booted by one Start, and is at its first fetch while that waits.
BootedOnce ==
    /\ \A c \in Clients : Owner(c) => mine[c] # None
    /\ \A c, d \in Clients : Owner(c) /\ Owner(d) /\ mine[c] = mine[d] => c = d
    /\ \A c \in Clients : pc[c] = "booting" => phase[mine[c]] = "booting"

\* What nobody is about to stop is stopped: this is what keeps Boot, whose
\* guard is the flag alone, from beginning a poll that stop has returned for.
OthersStopped ==
    /\ \A p \in Pollers : ~stopped[p] =>
         Registered(p) \/ \E c \in Clients : pc[c] = "stopping" /\ mine[c] = p
    /\ \A c \in Clients : pc[c] = "draining" => stopped[mine[c]]

\* Stop's own poll stays registered while Stop waits for it.
StopWaits ==
    stopper = "draining" =>
        /\ stopping \in Keys
        /\ running[stopping] # None
        /\ stopped[running[stopping]]

\* A lease nobody has released is one of a key.
LeaseKeys == \A c \in Clients : pc[c] \in Leasing => key[c] \in Keys

LeaseInv == LeaseKeys /\ LeasesCounted

PollInv == Apart /\ BootedOnce /\ OthersStopped /\ StopWaits /\ NoPollLeftBehind

-----------------------------------------------------------------------------
(* Type correctness.                                                       *)

\* register always takes a poller nobody refers to.
LEMMA NewPollerUnused ==
    ASSUME Unused # {}
    PROVE  newPoller \in Pollers /\ newPoller \notin Referred
  BY DEF newPoller, Unused

LEMMA UnreleasedFinite ==
    ASSUME NEW k
    PROVE  /\ IsFiniteSet(Unreleased(k))
           /\ Cardinality(Unreleased(k)) \in Nat
           /\ Unreleased(k) # {} => Cardinality(Unreleased(k)) # 0
  <1>1. IsFiniteSet(Unreleased(k)) BY RegistryAssumption, FS_Subset DEF Unreleased
  <1> QED BY <1>1, FS_CardinalityType, FS_EmptySet

LEMMA FetchType ==
    ASSUME TypeOK, NEW p \in Pollers, fetchRules(p)
    PROVE  blocking' \in [Pollers -> 0 .. StaleAfter + 1]
  <1>1. (IF breached THEN StaleAfter + 1 ELSE 0) \in 0 .. StaleAfter + 1
    BY RegistryAssumption
  <1> QED BY <1>1 DEF fetchRules, TypeOK

LEMMA RegisterType ==
    ASSUME TypeOK, NEW c \in Clients, NEW k \in Keys, Register(c, k)
    PROVE  TypeOK'
  <1> DEFINE p == newPoller
  <1>1. p \in Pollers BY NewPollerUnused DEF Register
  <1>2. Cardinality(Unreleased(k)) \in Nat BY UnreleasedFinite
  <1> HIDE DEF p
  <1>3. leases' \in [Keys -> Nat] BY <1>2 DEF Register, adopt, TypeOK
  <1>4. leaseOn' \in [Clients -> Pollers \cup {None}]
    BY <1>1 DEF Register, adopt, TypeOK, p
  <1>5. 0 \in 0 .. StaleAfter + 1 BY RegistryAssumption
  <1> QED BY <1>1, <1>3, <1>4, <1>5 DEF Register, TypeOK, GoTo, application, Leasing, Phases, p

LEMMA TypeStep == TypeOK /\ LeaseInv /\ [Next]_vars => TypeOK'
  <1> SUFFICES ASSUME TypeOK, LeaseInv, [Next]_vars
               PROVE  TypeOK'
    OBVIOUS
  <1> USE DEF TypeOK, registry, polls, callers, application
  <1>1. ASSUME NEW c \in Clients, NEW k \in Keys, Join(c, k)
        PROVE  TypeOK'
    BY <1>1 DEF Join, GoTo, Leasing
  <1>2. ASSUME NEW c \in Clients, NEW k \in Keys, Register(c, k)
        PROVE  TypeOK'
    BY <1>2, RegisterType
  <1>3. ASSUME NEW c \in Clients, Boot(c) \/ BootRefused(c) \/ GateOpens(c)
        PROVE  TypeOK'
    BY <1>3 DEF Boot, BootRefused, GateOpens, Return, GoTo, Leasing, Phases
  <1>4. ASSUME NEW c \in Clients, BootFetches(c)
        PROVE  TypeOK'
    <2>1. blocking' \in [Pollers -> 0 .. StaleAfter + 1]
      BY <1>4, RegistryAssumption DEF BootFetches, fetchRules
    <2> QED BY <1>4, <2>1 DEF BootFetches, Return, GoTo, Leasing, Phases
  <1>5. ASSUME NEW c \in Clients, Release(c)
        PROVE  TypeOK'
    <2>1. key[c] \in Keys /\ running[key[c]] \in Pollers \cup {None} /\ leases[key[c]] \in Nat
      BY <1>5 DEF Release, LeaseInv, LeaseKeys, Leasing
    <2>2. running[key[c]] # None => leases[key[c]] # 0
      BY <2>1, UnreleasedFinite DEF LeaseInv, LeasesCounted
    <2>3. leases' \in [Keys -> Nat] BY <1>5, <2>1, <2>2 DEF Release
    <2> QED BY <1>5, <2>1, <2>3 DEF Release, GoTo
  <1>6. ASSUME NEW c \in Clients, ReleaseStops(c) \/ ReleaseReturns(c)
        PROVE  TypeOK'
    <2>1. 0 \in 0 .. StaleAfter + 1 BY RegistryAssumption
    <2>2. CASE ReleaseStops(c)
      BY <2>2 DEF ReleaseStops, markStopped, GoTo
    <2>3. CASE ReleaseReturns(c)
      BY <2>1, <2>3 DEF ReleaseReturns, drop, GoTo, Phases
    <2> QED BY <1>6, <2>2, <2>3
  <1>7. CASE Stop
    <2>1. 0 \in 0 .. StaleAfter + 1 BY RegistryAssumption
    <2>2. CASE StopLocks \/ StopReturns BY <2>2 DEF StopLocks, StopReturns
    <2>3. ASSUME NEW k \in Keys, StopNext(k)
          PROVE  TypeOK'
      BY <2>3 DEF StopNext, markStopped
    <2>4. CASE StopDrains
      BY <2>1, <2>4 DEF StopDrains, drop, Phases
    <2> QED BY <1>7, <2>2, <2>3, <2>4 DEF Stop
  <1>8. ASSUME NEW p \in Pollers, Poll(p)
        PROVE  TypeOK'
    <2>1. blocking' \in [Pollers -> 0 .. StaleAfter + 1]
      BY <1>8, FetchType DEF Poll, PollFires, PollFetches, PollEnds
    <2> QED BY <1>8, <2>1 DEF Poll, PollFires, PollFetches, PollEnds, Phases
  <1>9. CASE Tick
    <2>1. blocking' \in [Pollers -> 0 .. StaleAfter + 1]
      BY <1>9, RegistryAssumption DEF Tick
    <2> QED BY <1>9, <2>1 DEF Tick
  <1>10. CASE ServerChanges BY <1>10 DEF ServerChanges
  <1>11. CASE UNCHANGED vars BY <1>11 DEF vars
  <1> QED BY <1>1, <1>2, <1>3, <1>4, <1>5, <1>6, <1>7, <1>8, <1>9, <1>10, <1>11
          DEF Next, Start

LEMMA TypeInit == Init => TypeOK
  <1>1. 0 \in 0 .. StaleAfter + 1 BY RegistryAssumption
  <1> QED BY <1>1 DEF Init, TypeOK, Phases, Leasing

-----------------------------------------------------------------------------
(* Leases.                                                                 *)

LEMMA LeaseInit == Init => LeaseInv
  BY DEF Init, LeaseInv, LeaseKeys, LeasesCounted, Leasing

\* Nothing that leaves the leases alone changes what a poll counts.
LEMMA LeasesKept ==
    ASSUME TypeOK, LeaseInv, UNCHANGED registry,
           \A c \in Clients : pc'[c] \in Leasing <=> pc[c] \in Leasing
    PROVE  LeaseInv'
  <1>1. \A k \in Keys : Unreleased(k)' = Unreleased(k) BY DEF Unreleased, registry
  <1> QED BY <1>1 DEF LeaseInv, LeaseKeys, LeasesCounted, registry

\* One client more holds a lease on a key, one client less.
LEMMA LeaseTaken ==
    ASSUME TypeOK, NEW c \in Clients, NEW k \in Keys, pc[c] = "out",
           key' = [key EXCEPT ![c] = k], NEW s \in Leasing, GoTo(c, s)
    PROVE  /\ Unreleased(k)' = Unreleased(k) \cup {c}
           /\ Cardinality(Unreleased(k)') = Cardinality(Unreleased(k)) + 1
           /\ \A l \in Keys \ {k} : Unreleased(l)' = Unreleased(l)
  <1>1. c \notin Unreleased(k) BY DEF Unreleased, Leasing
  <1>2. Unreleased(k)' = Unreleased(k) \cup {c} BY DEF Unreleased, GoTo, TypeOK
  <1>3. \A l \in Keys \ {k} : Unreleased(l)' = Unreleased(l)
    BY DEF Unreleased, GoTo, TypeOK, Leasing
  <1> QED BY <1>1, <1>2, <1>3, UnreleasedFinite, FS_AddElement

LEMMA LeaseGiven ==
    ASSUME TypeOK, NEW c \in Clients, NEW k \in Keys, key[c] = k, pc[c] \in Leasing,
           key' = [key EXCEPT ![c] = None], pc'[c] \notin Leasing,
           \A d \in Clients \ {c} : pc'[d] = pc[d]
    PROVE  /\ Unreleased(k)' = Unreleased(k) \ {c}
           /\ Cardinality(Unreleased(k)') = Cardinality(Unreleased(k)) - 1
           /\ \A l \in Keys \ {k} : Unreleased(l)' = Unreleased(l)
  <1>1. c \in Unreleased(k) BY DEF Unreleased
  <1>2. Unreleased(k)' = Unreleased(k) \ {c} BY DEF Unreleased, TypeOK
  <1>3. \A l \in Keys \ {k} : Unreleased(l)' = Unreleased(l)
    BY RegistryAssumption DEF Unreleased, TypeOK
  <1>4. Cardinality(Unreleased(k) \ {c}) = Cardinality(Unreleased(k)) - 1
    BY <1>1, UnreleasedFinite, FS_RemoveElement
  <1> QED BY <1>2, <1>3, <1>4

LEMMA LeaseStep == TypeOK /\ LeaseInv /\ [Next]_vars => LeaseInv'
  <1> SUFFICES ASSUME TypeOK, LeaseInv, [Next]_vars
               PROVE  LeaseInv'
    OBVIOUS
  <1>1. ASSUME NEW c \in Clients, NEW k \in Keys, Join(c, k)
        PROVE  LeaseInv'
    <2>1. PICK s \in Leasing : s = "gated" BY DEF Leasing
    <2>2. /\ Unreleased(k)' = Unreleased(k) \cup {c}
          /\ Cardinality(Unreleased(k)') = Cardinality(Unreleased(k)) + 1
          /\ \A l \in Keys \ {k} : Unreleased(l)' = Unreleased(l)
      BY <1>1, <2>1, LeaseTaken DEF Join
    <2>3. LeaseKeys' BY <1>1 DEF Join, LeaseInv, LeaseKeys, GoTo, TypeOK
    <2>4. \A d \in Clients : d # c => leaseOn'[d] = leaseOn[d]
      BY <1>1 DEF Join, TypeOK
    <2>5. running[k] \in Pollers /\ leases[k] = Cardinality(Unreleased(k))
      BY <1>1 DEF Join, LeaseInv, LeasesCounted, TypeOK
    <2>6. running'[k] = running[k] /\ leases'[k] = leases[k] + 1 /\ leaseOn'[c] = running[k]
      BY <1>1 DEF Join, TypeOK
    <2>7. \A l \in Keys \ {k} : leases'[l] = leases[l] /\ running'[l] = running[l]
      BY <1>1 DEF Join, TypeOK
    <2>8. \A d \in Unreleased(k) : leaseOn[d] = running[k]
      BY <1>1 DEF Join, LeaseInv, LeasesCounted
    <2>9. /\ leases'[k] = Cardinality(Unreleased(k)')
          /\ Unreleased(k)' # {}
          /\ \A d \in Unreleased(k)' : leaseOn'[d] = running'[k]
      <3>1. \A d \in Unreleased(k) : d \in Clients BY DEF Unreleased
      <3> QED BY <2>2, <2>4, <2>5, <2>6, <2>8, <3>1
    <2>10. \A l \in Keys \ {k} : running[l] # None =>
             /\ leases[l] = Cardinality(Unreleased(l))
             /\ Unreleased(l) # {}
             /\ \A d \in Unreleased(l) : leaseOn'[d] = running[l]
      <3>1. \A l \in Keys \ {k} : c \notin Unreleased(l)
        BY <1>1 DEF Join, Unreleased, Leasing
      <3> QED BY <2>4, <3>1 DEF LeaseInv, LeasesCounted, Unreleased
    <2>11. LeasesCounted' BY <2>2, <2>7, <2>9, <2>10 DEF LeasesCounted
    <2> QED BY <2>3, <2>11 DEF LeaseInv
  <1>2. ASSUME NEW c \in Clients, NEW k \in Keys, Register(c, k)
        PROVE  LeaseInv'
    <2> DEFINE p == newPoller
    <2>1. p \in Pollers BY <1>2, NewPollerUnused DEF Register
    <2>2. PICK s \in Leasing : s = "owner" BY DEF Leasing
    <2>3. /\ Unreleased(k)' = Unreleased(k) \cup {c}
          /\ Cardinality(Unreleased(k)') = Cardinality(Unreleased(k)) + 1
          /\ \A l \in Keys \ {k} : Unreleased(l)' = Unreleased(l)
      BY <1>2, <2>2, LeaseTaken DEF Register
    <2>4. LeaseKeys' BY <1>2 DEF Register, LeaseInv, LeaseKeys, GoTo, TypeOK
    <2>5. /\ running'[k] = p
          /\ leases'[k] = Cardinality(Unreleased(k)) + 1
          /\ \A d \in Clients :
               leaseOn'[d] = IF d \in Unreleased(k) \cup {c} THEN p ELSE leaseOn[d]
      BY <1>2 DEF Register, adopt, TypeOK
    <2>6. \A l \in Keys \ {k} : leases'[l] = leases[l] /\ running'[l] = running[l]
      BY <1>2 DEF Register, adopt, TypeOK
    <2> HIDE DEF p
    <2>7. /\ leases'[k] = Cardinality(Unreleased(k)')
          /\ Unreleased(k)' # {}
          /\ \A d \in Unreleased(k)' : leaseOn'[d] = running'[k]
      <3>1. \A d \in Unreleased(k) : d \in Clients BY DEF Unreleased
      <3> QED BY <2>3, <2>5, <3>1
    <2>8. \A l \in Keys \ {k} : running[l] # None =>
            /\ leases[l] = Cardinality(Unreleased(l))
            /\ Unreleased(l) # {}
            /\ \A d \in Unreleased(l) : leaseOn'[d] = running[l]
      <3>1. \A l \in Keys \ {k}, d \in Clients :
              d \in Unreleased(l) => d \notin Unreleased(k) \cup {c}
        BY <1>2 DEF Register, Unreleased, Leasing
      <3> QED BY <2>5, <3>1 DEF LeaseInv, LeasesCounted, Unreleased
    <2>9. LeasesCounted' BY <2>3, <2>6, <2>7, <2>8 DEF LeasesCounted
    <2> QED BY <2>4, <2>9 DEF LeaseInv
  <1>3. ASSUME NEW c \in Clients, Boot(c) \/ BootRefused(c) \/ BootFetches(c) \/ GateOpens(c)
        PROVE  LeaseInv'
    <2>1. \A d \in Clients : pc'[d] \in Leasing <=> pc[d] \in Leasing
      BY <1>3 DEF Boot, BootRefused, BootFetches, GateOpens, Return, GoTo, Leasing, TypeOK
    <2>2. UNCHANGED registry
      BY <1>3 DEF Boot, BootRefused, BootFetches, GateOpens
    <2> QED BY <2>1, <2>2, LeasesKept
  <1>4. ASSUME NEW c \in Clients, Release(c)
        PROVE  LeaseInv'
    <2>1. PICK k \in Keys : key[c] = k BY <1>4 DEF Release, LeaseInv, LeaseKeys, Leasing
    <2>2. /\ pc[c] \in Leasing
          /\ pc'[c] \notin Leasing
          /\ \A d \in Clients \ {c} : pc'[d] = pc[d] /\ leaseOn'[d] = leaseOn[d]
          /\ key' = [key EXCEPT ![c] = None]
      BY <1>4 DEF Release, GoTo, Leasing, TypeOK
    <2>3. /\ Unreleased(k)' = Unreleased(k) \ {c}
          /\ Cardinality(Unreleased(k)') = Cardinality(Unreleased(k)) - 1
          /\ \A l \in Keys \ {k} : Unreleased(l)' = Unreleased(l)
      BY <2>1, <2>2, LeaseGiven
    <2>4. LeaseKeys' BY <2>2 DEF LeaseInv, LeaseKeys, TypeOK
    <2>5. \A l \in Keys \ {k} : leases'[l] = leases[l] /\ running'[l] = running[l]
      BY <1>4, <2>1 DEF Release, TypeOK
    <2>6. running[k] # None =>
            /\ running[k] = leaseOn[c]
            /\ leases[k] = Cardinality(Unreleased(k))
            /\ \A d \in Unreleased(k) : leaseOn[d] = running[k]
      BY <2>1, <2>2 DEF LeaseInv, LeasesCounted, Unreleased
    <2>7. running'[k] # None =>
            /\ running'[k] = running[k]
            /\ leases[k] > 1
            /\ leases'[k] = leases[k] - 1
      BY <1>4, <2>1, <2>6 DEF Release, TypeOK
    <2>8. running'[k] # None =>
            /\ leases'[k] = Cardinality(Unreleased(k)')
            /\ Unreleased(k)' # {}
            /\ \A d \in Unreleased(k)' : leaseOn'[d] = running'[k]
      <3>1. \A d \in Unreleased(k) : d \in Clients BY DEF Unreleased
      <3>2. SUFFICES ASSUME running'[k] # None
                     PROVE  /\ leases'[k] = Cardinality(Unreleased(k)')
                            /\ Unreleased(k)' # {}
                            /\ \A d \in Unreleased(k)' : leaseOn'[d] = running'[k]
        OBVIOUS
      <3>3. Cardinality(Unreleased(k)) \in Nat BY UnreleasedFinite
      <3>4. /\ leases'[k] = Cardinality(Unreleased(k)')
            /\ Cardinality(Unreleased(k)') # 0
        BY <2>3, <2>6, <2>7, <3>2, <3>3
      <3>5. Cardinality({}) = 0 BY FS_EmptySet
      <3>6. \A d \in Unreleased(k)' : leaseOn'[d] = running'[k]
        BY <2>2, <2>3, <2>6, <2>7, <3>1, <3>2
      <3> QED BY <3>4, <3>5, <3>6
    <2>9. \A l \in Keys \ {k} : running[l] # None =>
            /\ leases[l] = Cardinality(Unreleased(l))
            /\ Unreleased(l) # {}
            /\ \A d \in Unreleased(l) : leaseOn'[d] = running[l]
      <3>1. \A l \in Keys \ {k} : c \notin Unreleased(l) BY <2>1 DEF Unreleased
      <3> QED BY <2>2, <3>1 DEF LeaseInv, LeasesCounted, Unreleased
    <2>10. LeasesCounted' BY <2>3, <2>5, <2>8, <2>9 DEF LeasesCounted
    <2> QED BY <2>4, <2>10 DEF LeaseInv
  <1>5. ASSUME NEW c \in Clients, ReleaseStops(c) \/ ReleaseReturns(c)
        PROVE  LeaseInv'
    <2>1. \A d \in Clients : pc'[d] \in Leasing <=> pc[d] \in Leasing
      BY <1>5 DEF ReleaseStops, ReleaseReturns, GoTo, Leasing, TypeOK
    <2>2. UNCHANGED registry
      BY <1>5 DEF ReleaseStops, ReleaseReturns
    <2> QED BY <2>1, <2>2, LeasesKept
  <1>6. CASE StopDrains
    <2>1. \A k \in Keys : Unreleased(k)' = Unreleased(k)
      BY <1>6 DEF StopDrains, Unreleased, callers
    <2>2. \A k \in Keys : running'[k] # None => running'[k] = running[k] /\ leases'[k] = leases[k]
      BY <1>6 DEF StopDrains, TypeOK
    <2> QED BY <1>6, <2>1, <2>2 DEF StopDrains, LeaseInv, LeaseKeys, LeasesCounted, callers
  <1>7. CASE \/ StopLocks \/ StopReturns \/ Tick \/ ServerChanges \/ UNCHANGED vars
             \/ \E k \in Keys : StopNext(k)
             \/ \E p \in Pollers : Poll(p)
    <2>1. UNCHANGED registry /\ UNCHANGED pc
      BY <1>7 DEF StopLocks, StopReturns, StopNext, Tick, ServerChanges, vars, callers,
                  Poll, PollFires, PollFetches, PollEnds
    <2> QED BY <2>1, LeasesKept
  <1> QED BY <1>1, <1>2, <1>3, <1>4, <1>5, <1>6, <1>7 DEF Next, Start, Stop
-----------------------------------------------------------------------------
(* Polls.                                                                  *)

LEMMA PollInit == Init => PollInv
  BY RegistryAssumption
  DEF Init, PollInv, Apart, InHand, Registered, BootedOnce, Owner, OthersStopped,
      StopWaits, NoPollLeftBehind, Drained

LEMMA RegisterPolls ==
    ASSUME TypeOK, PollInv, NEW c \in Clients, NEW k \in Keys, Register(c, k)
    PROVE  PollInv'
  <1>1. PICK p \in Pollers : p = newPoller /\ p \notin Referred
    BY NewPollerUnused DEF Register
  <1>2. /\ running[k] = None
        /\ running' = [running EXCEPT ![k] = p]
        /\ phase' = [phase EXCEPT ![p] = "fresh"]
        /\ stopped' = [stopped EXCEPT ![p] = FALSE]
        /\ mine' = [mine EXCEPT ![c] = p]
        /\ pc[c] = "out" /\ pc' = [pc EXCEPT ![c] = "owner"]
        /\ stopper = "idle" /\ stopper' = "idle"
    BY <1>1 DEF Register, GoTo, application
  <1>3. /\ p # None
        /\ \A l \in Keys : running[l] # p
        /\ \A d \in Clients : mine[d] # p
    BY <1>1, RegistryAssumption DEF Referred
  <1> USE DEF TypeOK, PollInv, InHand, Registered, Owner
  <1>4. Apart' BY <1>1, <1>2, <1>3 DEF Apart
  <1>5. BootedOnce' BY <1>1, <1>2, <1>3 DEF BootedOnce
  <1>6. OthersStopped'
    <2>1. ASSUME NEW q \in Pollers, ~stopped'[q], q # p
          PROVE  Registered(q)' \/ \E d \in Clients : pc'[d] = "stopping" /\ mine'[d] = q
      <3>1. CASE Registered(q)
        <4>1. PICK l \in Keys : running[l] = q BY <3>1
        <4> QED BY <1>2, <2>1, <4>1, RegistryAssumption
      <3>2. CASE \E d \in Clients : pc[d] = "stopping" /\ mine[d] = q
        BY <1>2, <3>2
      <3> QED BY <1>2, <2>1, <3>1, <3>2 DEF OthersStopped
    <2>2. Registered(p)' BY <1>2
    <2>3. \A d \in Clients : pc'[d] = "draining" => stopped'[mine'[d]]
      BY <1>2, <1>3 DEF OthersStopped
    <2> QED BY <2>1, <2>2, <2>3 DEF OthersStopped
  <1>7. StopWaits' BY <1>2 DEF StopWaits
  <1>8. NoPollLeftBehind'
    <2>1. ASSUME NEW q \in Pollers, ~Drained(q)', q # p
          PROVE  Registered(q)' \/ \E d \in Clients : mine'[d] = q /\ InHand(d)'
      <3>1. CASE Registered(q)
        <4>1. PICK l \in Keys : running[l] = q BY <3>1
        <4> QED BY <1>2, <2>1, <4>1, RegistryAssumption
      <3>2. CASE \E d \in Clients : mine[d] = q /\ InHand(d)
        BY <1>2, <3>2
      <3> QED BY <1>2, <2>1, <3>1, <3>2 DEF NoPollLeftBehind, Drained
    <2>2. Drained(p)' BY <1>1, <1>2 DEF Drained
    <2> QED BY <2>1, <2>2 DEF NoPollLeftBehind
  <1> QED BY <1>4, <1>5, <1>6, <1>7, <1>8

LEMMA BootPolls ==
    ASSUME TypeOK, PollInv, NEW c \in Clients,
           Boot(c) \/ BootRefused(c) \/ BootFetches(c) \/ GateOpens(c)
    PROVE  PollInv'
  <1> USE DEF TypeOK, PollInv, InHand, Registered, Owner, Return, GoTo, registry, application
  <1>1. CASE Boot(c)
    <2>1. mine[c] \in Pollers BY <1>1 DEF Boot, BootedOnce
    <2>2. Apart' /\ OthersStopped' /\ StopWaits'
      BY <1>1 DEF Boot, Apart, OthersStopped, StopWaits
    <2>3. BootedOnce' BY <1>1, <2>1 DEF Boot, BootedOnce
    <2>4. NoPollLeftBehind'
      BY <1>1, <2>1 DEF Boot, OthersStopped, NoPollLeftBehind, Drained
    <2> QED BY <2>2, <2>3, <2>4
  <1>2. CASE BootRefused(c) \/ GateOpens(c)
    <2>1. UNCHANGED <<running, phase, stopped, stopper, stopping>>
      BY <1>2 DEF BootRefused, GateOpens, polls
    <2>2. /\ pc[c] \in {"owner", "gated"}
          /\ pc' = [pc EXCEPT ![c] = "held"]
          /\ mine' = [mine EXCEPT ![c] = None]
      BY <1>2 DEF BootRefused, GateOpens
    <2>3. Apart' /\ OthersStopped' /\ StopWaits'
      BY <2>1, <2>2 DEF Apart, OthersStopped, StopWaits
    <2>4. BootedOnce' BY <2>1, <2>2 DEF BootedOnce
    <2>5. NoPollLeftBehind' BY <2>1, <2>2 DEF NoPollLeftBehind, Drained
    <2> QED BY <2>3, <2>4, <2>5
  <1>3. CASE BootFetches(c)
    <2>1. mine[c] \in Pollers /\ phase[mine[c]] = "booting"
      BY <1>3 DEF BootFetches, BootedOnce
    <2>2. Apart' /\ OthersStopped' /\ StopWaits'
      BY <1>3 DEF BootFetches, Apart, OthersStopped, StopWaits
    <2>3. BootedOnce' BY <1>3, <2>1 DEF BootFetches, BootedOnce
    <2>4. NoPollLeftBehind' BY <1>3, <2>1 DEF BootFetches, NoPollLeftBehind, Drained
    <2> QED BY <2>2, <2>3, <2>4
  <1> QED BY <1>1, <1>2, <1>3

LEMMA ReleasePolls ==
    ASSUME TypeOK, LeaseInv, PollInv, NEW c \in Clients,
           Release(c) \/ ReleaseStops(c) \/ ReleaseReturns(c)
    PROVE  PollInv'
  <1> USE DEF TypeOK, PollInv, InHand, Registered, Owner, GoTo, registry, application
  <1>1. CASE Release(c)
    <2>1. /\ pc[c] = "held" /\ key[c] \in Keys
          /\ stopper = "idle" /\ stopper' = "idle"
          /\ UNCHANGED <<phase, stopped>>
      BY <1>1 DEF Release, LeaseInv, LeaseKeys, Leasing, polls
    <2>2. CASE pc' = [pc EXCEPT ![c] = "out"] /\ UNCHANGED <<running, mine>>
      BY <2>1, <2>2 DEF Apart, BootedOnce, OthersStopped, StopWaits, NoPollLeftBehind, Drained
    <2>3. CASE /\ running[key[c]] # None
               /\ running' = [running EXCEPT ![key[c]] = None]
               /\ mine' = [mine EXCEPT ![c] = running[key[c]]]
               /\ pc' = [pc EXCEPT ![c] = "stopping"]
      <3>1. Apart' BY <2>1, <2>3 DEF Apart
      <3>2. BootedOnce' BY <2>1, <2>3 DEF BootedOnce
      <3>3. OthersStopped' BY <2>1, <2>3 DEF OthersStopped
      <3>4. NoPollLeftBehind' BY <2>1, <2>3 DEF NoPollLeftBehind, Drained
      <3> QED BY <2>1, <3>1, <3>2, <3>3, <3>4 DEF StopWaits
    <2> QED BY <1>1, <2>2, <2>3 DEF Release
  <1>2. CASE ReleaseStops(c)
    <2>1. mine[c] \in Pollers BY <1>2 DEF ReleaseStops, Apart
    <2>2. Apart' /\ BootedOnce' /\ StopWaits'
      BY <1>2, <2>1 DEF ReleaseStops, markStopped, Apart, BootedOnce, StopWaits
    <2>3. OthersStopped' BY <1>2, <2>1 DEF ReleaseStops, markStopped, OthersStopped
    <2>4. NoPollLeftBehind' BY <1>2 DEF ReleaseStops, NoPollLeftBehind, Drained
    <2> QED BY <2>2, <2>3, <2>4
  <1>3. CASE ReleaseReturns(c)
    <2>1. mine[c] \in Pollers /\ phase[mine[c]] \in {"fresh", "ended"}
      BY <1>3 DEF ReleaseReturns, Apart, Drained
    <2>2. Apart' /\ OthersStopped' /\ StopWaits'
      BY <1>3, <2>1 DEF ReleaseReturns, Apart, OthersStopped, StopWaits
    <2>3. BootedOnce' BY <1>3, <2>1 DEF ReleaseReturns, drop, BootedOnce
    <2>4. NoPollLeftBehind'
      BY <1>3, <2>1 DEF ReleaseReturns, drop, NoPollLeftBehind, Drained
    <2> QED BY <2>2, <2>3, <2>4
  <1> QED BY <1>1, <1>2, <1>3

LEMMA StopPolls ==
    ASSUME TypeOK, PollInv, Stop
    PROVE  PollInv'
  <1> USE DEF TypeOK, PollInv, InHand, Registered, Owner, registry, polls, callers
  <1>1. CASE StopLocks \/ StopReturns
    BY <1>1 DEF StopLocks, StopReturns, Apart, BootedOnce, OthersStopped, StopWaits,
                NoPollLeftBehind, Drained
  <1>2. ASSUME NEW k \in Keys, StopNext(k)
        PROVE  PollInv'
    <2>1. running[k] \in Pollers BY <1>2 DEF StopNext
    <2> QED BY <1>2, <2>1 DEF StopNext, markStopped, Apart, BootedOnce, OthersStopped,
                              StopWaits, NoPollLeftBehind, Drained
  <1>3. CASE StopDrains
    <2> DEFINE p == running[stopping]
    <2>1. /\ stopping \in Keys
          /\ p \in Pollers
          /\ stopped[p]
          /\ phase[p] \in {"fresh", "ended"}
      BY <1>3 DEF StopDrains, StopWaits, Drained
    <2>2. /\ running' = [running EXCEPT ![stopping] = None]
          /\ phase' = [phase EXCEPT ![p] = "ended"]
          /\ UNCHANGED <<stopped, pc, mine>>
          /\ stopper' = "locked"
      BY <1>3 DEF StopDrains, drop
    <2> HIDE DEF p
    <2>3. Apart' BY <2>1, <2>2 DEF Apart
    <2>4. BootedOnce' BY <2>1, <2>2 DEF BootedOnce
    <2>5. OthersStopped' BY <2>1, <2>2 DEF OthersStopped, p
    <2>6. StopWaits' BY <2>2 DEF StopWaits
    <2>7. NoPollLeftBehind' BY <2>1, <2>2 DEF NoPollLeftBehind, Drained, p
    <2> QED BY <2>3, <2>4, <2>5, <2>6, <2>7
  <1> QED BY <1>1, <1>2, <1>3 DEF Stop

LEMMA PollStep == TypeOK /\ LeaseInv /\ PollInv /\ [Next]_vars => PollInv'
  <1> SUFFICES ASSUME TypeOK, LeaseInv, PollInv, [Next]_vars
               PROVE  PollInv'
    OBVIOUS
  <1>1. ASSUME NEW c \in Clients, NEW k \in Keys, Join(c, k)
        PROVE  PollInv'
    BY <1>1 DEF Join, GoTo, polls, application, TypeOK, PollInv, Apart, InHand, Registered,
                BootedOnce, Owner, OthersStopped, StopWaits, NoPollLeftBehind, Drained
  <1>2. ASSUME NEW p \in Pollers, Poll(p)
        PROVE  PollInv'
    <2>1. /\ phase[p] \in {"waiting", "fetching"}
          /\ \A q \in Pollers \ {p} : phase'[q] = phase[q]
          /\ UNCHANGED <<running, stopped, pc, mine, stopper, stopping>>
      BY <1>2 DEF Poll, PollFires, PollFetches, PollEnds, TypeOK, registry, callers, application
    <2>2. Apart' /\ OthersStopped' /\ StopWaits'
      BY <2>1 DEF PollInv, Apart, InHand, Registered, OthersStopped, StopWaits
    <2>3. BootedOnce'
      BY <2>1 DEF PollInv, BootedOnce, Owner, TypeOK
    <2>4. NoPollLeftBehind'
      BY <2>1 DEF PollInv, NoPollLeftBehind, Drained
    <2> QED BY <2>2, <2>3, <2>4 DEF PollInv
  <1>3. CASE Tick \/ ServerChanges \/ UNCHANGED vars
    <2>1. UNCHANGED <<running, phase, stopped, pc, mine, stopper, stopping>>
      BY <1>3 DEF Tick, ServerChanges, vars, registry, polls, callers, application
    <2> QED BY <2>1 DEF PollInv, Apart, InHand, Registered, BootedOnce, Owner, OthersStopped,
                        StopWaits, NoPollLeftBehind, Drained
  <1> QED BY <1>1, <1>2, <1>3, RegisterPolls, BootPolls, ReleasePolls, StopPolls
          DEF Next, Start

-----------------------------------------------------------------------------
(* The theorems.                                                           *)

IInv == TypeOK /\ LeaseInv /\ PollInv

LEMMA IInvAlways == Spec => []IInv
  <1>1. Init => IInv BY TypeInit, LeaseInit, PollInit DEF IInv
  <1>2. IInv /\ [Next]_vars => IInv' BY TypeStep, LeaseStep, PollStep DEF IInv
  <1> QED BY <1>1, <1>2, PTL DEF Spec

\* The registry, its polls and its callers keep their types; the count of
\* leases never goes below zero (engine.go release).
THEOREM TypeCorrect == Spec => []TypeOK
  <1>1. IInv => TypeOK BY DEF IInv
  <1> QED BY <1>1, IInvAlways, PTL

\* A running poll counts exactly the leases nobody has released, through any
\* Start, Stop and Release (engine.go register, adopt, release, Stop).
THEOREM LeasesAreCounted == Spec => []LeasesCounted
  <1>1. IInv => LeasesCounted BY DEF IInv, LeaseInv
  <1> QED BY <1>1, IInvAlways, PTL

\* A poll under way is registered or in the hands of the Release that ends it
\* (poller.go begin and stop, engine.go Stop and release).
THEOREM NoPollIsLeftBehind == Spec => []NoPollLeftBehind
  <1>1. IInv => NoPollLeftBehind BY DEF IInv, PollInv
  <1> QED BY <1>1, IInvAlways, PTL

-----------------------------------------------------------------------------
(* What evaluateBlock decides.                                             *)

(* Two names are one when their parts are.                                    *)
NamedDates == Dates \cup {""}
LEMMA AnyNamesByParts ==
  ASSUME NEW m \in [routed: BOOLEAN, date: NamedDates, sep: {"-", "@"}, latest: BOOLEAN],
         NEW n \in [routed: BOOLEAN, date: NamedDates, sep: {"-", "@"}, latest: BOOLEAN],
         m.routed = n.routed, m.date = n.date, m.sep = n.sep, m.latest = n.latest
  PROVE  m = n
OBVIOUS

LEMMA NamesByParts ==
  ASSUME NEW m \in ModelNames, NEW n \in ModelNames,
         m.routed <=> n.routed, m.date = n.date, m.sep = n.sep, m.latest <=> n.latest
  PROVE  m = n
<1>1. /\ m \in [routed: BOOLEAN, date: NamedDates, sep: {"-", "@"}, latest: BOOLEAN]
      /\ n \in [routed: BOOLEAN, date: NamedDates, sep: {"-", "@"}, latest: BOOLEAN]
  BY DEF ModelNames, NamedDates
<1>2. m.routed = n.routed /\ m.latest = n.latest
  BY <1>1
<1> QED
  BY <1>1, <1>2, AnyNamesByParts

Unrouting(m) == [m EXCEPT !.routed = FALSE]
Unlatest(m) == [m EXCEPT !.latest = FALSE]
LEMMA NameChanges ==
  ASSUME NEW m \in ModelNames
  PROVE  /\ dashDated(m) \in ModelNames /\ Unrouting(m) \in ModelNames /\ Unlatest(m) \in ModelNames
         /\ dashDated(m).sep = "-" /\ dashDated(m).date = m.date
         /\ (dashDated(m).routed <=> m.routed) /\ (dashDated(m).latest <=> m.latest)
         /\ ~Unrouting(m).routed /\ Unrouting(m).date = m.date /\ Unrouting(m).sep = m.sep
         /\ (Unrouting(m).latest <=> m.latest)
         /\ ~Unlatest(m).latest /\ Unlatest(m).date = m.date /\ Unlatest(m).sep = m.sep
         /\ (Unlatest(m).routed <=> m.routed)
BY DEF ModelNames, dashDated, Unrouting, Unlatest

IsForm(m, n) == /\ n \in ModelNames /\ n.date = m.date /\ n.sep \in {m.sep, "-"}
                /\ (n.routed => m.routed) /\ (n.latest => m.latest)
LEMMA FormsOf ==
  ASSUME NEW m \in ModelNames, NEW n
  PROVE  n \in meteredModelForms(m) <=> IsForm(m, n)
<1> DEFINE unrouted == {m, Unrouting(m)}
           dashed   == unrouted \cup {dashDated(f) : f \in unrouted}
<1>1. meteredModelForms(m) = dashed \cup {Unlatest(f) : f \in dashed}
  BY DEF meteredModelForms, Unrouting, Unlatest
<1>2. dashed = {m, Unrouting(m), dashDated(m), dashDated(Unrouting(m))}
  OBVIOUS
<1>3. \A f \in dashed : IsForm(m, f)
  BY <1>2, NameChanges DEF IsForm
<1>4. \A f \in dashed : IsForm(m, Unlatest(f))
  BY <1>3, NameChanges DEF IsForm
<1>5. ASSUME IsForm(m, n) PROVE \E f \in dashed : n = f \/ n = Unlatest(f)
  <2>1. PICK f \in dashed : (f.routed <=> n.routed) /\ f.sep = n.sep
    BY <1>2, <1>5, NameChanges DEF IsForm
  <2>2. f \in ModelNames /\ f.date = m.date /\ (f.latest <=> m.latest) /\ Unlatest(f) \in ModelNames
    BY <1>2, NameChanges
  <2>3. n = f \/ n = Unlatest(f)
    BY <2>1, <2>2, <1>5, NamesByParts, NameChanges DEF IsForm
  <2> QED
    BY <2>3
<1> HIDE DEF dashed
<1> QED
  BY <1>1, <1>3, <1>4, <1>5

(* The names a platform may meter a call under, by their parts.               *)
IsMetered(m, n) == /\ n \in ModelNames /\ ~n.routed /\ n.sep = "-"
                   /\ \/ n.date = m.date /\ (n.latest <=> m.latest)
                      \/ m.date = "" /\ ~n.latest
LEMMA MeteredNames ==
  ASSUME NEW m \in ModelNames, NEW n
  PROVE  n \in MayBeMetered(m) <=> IsMetered(m, n)
<1> DEFINE base == dashDated(Unrouting(m))
           Dated(d) == [base EXCEPT !.date = d, !.latest = FALSE]
<1>1. MayBeMetered(m) = {base} \cup IF base.date # "" THEN {} ELSE {Dated(d) : d \in Dates \cup {""}}
  BY DEF MayBeMetered, Unrouting
<1>2. base \in ModelNames /\ ~base.routed /\ base.sep = "-" /\ base.date = m.date /\ (base.latest <=> m.latest)
  BY NameChanges
<1>3. \A d \in Dates \cup {""} :
        Dated(d) \in ModelNames /\ ~Dated(d).routed /\ Dated(d).sep = "-" /\ Dated(d).date = d /\ ~Dated(d).latest
  BY <1>2 DEF ModelNames
<1> HIDE DEF base, Dated
<1>4. IsMetered(m, base) /\ \A d \in Dates \cup {""} : base.date = "" => IsMetered(m, Dated(d))
  BY <1>2, <1>3 DEF IsMetered
<1>5. ASSUME IsMetered(m, n), n.date = m.date, n.latest <=> m.latest PROVE n = base
  BY <1>2, <1>5, NamesByParts DEF IsMetered
<1>6. ASSUME IsMetered(m, n), m.date = "", ~n.latest PROVE n = Dated(n.date) /\ n.date \in Dates \cup {""}
  <2>1. n.date \in Dates \cup {""}
    BY <1>6 DEF IsMetered, ModelNames
  <2>2. /\ Dated(n.date) \in ModelNames /\ ~Dated(n.date).routed /\ Dated(n.date).sep = "-"
        /\ Dated(n.date).date = n.date /\ ~Dated(n.date).latest
    BY <1>3, <2>1
  <2>3. n \in ModelNames /\ ~n.routed /\ n.sep = "-"
    BY <1>6 DEF IsMetered
  <2>4. n = Dated(n.date)
    BY <1>6, <2>2, <2>3, NamesByParts
  <2> QED
    BY <2>1, <2>4
<1> QED
  BY <1>1, <1>2, <1>4, <1>5, <1>6 DEF IsMetered

(* The dashed spelling of a name with its own snapshot.                       *)
LEMMA Snapshots ==
  ASSUME NEW m \in ModelNames
  PROVE  /\ modelCarriesSnapshot(dashDated(m)) <=> m.date # ""
         /\ \A d \in modelSnapshotTail(m) : d \in Dates /\ d = m.date
         /\ m.date # "" /\ m.sep = "-" => m.date \in modelSnapshotTail(m)
<1>1. m.date \in Dates \cup {""}
  BY DEF ModelNames
<1>2. modelCarriesSnapshot(dashDated(m)) <=> m.date # ""
  BY NameChanges DEF modelCarriesSnapshot
<1>3. modelSnapshotTail(m) = IF m.date # "" /\ m.sep = "-" THEN {m.date} ELSE {}
  BY DEF modelCarriesSnapshot, modelSnapshotTail
<1> QED
  BY <1>1, <1>2, <1>3

Putting(f, d) == [f EXCEPT !.date = d]
IsCandidate(m, E, n) ==
  \/ IsForm(m, n)
  \/ \E f \in ModelNames, v \in E : /\ IsForm(m, f) /\ f.date = "" /\ ~f.latest
                                 /\ v.date # "" /\ v.sep = "-" /\ n = Putting(f, v.date)
LEMMA Candidates ==
  ASSUME NEW m \in ModelNames, NEW E \in SUBSET ModelNames, NEW n
  PROVE  n \in meteredModelCandidates(m, E) <=> IsCandidate(m, E, n)
<1> DEFINE open  == {g \in meteredModelForms(m) : g.date = "" /\ ~g.latest}
           tails == UNION {modelSnapshotTail(v) : v \in E}
<1>1. meteredModelCandidates(m, E) = meteredModelForms(m) \cup {Putting(f, d) : f \in open, d \in tails}
  BY DEF meteredModelCandidates, Putting
<1>2. \A f : f \in open <=> IsForm(m, f) /\ f.date = "" /\ ~f.latest
  BY FormsOf
<1>3. \A d : d \in tails <=> \E v \in E : v.date # "" /\ v.sep = "-" /\ d = v.date
  BY DEF modelSnapshotTail, modelCarriesSnapshot
<1> HIDE DEF open, tails
<1>4. n \in {Putting(f, d) : f \in open, d \in tails} <=> \E f \in open, d \in tails : n = Putting(f, d)
  OBVIOUS
<1>5. \A f : IsForm(m, f) => f \in ModelNames
  BY DEF IsForm
<1>6. n \in meteredModelCandidates(m, E) <=> IsForm(m, n) \/ \E f \in open, d \in tails : n = Putting(f, d)
  BY <1>1, <1>4, FormsOf
<1>7. ASSUME NEW f \in open, NEW d \in tails, n = Putting(f, d)
      PROVE  \E g \in ModelNames, v \in E : /\ IsForm(m, g) /\ g.date = "" /\ ~g.latest
                                         /\ v.date # "" /\ v.sep = "-" /\ n = Putting(g, v.date)
  <2>1. PICK v \in E : v.date # "" /\ v.sep = "-" /\ d = v.date
    BY <1>3
  <2>2. f \in ModelNames /\ IsForm(m, f) /\ f.date = "" /\ ~f.latest
    BY <1>2, <1>5
  <2> QED
    BY <1>7, <2>1, <2>2
<1>8. ASSUME NEW f \in ModelNames, NEW v \in E, IsForm(m, f), f.date = "", ~f.latest,
             v.date # "", v.sep = "-", n = Putting(f, v.date)
      PROVE  \E g \in open, d \in tails : n = Putting(g, d)
  <2>1. f \in open /\ v.date \in tails
    BY <1>2, <1>3, <1>8
  <2> QED
    BY <1>8, <2>1
<1> QED
  BY <1>6, <1>7, <1>8 DEF IsCandidate

DashDated(E) == {dashDated(v) : v \in E}
(* A candidate that a filter names is, dashed, a name the call may be metered  *)
(* under; and every such name is a candidate for its dashed spelling.          *)
LEMMA CandidatesAreMetered ==
  ASSUME NEW m \in ModelNames, NEW E \in SUBSET Unrouted, NEW n \in meteredModelCandidates(m, E) \cap E
  PROVE  dashDated(n) \in MayBeMetered(m)
<1>0. E \in SUBSET ModelNames /\ n \in ModelNames /\ ~n.routed
  BY DEF Unrouted
<1>1. dashDated(n) \in ModelNames /\ ~dashDated(n).routed /\ dashDated(n).sep = "-"
      /\ dashDated(n).date = n.date /\ (dashDated(n).latest <=> n.latest)
  BY <1>0, NameChanges
<1>2. CASE IsForm(m, n)
  <2>1. m.date # "" => ~m.latest
    BY DEF ModelNames
  <2>2. IsMetered(m, dashDated(n))
    BY <1>1, <1>2, <2>1 DEF IsForm, IsMetered
  <2> QED
    BY <2>2, MeteredNames
<1>3. ASSUME NEW f \in ModelNames, NEW v \in E, IsForm(m, f), f.date = "", ~f.latest, v.date # "", v.sep = "-",
             n = Putting(f, v.date)
      PROVE  dashDated(n) \in MayBeMetered(m)
  <2>1. ~n.latest /\ m.date = ""
    BY <1>3 DEF IsForm, Putting, ModelNames
  <2>2. IsMetered(m, dashDated(n))
    BY <1>1, <2>1 DEF IsMetered
  <2> QED
    BY <2>2, MeteredNames
<1>4. n \in meteredModelCandidates(m, E)
  OBVIOUS
<1>5. IsCandidate(m, E, n)
  BY <1>0, <1>4, Candidates
<1> QED
  BY <1>2, <1>3, <1>5 DEF IsCandidate

LEMMA MeteredAreCandidates ==
  ASSUME NEW m \in ModelNames, NEW E \in SUBSET ModelNames, NEW n \in MayBeMetered(m) \cap E
  PROVE  n \in meteredModelCandidates(m, E)
<1>1. IsMetered(m, n)
  BY MeteredNames
<1>2. CASE n.date = m.date
  <2>1. IsForm(m, n)
    BY <1>1, <1>2 DEF IsMetered, IsForm
  <2> QED
    BY <2>1, Candidates DEF IsCandidate
<1>3. CASE n.date # m.date
  <2> DEFINE f == Unlatest(Unrouting(m))
  <2>1. m.date = "" /\ ~n.latest /\ n \in ModelNames /\ n.sep = "-" /\ ~n.routed
    BY <1>1, <1>3 DEF IsMetered
  <2>0. Unrouting(m) \in ModelNames /\ ~Unrouting(m).routed /\ Unrouting(m).date = "" /\ Unrouting(m).sep = m.sep
    BY <2>1, NameChanges
  <2>2. f \in ModelNames /\ ~f.routed /\ f.date = "" /\ f.sep = m.sep /\ ~f.latest
    BY <2>0, NameChanges
  <2>3. m.sep = "-"
    BY <2>1 DEF ModelNames
  <2>4. Putting(f, n.date) \in ModelNames /\ ~Putting(f, n.date).routed /\ Putting(f, n.date).date = n.date
        /\ Putting(f, n.date).sep = "-" /\ ~Putting(f, n.date).latest
    BY <2>1, <2>2, <2>3 DEF ModelNames, Putting
  <2>5. IsForm(m, f)
    BY <2>1, <2>2 DEF IsForm
  <2> HIDE DEF f
  <2>6. n = Putting(f, n.date)
    BY <2>1, <2>4, NamesByParts
  <2>7. n.date # ""
    BY <1>3, <2>1
  <2> QED
    BY <2>1, <2>2, <2>5, <2>6, <2>7, Candidates DEF IsCandidate
<1> QED
  BY <1>2, <1>3

LEMMA InclusionMatches ==
  ASSUME NEW m \in ModelNames, NEW E \in SUBSET Unrouted, NEW operator, operator # "IS_NOT"
  PROVE  modelMatches(m, operator, E) <=> MayBeMetered(m) \cap DashDated(E) # {}
<1>1. modelMatches(m, operator, E) <=> \/ meteredModelCandidates(m, E) \cap E # {}
                                     \/ meteredModelCandidates(m, DashDated(E)) \cap DashDated(E) # {}
  BY DEF modelMatches, filterSpellings, DashDated
<1>2. DashDated(E) \in SUBSET Unrouted /\ \A n \in DashDated(E) : dashDated(n) = n
  <2>1. ASSUME NEW v \in E
        PROVE  dashDated(v) \in Unrouted /\ dashDated(dashDated(v)) = dashDated(v)
    <3>1. dashDated(v) \in ModelNames /\ dashDated(v).sep = "-" /\ ~dashDated(v).routed
      BY NameChanges DEF Unrouted
    <3>2. dashDated(dashDated(v)) = dashDated(v)
      BY <3>1, NameChanges, NamesByParts
    <3> QED
      BY <3>1, <3>2 DEF Unrouted
  <2> QED
    BY <2>1 DEF DashDated
<1>3. ASSUME NEW n \in meteredModelCandidates(m, E) \cap E PROVE MayBeMetered(m) \cap DashDated(E) # {}
  BY CandidatesAreMetered DEF DashDated
<1>4. ASSUME NEW n \in meteredModelCandidates(m, DashDated(E)) \cap DashDated(E)
      PROVE  MayBeMetered(m) \cap DashDated(E) # {}
  <2>1. dashDated(n) \in MayBeMetered(m)
    BY <1>2, CandidatesAreMetered
  <2> QED
    BY <1>2, <2>1
<1>5. ASSUME NEW n \in MayBeMetered(m) \cap DashDated(E)
      PROVE  n \in meteredModelCandidates(m, DashDated(E))
  BY <1>2, MeteredAreCandidates DEF Unrouted
<1> QED
  BY <1>1, <1>3, <1>4, <1>5

LEMMA ExclusionMatches ==
  ASSUME NEW m \in ModelNames, NEW v \in Unrouted
  PROVE  modelMatches(m, "IS_NOT", {v}) <=> \E n \in MayBeMetered(m) : n # dashDated(v)
<1> DEFINE d == dashDated(v)
<1>1. d \in ModelNames /\ ~d.routed /\ d.sep = "-"
  BY NameChanges DEF Unrouted
<1>2. (CHOOSE k \in {v} : TRUE) = v
  OBVIOUS
<1>3. modelMatches(m, "IS_NOT", {v}) <=> m.date = "" \/ ~IsForm(m, d)
  BY <1>2, FormsOf, Snapshots DEF modelMatches
<1> HIDE DEF d
<1>4. CASE m.date = ""
  <2>1. PICK e \in Dates : e # ""
    BY DatesAssumption
  <2> DEFINE plain == Unlatest(dashDated(Unrouting(m)))
             dated == Putting(plain, e)
  <2>0. dashDated(Unrouting(m)) \in ModelNames /\ ~dashDated(Unrouting(m)).routed
        /\ dashDated(Unrouting(m)).date = "" /\ dashDated(Unrouting(m)).sep = "-"
    <3>1. Unrouting(m) \in ModelNames /\ ~Unrouting(m).routed /\ Unrouting(m).date = ""
      BY <1>4, NameChanges
    <3> QED
      BY <3>1, NameChanges
  <2>2. plain \in ModelNames /\ ~plain.routed /\ plain.sep = "-" /\ plain.date = "" /\ ~plain.latest
    BY <2>0, NameChanges
  <2>3. dated \in ModelNames /\ ~dated.routed /\ dated.sep = "-" /\ dated.date = e /\ ~dated.latest
    BY <2>1, <2>2 DEF Putting, ModelNames
  <2> HIDE DEF plain, dated
  <2>4. plain \in MayBeMetered(m) /\ dated \in MayBeMetered(m) /\ plain # dated
    BY <1>4, <2>1, <2>2, <2>3, MeteredNames DEF IsMetered
  <2> QED
    BY <1>3, <1>4, <2>4
<1>5. CASE m.date # ""
  <2> DEFINE base == dashDated(Unrouting(m))
  <2>1. base \in ModelNames /\ ~base.routed /\ base.sep = "-" /\ base.date = m.date /\ (base.latest <=> m.latest)
    BY NameChanges
  <2> HIDE DEF base
  <2>2. ~m.latest
    BY <1>5 DEF ModelNames
  <2>3. \A n \in MayBeMetered(m) : n = base
    BY <1>5, <2>1, MeteredNames, NamesByParts DEF IsMetered
  <2>4. base \in MayBeMetered(m)
    BY <2>1, MeteredNames DEF IsMetered
  <2>5. IsForm(m, d) => d = base
    BY <1>1, <2>1, <2>2, NamesByParts DEF IsForm
  <2>6. IsForm(m, base)
    BY <2>1 DEF IsForm
  <2> QED
    BY <1>3, <1>5, <2>3, <2>4, <2>5, <2>6 DEF d
<1> QED
  BY <1>4, <1>5

(* ------------------------------ what is decided ---------------------------- *)
Decided == check \in Checks \cup ModelChecks /\ verdict \in {""} \cup Verdicts(check)
LEMMA AnyDecisionIsOurs == EvalSpec => []Decided
<1>1. EvalInit => Decided
  BY DEF EvalInit, Decided
<1>2. Decided /\ [Decide]_evalVars => Decided'
  <2> SUFFICES ASSUME Decided, [Decide]_evalVars PROVE Decided'
    OBVIOUS
  <2>1. CASE Decide
    BY <2>1 DEF Decide, Decided
  <2>2. CASE UNCHANGED evalVars
    BY <2>2 DEF evalVars, Decided
  <2> QED
    BY <2>1, <2>2
<1> QED
  BY <1>1, <1>2, PTL DEF EvalSpec

LEMMA CountsEither ==
  ASSUME NEW f, NEW name
  PROVE  /\ f.operator # "IS_NOT" => (Counts(f, name) <=> name \in DashDated(f.stands))
         /\ f.operator = "IS_NOT" => (Counts(f, name) <=> name \notin DashDated(f.stands))
BY DEF Counts, DashDated

LEMMA AboutAModel ==
  ASSUME Decided, check.about = "model", verdict # "", check.filter.stands # {}
  PROVE  verdict = "covered" <=> \E name \in MayBeMetered(check.name) : Counts(check.filter, name)
<1> DEFINE m == check.name
           f == check.filter
           E == f.stands
<1>1. check \in ModelChecks
  BY DEF Decided, Checks
<1>2. /\ m \in ModelNames /\ f.dimension = "MODEL" /\ E \in SUBSET Unrouted
      /\ f.operator \in {"IS", "IN", "IS_NOT"} /\ (f.operator = "IS_NOT" => \E v \in Unrouted : E = {v})
  BY <1>1 DEF ModelChecks
<1>3. verdict = (IF matches(f, [model |-> m, dated |-> TRUE]) THEN "covered" ELSE "not covered")
  BY DEF Decided, Verdicts
<1>4. matches(f, [model |-> m, dated |-> TRUE]) <=> modelMatches(m, f.operator, E)
  BY <1>2 DEF matches, evaluable
<1> HIDE DEF m, f
<1>6. CASE f.operator # "IS_NOT"
  BY <1>2, <1>3, <1>4, <1>6, CountsEither, InclusionMatches DEF m, f
<1>7. CASE f.operator = "IS_NOT"
  <2>1. PICK v \in Unrouted : E = {v}
    BY <1>2, <1>7
  <2>2. \A name : name \in DashDated(E) <=> name = dashDated(v)
    BY <2>1 DEF DashDated
  <2>3. modelMatches(m, "IS_NOT", {v}) <=> \E name \in MayBeMetered(m) : name # dashDated(v)
    BY <1>2, ExclusionMatches
  <2>4. \A name : Counts(f, name) <=> name # dashDated(v)
    BY <1>7, <2>2, CountsEither
  <2>5. verdict = "covered" <=> modelMatches(m, "IS_NOT", {v})
    BY <1>3, <1>4, <1>7, <2>1
  <2> QED
    BY <2>3, <2>4, <2>5 DEF m, f
<1> QED
  BY <1>6, <1>7 DEF m, f

(* A filter on the model covers what the platform may count against it.        *)
THEOREM ModelFiltersCoverWhatIsCounted == EvalSpec => []ModelFilterCoversWhatIsCounted
<1>1. Decided => ModelFilterCoversWhatIsCounted
  BY AboutAModel DEF ModelFilterCoversWhatIsCounted
<1> QED
  BY <1>1, AnyDecisionIsOurs, PTL

LEMMA PartsOfAPeopleCheck ==
  ASSUME NEW c \in Checks
  PROVE  /\ c.rules \in RuleLists /\ c.world \in Worlds /\ c.call \in PeopleCalls
         /\ c.call.model \in ModelNames /\ c.call.dated
         /\ \A i \in DOMAIN c.rules : IsShape(c.rules[i]) /\ \A f \in c.rules[i].filters : IsFilter(f)
<1>1. c.rules \in RuleLists /\ c.world \in Worlds /\ c.call \in PeopleCalls
  BY DEF Checks
<1>2. c.call.model \in ModelNames /\ c.call.dated
  BY <1>1, ModelsAssumption DEF PeopleCalls
<1>3. \A i \in DOMAIN c.rules : IsShape(c.rules[i])
  BY <1>1, RulesAssumption
<1> QED
  BY <1>1, <1>2, <1>3 DEF IsShape

(* A rule covers a call exactly when the call is in the scope of its filters.  *)
LEMMA FiltersMatchTheirScope ==
  ASSUME NEW c \in Checks, NEW f, IsFilter(f)
  PROVE  matches(f, c.call) <=> InScope(c, f)
<1>1. CASE f.dimension # "MODEL"
  BY <1>1 DEF matches, InScope
<1>2. CASE f.dimension = "MODEL" /\ f.stands = {}
  BY <1>2 DEF matches, InScope
<1>3. CASE f.dimension = "MODEL" /\ f.stands # {}
  <2> DEFINE m == c.call.model
             E == f.stands
  <2>1. m \in ModelNames /\ E \in SUBSET Unrouted /\ (f.operator = "IS_NOT" => \A v \in E : E = {v})
    BY <1>3, PartsOfAPeopleCheck DEF IsFilter
  <2>2. matches(f, c.call) <=> evaluable(f) /\ modelMatches(m, f.operator, E)
    BY <1>3, PartsOfAPeopleCheck DEF matches
  <2>3. InScope(c, f) <=> evaluable(f) /\ \E name \in MayBeMetered(m) : Counts(f, name)
    BY <1>3 DEF InScope
  <2> HIDE DEF m
  <2>4. CASE f.operator # "IS_NOT"
    <3>1. modelMatches(m, f.operator, E) <=> MayBeMetered(m) \cap DashDated(E) # {}
      BY <2>1, <2>4, InclusionMatches
    <3> QED
      BY <2>2, <2>3, <2>4, <3>1, CountsEither
  <2>5. CASE f.operator = "IS_NOT"
    <3>1. PICK v \in Unrouted : E = {v}
      BY <1>3, <2>1, <2>5
    <3>2. \A name : name \in DashDated(E) <=> name = dashDated(v)
      BY <3>1 DEF DashDated
    <3>3. modelMatches(m, f.operator, E) <=> \E name \in MayBeMetered(m) : name # dashDated(v)
      BY <2>1, <2>5, <3>1, ExclusionMatches
    <3>4. \A name : Counts(f, name) <=> name # dashDated(v)
      BY <2>5, <3>2, CountsEither
    <3> QED
      BY <2>2, <2>3, <3>3, <3>4
  <2> QED
    BY <2>4, <2>5
<1> QED
  BY <1>1, <1>2, <1>3

(* Of whom the platform tells in a rule: the caller's own entry, or none.       *)
LEMMA BreachesAreTheCallers ==
  ASSUME NEW c \in Checks, NEW i \in DOMAIN c.rules
  PROVE  LET r == Compiled(c.rules[i], c.world) IN
         /\ c.rules[i].groupBy \notin {"SUBSCRIBER", "DEPARTMENT"} => (breachFor(r, c.call) <=> c.world.over # {})
         /\ c.rules[i].groupBy = "SUBSCRIBER" /\ ~c.world.detailed =>
              (breachFor(r, c.call) <=> ~c.rules[i].cost /\ c.world.over # {})
         /\ c.rules[i].groupBy = "SUBSCRIBER" /\ c.world.detailed =>
              /\ breachFor(r, c.call) => "me" \in c.world.over
              /\ TellsOfMe(c) /\ "me" \in c.world.over => breachFor(r, c.call)
<1> DEFINE w == c.world
           shape == c.rules[i]
           r == Compiled(shape, w)
           entries == {[key |-> KeyOf(who, w), breached |-> who \in w.over] : who \in {"me", "other"}}
<1>1. /\ w.over \in SUBSET {"me", "other"} /\ w.detailed \in BOOLEAN /\ w.filedById \in BOOLEAN
      /\ c.call.id \in {"", "u1"} /\ c.call.email \in {"", "e1", "E1"}
  BY PartsOfAPeopleCheck DEF Worlds, PeopleCalls
<1>2. /\ r.groupBy = shape.groupBy /\ (r.cost <=> shape.cost)
      /\ shape.groupBy # "DEPARTMENT" => (r.breached <=> w.over # {})
      /\ r.breakdown = IF shape.groupBy = "SUBSCRIBER" /\ w.detailed THEN entries ELSE {}
  BY DEF Compiled, isDepartmentRule
<1> HIDE DEF r
<1>3. CASE shape.groupBy \notin {"SUBSCRIBER", "DEPARTMENT"}
  BY <1>2, <1>3 DEF breachFor, r
<1>4. CASE shape.groupBy = "SUBSCRIBER" /\ ~w.detailed
  BY <1>2, <1>4 DEF breachFor, r
<1>5. CASE shape.groupBy = "SUBSCRIBER" /\ w.detailed
  <2> DEFINE own == [key |-> KeyOf("me", w), breached |-> "me" \in w.over]
             others == [key |-> "u2", breached |-> "other" \in w.over]
  <2>1. entries = {own, others}
    BY DEF KeyOf
  <2>2. breachFor(r, c.call) <=> \E e \in groupEntryFor(r, c.call) : e.breached
    BY <1>2, <1>5, <2>1 DEF breachFor
  <2> DEFINE Under(k) == {e \in r.breakdown : e.key = k /\ k # ""}
             email == normalizeEmail(c.call.email)
  <2>6. groupEntryFor(r, c.call) = IF Under(c.call.id) # {} THEN Under(c.call.id) ELSE Under(email)
    BY DEF groupEntryFor
  <2>7. /\ own.key = (IF w.filedById THEN "u1" ELSE "e1") /\ others.key = "u2"
        /\ r.breakdown = {own, others}
    BY <1>2, <1>5, <2>1 DEF KeyOf
  <2>8. email \in {"", "e1"} /\ (TellsOfMe(c) <=> IF w.filedById THEN c.call.id = "u1" ELSE email = "e1")
    BY <1>1, <1>5 DEF normalizeEmail, TellsOfMe
  <2> HIDE DEF own, others, email
  <2>9. \A k : k # "u2" => Under(k) = IF k # "" /\ k = own.key THEN {own} ELSE {}
    BY <2>7
  <2> HIDE DEF Under
  <2>3. \A e : e \in groupEntryFor(r, c.call) => e = own
    <3>1. c.call.id # "u2" /\ email # "u2"
      BY <1>1, <2>8
    <3>2. ASSUME NEW k, k # "u2", NEW e \in Under(k) PROVE e = own
      <4>1. Under(k) = IF k # "" /\ k = own.key THEN {own} ELSE {}
        BY <2>9, <3>2
      <4> QED
        BY <4>1
    <3> QED
      BY <3>1, <3>2, <2>6
  <2>4. TellsOfMe(c) => own \in groupEntryFor(r, c.call)
    <3>1. CASE w.filedById
      BY <3>1, <2>6, <2>7, <2>8, <2>9
    <3>2. CASE ~w.filedById
      <4>1. own.key = "e1" /\ Under(c.call.id) = {}
        BY <1>1, <3>2, <2>7, <2>9
      <4> QED
        BY <3>2, <4>1, <2>6, <2>8, <2>9
    <3> QED
      BY <3>1, <3>2
  <2>5. own.breached <=> "me" \in w.over
    BY DEF own
  <2> QED
    BY <1>5, <2>2, <2>3, <2>4, <2>5 DEF r
<1> QED
  BY <1>3, <1>4, <1>5 DEF r

(* A department stops its own members, who give an address.                    *)
LEMMA PutUnderAnAddress ==
  ASSUME NEW entries, NEW f \in putFirst(entries), NEW email \in DOMAIN f
  PROVE  email # "" /\ \E e \in entries : normalizeEmail(e.email) = email
BY DEF putFirst

LEMMA DepartmentsStopTheirOwn ==
  ASSUME NEW c \in Checks, NEW rs \in decodeRuleSet(Publish(c.rules, c.world, c.scoped)),
         departmentBlock(rs, c.call)
  PROVE  "me" \in c.world.department /\ c.call.email # ""
<1> DEFINE w == c.world
           published == Publish(c.rules, w, c.scoped)
           email == normalizeEmail(c.call.email)
<1>1. rs.blocks \in putFirst(published.blocks) /\ rs.candidates \in putFirst(published.candidates)
  BY DEF decodeRuleSet
<1>2. email \in DOMAIN rs.candidates \/ email \in DOMAIN rs.blocks
  BY DEF departmentBlock
<1>3. \A e : e \in published.blocks \/ e \in published.candidates =>
        \E who \in w.department : e.email \in Mails(who)
  BY DEF Publish
<1> HIDE DEF published
<1>4. PICK e : /\ e \in published.blocks \/ e \in published.candidates
               /\ normalizeEmail(e.email) = email /\ email # ""
  BY <1>1, <1>2, PutUnderAnAddress
<1>5. PICK who \in w.department : e.email \in Mails(who)
  BY <1>3, <1>4
<1>6. c.call.email \in {"", "e1", "E1"} /\ w.department \in SUBSET {"me", "other"}
  BY PartsOfAPeopleCheck DEF Worlds, PeopleCalls
<1>7. who = "me"
  BY <1>4, <1>5, <1>6 DEF Mails, normalizeEmail
<1> QED
  BY <1>4, <1>5, <1>6, <1>7 DEF normalizeEmail

LEMMA RulesThatStop ==
  ASSUME NEW c \in Checks, NEW rs \in decodeRuleSet(Publish(c.rules, c.world, c.scoped))
  PROVE  (\E i \in DOMAIN rs.rules : stopsAt(rs.rules[i], c.call))
           <=> \E i \in Enforced(c) : /\ c.rules[i].groupBy # "DEPARTMENT"
                                     /\ breachFor(Compiled(c.rules[i], c.world), c.call)
<1>1. rs.rules = [i \in DOMAIN c.rules |-> Compiled(c.rules[i], c.world)]
  <2>1. rs.rules = Publish(c.rules, c.world, c.scoped).rules
    BY DEF decodeRuleSet
  <2> QED
    BY <2>1 DEF Publish
<1>2. ASSUME NEW i \in DOMAIN c.rules
      PROVE  stopsAt(rs.rules[i], c.call) <=>
               /\ i \in Enforced(c) /\ c.rules[i].groupBy # "DEPARTMENT"
               /\ breachFor(Compiled(c.rules[i], c.world), c.call)
  <2> DEFINE r == Compiled(c.rules[i], c.world)
  <2>1. rs.rules[i] = r
    BY <1>1
  <2>2. r.groupBy = c.rules[i].groupBy /\ r.action = c.rules[i].action /\ r.filters = c.rules[i].filters
    BY DEF Compiled
  <2> HIDE DEF r
  <2>3. covers(r, c.call) <=> \A f \in c.rules[i].filters : InScope(c, f)
    BY <2>2, PartsOfAPeopleCheck, FiltersMatchTheirScope DEF covers
  <2>4. i \in Enforced(c) <=> r.action = "block" /\ covers(r, c.call)
    BY <2>2, <2>3 DEF Enforced
  <2>5. stopsAt(r, c.call) <=> /\ r.groupBy # "DEPARTMENT" /\ covers(r, c.call) /\ breachFor(r, c.call)
                              /\ r.action = "block"
    BY DEF stopsAt, isDepartmentRule, isObservationOnly
  <2> QED
    BY <2>1, <2>2, <2>4, <2>5 DEF r
<1> QED
  BY <1>1, <1>2 DEF Enforced

LEMMA AboutPeople ==
  ASSUME Decided, check.about = "people", verdict # ""
  PROVE  StopsTheOverspent
<1>1. check \in Checks
  BY DEF Decided, ModelChecks
<1>2. PICK rs \in decodeRuleSet(Publish(check.rules, check.world, check.scoped)) : verdict = evaluate(rs, check.call)
  BY DEF Decided, Verdicts
<1> DEFINE Breached(i) == breachFor(Compiled(check.rules[i], check.world), check.call)
<1>3. verdict = "block" <=> \/ departmentBlock(rs, check.call)
                            \/ \E i \in Enforced(check) : check.rules[i].groupBy # "DEPARTMENT" /\ Breached(i)
  BY <1>1, <1>2, RulesThatStop DEF evaluate
<1>4. departmentBlock(rs, check.call) => "me" \in check.world.department /\ check.call.email # ""
  BY <1>1, <1>2, DepartmentsStopTheirOwn
<1>5. \A i \in Enforced(check) : i \in DOMAIN check.rules
  BY DEF Enforced
<1>6. \A i \in OnTheTeam(check) : Breached(i) <=> check.world.over # {}
  BY <1>1, <1>5, BreachesAreTheCallers DEF OnTheTeam
<1>7. ASSUME NEW i \in OnAPerson(check)
      PROVE  /\ ~check.world.detailed => (Breached(i) <=> ~check.rules[i].cost /\ check.world.over # {})
             /\ check.world.detailed /\ Breached(i) => "me" \in check.world.over
             /\ check.world.detailed /\ TellsOfMe(check) /\ "me" \in check.world.over => Breached(i)
  BY <1>1, <1>5, BreachesAreTheCallers DEF OnAPerson
<1>8. TellsOfMe(check) => check.world.detailed
  BY DEF TellsOfMe
<1>9. \A i : /\ i \in OnTheTeam(check) <=> /\ i \in Enforced(check)
                                          /\ check.rules[i].groupBy \notin {"SUBSCRIBER", "DEPARTMENT"}
             /\ i \in OnAPerson(check) <=> i \in Enforced(check) /\ check.rules[i].groupBy = "SUBSCRIBER"
  BY DEF OnTheTeam, OnAPerson
<1> HIDE DEF Breached
<1>10. verdict = "block" =>
         \/ OnTheTeam(check) # {} /\ check.world.over # {}
         \/ OnAPerson(check) # {} /\ "me" \in check.world.over
         \/ "me" \in check.world.department /\ check.call.email # ""
         \/ check.world.over # {} /\ ~check.world.detailed /\ \E i \in OnAPerson(check) : ~check.rules[i].cost
  <2> SUFFICES ASSUME verdict = "block", ~departmentBlock(rs, check.call)
               PROVE  \/ OnTheTeam(check) # {} /\ check.world.over # {}
                      \/ OnAPerson(check) # {} /\ "me" \in check.world.over
                      \/ check.world.over # {} /\ ~check.world.detailed /\ \E i \in OnAPerson(check) : ~check.rules[i].cost
    BY <1>4
  <2>1. PICK i \in Enforced(check) : check.rules[i].groupBy # "DEPARTMENT" /\ Breached(i)
    BY <1>3
  <2>2. CASE i \in OnTheTeam(check)
    BY <2>1, <2>2, <1>6
  <2>3. CASE i \in OnAPerson(check)
    <3>1. CASE check.world.detailed
      <4>1. "me" \in check.world.over
        BY <2>1, <2>3, <3>1, <1>7
      <4> QED
        BY <2>3, <4>1
    <3>2. CASE ~check.world.detailed
      <4>1. ~check.rules[i].cost /\ check.world.over # {}
        BY <2>1, <2>3, <3>2, <1>7
      <4> QED
        BY <2>3, <3>2, <4>1
    <3> QED
      BY <3>1, <3>2
  <2> QED
    BY <2>1, <2>2, <2>3, <1>9
<1>11. OnTheTeam(check) # {} /\ check.world.over # {} => verdict = "block"
  BY <1>3, <1>6, <1>9
<1>12. OnAPerson(check) # {} /\ "me" \in check.world.over /\ TellsOfMe(check) => verdict = "block"
  BY <1>3, <1>7, <1>8, <1>9
<1> QED
  BY <1>10, <1>11, <1>12 DEF StopsTheOverspent

(* A call is stopped for what the caller, the caller's department or the team  *)
(* spent, and wherever the platform tells that this caller is over.            *)
THEOREM TheOverspentAreStopped == EvalSpec => []StopsTheOverspent
<1>1. Decided => StopsTheOverspent
  BY AboutPeople DEF StopsTheOverspent
<1> QED
  BY <1>1, AnyDecisionIsOurs, PTL
=============================================================================
