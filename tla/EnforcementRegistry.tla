------------------------ MODULE EnforcementRegistry ------------------------
(***************************************************************************)
(* The registry of enforcement polls (core/enforcement/engine.go), the     *)
(* poller (poller.go) and the rules it caches (cache.go): clients that     *)
(* take and release leases on the poll of a key, Stop from the            *)
(* application, and polls of a server that answers, refuses or is silent.  *)
(*                                                                         *)
(* One action is one critical section under enginesMu or under the         *)
(* poller's mu, or the end of one fetch.  Stop keeps enginesMu through     *)
(* several steps; whoever else needs it waits until stopper is "idle".     *)
(*                                                                         *)
(* Rules are abstracted to whether they block the call at hand, and a      *)
(* cached set to how long it still does.  A registration and its poller    *)
(* are one value, compared for identity only, so register takes one that   *)
(* nobody refers to any more.                                              *)
(***************************************************************************)
EXTENDS Integers, FiniteSets

CONSTANTS
    Clients,     \* goroutines that open and close one client after another
    Keys,        \* base URL, API key and team
    Dormant,     \* the keys with no team id or no usable address
    Pollers,
    None,
    StaleAfter   \* ruleStaleAfter, in ticks

ASSUME RegistryAssumption ==
    /\ Dormant \subseteq Keys
    /\ IsFiniteSet(Clients)
    /\ None \notin Pollers \cup Keys
    /\ StaleAfter \in Nat

VARIABLES
    running,   \* registrations: the poller of each key, or None
    leases,    \* per key: registration.leases of its registration
    ready,     \* per poller: registration.ready is closed
    phase,     \* per poller: where its poll is
    stopped,   \* per poller: poller.stopped, with the context cancelled
    blocking,  \* per poller: ticks for which its cached rules still block
    pc,        \* per client: where Start or Release is
    key,       \* per client: lease.key, until it is released
    leaseOn,   \* per client: lease.registration, until it is released
    mine,      \* per client: the registration Start or release has in hand
    stopper,   \* where Stop is
    stopping,  \* the key whose poll it is stopping
    breached   \* whether the server's rules block

registry == <<running, leases, key, leaseOn>>
polls == <<phase, stopped, blocking>>
callers == <<pc, mine>>
application == <<stopper, stopping>>
vars == <<registry, ready, polls, callers, application, breached>>

\* "fresh": not begun; "booting": the initial fetch; "waiting" for the timer;
\* "fetching"; "ended": the poll loop has returned.
Phases == {"fresh", "booting", "waiting", "fetching", "ended"}

\* The calls that hold an unreleased lease.
Leasing == {"owner", "gated", "booting", "held"}
Unreleased(k) == {c \in Clients : pc[c] \in Leasing /\ key[c] = k}

TypeOK ==
    /\ running \in [Keys -> Pollers \cup {None}]
    /\ leases \in [Keys -> Nat]
    /\ ready \in [Pollers -> BOOLEAN]
    /\ phase \in [Pollers -> Phases]
    /\ stopped \in [Pollers -> BOOLEAN]
    /\ blocking \in [Pollers -> 0 .. StaleAfter + 1]
    /\ pc \in [Clients -> Leasing \cup {"out", "stopping", "draining"}]
    /\ key \in [Clients -> Keys \cup {None}]
    /\ leaseOn \in [Clients -> Pollers \cup {None}]
    /\ mine \in [Clients -> Pollers \cup {None}]
    /\ stopper \in {"idle", "locked", "draining"}
    /\ stopping \in Keys \cup {None}
    /\ breached \in BOOLEAN

\* A poller nobody refers to, before its first registration or after its last,
\* is stopped, with nothing cached.
Init ==
    /\ running = [k \in Keys |-> None]
    /\ leases = [k \in Keys |-> 0]
    /\ ready = [p \in Pollers |-> TRUE]
    /\ phase = [p \in Pollers |-> "ended"]
    /\ stopped = [p \in Pollers |-> TRUE]
    /\ blocking = [p \in Pollers |-> 0]
    /\ pc = [c \in Clients |-> "out"]
    /\ key = [c \in Clients |-> None]
    /\ leaseOn = [c \in Clients |-> None]
    /\ mine = [c \in Clients |-> None]
    /\ stopper = "idle"
    /\ stopping = None
    /\ breached \in BOOLEAN

-----------------------------------------------------------------------------
(* The poller.                                                             *)

GoTo(c, step) == pc' = [pc EXCEPT ![c] = step]

\* The wait group of a poll that is not under way lets stop return.
Drained(p) == phase[p] \in {"fresh", "ended"}

\* poller.stop, up to its wait.
markStopped(p) == stopped' = [stopped EXCEPT ![p] = TRUE]

\* stop has returned and nobody refers to the poller: it is garbage.
drop(p) ==
    /\ phase' = [phase EXCEPT ![p] = "ended"]
    /\ blocking' = [blocking EXCEPT ![p] = 0]

\* Mutant: a fetch that failed renews the rules it did not replace.
fetchRulesRenews(p) ==
    \E renewed \in {IF breached THEN StaleAfter + 1 ELSE 0,
                   IF blocking[p] > 0 THEN StaleAfter + 1 ELSE 0} :
        blocking' = [blocking EXCEPT ![p] = renewed]

\* fetchRules: an answer replaces the rules; a failure, an answer that cannot
\* be read or a fetch cut off by stop leaves them to go stale.
fetchRules(p) ==
    \/ blocking' = [blocking EXCEPT ![p] = IF breached THEN StaleAfter + 1 ELSE 0]
    \/ UNCHANGED blocking

PollFires(p) ==
    /\ phase[p] = "waiting"
    /\ phase' = [phase EXCEPT ![p] = "fetching"]
    /\ UNCHANGED <<registry, ready, stopped, blocking, callers, application, breached>>

PollFetches(p) ==
    /\ phase[p] = "fetching"
    /\ fetchRules(p)
    /\ phase' = [phase EXCEPT ![p] = "waiting"]
    /\ UNCHANGED <<registry, ready, stopped, callers, application, breached>>

PollEnds(p) ==
    /\ phase[p] = "waiting"
    /\ stopped[p]
    /\ phase' = [phase EXCEPT ![p] = "ended"]
    /\ UNCHANGED <<registry, ready, stopped, blocking, callers, application, breached>>

-----------------------------------------------------------------------------
(* Start.                                                                  *)

Referred == {running[k] : k \in Keys} \cup {leaseOn[c] : c \in Clients} \cup {mine[c] : c \in Clients}
Unused == Pollers \ Referred
newPoller == CHOOSE p \in Unused : TRUE

\* Mutant: the leases that outlived Stop stay with the poll that is gone.
registerAlone(c, k, p) ==
    /\ leases' = [leases EXCEPT ![k] = 1]
    /\ leaseOn' = [leaseOn EXCEPT ![c] = p]

\* The leases of the key that outlived Stop move to its new registration.
adopt(c, k, p) ==
    /\ leases' = [leases EXCEPT ![k] = Cardinality(Unreleased(k)) + 1]
    /\ leaseOn' = [d \in Clients |-> IF d \in Unreleased(k) \cup {c} THEN p ELSE leaseOn[d]]

\* register, for a key that is polled already.
Join(c, k) ==
    /\ pc[c] = "out"
    /\ stopper = "idle"
    /\ running[k] # None
    /\ leases' = [leases EXCEPT ![k] = @ + 1]
    /\ key' = [key EXCEPT ![c] = k]
    /\ leaseOn' = [leaseOn EXCEPT ![c] = running[k]]
    /\ mine' = [mine EXCEPT ![c] = running[k]]
    /\ GoTo(c, "gated")
    /\ UNCHANGED <<running, ready, polls, application, breached>>

\* register, for the first client of a key: Start owns the boot.
Register(c, k) ==
    LET p == newPoller IN
    /\ Unused # {}     \* Pollers bounds the registrations in memory at once
    /\ pc[c] = "out"
    /\ stopper = "idle"
    /\ running[k] = None
    /\ running' = [running EXCEPT ![k] = p]
    /\ adopt(c, k, p)
    /\ ready' = [ready EXCEPT ![p] = FALSE]
    /\ phase' = [phase EXCEPT ![p] = "fresh"]
    /\ stopped' = [stopped EXCEPT ![p] = FALSE]
    /\ blocking' = [blocking EXCEPT ![p] = 0]
    /\ key' = [key EXCEPT ![c] = k]
    /\ mine' = [mine EXCEPT ![c] = p]
    /\ GoTo(c, "owner")
    /\ UNCHANGED <<application, breached>>

\* Start returns the engine; the owner has closed the gate's channel.
Return(c) ==
    /\ GoTo(c, "held")
    /\ mine' = [mine EXCEPT ![c] = None]

\* Mutant: a poll that was stopped first is begun all the same.
BootAnyway(c) ==
    /\ pc[c] = "owner"
    /\ key[c] \notin Dormant
    /\ phase' = [phase EXCEPT ![mine[c]] = "booting"]
    /\ GoTo(c, "booting")
    /\ UNCHANGED <<registry, ready, stopped, blocking, mine, application, breached>>

\* begin: the poll's lifetime is claimed and the initial fetch goes out.
Boot(c) ==
    /\ pc[c] = "owner"
    /\ key[c] \notin Dormant
    /\ ~stopped[mine[c]]
    /\ phase' = [phase EXCEPT ![mine[c]] = "booting"]
    /\ GoTo(c, "booting")
    /\ UNCHANGED <<registry, ready, stopped, blocking, mine, application, breached>>

\* Mutant: a boot that is refused leaves the gate shut.
BootRefusedShut(c) ==
    /\ pc[c] = "owner"
    /\ key[c] \in Dormant \/ stopped[mine[c]]
    /\ Return(c)
    /\ UNCHANGED <<registry, ready, polls, application, breached>>

\* boot returns at once: no team, no address, or stop came first.
BootRefused(c) ==
    /\ pc[c] = "owner"
    /\ key[c] \in Dormant \/ stopped[mine[c]]
    /\ ready' = [ready EXCEPT ![mine[c]] = TRUE]
    /\ Return(c)
    /\ UNCHANGED <<registry, polls, application, breached>>

\* The initial fetch is over, well or not: the poll starts, the gate opens.
BootFetches(c) ==
    /\ pc[c] = "booting"
    /\ fetchRules(mine[c])
    /\ phase' = [phase EXCEPT ![mine[c]] = "waiting"]
    /\ ready' = [ready EXCEPT ![mine[c]] = TRUE]
    /\ Return(c)
    /\ UNCHANGED <<registry, stopped, application, breached>>

GateOpens(c) ==
    /\ pc[c] = "gated"
    /\ ready[mine[c]]
    /\ Return(c)
    /\ UNCHANGED <<registry, ready, polls, application, breached>>

-----------------------------------------------------------------------------
(* Release: by the client, or by the finalizer of an abandoned engine.     *)

\* A lease that is the last one takes the registration out, in hand to stop;
\* one whose poll Stop has ended has nothing to give back.
Release(c) ==
    /\ pc[c] = "held"
    /\ stopper = "idle"
    /\ key' = [key EXCEPT ![c] = None]
    /\ leaseOn' = [leaseOn EXCEPT ![c] = None]
    /\ LET p == running[key[c]] IN
         \/ /\ p = None \/ p # leaseOn[c]
            /\ GoTo(c, "out")
            /\ UNCHANGED <<running, leases, mine>>
         \/ /\ p # None /\ p = leaseOn[c]
            /\ leases' = [leases EXCEPT ![key[c]] = @ - 1]
            /\ \/ leases[key[c]] > 1 /\ GoTo(c, "out") /\ UNCHANGED <<running, mine>>
               \/ /\ leases[key[c]] <= 1
                  /\ running' = [running EXCEPT ![key[c]] = None]
                  /\ mine' = [mine EXCEPT ![c] = p]
                  /\ GoTo(c, "stopping")
    /\ UNCHANGED <<ready, polls, application, breached>>

ReleaseStops(c) ==
    /\ pc[c] = "stopping"
    /\ markStopped(mine[c])
    /\ GoTo(c, "draining")
    /\ UNCHANGED <<registry, ready, phase, blocking, mine, application, breached>>

ReleaseReturns(c) ==
    /\ pc[c] = "draining"
    /\ Drained(mine[c])
    /\ GoTo(c, "out")
    /\ mine' = [mine EXCEPT ![c] = None]
    /\ drop(mine[c])
    /\ UNCHANGED <<registry, ready, stopped, application, breached>>

-----------------------------------------------------------------------------
(* Stop, under enginesMu to its end.                                       *)

StopLocks ==
    /\ stopper = "idle"
    /\ stopper' = "locked"
    /\ UNCHANGED <<registry, ready, polls, callers, stopping, breached>>

StopNext(k) ==
    /\ stopper = "locked"
    /\ running[k] # None
    /\ markStopped(running[k])
    /\ stopper' = "draining"
    /\ stopping' = k
    /\ UNCHANGED <<registry, ready, phase, blocking, callers, breached>>

StopDrains ==
    /\ stopper = "draining"
    /\ Drained(running[stopping])
    /\ drop(running[stopping])
    /\ running' = [running EXCEPT ![stopping] = None]
    /\ leases' = [leases EXCEPT ![stopping] = 0]
    /\ stopper' = "locked"
    /\ stopping' = None
    /\ UNCHANGED <<key, leaseOn, ready, stopped, callers, breached>>

StopReturns ==
    /\ stopper = "locked"
    /\ \A k \in Keys : running[k] = None
    /\ stopper' = "idle"
    /\ UNCHANGED <<registry, ready, polls, callers, stopping, breached>>

-----------------------------------------------------------------------------
(* The world.                                                              *)

Tick ==
    /\ blocking' = [p \in Pollers |-> IF blocking[p] > 0 THEN blocking[p] - 1 ELSE 0]
    /\ UNCHANGED <<registry, ready, phase, stopped, callers, application, breached>>

ServerChanges ==
    /\ breached' = ~breached
    /\ UNCHANGED <<registry, ready, polls, callers, application>>

Start(c) ==
    \/ \E k \in Keys : Join(c, k) \/ Register(c, k)
    \/ Boot(c) \/ BootRefused(c) \/ BootFetches(c) \/ GateOpens(c)

Stop == StopLocks \/ (\E k \in Keys : StopNext(k)) \/ StopDrains \/ StopReturns

Poll(p) == PollFires(p) \/ PollFetches(p) \/ PollEnds(p)

Next ==
    \/ \E c \in Clients : Start(c) \/ Release(c) \/ ReleaseStops(c) \/ ReleaseReturns(c)
    \/ Stop
    \/ \E p \in Pollers : Poll(p)
    \/ Tick
    \/ ServerChanges

Spec == Init /\ [][Next]_vars

\* Time passes, timers fire, every fetch ends by its answer, its timeout or its
\* context, and goroutines go on.  A stopped poll that is back at its select
\* may find the timer ready too, but not for ever: the timer is a new one each
\* time round.
Fairness ==
    /\ WF_vars(Tick)
    /\ \A c \in Clients :
         /\ WF_vars(Boot(c) \/ BootRefused(c))
         /\ WF_vars(BootFetches(c))
         /\ WF_vars(GateOpens(c))
         /\ WF_vars(ReleaseStops(c))
         /\ WF_vars(ReleaseReturns(c))
    /\ \A p \in Pollers :
         /\ WF_vars(PollFires(p) \/ PollFetches(p))
         /\ SF_vars(PollEnds(p))
    /\ WF_vars(StopDrains \/ StopReturns \/ \E k \in Keys : StopNext(k))

LiveSpec == Spec /\ Fairness

-----------------------------------------------------------------------------
(* Properties.                                                             *)

\* A running poll counts exactly the leases nobody has released, whatever Stop,
\* Start and Release came before: a lease from before a Stop moves to the poll
\* that a later Start brings up, so the poll neither ends under a client that
\* is still open nor outlives the last one.
LeasesCounted ==
    \A k \in Keys : running[k] # None =>
        /\ leases[k] = Cardinality(Unreleased(k))
        /\ Unreleased(k) # {}
        /\ \A c \in Unreleased(k) : leaseOn[c] = running[k]

\* A poll under way is registered, or in the hands of a Release that has yet to
\* see its end: a Stop that races the boot leaves no poll behind, and once stop
\* has returned the poll never sends another request.
NoPollLeftBehind ==
    \A p \in Pollers : ~Drained(p) =>
        \/ \E k \in Keys : running[k] = p
        \/ \E c \in Clients : mine[c] = p /\ pc[c] \in {"stopping", "draining"}

\* Start, Release and Stop return, whichever of them meet: no gate stays shut
\* and no wait group is waited for in vain.
EngineCallsReturn ==
    /\ \A c \in Clients : pc[c] \notin {"out", "held"} ~> pc[c] \in {"out", "held"}
    /\ stopper # "idle" ~> stopper = "idle"

\* Engine.Check for this key: evaluate over the snapshot of its running poll.
\* A snapshot that was never loaded or is stale has no rules.
Blocks(k) == running[k] # None /\ blocking[running[k]] > 0

\* Enforcement fails open: once the server no longer reports a breach, in the
\* end no call is blocked, even if no answer of the server ever arrives again.
FailsOpen == <>[]~breached => <>[](\A k \in Keys : ~Blocks(k))
=============================================================================
