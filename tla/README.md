# Verification of the Revenium Go SDK

The SDK sits between an application and its AI providers: it asks cost controls
whether a call may be made, calls the provider, then reports what the call used to
Revenium. The report must never hurt the application: it is sent beside the call,
retried, held while Revenium is down, bounded in memory, and settled when the client
closes. And it must be right: one record per piece of work a provider bills, under
the name the cost controls judged, with every token once. This directory holds TLA+
modules of the parts that carry those promises, the TLC configurations that check
them on small instances, and TLAPS proofs about them. Source paths are relative to
the root of the repository.

To check a run: `tlc -workers 2 -config Client_close.cfg MCMeteringClient`.
To check the proofs: `tlapm` on each of `RetryThroughBreakerProofs.tla`,
`MeteringBufferProofs.tla`, `MeteringClientProofs.tla`, `EnforcementProofs.tla`,
`MediaTasksProofs.tla`, `ComponentsProofs.tla`, `StreamProofs.tla` and
`CallProofs.tla`; from nothing they take some twenty minutes together.

## 1. The system

| component | state it keeps | operations | used by |
| --- | --- | --- | --- |
| circuit breaker, `core/resilience/circuit_breaker.go`, `retry_after.go` | state, generation, failure history, success count, half-open slot, `reopenAt` | `Execute`, `ExecuteHonoringRetryAfter`, `HoldOpenFor`, `RecordSuccess/Failure`, `Reset` | every send to Revenium, every jobs call |
| retries, `retry.go`, `concurrency_limit.go`, `error_handler.go` | per call: attempt, delay, last failure; per process: places of the limit | `WithRetry`, `RetryThroughBreaker`, `Run` | metering, jobs |
| breaker registry, `global.go` | breakers by scope and their reference counts | `AcquireCircuitBreaker`, its release, `ResetCircuitBreakers` | each metering and jobs client |
| retry buffer, `core/metering/buffer.go`, `delivery_monitor.go` | queue of held records, three byte counters, two warning latches, replay loop, `flushMu`, delivery state | `Push`, `reserveForSend`, `releaseSend`, `holdSent`, `flush`, `drain`, `replayLoop`, `stop` | metering client |
| metering client, `core/metering/client.go`, `delivery_pool.go`, `delivery_path.go` | count of sends under way, delivery queue and workers, what `Close` reports | `Send`, `SendSync`, `Flush`, `Close` | every provider middleware |
| metering records, `core/metering/metadata.go`, `failure.go`, `core/context.go` | none (pure) | `ApplyMetadata`, `ApplyFailedCall`, `prepared` | every provider middleware |
| enforcement engine, `core/enforcement/engine.go`, `poller.go`, `cache.go` | pollers by key with their leases, cached rule sets | `Start`, release, `Stop`, `Check`, the poll loop | middlewares, before a provider call |
| enforcement evaluation, `evaluator.go`, `matcher.go`, `model_match.go` | none (pure) | `evaluate` | the engine |
| jobs client, `core/jobs/` | none beside breaker and configuration | `ReportJobOutcome`, `AppendOutcomeMetrics`, `AmendJobOutcome` | application |
| shared client, `core/shared_client.go` | the one client of a provider package | `Initialize`, `Current`, `Reset`, `ResetAndClose` | provider packages |
| video tracker, `google/video_tracker.go` | pending, settled and evicted videos | `track`, `trackWait`, `settle`, `observe` | google middleware |
| waits for tasks, `core/background_waits.go`, `runway/task.go`, `fal/queue.go` | waits under way, per wait what was recorded | `Start`, `Stop`, the polls | runway, fal |
| tool runner turns, `anthropic/beta_tool_runner.go` | which turn is judged and recorded by whom | `NextMessage`, `NextStreaming` | anthropic middleware |
| provider streams | usage gathered so far, closed or not | read, close, break off | each middleware |
| provider middlewares, one module per provider | configuration; LiteLLM: the proxy's model list and people | one entry per operation of the provider | application |
| webhook verification, `webhooks/verify.go` | none (pure) | `VerifySignature` | application |

**How they interact.** A middleware merges the usage metadata of the context, the
call and the process, asks `Check` of the enforcement engine under the names the call
may be recorded under, sends the request, and hands a record of what came of it to
`Send` (streams when they are closed, long-running media jobs when they end, perhaps
from a goroutine that outlives the call). `Send` reserves the bytes of a record in
the buffer, counts a send, and queues a job to the pool. A worker runs `deliver`:
`RetryThroughBreaker` takes a place of the process-wide concurrency limit for each
attempt, asks the breaker, shared by every client of the same credentials, and sends.
A retryable failure moves the record from *sending* to *held* in the buffer, where
the replay loop, `Flush` and `Close` resend it through the same breaker and limit. A
delivered record after failures wakes the loop (`deliveryMonitor`). `Close` waits for
the sends, stops the loop, drains the buffer and gives its reference to the breaker
back, at once or, when a wait timed out, from a goroutine it leaves behind.

**What is hard.** Outcomes settle in any order, also after the breaker has moved on;
a server's `Retry-After` and the recovery delay compete for one deadline; three
critical sections share one byte budget; a flush fails in part while records arrive;
`Close` samples two counters one after the other while sends fail and flushes run,
and both of its waits may time out; a client is built outside the lock that installs
it; a late release meets a breaker its key has been given since; an answer is lost
and the report resent; several goroutines wait for one video, whose bounded tracker
may have forgotten it; a caller gives up on a job the provider still bills; a stream
is closed by another goroutine while its reader holds a chunk; a call fails in one
provider and is sent again to another; a proxy serves another model than was asked
for; token counts overlap differently for every provider.

**What makes each component correct.** The *breaker* keeps every wait it owes, lets
one probe out at a time, never loses the probe slot, closes only on the word of requests
begun since it opened, and closes again after an outage. *Retries* give back exactly the places
they took, send a bounded number of requests, do not hide the failure behind an open
breaker, and return. The *registry* keeps a breaker exactly as long as it has
clients. The *buffer* accounts for every byte, stays within its limits at every
instant, holds each record once and in order, counts every loss, re-arms its warnings
and empties once Revenium answers. The *client* ends every send it counted, misses no
record in what `Close` reports, keeps the breaker while the sends it waits for run,
and gives it back in the end. The *enforcement engine* counts the leases of a poll
through every Start, Release and Stop, leaves no poll behind, never hangs a caller
and fails open; its *decision* stops whoever is over and nobody else. *Records* tell
of the person and the model the decision was about, and a retry's record is no
duplicate. A *jobs* answer is true whatever was lost. A *shared client* is never left
open with nobody to close it. A *video*, a *job*, a *turn*, a *stream* and a *call*
each have one record, and it bills what was consumed.

## 2. Modules

Core, as in the first two layers of the SDK:

| module | models | state and actions against the code |
| --- | --- | --- |
| `CircuitBreaker` | `circuit_breaker.go`, `retry_after.go` | one action per critical section under `cb.mu`: `Admit` (`admit`), `Succeed`/`Fail`/`Panic` (`settle`), `Refuse` (`releaseProbe`: an error `ShouldTrip` does not count), `Hold` (`HoldOpenFor`), `RecordSuccess`, `RecordFailure`, `Reset`; `Tick` and `Heal` are the clock and the service |
| `RetryThroughBreaker` | `retry.go`, `concurrency_limit.go` | extends the breaker; a call goes `queued` (waits for a place), `slotted`, `calling`, `holding` (before `HoldOpenFor`), `judging` (the breaker is looked at again, the retry decided), `delay`, `done` |
| `MeteringBuffer` | `buffer.go`, `delivery_monitor.go` | one action per critical section under `b.mu`; `flushBy` is the goroutine holding `flushMu`, `asking` those inside `flush`; a window of resends is one action that draws an outcome for each of its records |
| `Selections` | the loops of `evictExpired` and `totalHeldBytes` in `buffer.go` | two operators of the buffer in the forms their lemmas are proved of: the elements of a sequence at some positions, in their order, and the sum of the sizes of some records, as the cardinality of a set of units |
| `MeteringClient` | `client.go`, `delivery_pool.go`, `activity` of `delivery_path.go` | extends the buffer; per record the step of the goroutine that handles it; `Close` is a sequence of steps, each wait ending by its channel or its timeout |
| `EnforcementRegistry` | `engine.go`, `poller.go`, `cache.go` of `core/enforcement` | one action per critical section under `enginesMu` or a poller's `mu`; per client the step of `Start` (`owner`, `booting`, `gated`) or of `Release` (`stopping`, `draining`), `held` in between; per poller its loop (`phase`), its `stopped` flag and its gate (`ready`); `Stop` keeps the lock from `StopLocks` to `StopReturns` |
| `EnforcementEval` | `evaluator.go`, `matcher.go`, `model_match.go`, decoding of a rule set | operators; one behaviour is one check of a call against the rules one poll brought; the dates, the models called and the lists of rules are constants |
| `SharedClients` | `shared_client.go`, `resilience/global.go` | one action per section under `setupMu` or `globalMu`; `build` is apart from `install`; clients keep the breaker they acquired |
| `JobOutcome` | `jobs/client.go` and its helpers | one action per answer or loss of an attempt; Revenium and the requests it may yet apply are external |
| `UsageRecords` | `context.go`, `metadata.go`, `failure.go`, `enforcement/defaults.go` | operators from what the process, the context and the call say to what is decided on and what is recorded; the texts and the settings are constants |

Long-running and streamed work:

| module | models | state and actions against the code |
| --- | --- | --- |
| `VideoTracker` | `google/video_tracker.go` | one action per section under the tracker's lock; what settles a video decides under the lock and sends after it (`Report`); Google is external |
| `MediaTasks` | `runway/task.go`, `fal/queue.go`, `background_waits.go` | per job the stage of its call and who polls it: the caller, a background goroutine, or the caller again once `Stop` has run |
| `UsageOnce` | *(abstract)* what the metering of long-running work promises | `MediaTasks` implements it, see below |
| `ToolTurns` | `anthropic/beta_tool_runner.go` | one action per turn of either runner; the SDK's own runner is external |
| `MeteredStreams` | every provider's stream | a reader takes a chunk from the wire and then, under the lock, takes it in; others close; what a chunk changes and what the record is are operators of the provider modules; what providers send is a constant, and `IsStream` says which sequences of chunks each protocol allows |

Provider calls:

| module | models |
| --- | --- |
| `MeteredCall` | the vocabulary of the provider modules: where a call fails, what was consumed, records, and the shape of a call |
| `OpenAI` | `openai/`: OpenAI, Azure, xAI; ten entries; chat, text and Responses streams |
| `ChatProviders` | `groq/`, `grok/`, `ollama/`, `perplexity/`, with Perplexity's stream |
| `Google` | `google/`: Gemini API and Vertex AI, content, embeddings, images, content streams |
| `Anthropic` | `anthropic/`: messages and beta APIs, Bedrock and its fallback, the passes a turn bills besides its own, four kinds of stream |
| `LiteLLM` | `litellm/`: routes, the names a call is judged and recorded under, tokens, metadata from headers, calls and streams |
| `LiteLLMProxy` | `litellm/model_aliases.go`, `proxy_people.go`: what callers learn of a proxy, concurrently |
| `MediaCalls` | `fal/` and `runway/`: kinds of media, lengths and tokens billed, the calls |
| `Providers` | these under one roof, each under its own name |
| `ProviderCalls` | one behaviour is one call of any provider, from what its caller asked to what was judged, sent, recorded and returned; the calls are a constant, and `IsCall` says provider by provider what a call may be and meet |

`MC*` modules are the instances for TLC; `MCProviderCalls` lists the calls TLC goes
through. `MCMedia` and `MCComponents` put components
that share no state under one roof: a variable `moving`, chosen at the start, says
which of them a behaviour is of, and the others keep their initial states. No
interleaving between them is lost, for there is nothing one could see of the other,
and the state space is a sum and not a product.

`RetryThroughBreaker` composes with `CircuitBreaker` action by action (its
`SendFails` *is* the breaker's `Fail` or `Refuse` plus the call's own step).
`MeteringClient` does the same with `MeteringBuffer`. What the breaker and the retries
make of one send enters the buffer as its outcome: `ok`, `retry`, `open` (refused
before anything was sent) or `refused`; that these are the outcomes a call can end
with is what `RetryThroughBreaker` shows. The streams of `MeteredStreams` and the
calls of `ProviderCalls` are built from the same operators.

**Refinements.** `MeteringClient` has `BufferSpec` as a property: the client uses the
buffer only as the buffer's specification, which is checked on its own against every
caller, allows. That retries use the breaker as its specification allows is proved, not
run (`RetriesKeepTheBreaker`): the step of a call is a step of the breaker or leaves it
alone. `MediaTasks` implements `UsageOnce` (`OnceSpec`, an `INSTANCE ... WITH`
that maps the provider's state to `outcome` and what was sent of a job to `recorded`):
a job is recorded once, and the record is true then and ever after.

Abstractions, all of data:
* Time in the breaker is relative (`reopenIn` is `reopenAt - now`, failures are
  ages), so no clock has to be bounded. A generation is compared for equality
  only, so `moveTo` takes any generation no call in flight holds.
* Jitter and throttled backoff are any delay from `BaseDelay` to `MaxDelay`.
  `ParseRetryAfter` is the range of waits it lets through.
* A record of the buffer is a value with a size. The bytes of a record are what
  `heldBytes` computes once; its age is whether it has been held for `maxEventAge`.
* Every wait with a timeout may end either way at any time.
* `CanExecute` reads the breaker in a step of its own, as in the code.
* The context given to `WithRetry` is never done, as in every metering delivery.
* Whether a full pool has been reported before only picks the level of a log
  line and is left out. `Close` of the metering client is called once.
* Rules, where leases are the matter, are reduced to whether they block the call at
  hand, and what a poller has cached to the number of ticks for which it still does
  (`ruleStaleAfter`); an empty snapshot and one gone stale both allow everything.
* A registration and its poller live and die together and are compared only for
  identity, so they are one value; `Register` takes one nobody refers to, and
  `drop` resets what the garbage collector would free.
* A model name is its identity and its parts that matter: route, date, separator.
  "served" is the name an answer gives, "asked" the one requested.
* What a call consumed is five disjoint counts (fresh input, cache reads, cache
  writes, answer, thoughts); each provider's way of reporting it, with the overlaps
  it has, is an operator (`ReportedUsage`, `UsageMetadata`, `Usage`, `Counted`), and
  what the record says of it another.
* Where a call fails is one of a few seams: before it left, on the way, with a
  status, on an answer it cannot use, in the body of an answer.
* A video's length is a fraction; `<<0, 0>>` stands for what is no number.


## 3. Runs

Every run finishes within four minutes with two workers, most within one; the
counts are distinct states.

| run | instance | what it shows |
| --- | --- | --- |
| `breaker_delivery` | 16,054 (symmetric): the delivery configuration, 3 callers, thresholds of 2 failures and 1 success, waits up to 3 ticks | outcomes settling in any order never shorten a wait the server asked for or the recovery delay; one probe at a time; the slot is never leaked |
| `breaker_window` | 43,808: failures within a window, 2 successes close, `RecordSuccess`/`RecordFailure` by hand, 2 callers | `ClosedIsProven`: a breaker that opened closes only once 2 requests begun since then have succeeded, however late older ones are answered; once the service answers the breaker closes for good, whatever state the outage and the manual records left it in |
| `retry_calls` | 400,224: 2 calls, 1 retry each, 1 place of the limit, the breaker opens at the first failure | `BudgetsKept`: places and number of requests; the failure behind an open breaker; each call returns |
| `buffer_bytes` | 655,104: 4 records of sizes 1, 2, 2 and 5, byte limit 4, record limit 3, the replay loop and one other flusher | `BytesKept`: the three byte counters and the limits; `QueueKept`: each record once, oldest first; `LossesTold`: losses counted, latches re-armed |
| `buffer_drains` | 206,792: 3 records, record limit 2, records may outlive `maxEventAge`, no flusher but the ticker | everything held leaves once Revenium answers |
| `client_close` | 1,652,267 (symmetric): 2 records, 1 worker, a queue of 1, record limit 1, byte limit 2, `Close` with both timeouts | what `Close` reports misses no record; `SendsKept`: counts, ends and the breaker of sends; the client refines `BufferSpec` |
| `client_late` | 61,600: 1 record, an application `Flush` beside `Close`, sends after `Close` | the breaker is given back in the end |
| `client_breaker` | violation | see section 6 |
| `media` | 261,091: 2 callers and 4 calls on 3 Veo operations (one of another process, one whose name tells no model), a tracker that remembers 1 pending and 1 recorded name; or 1 Runway task with 2 polls and 1 fal job, callers that give up, `Disable`, `Close` | a video the tracker was told is finished is recorded once, from its submission's settings, and what the application saw finish the tracker was told of, but for polls of names that tell no Veo model; a job is recorded as `UsageOnce` says, before the metering client closes; an abandoned job is recorded in the end |
| `components` | 694,858, one component moving in each behaviour: 2 goroutines, 2 keys and 3 clients; 2 reporters and 1 writer with 1 retry; 57,977 provider calls; 11 kinds of stream, 3 ticks, 2 closers; the cost-control decision on every combination of its inputs; 5 steps of a tool runner with 3 turns; 2 callers and 2 users of a LiteLLM proxy; attributions | the invariants of `SharedClients`, `JobOutcome`, `ProviderCalls`, `MeteredStreams`, `EnforcementEval`, `ToolTurns`, `LiteLLMProxy` and `UsageRecords` |
| `unmarked_models` | violation | see section 6 |
| `enforcement_leases` | 43,706: 2 goroutines that open and close clients again and again, a polled key and a dormant one, 5 pollers, rules stale after 1 tick | leases, polls left behind, calls that hang, failing open |

Some invariants are conjunctions of named parts, each with its own comment:
`BytesKept` is `BufferTypeOK`, `BytesAccounted`, `WithinLimits`; `QueueKept` is
`EachRecordOnce`, `OldestFirst`; `LossesTold` is `LossesAreCounted`, `WarningsRearmed`;
`SendsKept` is `ClientTypeOK`, `SendsCounted`, `EndedSendsSettled`,
`BreakerOutlivesSends`; `BudgetsKept` is `RetryTypeOK`, `PlacesAccounted`,
`RequestsBounded`.

What `components` asks of the providers:
* `EveryRequestRecordedOnce`: what left the process is recorded once, by a record that
  says success exactly when the caller has a usable reply - through retries, a
  fallback to another provider and each seam. A call the rules stopped leaves no record,
  and one of which nothing left at most one, of a failure. Calls that record nothing are
  the exceptions (`Recording`), a Runway creation that no 4xx refused and no answer
  confirmed among them (`confirmed`).
* `JudgedAsRecorded`: the rules decided on the name the record bears, or on one they
  were told may be dated; for LiteLLM also on the person the record names. An OpenAI
  embedding or an Anthropic API message whose answer names no model is the exception
  (`Nameless`): its record has no name.
* `BilledAsConsumed`: the tokens of a record, taken apart the way the platform does,
  are those consumed, each once; a video's length is the one made, or said to be
  unknown; a turn's further passes have ids and keys of their own.
* `OneHonestRecord`, `ToldIsBilled`: the same for streams, closed by several
  goroutines at any moment, or broken off. The record calls a stream failed exactly if it
  was, and times one that was over - all choices finished, or its end found - by that
  moment and not by a later Close; `seen` keeps what is needed to say so.

**Bounds and why they are enough.** *Callers, clients, records*: the races of this
code are between two parties about a third object (two outcomes and the state they
were admitted under; a send, a flush and `Close`; a Release, a Start and `Stop`; two
waits and the tracker's limit); three callers let an old outcome meet a probe and
another waiter. *Thresholds* are the smallest that tell counting from not counting (2
failures, 2 successes in one of the runs). *Ticks* are relative: waits up to 3 and a
recovery delay of 2 give every order of two deadlines, the equal ones included; the 3
moments of a stream tell first output, last output and Close apart. *Generations*
(`Generations`) are callers plus two, so one is always free; the breaker compares them
for equality only. *Sizes and limits* of the buffer make a record larger than half the
limit, and one larger than the whole of it, meet small ones, so that one reservation
evicts several records and another is refused with an empty queue. *Record limits* of
1 to 3 are passed in every run. `Pollers` bounds the registrations in memory at once:
two per client (a lease can point to a registration that Stop has removed while a
Release holds another) and one registered. `ReplayConcurrency` of 2 makes a window
fail in part. `MaxClients` of 3 lets one breaker be shared, forgotten and replaced;
the tracker's limits of 1 are passed by the second operation, and `MaxCalls` of 4 is a
submission and three looks at it. `MaxSteps` of 5 goes past the runner's 3 turns. One
lost answer per attempt and one retry are what a confirmation has to tell apart.
Consumption of 0 or 1 of each count, and of distinct numbers in the streams, tells
every sum of them apart. Nothing else counts without end: `sent`, `attempt`, ages and
blocking times stop at constants of the module, and no guard other than `MaxCalls`,
`MaxSteps`, `MaxProxyCalls`, `MaxClients`, `MaxNow`, those of `Register` (a free
poller) and `moveTo` (a free generation) is there for a bound's sake.

**Deadlock** is checked except where the system does stop: the metering client once
closed, its loop ended, with nothing left to send; the buffer whose loop has ended;
the components of `media` and `components`, whose callers are done in the end.

**Fairness, and why the code justifies it.**
* Time passes (`Tick`, `PassTime`): weak.
* A goroutine past a lock or a finished wait goes on, and a request ends, by its
  answer, its timeout or its context (every client in `core/http_client.go` has a
  timeout): weak, per goroutine. The caller's own decision to send again is never
  assumed, except in `Recovers`, where a breaker nobody calls has no occasion to
  close: there weak fairness says that somebody calls again and again.
* `TakeSlot` is strong: Go queues the senders of a full channel, so a waiter is not
  passed over for ever.
* `LoopTicks` is weak: the ticker of the replay loop fires again and again.
* `PollEnds` and `ReleaserReleases` are strong. A stopped poll at its `select` may
  find its timer ready too and draw that case, but it resets the timer, so the
  context is the only ready case again and again; `flushMu` likewise hands itself
  to a waiter in turn.
* `MediaFairness` is weak: a wait goes on, its limit passes (a timer), a record that
  is due is sent, and `Close` goes on when the waits have ended. Neither a provider
  that finishes nor a caller that gives up is assumed: `AbandonedIsRecorded` is about
  jobs that never end, too.
* Nothing is assumed of what the application does (`Join`, `Release`, `StopLocks`,
  `Send`, `Close`), of what the server answers, or of which answer arrives:
  `FailsOpen` holds though every fetch after the outage may fail.

## 4. Mutants

Each property of each passing run is broken by a mutant of the definition named in
`PROJECT.json`; the mutated forms stand in the modules next to the definition they
change, introduced by the word *Mutant*. They are plausible slips of this code: a
move of the breaker that begins no generation, a Retry-After wait that
overwrites a longer one, a reservation returned twice, an eviction not counted, a
gate left shut, the leases of a stopped poll left behind, a breaker forgotten by its
key rather than by its identity, a submission's settings replaced by a wait's, thoughts
not billed, every provider's record under the name served.

## 5. Proofs

What a run checks on a small instance the theorems below prove for every value of
the constants. Every inductive invariant was first checked by TLC as an invariant of
the run named with it, except those of the streams, the calls and `EnforcementEval`,
whose quantifiers range over all names or numbers; of those TLC checked the invariant
that the theorem states.

| module | theorem | statement |
| --- | --- | --- |
| `RetryThroughBreakerProofs` | `TypeCorrect` | every variable of the breaker keeps its type |
| | `WaitsAreKept` | `KeepsCallersBack`: while a wait is owed the breaker is open until its end at least |
| | `SlotIsNeverLeaked` | `ProbeSlotNotLeaked` |
| | `NoneWhileOwed` | `NoCallWhileOwed`, as an action property |
| | `ClosesOnProof` | `ClosedIsProven`: closed again only on successes of requests begun since it opened |
| | `SingleProbe` | `OneProbeAtATime`, provided `ManualRecording = FALSE` |
| | `RetriesKeepTheBreaker` | `RetrySpec` implements `Spec` of the breaker |
| | `RetriesKeepWaits` | so `KeepsCallersBack` and `ProbeSlotNotLeaked` hold under retries |
| | `OpenErrorsTellTheFailure` | `OpenErrorKeepsTheFailure` |
| | `BudgetsAreKept` | `BudgetsKept`: places and requests |
| `MeteringBufferProofs` | `BufferStands` | the inductive invariant, `BufferInv` |
| | `BytesAreKept`, `QueueIsKept`, `LossesAreTold` | `BytesKept`, `QueueKept`, `LossesTold` |
| `MeteringClientProofs` | `ClientKeepsToTheBuffer` | `ClientSpec` implements `BufferSpec` |
| | `RecordsAreKept` | so the three promises of the buffer hold in a client |
| | `SendsAreKept` | `SendsKept` |
| | `CloseMissesNothing` | `CloseNeverMissesARecord`, as an action property |
| `EnforcementProofs` | `TypeCorrect` | `TypeOK`; in particular no lease count goes below zero |
| | `LeasesAreCounted`, `NoPollIsLeftBehind` | `LeasesCounted`, `NoPollLeftBehind` |
| | `ModelFiltersCoverWhatIsCounted` | `ModelFilterCoversWhatIsCounted`, of `EnforcementEval` |
| | `TheOverspentAreStopped` | `StopsTheOverspent`, of `EnforcementEval` |
| `MediaTasksProofs` | `MediaInvariant` | types, and of each job what its stage implies |
| | `MediaImplementsUsageOnce` | `OnceSpec`: at most one record of a job, true when it is sent |
| | `BackgroundRecords` | `BackgroundRecordsReachMetering` |
| | `VideosAreRecordedOnce` | `SeenIsRecordedOnce`, of the video tracker |
| | `VideosKeepTheirSettings` | `SubmissionSettingsKept` |
| `ComponentsProofs` | `BreakersLiveWithClients`, `ClientsHaveHolders` | `BreakerLivesWithItsClients`, `NoClientOrphaned`, of the shared clients |
| | `JobAnswersAreTrue` | `AnswersAreTrue`, of job reports |
| | `ProxyStaysCurrent` | `ProxyKnowledgeCurrent`, of what is learnt of a LiteLLM proxy |
| | `TurnsStayJudged` | `TurnsJudgedAndRecorded`, of the tool runners |
| `StreamProofs` | `StreamsHaveOneHonestRecord` | `OneHonestRecord`, of every kind of stream |
| | `WhatIsToldIsBilled` | `ToldIsBilled`, of every kind of stream |
| `CallProofs` | `CallsAreRecordedOnce` | `EveryRequestRecordedOnce`, of every call of every provider |
| | `RecordsAreAsJudged` | `JudgedAsRecorded`, likewise |
| | `RecordsBillWhatWasConsumed` | `BilledAsConsumed`, likewise |
| | `RecordsAreAttributedAsJudged` | `AttributedAsJudged`, of `UsageRecords` |
| | `RetriesAreNoDuplicates` | `RetryIsNoDuplicate`, of `UsageRecords` |

**The breaker** (`breaker_delivery`). *Assumptions*: `ConfigAssumption` (what
`normalized` makes of any configuration) and `GenerationsNeverRunOut` (with finitely many
generations there are at least two more than callers; the code has 2^64). *Argument*:
`KeepsCallersBack` is not inductive alone. An open breaker could be moved by a call of its
own generation, and a breaker that is not open could have a deadline ahead that
`onFailure` then shortens. `Inv` adds that an open breaker has no call of its own
generation in flight (`OpenHasNoLiveCalls`; every opening is a `moveTo`, which takes a
generation no call holds) and that only an open breaker has a deadline
(`NoDeadlineUnlessOpen`). `SingleProbe` rests on `SlotInv`: in half-open the slot is taken
whenever a call of this generation is out. A manual `RecordSuccess` breaks exactly that,
which is why the theorem excludes it. `ClosesOnProof` rests on two histories: `recent`, the
requests out that began since the breaker last opened, and `proven`, how many such have
succeeded since. `EvidenceInv` says that in half-open each call of the current generation is
recent, and the breaker's own count no more than was proven; a request begun before the
opening holds an older generation for good.

**Retries** (`retry_calls`). *Assumptions*: those of the breaker and `RetryAssumption`;
the set of calls may be infinite. *Argument*: a call's step is one of the breaker's
actions with its own bookkeeping, so the breaker's theorems carry over through the
refinement and need no second proof. `OpenErrorsTellTheFailure` needs that a call which
sent a request and is judged again remembers a failure. `BudgetsAreKept` needs that the
places taken are as many as the calls between `TakeSlot` and the step that gives the
place back (`PlacesInv`: a finite set although the calls need not be), and that a call
has sent one request more than the retries it has begun, or as many while it waits.

**The buffer** (`buffer_bytes`, `buffer_drains`). *Assumption*: `BufferAssumption`; any
records of any positive sizes, any limits, any flushers. *Argument*: neither the counters
nor the order are inductive by themselves, because a flush holds records in three
places (`batch`, `kept`, `pending`) and puts some of them back at the front of a queue
that has grown meanwhile. `BufferInv` says that all of them stand in one line: what the
window under way holds, then what the flush has still to send, then the queue, and that
every record ahead of another in that line was held before it (`LineInv`). Each step
takes records off the line or adds the newest at its end, so order and uniqueness
survive `putBack`. The counters are then weights of the parts of the line (`BytesInv`),
and the records that left it are counted, by how they left (`CountInv`). A step adds or
takes one record, or a prefix, or a selection, so what is needed of the sums is how
the weight of a set changes when a disjoint one is added or taken. `MeteringBufferProofs`
begins with these facts: that selecting positions of a sequence keeps its order and gives
just those elements (`ChosenProperties`; through the k-th smallest element of a finite set,
`RankedIsInverse`, and the least element, which `LeastNatural` gets from the
well-foundedness of finite subsets), and that weights of disjoint sets add
(`WeightAdds`). No induction over the sequences themselves is needed.

**The client** (`client_close`). *Assumptions*: `BufferAssumption`, `ClientAssumption`.
*Argument*: the refinement is step by step, with the place of a record given by the
step of its goroutine (`StepOf`), which the guards of `holdSent` and `releaseSend` ask for.
`SendsInv` has the count as the cardinality of the goroutines between their begin and
their end. `CloseNeverMissesARecord` compares a number sampled in two steps:
`CloseInv` keeps the first sample at least the number of sends that began before `Close` and still
run; between the samples a send can only end, and a record then moves from the sends
to the held, which are counted second. A record counted twice is allowed, one missed
is not. The same invariant says that whatever gives the breaker back has seen the
sends of `before` end.

**Leases** (`enforcement_leases`). *Assumption*: `RegistryAssumption`; a finite set of
clients. *Argument*: `LeasesCounted` is inductive together with the types: a key that is
polled counts its unreleased leases and they all point to its registration, so a Release
that finds another registration, or none, finds none; `adopt` re-establishes the count
after a Stop. `TypeOK` needs it in turn, for `leases - 1`. `NoPollLeftBehind` is not
inductive: `Boot` looks at the `stopped` flag alone. `PollInv` adds that whatever is
neither registered nor about to be stopped is stopped (`OthersStopped`), that a poll is
registered under one key or in the hands of one Release (`Apart`), is booted by one
Start (`BootedOnce`), and stays registered while Stop waits for it (`StopWaits`).

**Media jobs** (`media`). *Assumptions*: none are needed; the parameters may be any sets.
*Argument*: `UsageOnce` lets a record be made only where there is none yet, and only of
what is true now, while `Send` records an `answer` that was drawn steps before.
`StageFits` carries it over: a call that is about to record holds an answer that is true
of its job and stays so (`running` may become an end, and `unfinished` remains true of
it; a `rejected` job is one that never existed, because nothing creates it any more), and
a call that has not ended has recorded nothing. Each step then maps to `Begin`, `Finish`,
`Record` or a stutter. `BackgroundRecords` needs that same emptiness: a wait that moves to a
goroutine has no record yet that could have missed the client.

**The video tracker** (`media`). *Assumption*: `VideoLimits` (positive limits; the empty
text is no operation's name, which the code returns early on); any callers and any
operations, in any number. *Argument*: `TrackerInv` accounts for the records: of each name
those sent and those about to be are as many as the times it was forgotten, and one more
while it is among the settled (`RecordsCounted`). A full tracker moves a name from one side to the other in the
step that admits another; for that the settled names have to be those in the order, each
once, and never pending (`RecordedNames`). That somebody who saw the end has a record
cannot be told from the records alone: a wait settles a name with no default, so it must
still be known. `Tracked` (pending, settled, evicted or forgotten) is never lost by any
step (`NothingLost`), holds of whatever a caller waits for or settles (`CallersFit`), and
of any submission once its caller has tracked it (`KnownTracked`), which is why a poll can
make up settings only for another process's operation or one that was dropped
(`PendingExcused`, `SentExcused`).

**Shared clients** (`components`, as the next three). *Assumption*: `SharedAssumption`.
*Argument*: clients and breakers are numbered tables that grow at their end; a
client's breaker has its key, and a registered breaker is its key's (`BreakersOfKeys`).
So a release that finds another breaker under its key must hold a forgotten one. For
`NoClientOrphaned`: one goroutine at a time holds `setupMu`, and while it builds or
installs, no other has installed a client it would overwrite.

**Job reports.** *Assumption*: `JobAssumption`. *Argument*: what Revenium stored names the call
it came from, and that call sent it (`JobSound`); a reporter's knowledge that its report
may have been applied never lags behind what was applied or may still be applied late
(`ReporterSound`); a writer has at most one request that was or may be applied
(`WriterSound`). A job's outcome only grows (`JobGrew`), so what was read stays true.

**The LiteLLM proxy.** *Assumption*: `ProxyAssumption`; any callers, users and limit.
*Argument*: reads are numbered and only the one under way runs (`ReadsTyped`); none that
ended brought a newer list than the one at hand (`NewestRead`), so a caller whose read
has ended judges by what it brought or by something later (`WaitedFor`).

**Tool runners.** *Assumption*: `TurnsAssumption`. *Argument*: `runnerWillCallModel`, the
wrapper's prediction, agrees with the runner on every conversation (`Predicted`); the
counts then move together in every step.

**Streams** (`components`, as the next two). *Assumptions*: `ClockAssumption`;
`StreamsAssumption`, what the providers' protocols promise and the code relies on, kind by
kind (`IsStream`): counts only grow; a chunk tells all of them, except that an Anthropic
message may leave out one that did not change; a choice of a chat has no output after it
finished; one event ends a response and it alone tells; a message starts first and has its
stop event; a Bedrock message that counts, counts something (a message of no token at all
would keep the estimate); Perplexity tells of no cache; xAI, which counts thoughts apart
from the answer, does not tell of thoughts alone (`recordChunk` takes over only what has a
prompt or an answer). Any number of chunks, choices and
closers. *Argument*: `StreamInv` keeps where the reader is in the wire (`Position`) and
what its state tells of the chunks taken in, not of the one in hand (`Gathered`, over
`Taken`): what was told last, which choices finished, whether the stop event came. The
clock of an OpenAI stream needs both directions: an `end` that is set is no earlier than
the last output and no later than the moment the stream was over (`TimeKept`), and it is
set again to nothing by output of a choice that has not finished, which is why
`FinishesLast` is needed; the choices its clock has kept are those it was seen to show and
finish (`SeenKept`), so `end` is set exactly when the stream was over. A record is made only while the stream is
open, so `OneHonestRecord` carries over by itself afterwards. For `ToldIsBilled`, `Telling` says
of each kind what the usage gathered must be when `told` was told last (`Tells`), and one
lemma per kind that a chunk keeps it so (`ChatTells`, `ResponseTells`, `PerplexityTells`,
`ProxyTells`, `GoogleTells`, `MessageTells`, `InvokeTells`, `ConverseTells`); the hardest is
a message whose delta leaves counts out, where the total of the cache writes replaces
an earlier split of them (`AtDelta`, `LeftOutIsTold`). A second lemma per kind says that the
record taken apart the platform's way gives the counts back (`OpenAIBills` to
`MessageBills`).

**The decision.** *Assumptions*: `DatesAssumption`, `ModelsAssumption`, `RulesAssumption`:
any dates, any models called, and any lists of rules with any filters of the shapes a
poll may bring (a filter on models with `IS_NOT` names at most one). *Argument*: the
specification takes one step, so the invariant (`Decided`) is that the verdict is the
one `evaluate` gives; the work is in the operators. The forms under which a call may
be metered are shown to be the candidates that the code compares with
(`CandidatesAreMetered`, `MeteredAreCandidates`), for inclusion and exclusion apart. For
people: a filter matches just what is in its scope (`FiltersMatchTheirScope`); the breach that is
found is the caller's own, whichever spelling or key the platform filed it under
(`BreachesAreTheCallers`); what `putFirst` moves to the front hides no department's budget
(`DepartmentsStopTheirOwn`); and the loop of `evaluate` stops at the first rule that
stops (`RulesThatStop`).

**Records of a call and of its retries.** *Assumptions*: `TextAssumption` (the markers of
an absent and of an unnamed credential are no texts), `UsageAssumption`: any texts under
any keys, any person, in each of the four places where metadata may be set, and any finite
set of failed attempts. *Argument*: `overlay` of the four places gives metadata again
(`OverlayIsMetadata`), and the person, the organization and the credential found in them by
the decision (`DecisionSays`) and by the record (`PreparedSays`) are compared case by case of
who is named where (`DecisionIsRecord`). An attempt keeps its ids unless it is the retry
that carries the caller's (`AttemptKeepsItsIds`).

**Provider calls** (`components`). *Assumption*: `CallsAssumption`, that each call asked for
is an `IsCall`: any consumption, any lengths of a video, any number of images, any
sequence of passes, any number of times a turn is sent, any metadata. What it
does exclude is stated there: an Azure setting that does not validate, a LiteLLM
deployment that answers with a dated snapshot though its provider serves none, a blank
person remembered. An answer may name its model or not, for every chat, message and
OpenAI entry. *Argument*: a behaviour is one call, so the
invariant (`CallsInv`) says no more than that what ran is nothing or the call's `Outcome`;
the work is in showing of each provider's `Outcome` that it leaves one record of its own or
nothing (`Once`), under a name the rules decided on (`NamedAs`), with the right tokens
(`TokensRight`) and length (`LengthRight`); together they are `Good`. `MeteredIsGood` shows it
once for the shape most calls share, over every seam a call can fail at, and leaves each
provider its counts. What goes beyond that shape:
* LiteLLM: whichever of the answer's model, the deployment, the group or the requested route names
  the record, that name is of a route that was judged or a snapshot of one
  (`LiteLLMModelIsJudged`); usage is read back wherever a proxy puts the cache writes
  (`CountedSays`, `ChunkUsage`); the person and the capture switch survive the headers
  (`MetadataIsRight`).
* Anthropic: a turn's billed passes are laid out after the turn by their rank among its
  iterations (`RankedIsInverse`), so each is there once, under an id and, if the caller gave
  one, a key of its own (`DistinctValues`, `TurnsPassesAreRight`); a turn that failed on
  Bedrock is recorded by the fallback or as the failure it was, never as both
  (`BedrockFailedIsGood`).
* fal and Runway: the length billed is the result's, what was asked for or the model
  family's, and is said to be unknown exactly when there is none of these.

**Only model-checked** are the liveness properties `Recovers`, `CallsReturn`,
`HeldRecordsLeave`, `BreakerGivenBack`, `EngineCallsReturn`, `FailsOpen` and
`AbandonedIsRecorded`: the prover has no reasoning about ENABLED, and so none about
fairness. Every other property of a passing run is stated by a theorem above.

## 6. Where the code and its words disagree

Two runs check what a document or a comment says and find it violated; their
counterexamples are in `PROJECT.json` under "findings".

* `client_breaker`: the comment on `AcquireCircuitBreaker` (`core/resilience/global.go:76`)
  says "the breaker is forgotten once its last user is done". When both waits of `Close`
  succeed it gives the breaker back without waiting for the replay loop, which may
  already be at `flushMu`, or take a tick rather than the closed channel, and then
  resends what the drain put back through the breaker already forgotten
  (`core/metering/client.go:302`).
* `unmarked_models`: the comment on `ServedModelMayBeDated`
  (`core/enforcement/context.go:66-73`) says that a call not so marked, Groq's, Ollama's
  and Perplexity's among them, "is recorded under exactly the requested name". These
  three record the name the answer gives (`groq/middleware.go:234`).

Met while modelling, and not listed as findings because no run states them as
properties; the models follow the code in each:

* Between `Execute` and `HoldOpenFor` in `ExecuteHonoringRetryAfter`
  (`core/resilience/retry_after.go:47-52`) the lock is free, so the breaker may let another
  caller in that the wait would have kept back. A retry sleeps for the wait of its own
  answer (`retry.go:135`), though another may hold the breaker for longer; it is then refused.
* `SendSync` reserves nothing for its first send (`core/metering/client.go:133`), so
  that record is not among the bytes waiting for their first send.
* The queue's and the resends' warnings have a latch each (`buffer.go:263`), so one outage
  may log two, where the README (line 562) speaks of one.
* `Engine.Check` goes by key (`core/enforcement/engine.go:216`), so an engine that was
  released still judges while another client keeps the key's poll up. `Stop` may return while
  a `Release` that took a poll before it still waits for that poll's loop.
* The client managers of `openai/client.go` and `grok/client.go` let two concurrent first
  calls create a client each; the one overwritten is not among those `CloseAll` closes,
  nor is one removed by hand.
* The comment at `google/video_tracker.go:24-26` says the oldest unread video is dropped; a
  name settled and registered again may stand for its earlier place in the order.
* Streams given up by their reader are recorded `END` by OpenAI, Perplexity and LiteLLM,
  `CANCELLED` by Anthropic and Google. A Responses stream that breaks off drops its tokens, even
  after its final event. A beta stream that ends before its first event leaves no record,
  though its request was sent. Bedrock streams hold their lock while they wait for the
  wire, so a close waits with them; they do not tell thinking tokens. A Converse stream
  closed between `messageStop` and its metadata records an estimated input. A fal
  stream whose chunks cannot be parsed is recorded with nothing. The loop over
  `AllStreaming` does not end by itself if a turn is never read.
* LiteLLM keeps an earlier split of cache writes beside a later total; the person a
  proxy names is left off the record of a call that failed without an answer; and the list of
  models a route may lead to is read for the check and again for the record, so a list
  replaced in between parts the two.
* A Runway creation that got no answer, one that cannot be read or a 5xx is deliberately
  not recorded, for there may be a task (`recordCreateFailure`, `runway/task.go:83-91`).
* The comment on `GetGenaiClient` (`google/middleware.go:200-206`) says that every finished Veo
  operation polled through `Operations` is recorded, whoever submitted it. The transport
  looks only at polls whose name tells a Veo model (`isVeoOperationPoll`,
  `google/video_tracker.go:355-376`): a video under any other name, even one submitted by
  this client, is recorded only if a wait of this client sees its end.
* An OpenAI embedding is recorded under the answer's name with no fallback
  (`openai/embeddings.go:44`), as is an Anthropic API message
  (`anthropic/turn_payload.go:33`), and the chats of Groq, Ollama and Perplexity: an answer
  that names no model leaves a record without a name the rules could have been asked about.
* A job report refused as already made, whose look at the stored report fails, is answered
  like one that another reporter came before (`core/jobs/client.go:114-121`, and
  `outcome_fields_test.go` tests it): that answer may be given to the very reporter whose
  report was applied.

## 7. Not modelled, and the plan

| part | why |
| --- | --- |
| webhook verification, `webhooks/` | one pure comparison of a MAC and a time window; no state |
| prompt capture | truncation and redaction of text |
| HTTP client, error types | wrappers of the standard library; the statuses they yield are inputs of the models |
| configuration | reading and defaulting of settings; the models take what `normalized` returns as constants |
| tests, examples, scripts | not the program |

Of modelled parts, left out: the filters `RetryOnly`/`RetryAlso` and contexts that end
during a retry; the validation of a job report and the read-only queries of `core/jobs`;
the building of requests and parsing of answers that no property tells apart; payload
fields that are copied verbatim.

Left: that the prompts captured with a record are within their limits, once
`core/prompt` is modelled.
