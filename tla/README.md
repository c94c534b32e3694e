# Verification of lynx-redis

TLA+ models of the Redis plugin of the Lynx framework (`github.com/go-lynx/lynx-redis`), the TLC runs
that check them on small instances, and TLAPS proofs of what matters most for every instance.
Paths and lines below are those of the repository.

| Component | Modules | Checked by | Proved in |
|---|---|---|---|
| Lifecycle and background collectors | `ClientHandle`, `Lifecycle`, `LifecycleProperties`, `MCLifecycle` | `lifecycle_*` | `LifecycleProofs`, `OutcomeProofs` |
| Distributed lock | `Lease`, `DistributedLock`, `DistributedLockProperties`, `MCDistributedLock` | `lock_*` | `DistributedLockProofs` |
| Rate limiter | `SlidingWindow`, `RateLimiter`, `RateLimiterProperties`, `MCRateLimiter` | `limiter_*` | `RateLimiterProofs` |
| Cache manager | `Cache`, `CacheProperties`, `MCCache` | `cache_*` | `CacheProofs` |
| Configuration, options, mode | `Config`, `Configuration`, `ConfigurationProperties`, `MCConfiguration` | `config_*` | `ConfigurationProofs` |

A component's module holds its state, actions and specification, and the *mutants* of its actions:
operators named after a plausible bug, which no specification uses and each of which breaks one of the
properties. Its `Properties` module states what is checked and the inductive invariant, its `MC` module
the instances, its `Proofs` module the theorems. `ClientHandle`, `Lease` and `SlidingWindow` are abstract
specifications: what a user of the component sees, which the component's specification is shown to implement.

## 1. Inventory

**Lifecycle** (`lifecycle.go`, `lifecycle_context.go`, `types.go`).
State: the published client `rdb`, the quit channel `statsQuit` of its collectors, one WaitGroup `statsWG`
for the collectors of *all* clients, the configuration `conf`, the runtime `rt`; `lifecycleMu` serialises
starts, cleanups and `Configure`, `mu` protects the fields. Operations: `StartupTasks[Context]` constructs
a client, pings it, publishes it, registers it with the runtime and spawns the collectors;
`CleanupTasks[Context]` takes the client out, closes the quit channel, waits for the collectors (until
they stop, a 10 s cap, or the context) and closes the client in a goroutine of its own; `Configure` and
`InitializeResources` write the configuration. Hard: a context may end anywhere in a call, the cap may
beat a collector, and what a cancelled cleanup leaves behind (a goroutine in `statsWG.Wait`, one in
`Close`, collectors in mid-probe) meets the next start. Correct means: no client is leaked, published
twice or closed while published; no collector is orphaned; nothing reads a closed client; every call
returns; a cleanup that reports success is done.

**Background collectors** (`pool_stats.go`, `health.go`). Two goroutines per client, each a loop over a
quit channel and a ticker. A tick reads the plugin's *current* client, the readiness probe reads it twice.
A panic in a tick is recovered outside the loop, which ends the collector.

**Resource contract and Provider** (`provider.go`). A start registers the raw client under `redis`, the
plugin's name and `client`, and a Provider that resolves the current client at every call. Getters only
read.

**Distributed lock** (`enhanced_features.go:228-354`). State: one key of a Redis server with a time to
live; per instance its value, its TTL, a flag `unlocked` and a mutex. `Lock` and `LockWithRetry` are SET NX
PX in a loop, without the mutex; `Unlock` and `Extend` are scripts that compare the value first, under the
mutex. Hard: the key expires while its owner runs, replies are lost and go-redis sends commands again, a
request that was given up may arrive later, the owner may die. Correct means: two owners never overlap,
nobody's call takes another's lock away, a lock never stays for ever.

**Rate limiter** (`enhanced_features.go:356-431`). State: a sorted set with a time to live, scored by the
callers' clocks. `Allow` is one script (trim, count, add, expire), `GetUsage` a trim and a count, `Reset` a
delete. Hard: the script goes by a time read elsewhere and earlier, it may run twice for one call, and
boundaries (exactly `limit` entries). Correct means: never more than `limit` calls in the window, none
refused but for the others that were admitted, no key left for ever.

**Cache manager** (`enhanced_features.go:15-226`). A JSON cache in Redis in front of a source of truth, and
counters under a mutex. `GetWithLoader` is GET, and on a miss the loader and SET; `SetWithRetry` is SET in a
loop with backoff; `DeletePattern` is SCAN page by page and then one DEL. Hard: the source changes, keys
expire and others write between any two of these; a SET is retried, sent again, or arrives late; a cluster.
Correct means: nothing obsolete is served for longer than it must be, nothing undecodable is returned, a
deletion misses no key that was there.

**Configuration** (`validator.go`, `options.go`, `health.go:13-41`, `conf/`). Legacy fields are folded in,
defaults fill in what is zero or nil, nine groups of rules check ranges and relations, in place, whenever
the plugin is initialized or configured; `options.go` translates the result for go-redis, which constructs
a topology from it, and `detectMode` reports one. Hard: boundaries, defaults that meet what was set, three
functions that each decide what a cluster is. Correct means: what was accepted stays accepted and
unchanged, what was given takes effect, the report matches the client.

**Reports and plumbing** (`health.go` reports, `metrics.go`, `hooks.go`, `plug.go`, `plugin_meta.go`,
the rest of `conf/`). Reads, Prometheus collectors, registration with the framework, generated code.

Interactions: the framework calls the lifecycle; the lifecycle owns the client everyone else obtains
through the Provider; lock, limiter and cache are built by applications around that client and share state
only through Redis, so their modules do not compose with the lifecycle beyond "a command may fail", which
each of them has as an action. The configuration meets the lifecycle twice: `Lifecycle` has its writers,
their interleavings and which configuration a client was built from, with configurations as opaque values;
`Configuration` has what is in them, with each call atomic.

## 2. Lifecycle

### Model

A client is named by its *generation*: the g-th client a start constructs is `g`, 0 is nil. The client's
quit channel, waiter goroutine and collectors are indexed by it, while `rdb`, `statsQuit` and `statsWG` are
single, as in `PlugRedis`. An action is what one goroutine does between two points where others can see it.
`lifecycleMu` is a variable; what the code does under `mu` is one action.

| Code | Actions |
|---|---|
| call and refusal at the door (`:58-66`, `:129-137`) | `StartBegin`, `CleanBegin`, `RefuseCancelled`, `Cancel` |
| start (`:66-116`) | `StartRejected`, `StartDial`, `PingOk`, `AbortStart`, `Publish`, `RegisterContract`, `SpawnPool`, `SpawnInfo` |
| cleanup (`:137-183`) | `CleanNothing`, `CleanTake`, `CloseQuit`, `AwaitStats`, `CleanReturn`, `CleanAbandon` |
| goroutines it leaves (`:154-157`, `:170`) | `WaitBegin`, `WaitReturn`, `FinishClose` |
| collectors | `Tick`, `Reread`, `FinishTick`, `CollectorExit`, `CollectorPanic`, with `Done` |
| configuration (`:17-45`, `:187-209`) | `InitializeLoad`, `InitializeStore`, `Configure` |

`sync.WaitGroup` is modelled by what it does: `Done` at one *releases* the waiters; a released waiter that
finds the counter positive when it runs panics ("WaitGroup is reused before previous Wait has returned"),
and nothing in the code recovers that, so `panicked` stops the process. The other misuse panic of the
WaitGroup, Add concurrent with a Wait at zero, needs the same preconditions and is folded into this one.
An abandoned wait ends the same way, by context or by cap; the cap only fires if `CapFires`.
`lifecycle_orderly` sets it FALSE: every client is built with `ContextTimeoutEnabled: true`
(`options.go:65`), so a probe ends within its 3 s + 2 s and the cap of 10 s is reached only by a client
that does not honour its context; the other runs let it fire.

`RegisterContract` is a nondeterministic subset of the names, since a failed registration is logged and
passed over. Left out: the values of gauges and the provider and configuration resources.  That
`InitializeResources` prepares a configuration in place that other goroutines may be reading is harmless
because it writes back what is there: `AcceptedIsStable` of section 6.

`ClientHandle` is the abstract specification: a client is dialled, published only while no other is,
withdrawn, closed; withdrawn clients are closed in the end; a crash closes all. `Lifecycle` implements it
under the mapping `Life` of `LifecycleProperties`.

### Properties

* `PublishedClientIsOpen`, `NoLeakedClient`, `NoOrphanCollector`: what a getter returns is open; every
  open client and every running collector is somebody's to stop.
* `WaitMeansStopped`, `CollectorsUseTheirClient`, `PanicOnlyAfterAbandonedWait`: the shared WaitGroup does
  its job as long as no cleanup gives up on it, and one that does is the only way to a panic.
* `FailuresCounted`, `RegisteredWasPublished`, `StartDelivers`, `CleanupDelivers`: what the counters, the
  runtime and a nil error tell the outside.
* `EveryCallReturns`, `CollectorsStop`, `ImplementsFairClientHandle`: liveness.
* `NeverPanics`, `CleanupNilMeansDown`: for orderly shutdowns. They do *not* hold otherwise, see section 8.

### Fairness

A caller's own steps are weakly fair: each is local or bounded by the ping's 2 s, the probe's 3 s + 2 s or
the close's dial and read timeouts. Taking `lifecycleMu` is strongly fair, because `sync.Mutex` goes into
starvation mode and hands the lock to a goroutine that has waited for a millisecond. `CollectorExit` is
strongly fair, because `select` chooses at random among the ready cases. Nothing makes a call begin, a
context end or a ticker tick; the cap, where it may fire, is a timer and runs out in the end.

### Proofs

`LifecycleProofs` proves `Spec => []IInv` for any set of callers, any subset of them cancellable, any
`MaxGen`, and both values of `CapFires`; `LifecycleAssumption` only says what the constants are. `IInv`
is `TypeOK`, the mutex discipline (`MutexInv`), what the holder of the mutex finds (`HolderInv`), how the
parts of a generation relate (`GenInv`), the first three safety properties, `CounterIsExact`,
`WaitMeansStopped` and `CollectorsUseTheirClient`. None is inductive alone. `TypeOK` needs
`CounterIsExact`, or `Done` could take the counter below zero; `CounterIsExact` needs `HolderInv` to know
that a collector being spawned does not run yet, or its cardinality would not grow; `WaitMeansStopped`
needs `CounterIsExact`, since a counter of zero must mean that no collector of any generation runs;
`CollectorsUseTheirClient` needs `WaitMeansStopped`, since a client begins to close only when nobody
reads it or its waiter has not come back. From it follow type correctness, each safety invariant, the
absence of panics without an abandoned wait and the refinement of `ClientHandle`'s safety part.

`OutcomeProofs` goes on from `IInv` to what callers, counters and other plugins are told:

* `RegisteredWasPublished` and `FailuresCounted` are inductive together with `IInv`. The counter is the
  cardinality of a set of generations, and the set may only grow in `AbortStart`: a close that finishes later
  belongs to a client with a quit channel, which is `GenInv`.
* `StartDelivers` needs one fact more, `SpawnInv`: before the info collector is started the other has been.
  `MutexInv` keeps every other caller from the client meanwhile.
* `CleanupDelivers` needs `WaitedInv`: a caller that came past its wait with a live context came past it
  because the waiter was done. With the cap this is false, so the theorem assumes `~CapFires`, like the run
  that checks the property (`lifecycle_release`); contexts may end.
* `NeverPanics` and `CleanupNilMeansDown` are for orderly shutdowns, `Orderly == Cancellable = {} /\ ~CapFires`,
  an assumption on the constants that `lifecycle_orderly` satisfies (section 8: they fail without it).
  `OrderlyInv` is what makes a difference then: whatever goroutine of a cleanup is under way, its caller still
  holds the mutex and waits for it. So nobody can spawn a collector while a waiter waits, which is what a panic
  takes; and whoever gets the mutex next finds every older generation closed, which is why a cleanup that finds
  nothing may report success. `PanicOnlyAfterAbandonedWait`, proved before, gives the first of the two.

## 3. Distributed lock

### Model

Each instance has a value of its own, so the key is the instance whose value it holds, or `None`. Nothing
holds a clock: the key's time to live (`pttl`), what a call would grant (`promise`) and what an owner may
rely on (`lease`) count down with `Tick`, which makes the state finite without a bound on time. `Tick` and
the server run at the same rate, which is what any lease needs. `promise` is set when a command is *sent*,
not when its reply arrives, and `lease` is what is left of it at the reply: this is what a careful owner may
count on, and the properties are about it. While `Unlock` runs the owner counts on nothing, while `Extend`
runs on no more than `Extension`.

`Serve` is the server's execution of a command, apart from `Send` before and the reply's reading after it,
so the key may expire or be taken in between. `Resend` is go-redis's retry when no reply comes; `Fail` is
its error, or the context's. With either, a request that was not served may stay on its way (`late`) and be
served at any later time or never. Instances in `Delayed` have such requests and are used the way the type
suggests (lock until it succeeds, extend, unlock); the others are used freely (locked again after they
expired, unlocked while not held), with all losses but this one, because an instance's value is the same
in all its acquisitions and a late `Unlock` would delete the key of a later one. At most one late request
of a kind per instance is told apart.

Assumptions made by the shape of the model: one server that executes commands one at a time and
forgets no key before its time (no failover to a replica that has not got it), and a single `Extension` for
all `Extend` calls. `EXPIRE` is what the script runs: whole seconds (`Granted`), and zero deletes the key.
A `Lock` whose attempts are used up still waits once before it fails (`:275-283`); `LockGiveUp` is that.
An `Unlock` or `Extend` refused by `unlocked` changes nothing and is not an action.

### Properties and proofs

`LeaseIsBacked` (while an owner counts on the lock the key holds its value and outlives the lease) gives
`MutualExclusion`; `OnlyOwnerReleases` says that a key goes by expiry or by its own instance's Unlock;
`ExtendDelivers` what a nil from `Extend` means; `KeyRunsOut` that no lock stays for ever, whoever dies.
`KeyRunsOut` is checked under `WF(Tick)` alone: no fairness for threads, so each may stop at any point.
`UnlockReleases`: once `Unlock` has an answer, even "not held", the key does not hold the instance's value, so
the error after a lost reply and a second run of the script is spurious and harmless. Instances with late
requests are excepted, because a late SET NX may set the key again.

`Lease` is the lock as its owners see it: granted for a time while nobody else relies on it, waived in part or
whole, running down. `ImplementsLease` says that the server, the retries, the lost and late requests and the
mutexes come to just this, with `lease` for the abstract `left`.

`DistributedLockProofs` proves all of these but `KeyRunsOut` for any instances, threads, times and numbers of
resends, under `LockAssumption` and `ProperUse`: each thread has an instance of its own and `Extension` is whole
seconds. Both are needed, and section 8 shows what happens without. The inductive invariant `LeaseInv` adds
to `LeaseIsBacked` that a granted but unread reply is backed too (`GrantIsBacked`), that leases and promises
are bounded by what was asked for (`PromiseBounded`: an `Extend` may *shorten* the key's life, so the owner's
lease must have been cut before), that the mutex is held exactly during `Unlock` and `Extend`, and that late
requests find an owner they cannot hurt (`StageInv`, `LateInv`). The refinement follows from it action by
action: `LockAcquired` and `ExtendReturn` map to `Grant`, where `GrantIsBacked` says that the key is the
owner's and `LeaseIsBacked` that nobody else's lease is then above zero; `UnlockCall` and `ExtendCall` map to
`Waive`; the rest leaves `lease` alone. `LeaseExclusive` proves of `Lease` alone that one owner has it at a
time: mutual exclusion again, by an argument of five lines once the implementation is out of the way.
`UnlockReleases` rests on an invariant of its own, `ReleasedInv`, which is inductive together with `LeaseInv`:
no other thread and no late request can set the key to a value whose owner is in `Unlock`.

## 4. Rate limiter

### Model

A member of the sorted set is one `Allow` call. Scores are kept as *ages*: a caller whose clock is ahead
writes a negative one. `Allow` reads a clock that is up to `Ahead` ticks fast or `Behind` slow; until
`Serve` the age grows, up to `Behind`, so `Behind` covers the way to the server as well. `at` is the time
since a call was admitted, by the server's clock: it is what the properties count, and nothing in the model
acts on it. `Resend` runs the same script again with the same member, after the first run or instead of it;
`Return` ends the call at any point, an error included. `GetUsage` trims by a window of its own. Its count
and `Allow`'s argument checks change nothing.

Bounds: three members, reused once they are older than anything counts (`Horizon`); `Oldest` caps ages at
a value every trim removes (`LimiterAssumption`). Left out: `window` below a millisecond, different limits
on one key.

### Properties and proofs

With clocks that are off, the exact sliding window is not what the code delivers, so the properties say
what it does: `WindowLimit`, never more than `Limit` admissions within `Window - Behind - Ahead`;
`NeverTooStrict`, a refusal needs the admission of `Limit` *other* calls within `Window + Behind + Ahead`.
There is one exception, which the code has and a limiter should not: a script that is run again because its
reply was lost counts the member its first run added, so `Limit - 1` others are enough to refuse a call that
was admitted (section 8). `RefusedForOthers` is the promise without the exception; it is proved for
`Resends = 0`, and no run checks it since with a resend it is false. With exact clocks and no resends the
properties are the promise of a sliding window. `SetRunsOut`: a set nobody calls about disappears.

`SlidingWindow` is the limiter without a server, a set or callers' clocks: a call is admitted when fewer than
`Limit` others were within the stretch, and not twice within it. `ImplementsSlidingWindow` says that
`RateLimiter` is one, of stretch `Window - Behind - Ahead`: scripts that run twice, lost replies, other
callers' trims, expiry and a wrong clock admit nobody too many, at any single step and not only in the count.

`RateLimiterProofs` proves all but `SetRunsOut` for every limit, window, clock error and set of callers, under
`LimiterAssumption` and `ProperUse` (GetUsage's windows are not shorter than the limiter's, or it removes
what `Allow` should count). The invariant `LimiterInv`: the set is never larger than the limit, a score is
within the clocks' error of the true age and the key outlives its youngest member (`ScoreInv`), and every
recent admission is still in the set (`RecentIsKept`), which is what turns a bound on the set into a bound
on admissions. For the refinement a further lemma is needed, `KeepsRecent`: the script that is about to admit
keeps every recent admission when it trims, since its own clock and the clock of the admission it might
remove are both within the error; its count is therefore at least that of `Recent`. `WindowBounded` proves
the bound of `SlidingWindow` itself. `Leniency` (`NeverTooStrict`) goes the other way, `RefusedStep`: what the
script finds after trimming was admitted within the horizon, and taking the caller's own member away leaves
at least `Limit - 1`. `FirstRuns` needs the invariant `OneRun`: no two calls share a member, and without
resends the member of a call whose script has not run is in no set.

## 5. Cache manager

### Model

A copy of a value, in the cache or in the hands of a call, is modelled by its *obsolescence*: 0 as long as
it is what the source of truth holds, then the ticks since it no longer is. Versions and clocks are not
needed, and the state is finite without a bound on updates or time: `Horizon` caps obsolescence above
everything a property distinguishes. `Update` makes every copy of a key's value obsolete, `Tick` ages
them, `Junk` is what another program stored and JSON cannot decode.

| Code | Actions |
|---|---|
| `GetWithLoader` (`:50-91`) | `GetBegin`, `GetHit`, `GetMiss`, `Load`, `LoadFails`, `Serve`, `SetFails` |
| `SetWithRetry` (`:95-128`) | `SetBegin`, `Serve`, `SetFails`, `WaitEnds` |
| `DeletePattern` (`:131-153`) | `DeleteBegin`, `ScanKey`, `ScanEnds`, `Del`, `DeleteReturn` |
| server, network, others | `ServeLate`, `LoseLate`, `Update`, `Foreign`, `Evict`, `Tick` |

A GET error goes on to the loader exactly like a miss and a value that does not decode, so `GetMiss` has no
guard on the cache. A SET that fails or is given up may stay on its way and be stored later (`late`). A DEL
that was given up is not served late: its call has returned an error.

`Delay` bounds the time from the reading of a value to its last SET. The code does not bound it: a loader
may take as long as it likes, the backoff of `SetWithRetry` doubles, and a request may be under way. `Delay`
is therefore a fact about the environment that the staleness bound depends on, stated as a constant; a
value that is older is never stored in the model. `TTL` is positive; go-redis treats 0 as no expiry and -1
as KEEPTTL, and neither bounds anything. SCAN returns a key that is there from its beginning to its end
(Redis guarantees no more); each key is one page. Bounds: `MaxLate` requests on their way. Left out: the
statistics.

### Properties and proofs

* `HitIsFresh`: a hit decodes, and its value has been obsolete for at most `TTL + Delay`. Not `TTL`: a
  loader that read before an update stores after it.
* `DeleteIsComplete`: when `DeletePattern` returns nil, no key that was there at its call has been there all
  along. Keys that are stored meanwhile may survive or go; nothing can be said of them.
* `EventuallyCurrent`: unless the source changes for ever, the cache ends up without an obsolete value, by
  expiry alone: only `WF(Tick)` is assumed, no caller has to do anything. A hit that renewed the time to
  live would break it.

`CacheProofs` proves all but the last for any keys, callers, ttl and delay. `FreshInv` (any number of nodes):
a held value is obsolete for at most a tick longer than it is held, and `cached + pttl <= TTL + Delay + 1`, so
that age uses up the time to live; `HitIsFresh` follows. `ScanInv` (one node, `SingleNode`): the keys that
have been there all along are among those the scan returned or has yet to reach.

## 6. Configuration

### Model

`Config` is the pure part: `Redis` is the message as a record, `setDefaultValues`, `ValidateRedisConfig` with
its nine groups of rules, `buildUniversalOptions` and `detectMode` are functions on it, written field by field
but for user name and password, which are passed through. Durations are milliseconds or `None` for nil. An
address is its scheme and whether the rest is host and port: only this is decided on (`REDISS` stands for any
prefix not in lower case, which is recognised but not removed). Names are their class (a master name is empty,
blank or a name). Whether the framework's policy refuses `insecure_skip_verify` is the constant
`InsecureRefused`.

`Configuration` is what happens to a configuration: `Initialize` (from the runtime), `Reinitialize` (in place,
also when that ends in an error), `Configure`, `Start` (options from what is in memory, or from the empty
configuration) and `Stop`. `given` remembers what a caller wrote, `refused` what was just turned down,
`client` the options with the configuration they came from. There is no deadlock.

### Properties and proofs

* `AcceptedIsStable`: what is in memory is accepted and its own default, so a restart neither fails nor
  changes it.
* `ClientMatchesConf`: as long as the client is that of the configuration in memory, the reported mode is
  the constructed topology, and a cluster is never asked for a database but 0. The time after a `Configure`
  and before the restart is excepted: the live client is then the old one (`lifecycle.go:185-186`), while
  `detectMode`, and with it every report, goes by the new configuration.
* `GivenTakesEffect`: each duration the caller gave, under either name and zero included, and each count
  other than zero reaches the options as it was given. What go-redis makes of a zero is external. Of what
  was not given the property says nothing: the repository names several defaults for it (section 8).
* `OnlyDefaultsConflict`: a configuration that obeys every rule as it was written is refused only in the
  four cases `DefaultsConflict` lists.

`ConfigurationProofs` proves all of them, and `ConfigInv`, for every configuration there is and both values of
`InsecureRefused`. What is needed of the constants: `None` is no integer and no configuration. The invariant
`ConfigInv` is `TypeOK` and `PreparedInv`, which says that what is in memory is `setDefaultValues` of something
given and accepted, and the client's options come from such a configuration; its only interesting step is
`Reinitialize`, which needs `DefaultsTwice` (setting defaults is idempotent). The four properties are then
lemmas about `Config`: `AcceptedAgain`, `Matches`, `Reaches` and `ConflictsOnly`.

## 7. Runs

| Run | Instance | Shows |
|---|---|---|
| `lifecycle_safety` | 2 cancellable callers, 2 generations, cap may fire; symmetric callers | all safety properties, `StartDelivers`, refinement of `ClientHandle` |
| `lifecycle_orderly` | 2 callers, no cancellation, no cap; Configure and InitializeResources with 2 configurations; one registered name | no panic, cleanups that succeed are complete, `OrderlyInv` |
| `lifecycle_returns` | 2 cancellable callers, 1 generation, cap may fire | every call returns |
| `lifecycle_release` | 1 cancellable caller, 2 generations | collectors stop, clients are closed, `CleanupDelivers` |
| `lock_leases` | 2 instances and threads, one free, one with late requests; TTL 3, Extension 2, 2 attempts, 1 resend | the lock's properties, refinement of `Lease` |
| `limiter_window` | limit 2, window 4, clocks off by 1 either way, usage windows 4 and 5, 1 resend, 2 clients, 3 members | the limiter's properties, refinement of `SlidingWindow` |
| `cache_races` | 2 keys on one server, 1 caller, 1 deleter, 1 late SET; TTL 2, Delay 1, 2 retries | the cache's properties |
| `config_accepts` | about 150 configurations around one plain one: each group of rules at its boundaries | the configuration's properties |
| `lifecycle_reuse`, `lock_shared`, `lock_extend`, `cache_cluster` | smallest that fails | section 8 |

Why the bounds are enough. Two generations are what the interesting lifecycle cases need: whatever a cleanup
leaves behind meets one later client (its collectors, its Add, its publication), and nothing relates three
clients but the WaitGroup's counter, which the proof covers. Two callers let every action run while another call
holds or wants the mutex. Two lock instances are one owner and one rival, and times of two and three ticks let a
key expire before, between and after every pair of steps. Three members are the limit of two and one more. In
the cache one caller meets its own late SET, the deleter and the updates: a second caller adds no interference
that `late`, `Foreign` and `Update` do not have already; two keys are a scan of two pages. The configurations
vary the fields of one rule group together and the others not at all, since no rule reads two groups. The proofs
remove these bounds for every invariant and action property of the passing runs; liveness is model-checked only.
`IInv`, `LeaseInv`, `LimiterInv`, `CacheInv` and `ConfigInv` have their module's `TypeOK` as the first conjunct,
so their runs do not list it again. No run disables the deadlock check: collectors, the clock or a new call can
always move, and a process that panicked stutters explicitly (`Halted`).

## 8. Where the code does something else than it says

Shown by a run:

* `lifecycle_reuse` (`lifecycle.go:155`): a cleanup cancelled while it waits, then a start, and the goroutine
  left in `Wait` panics the process.
* `lock_shared` (`enhanced_features.go:259`): `Lock` is not "serialised internally"; with two goroutines on
  one instance it can return nil for a lock that is gone.
* `lock_extend` (`enhanced_features.go:343`): `Extend` by less than a second deletes the lock and returns
  nil.
* `cache_cluster` (`enhanced_features.go:132`): in a cluster `DeletePattern` scans one node, returns nil, and
  has not seen the keys of the others.

Visible in the models, without a run of their own:

* `CleanupNilMeansDown` fails once contexts may end: the cleanup after a cancelled one finds no client and
  returns nil although the first's collectors run and its client is still being closed (`lifecycle.go:147`).
* `InitializeStore` overwrites a `Configure` that came between the read and the write of
  `InitializeResources` (`lifecycle.go:41`).
* An `Allow` whose reply was lost is run again by go-redis and finds its own first run in the set
  (`enhanced_features.go:385-390`): with limit 1 a sole caller is told "Rate limit exceeded" for the call that
  was admitted, and loses the place as well. `RefusedForOthers` is violated in four steps (`Allow`, `Serve`,
  `Resend`, `Serve`) with `Limit = 1` and `Resends = 1`.
* With clocks that are off, more than `limit` calls pass within a full window (`WindowLimit` grants a
  shorter one).
* `SetBegin` needs `MaxRetries > 0`: `SetWithRetry` with `maxRetries` 0 never sends the value.
* `README.md:58` of the repository says `max_retries` 0 is the default and means no retry; `IntOrDefault` makes
  it 3.
* The defaults of `setDefaultValues` (`validator.go:476-521`) are not the documented ones. `connMaxIdleTime`
  is 5 min; `VALIDATION.md:177` says 10 s and `README.md:38` 30 min. `maxActiveConns` is 100;
  `VALIDATION.md:168` says 20 and `README.md:37` ten per CPU. `minIdleConns` and `maxIdleConns` are 10 and
  20, as `VALIDATION.md:166-167` says; `README.md:35-36` says 0. `connMaxLifetime` is 30 min, as
  `VALIDATION.md:178` says; `README.md:40` says unlimited. Dial, read and write timeouts are 10 s, as
  `VALIDATION.md:171-173` says; `README.md:50-52` says 5 s, 3 s and 3 s. `maxRetries` is 3, as
  `VALIDATION.md:181` says.
* `VALIDATION.md:61` allows `PoolTimeout` up to 30 s; `validateConnectionPool` up to 5 min.
* `validator.go:446-448`: filling defaults in first "avoids false positives"; `DefaultsConflict` lists four.
* `VALIDATION.md` accepts `redis://` addresses, and so does `validateAddress`; `buildUniversalOptions` removes
  `rediss://` only (`TrimRediss`), and from sentinel addresses nothing.

## 9. Limits

Out of the prover's reach, and checked by TLC only: liveness under fairness, that is `EveryCallReturns`,
`CollectorsStop`, `ImplementsFairClientHandle` (its safety part is proved), `KeyRunsOut`, `SetRunsOut` and
`EventuallyCurrent`. The auxiliary invariants `SpawnInv`, `WaitedInv`, `ReleasedInv` and `OneRun`, and the
action property `RefusedForOthers`, are proved and not listed in a run. Not modelled, and why:

* `RedisConfigValidator` (`validator.go:524-832`): a second set of rules and defaults that nothing in the
  repository calls, run by a framework that is not in the repository.
* The cache's statistics, health reports, metrics and hooks: values that are written and shown; no decision
  of the plugin depends on one.
* Registration, metadata and generated code.
* Failover of the Redis server and clustering, but for `cache_cluster`.

## 10. Plan

1. Done: the five families above, with their proofs.
2. Done: the outcomes of starts and cleanups, orderly shutdowns, and the refinements of `Lease` and
   `SlidingWindow`.
3. Left: an abstract specification of the cache (a register that may be stale for a bounded time), to say of
   it what `Lease` says of the lock.
