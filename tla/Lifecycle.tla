----------------------------- MODULE Lifecycle -----------------------------
(***************************************************************************)
(* The lifecycle of the Redis plugin: StartupTasksContext and              *)
(* CleanupTasksContext called from several goroutines, the contexts that   *)
(* cancel them, the two background collectors of every client, the         *)
(* goroutine that waits for the collectors, the goroutine that closes the  *)
(* client, and the two writers of the configuration.                       *)
(*                                                                         *)
(* A client is named by its generation: the g-th client constructed by     *)
(* StartupTasksContext is g, and Nil is Go's nil.  An action is what one   *)
(* goroutine does between two points at which another one can see it.      *)
(***************************************************************************)
EXTENDS Naturals, FiniteSets

CONSTANTS
    Callers,        \* goroutines that start and stop the plugin
    Cancellable,    \* those whose context may be cancelled
    Initializers,   \* goroutines that call InitializeResources
    Confs,          \* valid configurations
    RawNames,       \* resource names under which the raw client is registered
    None,           \* a free mutex, a nil configuration
    MaxGen,         \* bound: how many clients are constructed
    CapFires        \* may the 10s cap of a cleanup run out?

ASSUME LifecycleAssumption ==
    /\ Cancellable \subseteq Callers
    /\ None \notin Callers \cup Confs
    /\ MaxGen \in Nat
    /\ CapFires \in BOOLEAN

Gens       == 1..MaxGen
Nil        == 0
Kinds      == {"pool", "info"}

VARIABLES
    lifecycleMu,    \* the caller that holds it, or None
    rdb,            \* the published client, or Nil
    statsQuit,      \* the quit channel in the plugin, named by its client
    statsWG,        \* the counter of the WaitGroup all collectors share
    conf,           \* the configuration in memory
    rt,             \* is the runtime reference set?
    client,         \* generation -> state of its connections
    builtFrom,      \* generation -> configuration it was constructed with
    quit,           \* generation -> state of its quit channel
    waiter,         \* generation -> the goroutine blocked in statsWG.Wait
    collector,      \* generation, kind -> where that collector's loop is
    using,          \* generation, kind -> the client that collector is reading
    pc,             \* caller -> where it is; "ok", "err": its last call's result
    cur,            \* caller -> the client its call works on
    cancelled,      \* caller -> is the context of its call done?
    pending,        \* initializer -> the configuration it is about to store
    registered,     \* resource name -> the client registered under it
    startupTotal,   \* counter redis_client_startup_total
    startupFailed,  \* counter redis_client_startup_failed_total
    panicked        \* did a goroutine panic with nothing to recover it?

confVars    == <<conf, rt, pending>>
contractVars == <<registered>>
pluginVars  == <<rdb, statsQuit>>
clientVars  == <<client, builtFrom, quit>>
statsVars   == <<statsWG, waiter, collector, using>>
callVars    == <<lifecycleMu, pc, cur, cancelled>>
counterVars == <<startupTotal, startupFailed>>
vars == <<confVars, contractVars, pluginVars, clientVars, statsVars, callVars,
          counterVars, panicked>>

Returned == {"idle", "ok", "err"}       \* the caller is in no call
Holding  == {"ping", "publish", "contract", "spawnPool", "spawnInfo",
             "closeQuit", "awaitStats", "awaitClose"}   \* ... and has the mutex
Labels   == Returned \cup Holding \cup {"startLock", "cleanLock"}
Running  == {"idle", "busy", "version"} \* the collector has not called Done
Alive    == {c \in Gens \X Kinds : collector[c[1]][c[2]] \in Running}

TypeOK ==
    /\ lifecycleMu \in Callers \cup {None}
    /\ rdb \in 0..MaxGen
    /\ statsQuit \in 0..MaxGen
    /\ statsWG \in Nat
    /\ conf \in Confs \cup {None}
    /\ rt \in BOOLEAN
    /\ client \in [Gens -> {"none", "open", "closing", "closed"}]
    /\ builtFrom \in [Gens -> Confs \cup {None}]
    /\ quit \in [Gens -> {"none", "open", "closed"}]
    /\ waiter \in [Gens -> {"none", "spawned", "waiting", "released", "done"}]
    /\ collector \in [Gens -> [Kinds -> Running \cup {"none", "exited"}]]
    /\ using \in [Gens -> [Kinds -> 0..MaxGen]]
    /\ pc \in [Callers -> Labels]
    /\ cur \in [Callers -> 0..MaxGen]
    /\ cancelled \in [Callers -> BOOLEAN]
    /\ pending \in [Initializers -> Confs \cup {None}]
    /\ registered \in [RawNames -> 0..MaxGen]
    /\ startupTotal \in 0..MaxGen
    /\ startupFailed \in Nat
    /\ panicked \in BOOLEAN

Init ==
    /\ lifecycleMu = None
    /\ rdb = Nil
    /\ statsQuit = Nil
    /\ statsWG = 0
    /\ conf = None
    /\ rt = FALSE
    /\ client = [g \in Gens |-> "none"]
    /\ builtFrom = [g \in Gens |-> None]
    /\ quit = [g \in Gens |-> "none"]
    /\ waiter = [g \in Gens |-> "none"]
    /\ collector = [g \in Gens |-> [k \in Kinds |-> "none"]]
    /\ using = [g \in Gens |-> [k \in Kinds |-> Nil]]
    /\ pc = [p \in Callers |-> "idle"]
    /\ cur = [p \in Callers |-> Nil]
    /\ cancelled = [p \in Callers |-> FALSE]
    /\ pending = [i \in Initializers |-> None]
    /\ registered = [n \in RawNames |-> Nil]
    /\ startupTotal = 0
    /\ startupFailed = 0
    /\ panicked = FALSE
-----------------------------------------------------------------------------
(* Entering and leaving a call                                             *)

Goto(p, label) == pc' = [pc EXCEPT ![p] = label]

\* Mutant of Return: an early return without the deferred unlock.
ReturnLocked(p, result) ==
    /\ Goto(p, result)
    /\ lifecycleMu' = p
    /\ cur' = [cur EXCEPT ![p] = Nil]
    /\ cancelled' = [cancelled EXCEPT ![p] = FALSE]

\* The call returns, the deferred unlock included; its context goes with it.
Return(p, result) ==
    /\ Goto(p, result)
    /\ lifecycleMu' = None
    /\ cur' = [cur EXCEPT ![p] = Nil]
    /\ cancelled' = [cancelled EXCEPT ![p] = FALSE]

\* A call made with a context that is already done is refused at the door.
RefuseCancelled(p) ==
    /\ p \in Cancellable
    /\ pc[p] \in Returned
    /\ Goto(p, "err")
    /\ UNCHANGED <<confVars, contractVars, pluginVars, clientVars, statsVars,
                   lifecycleMu, cur, cancelled, counterVars, panicked>>

\* StartupTasksContext is called; MaxGen bounds how often it can get through.
StartBegin(p) ==
    /\ pc[p] \in Returned
    /\ startupTotal + Cardinality({q \in Callers : pc[q] = "startLock"}) < MaxGen
    /\ Goto(p, "startLock")
    /\ UNCHANGED <<confVars, contractVars, pluginVars, clientVars, statsVars,
                   lifecycleMu, cur, cancelled, counterVars, panicked>>

\* CleanupTasksContext is called.
CleanBegin(p) ==
    /\ pc[p] \in Returned
    /\ Goto(p, "cleanLock")
    /\ UNCHANGED <<confVars, contractVars, pluginVars, clientVars, statsVars,
                   lifecycleMu, cur, cancelled, counterVars, panicked>>

\* The context of a call in progress is cancelled, or its deadline passes.
Cancel(p) ==
    /\ p \in Cancellable
    /\ pc[p] \notin Returned
    /\ ~cancelled[p]
    /\ cancelled' = [cancelled EXCEPT ![p] = TRUE]
    /\ UNCHANGED <<confVars, contractVars, pluginVars, clientVars, statsVars,
                   lifecycleMu, pc, cur, counterVars, panicked>>
-----------------------------------------------------------------------------
(* StartupTasksContext                                                     *)

\* With the mutex: a plugin that is started, or a context that is done, ends
\* the call before a client is constructed.
StartRejected(p) ==
    /\ pc[p] = "startLock"
    /\ lifecycleMu = None
    /\ rdb # Nil \/ cancelled[p]
    /\ Return(p, "err")
    /\ UNCHANGED <<confVars, contractVars, pluginVars, clientVars, statsVars,
                   counterVars, panicked>>

\* Mutant of StartDial: the check that the plugin is not started yet is gone.
StartDialTwice(p) ==
    /\ pc[p] = "startLock"
    /\ lifecycleMu = None
    /\ ~cancelled[p]
    /\ startupTotal < MaxGen
    /\ LET g == startupTotal + 1
       IN  /\ client' = [client EXCEPT ![g] = "open"]
           /\ builtFrom' = [builtFrom EXCEPT ![g] = conf]
           /\ cur' = [cur EXCEPT ![p] = g]
           /\ startupTotal' = g
    /\ lifecycleMu' = p
    /\ Goto(p, "ping")
    /\ UNCHANGED <<confVars, contractVars, pluginVars, quit, statsVars, cancelled,
                   startupFailed, panicked>>

\* With the mutex: construct the next client from the configuration in memory.
StartDial(p) ==
    /\ pc[p] = "startLock"
    /\ lifecycleMu = None
    /\ rdb = Nil
    /\ ~cancelled[p]
    /\ startupTotal < MaxGen
    /\ LET g == startupTotal + 1
       IN  /\ client' = [client EXCEPT ![g] = "open"]
           /\ builtFrom' = [builtFrom EXCEPT ![g] = conf]
           /\ cur' = [cur EXCEPT ![p] = g]
           /\ startupTotal' = g
    /\ lifecycleMu' = p
    /\ Goto(p, "ping")
    /\ UNCHANGED <<confVars, contractVars, pluginVars, quit, statsVars, cancelled,
                   startupFailed, panicked>>

\* The ping succeeds and the context is checked once more.
PingOk(p) ==
    /\ pc[p] = "ping"
    /\ ~cancelled[p]
    /\ Goto(p, "publish")
    /\ UNCHANGED <<confVars, contractVars, pluginVars, clientVars, statsVars,
                   lifecycleMu, cur, cancelled, counterVars, panicked>>

\* Mutants of AbortStart: the client is not closed; the failure is not counted.
AbortLeaks(p) ==
    /\ pc[p] = "ping"
    /\ startupFailed' = startupFailed + 1
    /\ Return(p, "err")
    /\ UNCHANGED <<confVars, contractVars, pluginVars, clientVars, statsVars,
                   startupTotal, panicked>>

AbortUncounted(p) ==
    /\ pc[p] = "ping"
    /\ client' = [client EXCEPT ![cur[p]] = "closed"]
    /\ Return(p, "err")
    /\ UNCHANGED <<confVars, contractVars, pluginVars, builtFrom, quit, statsVars,
                   counterVars, panicked>>

\* The ping fails or the context is done: the client is closed, unpublished.
AbortStart(p) ==
    /\ pc[p] = "ping"
    /\ client' = [client EXCEPT ![cur[p]] = "closed"]
    /\ startupFailed' = startupFailed + 1
    /\ Return(p, "err")
    /\ UNCHANGED <<confVars, contractVars, pluginVars, builtFrom, quit, statsVars,
                   startupTotal, panicked>>

\* Mutant of Publish: no quit channel is made.
PublishWithoutQuit(p) ==
    /\ pc[p] = "publish"
    /\ rdb' = cur[p]
    /\ Goto(p, "contract")
    /\ UNCHANGED <<confVars, contractVars, statsQuit, clientVars, statsVars,
                   lifecycleMu, cur, cancelled, counterVars, panicked>>

\* Client and quit channel appear together, under mu; no check of the context.
Publish(p) ==
    /\ pc[p] = "publish"
    /\ rdb' = cur[p]
    /\ statsQuit' = cur[p]
    /\ quit' = [quit EXCEPT ![cur[p]] = "open"]
    /\ Goto(p, "contract")
    /\ UNCHANGED <<confVars, contractVars, client, builtFrom, statsVars,
                   lifecycleMu, cur, cancelled, counterVars, panicked>>

\* The raw client is registered under each name; a registration that fails is
\* only logged.  The readiness probe that follows changes no state but gauges.
RegisterContract(p) ==
    /\ pc[p] = "contract"
    /\ \E done \in SUBSET RawNames :
          /\ ~rt => done = {}
          /\ registered' = [n \in RawNames |-> IF n \in done THEN rdb
                                                             ELSE registered[n]]
    /\ Goto(p, "spawnPool")
    /\ UNCHANGED <<confVars, pluginVars, clientVars, statsVars, lifecycleMu, cur,
                   cancelled, counterVars, panicked>>

\* Mutant of Spawn: Add(1) is left out for one of the collectors.
SpawnWithoutAdd(kind) ==
    IF statsQuit = Nil
    THEN UNCHANGED <<statsWG, collector>>
    ELSE /\ statsWG' = IF kind = "info" THEN statsWG ELSE statsWG + 1
         /\ collector' = [collector EXCEPT ![statsQuit][kind] = "idle"]

\* statsWG.Add(1) and the collector's goroutine, if there is a quit channel.
Spawn(kind) ==
    IF statsQuit = Nil
    THEN UNCHANGED <<statsWG, collector>>
    ELSE /\ statsWG' = statsWG + 1
         /\ collector' = [collector EXCEPT ![statsQuit][kind] = "idle"]

SpawnPool(p) ==
    /\ pc[p] = "spawnPool"
    /\ Spawn("pool")
    /\ Goto(p, "spawnInfo")
    /\ UNCHANGED <<confVars, contractVars, pluginVars, clientVars, waiter, using,
                   lifecycleMu, cur, cancelled, counterVars, panicked>>

SpawnInfo(p) ==
    /\ pc[p] = "spawnInfo"
    /\ Spawn("info")
    /\ Return(p, "ok")
    /\ UNCHANGED <<confVars, contractVars, pluginVars, clientVars, waiter, using,
                   counterVars, panicked>>
-----------------------------------------------------------------------------
(* CleanupTasksContext                                                     *)

\* With the mutex: nothing is published, the call reports success.
CleanNothing(p) ==
    /\ pc[p] = "cleanLock"
    /\ lifecycleMu = None
    /\ rdb = Nil
    /\ Return(p, "ok")
    /\ UNCHANGED <<confVars, contractVars, pluginVars, clientVars, statsVars,
                   counterVars, panicked>>

\* Mutants of CleanTake: the client, or the quit channel, stays in the plugin.
CleanTakeKeepsClient(p) ==
    /\ pc[p] = "cleanLock"
    /\ lifecycleMu = None
    /\ rdb # Nil
    /\ cur' = [cur EXCEPT ![p] = rdb]
    /\ statsQuit' = Nil
    /\ lifecycleMu' = p
    /\ Goto(p, "closeQuit")
    /\ UNCHANGED <<confVars, contractVars, rdb, clientVars, statsVars, cancelled,
                   counterVars, panicked>>

CleanTakeKeepsQuit(p) ==
    /\ pc[p] = "cleanLock"
    /\ lifecycleMu = None
    /\ rdb # Nil
    /\ cur' = [cur EXCEPT ![p] = rdb]
    /\ rdb' = Nil
    /\ lifecycleMu' = p
    /\ Goto(p, "closeQuit")
    /\ UNCHANGED <<confVars, contractVars, statsQuit, clientVars, statsVars, cancelled,
                   counterVars, panicked>>

\* With the mutex: take client and quit channel out of the plugin.  The context
\* is not looked at again after the mutex is acquired.
CleanTake(p) ==
    /\ pc[p] = "cleanLock"
    /\ lifecycleMu = None
    /\ rdb # Nil
    /\ cur' = [cur EXCEPT ![p] = rdb]
    /\ rdb' = Nil
    /\ statsQuit' = Nil
    /\ lifecycleMu' = p
    /\ Goto(p, "closeQuit")
    /\ UNCHANGED <<confVars, contractVars, clientVars, statsVars, cancelled,
                   counterVars, panicked>>

\* Mutant of CloseQuit: the channel is dropped without being closed.
CloseQuitForgotten(p) ==
    /\ pc[p] = "closeQuit"
    /\ waiter' = [waiter EXCEPT ![cur[p]] = "spawned"]
    /\ Goto(p, "awaitStats")
    /\ UNCHANGED <<confVars, contractVars, pluginVars, clientVars, statsWG, collector,
                   using, lifecycleMu, cur, cancelled, counterVars, panicked>>

\* The collectors are told to exit, and a goroutine is sent to wait for them.
CloseQuit(p) ==
    /\ pc[p] = "closeQuit"
    /\ quit' = [quit EXCEPT ![cur[p]] = "closed"]
    /\ waiter' = [waiter EXCEPT ![cur[p]] = "spawned"]
    /\ Goto(p, "awaitStats")
    /\ UNCHANGED <<confVars, contractVars, pluginVars, client, builtFrom, statsWG,
                   collector, using, lifecycleMu, cur, cancelled, counterVars,
                   panicked>>

\* Mutants of AwaitStats: the collectors are not waited for; a context that is
\* done ends the call before the client is closed.
AwaitStatsSkipped(p) ==
    /\ pc[p] = "awaitStats"
    /\ client' = [client EXCEPT ![cur[p]] = "closing"]
    /\ Goto(p, "awaitClose")
    /\ UNCHANGED <<confVars, contractVars, pluginVars, builtFrom, quit, statsVars,
                   lifecycleMu, cur, cancelled, counterVars, panicked>>

AwaitStatsGivesUp(p) ==
    /\ pc[p] = "awaitStats"
    /\ \/ /\ cancelled[p]
          /\ Return(p, "err")
          /\ UNCHANGED client
       \/ /\ waiter[cur[p]] = "done" \/ CapFires
          /\ ~cancelled[p]
          /\ client' = [client EXCEPT ![cur[p]] = "closing"]
          /\ Goto(p, "awaitClose")
          /\ UNCHANGED <<lifecycleMu, cur, cancelled>>
    /\ UNCHANGED <<confVars, contractVars, pluginVars, builtFrom, quit, statsVars,
                   counterVars, panicked>>

\* The wait ends: all collectors stopped, the cap ran out, or the context is
\* done.  Either way the client is closed by a goroutine of its own.
AwaitStats(p) ==
    /\ pc[p] = "awaitStats"
    /\ waiter[cur[p]] = "done" \/ CapFires \/ cancelled[p]
    /\ client' = [client EXCEPT ![cur[p]] = "closing"]
    /\ Goto(p, "awaitClose")
    /\ UNCHANGED <<confVars, contractVars, pluginVars, builtFrom, quit, statsVars,
                   lifecycleMu, cur, cancelled, counterVars, panicked>>

\* Mutants of CleanReturn: Close is not waited for; the last look at the context
\* is left out.
CleanReturnEarly(p) ==
    /\ pc[p] = "awaitClose"
    /\ ~cancelled[p]
    /\ \E result \in {"ok", "err"} : Return(p, result)
    /\ UNCHANGED <<confVars, contractVars, pluginVars, clientVars, statsVars,
                   counterVars, panicked>>

CleanReturnUnchecked(p) ==
    /\ pc[p] = "awaitClose"
    /\ client[cur[p]] = "closed"
    /\ \E result \in {"ok", "err"} : Return(p, result)
    /\ UNCHANGED <<confVars, contractVars, pluginVars, clientVars, statsVars,
                   counterVars, panicked>>

\* client.Close returned, with or without an error, and the context is live.
CleanReturn(p) ==
    /\ pc[p] = "awaitClose"
    /\ client[cur[p]] = "closed"
    /\ ~cancelled[p]
    /\ \E result \in {"ok", "err"} : Return(p, result)
    /\ UNCHANGED <<confVars, contractVars, pluginVars, clientVars, statsVars,
                   counterVars, panicked>>

\* The context is done, whether or not the client is closed by now.
CleanAbandon(p) ==
    /\ pc[p] = "awaitClose"
    /\ cancelled[p]
    /\ Return(p, "err")
    /\ UNCHANGED <<confVars, contractVars, pluginVars, clientVars, statsVars,
                   counterVars, panicked>>
-----------------------------------------------------------------------------
(* The goroutines a cleanup leaves behind                                  *)

\* The goroutine that closes the client finishes.
FinishClose(g) ==
    /\ client[g] = "closing"
    /\ client' = [client EXCEPT ![g] = "closed"]
    /\ UNCHANGED <<confVars, contractVars, pluginVars, builtFrom, quit, statsVars,
                   callVars, counterVars, panicked>>

\* Mutant of WaitBegin: the goroutine signals without waiting.
WaitBeginSkipped(g) ==
    /\ waiter[g] = "spawned"
    /\ waiter' = [waiter EXCEPT ![g] = "done"]
    /\ UNCHANGED <<confVars, contractVars, pluginVars, clientVars, statsWG,
                   collector, using, callVars, counterVars, panicked>>

\* statsWG.Wait is called: it returns at once if the counter is zero.
WaitBegin(g) ==
    /\ waiter[g] = "spawned"
    /\ waiter' = [waiter EXCEPT ![g] = IF statsWG = 0 THEN "done" ELSE "waiting"]
    /\ UNCHANGED <<confVars, contractVars, pluginVars, clientVars, statsWG,
                   collector, using, callVars, counterVars, panicked>>

\* A released waiter runs: Wait panics when the group has been reused since.
WaitReturn(g) ==
    /\ waiter[g] = "released"
    /\ IF statsWG # 0
       THEN panicked' = TRUE /\ UNCHANGED waiter
       ELSE waiter' = [waiter EXCEPT ![g] = "done"] /\ UNCHANGED panicked
    /\ UNCHANGED <<confVars, contractVars, pluginVars, clientVars, statsWG,
                   collector, using, callVars, counterVars>>
-----------------------------------------------------------------------------
(* The collectors                                                          *)

\* The ticker is picked, even when the quit channel is closed as well: select
\* chooses among the cases that are ready.  The client is read afresh; without
\* one the tick does nothing.
Tick(g, k) ==
    /\ collector[g][k] = "idle"
    /\ rdb # Nil
    /\ collector' = [collector EXCEPT ![g][k] = "busy"]
    /\ using' = [using EXCEPT ![g][k] = rdb]
    /\ UNCHANGED <<confVars, contractVars, pluginVars, clientVars, statsWG, waiter,
                   callVars, counterVars, panicked>>

\* After the readiness probe the info collector reads the client once more, for
\* the server version.
Reread(g, k) ==
    /\ k = "info"
    /\ collector[g][k] = "busy"
    /\ using' = [using EXCEPT ![g][k] = rdb]
    /\ collector' = [collector EXCEPT ![g][k] = IF rdb = Nil THEN "idle" ELSE "version"]
    /\ UNCHANGED <<confVars, contractVars, pluginVars, clientVars, statsWG, waiter,
                   callVars, counterVars, panicked>>

FinishTick(g, k) ==
    /\ collector[g][k] = IF k = "pool" THEN "busy" ELSE "version"
    /\ collector' = [collector EXCEPT ![g][k] = "idle"]
    /\ using' = [using EXCEPT ![g][k] = Nil]
    /\ UNCHANGED <<confVars, contractVars, pluginVars, clientVars, statsWG, waiter,
                   callVars, counterVars, panicked>>

\* statsWG.Done: the one that brings the counter to zero releases the waiters.
Done(g, k) ==
    /\ collector' = [collector EXCEPT ![g][k] = "exited"]
    /\ using' = [using EXCEPT ![g][k] = Nil]
    /\ statsWG' = statsWG - 1
    /\ waiter' = [h \in Gens |-> IF statsWG = 1 /\ waiter[h] = "waiting"
                                 THEN "released" ELSE waiter[h]]

\* Mutant of CollectorExit: the loop selects on the plugin's quit channel, which
\* is nil by the time the channel is closed, not on the one it was started with.
CollectorExitRereads(g, k) ==
    /\ collector[g][k] = "idle"
    /\ statsQuit # Nil /\ quit[statsQuit] = "closed"
    /\ Done(g, k)
    /\ UNCHANGED <<confVars, contractVars, pluginVars, clientVars, callVars,
                   counterVars, panicked>>

\* The quit channel is closed and picked.
CollectorExit(g, k) ==
    /\ collector[g][k] = "idle"
    /\ quit[g] = "closed"
    /\ Done(g, k)
    /\ UNCHANGED <<confVars, contractVars, pluginVars, clientVars, callVars,
                   counterVars, panicked>>

\* A panic while collecting is recovered and logged: the collector is gone.
CollectorPanic(g, k) ==
    /\ collector[g][k] \in {"busy", "version"}
    /\ Done(g, k)
    /\ UNCHANGED <<confVars, contractVars, pluginVars, clientVars, callVars,
                   counterVars, panicked>>
-----------------------------------------------------------------------------
(* The configuration                                                       *)

\* Configure replaces the configuration under both mutexes; a nil or an invalid
\* one changes nothing.
Configure(k) ==
    /\ lifecycleMu = None
    /\ conf' = k
    /\ UNCHANGED <<rt, pending, contractVars, pluginVars, clientVars, statsVars,
                   callVars, counterVars, panicked>>

\* InitializeResources, first half: keep the runtime, and take the configuration
\* in memory or, without one, scan one from the runtime.
InitializeLoad(i) ==
    /\ pending[i] = None
    /\ rt' = TRUE
    /\ \E k \in Confs :
          /\ conf # None => k = conf
          /\ pending' = [pending EXCEPT ![i] = k]
    /\ UNCHANGED <<conf, contractVars, pluginVars, clientVars, statsVars, callVars,
                   counterVars, panicked>>

\* InitializeResources, second half: store it, unless it does not validate.
InitializeStore(i) ==
    /\ pending[i] # None
    /\ conf' \in {conf, pending[i]}
    /\ pending' = [pending EXCEPT ![i] = None]
    /\ UNCHANGED <<rt, contractVars, pluginVars, clientVars, statsVars, callVars,
                   counterVars, panicked>>
-----------------------------------------------------------------------------
CallerStep(p) ==
    \/ RefuseCancelled(p) \/ StartBegin(p) \/ CleanBegin(p) \/ Cancel(p)
    \/ StartRejected(p) \/ StartDial(p) \/ PingOk(p) \/ AbortStart(p)
    \/ Publish(p) \/ RegisterContract(p) \/ SpawnPool(p) \/ SpawnInfo(p)
    \/ CleanNothing(p) \/ CleanTake(p) \/ CloseQuit(p) \/ AwaitStats(p)
    \/ CleanReturn(p) \/ CleanAbandon(p)

CollectorStep(g, k) ==
    \/ Tick(g, k) \/ Reread(g, k) \/ FinishTick(g, k)
    \/ CollectorExit(g, k) \/ CollectorPanic(g, k)

\* A panic that nothing recovers ends the process.
Halted == panicked /\ UNCHANGED vars

Next ==
    \/ /\ ~panicked
       /\ \/ \E p \in Callers : CallerStep(p)
          \/ \E g \in Gens : FinishClose(g) \/ WaitBegin(g) \/ WaitReturn(g)
          \/ \E g \in Gens, k \in Kinds : CollectorStep(g, k)
          \/ \E k \in Confs : Configure(k)
          \/ \E i \in Initializers : InitializeLoad(i) \/ InitializeStore(i)
    \/ Halted

Spec == Init /\ [][Next]_vars
=============================================================================
