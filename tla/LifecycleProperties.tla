------------------------ MODULE LifecycleProperties ------------------------
(***************************************************************************)
(* What is promised of the lifecycle: invariants, what a step may never    *)
(* do, what must happen in the end, and the abstract life of a client that *)
(* Lifecycle implements.                                                   *)
(***************************************************************************)
EXTENDS Lifecycle

(* Safety                                                                  *)

\* The client getClient returns is open and its collectors have not been told
\* to exit: cleanup takes the client out of the plugin before it touches it.
PublishedClientIsOpen ==
    rdb # Nil => client[rdb] = "open" /\ quit[rdb] = "open"

\* Every open client is published or in the hands of the one caller that holds
\* the mutex, so that some call will still close it: no error path of
\* StartupTasksContext and no cancelled CleanupTasksContext drops one.
NoLeakedClient ==
    \A g \in Gens : client[g] = "open" =>
        \/ rdb = g
        \/ \E p \in Callers : lifecycleMu = p /\ pc[p] \in Holding /\ cur[p] = g

\* Every collector that still runs has been told to exit, belongs to the
\* published client, or to the client a caller is about to shut down.
NoOrphanCollector ==
    \A g \in Gens, k \in Kinds : collector[g][k] \in Running =>
        \/ quit[g] = "closed"
        \/ rdb = g
        \/ \E p \in Callers : lifecycleMu = p /\ pc[p] = "closeQuit" /\ cur[p] = g

\* Cleanup gave up waiting for the collectors of g: it closes the client while
\* the goroutine in statsWG.Wait has not come back.
Abandoned(g) ==
    client[g] \in {"closing", "closed"} /\ waiter[g] \notin {"none", "done"}

\* When statsWG.Wait has let the waiter of g go, the collectors of g are gone,
\* whatever collectors other generations add to the one WaitGroup.
WaitMeansStopped ==
    \A g \in Gens : waiter[g] \in {"released", "done"} =>
        \A k \in Kinds : collector[g][k] \notin Running

\* A collector reads a client other than its own, or one that is being closed,
\* only when cleanup gave up waiting for it.
CollectorsUseTheirClient ==
    \A g \in Gens, k \in Kinds : using[g][k] # Nil /\ ~Abandoned(g) =>
        using[g][k] = g /\ client[g] = "open"

\* The WaitGroup counts the collectors of all generations that still run.
CounterIsExact == statsWG = Cardinality(Alive)

\* sync.WaitGroup panics on reuse only after a cleanup that gave up waiting.
PanicOnlyAfterAbandonedWait == panicked => \E g \in Gens : Abandoned(g)

\* redis_client_startup_failed_total counts exactly the clients that were closed
\* without having been published.
FailuresCounted ==
    startupFailed = Cardinality({g \in Gens : client[g] = "closed" /\ quit[g] = "none"})

\* A raw client other plugins find in the runtime has been published: never one
\* whose startup failed.
RegisteredWasPublished ==
    \A n \in RawNames : registered[n] # Nil => quit[registered[n]] # "none"
-----------------------------------------------------------------------------
(* What a step may never do                                                *)

\* A start that succeeds leaves a plugin with an open client and two running or
\* recovered collectors of that client, all of it the work of this very call.
StartDelivers ==
    [][\A p \in Callers :
          pc[p] = "spawnInfo" /\ pc'[p] = "ok" =>
              /\ rdb' = cur[p] /\ statsQuit' = cur[p]
              /\ client'[cur[p]] = "open"
              /\ \A k \in Kinds : collector'[cur[p]][k] # "none"]_vars

\* A cleanup that took a client, waited for its collectors as long as it takes
\* and reports success has closed the client, and the collectors of that client
\* have stopped: a context cancelled on the way never passes for success.
CleanupDelivers ==
    [][\A p \in Callers :
          pc[p] = "awaitClose" /\ pc'[p] = "ok" =>
              /\ client[cur[p]] = "closed"
              /\ \A k \in Kinds : collector[cur[p]][k] \notin Running]_vars
-----------------------------------------------------------------------------
(* Under an orderly shutdown: no context is cancelled and the cap never    *)
(* beats the collectors                                                    *)

\* No goroutine of the plugin panics unrecovered.
NeverPanics == ~panicked

\* A cleanup that reports success leaves nothing behind: no open or closing
\* client of any generation, no running collector.
CleanupNilMeansDown ==
    [][\A p \in Callers :
          pc[p] \in {"cleanLock", "awaitClose"} /\ pc'[p] = "ok" =>
              /\ Alive = {}
              /\ \A g \in Gens : client[g] \in {"none", "closed"}]_vars
-----------------------------------------------------------------------------
(* Liveness                                                                *)

(* A caller's own steps are weakly fair: each is local, or is bounded by   *)
(* the ping's, the client's or the cleanup's own timeout.  Lock steps are  *)
(* strongly fair: sync.Mutex hands the lock over to a goroutine that has   *)
(* waited for a millisecond.  CollectorExit is strongly fair: select       *)
(* chooses uniformly among the ready cases, so a closed quit channel is    *)
(* picked in the end even when a tick is ready every time.                 *)

OwnStep(p) ==
    /\ ~panicked
    /\ \/ PingOk(p) \/ AbortStart(p) \/ Publish(p) \/ RegisterContract(p)
       \/ SpawnPool(p) \/ SpawnInfo(p) \/ CloseQuit(p) \/ AwaitStats(p)
       \/ CleanReturn(p) \/ CleanAbandon(p)

LockStep(p) ==
    /\ ~panicked
    /\ StartRejected(p) \/ StartDial(p) \/ CleanNothing(p) \/ CleanTake(p)

Fairness ==
    /\ \A p \in Callers : WF_vars(OwnStep(p)) /\ SF_vars(LockStep(p))
    /\ \A g \in Gens : WF_vars(~panicked /\ FinishClose(g))
                       /\ WF_vars(~panicked /\ (WaitBegin(g) \/ WaitReturn(g)))
    /\ \A g \in Gens, k \in Kinds :
          /\ WF_vars(~panicked /\ (Reread(g, k) \/ FinishTick(g, k) \/ CollectorPanic(g, k)))
          /\ SF_vars(~panicked /\ CollectorExit(g, k))

FairSpec == Spec /\ Fairness

\* Every call of StartupTasksContext and CleanupTasksContext returns, whoever
\* else is calling, unless the process dies.
EveryCallReturns ==
    \A p \in Callers : pc[p] \notin Returned ~> (pc[p] \in Returned \/ panicked)

\* A collector that has been told to exit does, even one whose cleanup gave up
\* on it: it lets go of whatever client it was reading.
CollectorsStop ==
    \A g \in Gens, k \in Kinds :
        quit[g] = "closed" ~> (collector[g][k] \notin Running \/ panicked)
-----------------------------------------------------------------------------
(* Refinement of ClientHandle                                              *)

Stage(g) ==
    IF client[g] = "none"                    THEN "none"
    ELSE IF client[g] = "closed" \/ panicked THEN "closed"
    ELSE IF rdb = g                          THEN "published"
    ELSE IF quit[g] = "none"                 THEN "dialled"
    ELSE "retired"

Life == [g \in Gens |-> Stage(g)]

Handle == INSTANCE ClientHandle WITH life <- Life

\* The plugin keeps the promises of ClientHandle about every client.
ImplementsClientHandle == Handle!Spec

\* ... and closes every client it withdraws, cancelled cleanups included.
ImplementsFairClientHandle == Handle!FairSpec
-----------------------------------------------------------------------------
(* The inductive invariant                                                 *)

\* A caller holds the mutex exactly between taking and releasing it, and works
\* on a client exactly then; client and quit channel are published together.
MutexInv ==
    /\ \A p \in Callers : pc[p] \in Holding <=> lifecycleMu = p
    /\ \A p \in Callers : pc[p] \in Holding <=> cur[p] # Nil
    /\ statsQuit = rdb

\* How the caller p that holds the mutex finds the client g it works on.
HolderOK(p, g) ==
    /\ pc[p] \in {"ping", "publish"} =>
          rdb = Nil /\ client[g] = "open" /\ quit[g] = "none"
    /\ pc[p] \in {"contract", "spawnPool", "spawnInfo"} => rdb = g
    /\ pc[p] \in {"contract", "spawnPool"} => collector[g]["pool"] = "none"
    /\ pc[p] \in {"contract", "spawnPool", "spawnInfo"} => collector[g]["info"] = "none"
    /\ pc[p] = "closeQuit" =>
          rdb = Nil /\ client[g] = "open" /\ quit[g] = "open"
    /\ pc[p] = "awaitStats" =>
          rdb = Nil /\ client[g] = "open" /\ quit[g] = "closed"
    /\ pc[p] = "awaitClose" =>
          rdb = Nil /\ client[g] \in {"closing", "closed"} /\ quit[g] = "closed"

HolderInv == \A p \in Callers : lifecycleMu = p => HolderOK(p, cur[p])

\* What client, quit channel, waiter and collectors of a generation know of each
\* other.
GenOK(g) ==
    /\ client[g] = "none" <=> g > startupTotal
    /\ client[g] = "none" => quit[g] = "none"
    /\ client[g] = "closing" => quit[g] = "closed"
    /\ quit[g] = "open" => client[g] = "open"
    /\ waiter[g] = "none" <=> quit[g] # "closed"
    /\ quit[g] = "none" => \A k \in Kinds : collector[g][k] = "none"
    /\ \A k \in Kinds : using[g][k] # Nil => collector[g][k] \in Running

GenInv == \A g \in Gens : GenOK(g)

IInv ==
    /\ TypeOK
    /\ MutexInv
    /\ HolderInv
    /\ GenInv
    /\ PublishedClientIsOpen
    /\ NoLeakedClient
    /\ NoOrphanCollector
    /\ CounterIsExact
    /\ WaitMeansStopped
    /\ CollectorsUseTheirClient
-----------------------------------------------------------------------------
(* What the outcome of a call rests on, besides IInv                       *)

\* A caller that is about to start the info collector has started the other one.
SpawnInv ==
    \A p \in Callers : pc[p] = "spawnInfo" => collector[cur[p]]["pool"] # "none"

\* Without a cap, a cleanup whose context is live has come past its wait because
\* the waiter came back.
WaitedInv ==
    ~CapFires => \A p \in Callers :
        pc[p] = "awaitClose" /\ ~cancelled[p] => waiter[cur[p]] = "done"

\* An orderly shutdown: cleanups wait for the collectors as long as it takes.
Orderly == Cancellable = {} /\ ~CapFires

\* The holder of the mutex works on g and is at label.
HeldAt(g, label) ==
    \E p \in Callers : lifecycleMu = p /\ pc[p] = label /\ cur[p] = g

\* In an orderly shutdown no goroutine of a cleanup outlives its call.
OrderlyInv ==
    /\ \A p \in Callers : ~cancelled[p]
    /\ \A g \in Gens : waiter[g] \notin {"none", "done"} => HeldAt(g, "awaitStats")
    /\ \A g \in Gens : client[g] = "closing" => HeldAt(g, "awaitClose")
=============================================================================
