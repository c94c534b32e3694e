---------------------------- MODULE OutcomeProofs ----------------------------
(***************************************************************************)
(* Machine-checked proofs about what a call of the lifecycle leaves behind *)
(* and what its result means: the registered clients, the count of failed  *)
(* startups, a start or a cleanup that reports success, and the orderly    *)
(* shutdown.  They rest on IInv, proved in LifecycleProofs.                *)
(***************************************************************************)
EXTENDS LifecycleProofs

USE LifecycleAssumption DEF Nil, Gens

-----------------------------------------------------------------------------
(* What one step can do                                                    *)

\* A quit channel, once made, is never forgotten, and only Publish makes one.
LEMMA QuitSteps ==
  ASSUME TypeOK, [Next]_vars
  PROVE  \A g \in Gens :
            /\ quit[g] # "none" => quit'[g] # "none"
            /\ quit'[g] # "none" =>
                  \/ quit[g] # "none"
                  \/ \E p \in Callers : (Publish(p) \/ CloseQuit(p)) /\ cur[p] = g
<1> USE DEF TypeOK, clientVars
<1>1. ASSUME NEW p \in Callers, Publish(p) \/ CloseQuit(p)
      PROVE  \A g \in Gens : /\ quit[g] # "none" => quit'[g] # "none"
                             /\ g # cur[p] => quit'[g] = quit[g]
  BY <1>1 DEF Publish, CloseQuit
<1>2. ASSUME NEW p \in Callers,
             \/ QuietStep(p) \/ StartDial(p) \/ AbortStart(p) \/ SpawnPool(p)
             \/ SpawnInfo(p) \/ CleanTake(p) \/ AwaitStats(p)
      PROVE  quit' = quit
  BY <1>2 DEF QuietStep, RefuseCancelled, StartBegin, CleanBegin, Cancel,
     StartRejected, PingOk, RegisterContract, CleanNothing, CleanReturn,
     CleanAbandon, StartDial, AbortStart, SpawnPool, SpawnInfo, CleanTake, AwaitStats
<1>3. ASSUME NEW g \in Gens, FinishClose(g) \/ WaitBegin(g) \/ WaitReturn(g)
      PROVE  quit' = quit
  BY <1>3 DEF FinishClose, WaitBegin, WaitReturn
<1>4. ASSUME NEW g \in Gens, NEW k \in Kinds, CollectorStep(g, k) PROVE quit' = quit
  BY <1>4, CollectorEffect DEF Moved
<1>5. ASSUME UNCHANGED coreVars PROVE quit' = quit
  BY <1>5 DEF coreVars
<1> QED
  BY <1>1, <1>2, <1>3, <1>4, <1>5, NextKinds

\* Only publishResourceContract registers raw clients.
LEMMA RegisterSteps ==
  ASSUME TypeOK, [Next]_vars
  PROVE  UNCHANGED registered \/ \E p \in Callers : RegisterContract(p)
<1> USE DEF contractVars
<1>1. ASSUME NEW p \in Callers, CallerStep(p)
      PROVE  UNCHANGED registered \/ RegisterContract(p)
  BY <1>1 DEF CallerStep, RefuseCancelled, StartBegin, CleanBegin, Cancel,
     StartRejected, StartDial, PingOk, AbortStart, Publish, SpawnPool, SpawnInfo,
     CleanNothing, CleanTake, CloseQuit, AwaitStats, CleanReturn, CleanAbandon
<1>2. ASSUME NEW g \in Gens, FinishClose(g) \/ WaitBegin(g) \/ WaitReturn(g)
      PROVE  UNCHANGED registered
  BY <1>2 DEF FinishClose, WaitBegin, WaitReturn
<1>3. ASSUME NEW g \in Gens, NEW k \in Kinds, CollectorStep(g, k)
      PROVE  UNCHANGED registered
  BY <1>3, CollectorEffect DEF Moved
<1>4. ASSUME NEW k \in Confs, Configure(k) PROVE UNCHANGED registered
  BY <1>4 DEF Configure
<1>5. ASSUME NEW i \in Initializers, InitializeLoad(i) \/ InitializeStore(i)
      PROVE  UNCHANGED registered
  BY <1>5 DEF InitializeLoad, InitializeStore
<1>6. CASE UNCHANGED vars
  BY <1>6 DEF vars
<1> QED
  BY <1>1, <1>2, <1>3, <1>4, <1>5, <1>6 DEF Next, Halted

\* A caller moves by its own steps only.
LEMMA OwnMoves ==
  ASSUME TypeOK, [Next]_vars, NEW p \in Callers, pc'[p] # pc[p]
  PROVE  CallerStep(p)
<1> USE DEF TypeOK, callVars
<1>1. ASSUME NEW q \in Callers, q # p, CallerStep(q) PROVE pc'[p] = pc[p]
  BY <1>1 DEF CallerStep, RefuseCancelled, StartBegin, CleanBegin, Cancel,
     StartRejected, StartDial, PingOk, AbortStart, Publish, RegisterContract,
     SpawnPool, SpawnInfo, CleanNothing, CleanTake, CloseQuit, AwaitStats,
     CleanReturn, CleanAbandon, Return, Goto
<1>2. ASSUME NEW g \in Gens, FinishClose(g) \/ WaitBegin(g) \/ WaitReturn(g)
      PROVE  pc' = pc
  BY <1>2 DEF FinishClose, WaitBegin, WaitReturn
<1>3. ASSUME NEW g \in Gens, NEW k \in Kinds, CollectorStep(g, k) PROVE pc' = pc
  BY <1>3, CollectorEffect DEF Moved
<1>4. ASSUME UNCHANGED coreVars PROVE pc' = pc
  BY <1>4 DEF coreVars
<1>5. ASSUME NEW k \in Confs, Configure(k) PROVE pc' = pc
  BY <1>5 DEF Configure
<1>6. ASSUME NEW i \in Initializers, InitializeLoad(i) \/ InitializeStore(i)
      PROVE  pc' = pc
  BY <1>6 DEF InitializeLoad, InitializeStore
<1>7. CASE UNCHANGED vars
  BY <1>7 DEF vars
<1> QED
  BY <1>1, <1>2, <1>3, <1>4, <1>5, <1>6, <1>7 DEF Next, Halted

-----------------------------------------------------------------------------
(* The registered clients                                                  *)

\* What is registered is the published client, and stays published history.
LEMMA RegisteredStep ==
  ASSUME TypeOK, PublishedClientIsOpen, RegisteredWasPublished, [Next]_vars
  PROVE  RegisteredWasPublished'
<1>1. CASE UNCHANGED registered
  BY <1>1, QuitSteps DEF RegisteredWasPublished, TypeOK
<1>2. ASSUME NEW p \in Callers, RegisterContract(p) PROVE RegisteredWasPublished'
  <2>1. \A n \in RawNames : registered'[n] \in {rdb, registered[n]}
    BY <1>2 DEF RegisterContract
  <2>2. quit' = quit
    BY <1>2 DEF RegisterContract, clientVars
  <2> QED
    BY <2>1, <2>2 DEF RegisteredWasPublished, PublishedClientIsOpen
<1> QED
  BY <1>1, <1>2, RegisterSteps

\* No other plugin is handed a client whose startup failed, or one that was never
\* published.
THEOREM RegistersPublished == Spec => []RegisteredWasPublished
<1>1. Init => RegisteredWasPublished
  BY DEF Init, RegisteredWasPublished
<1>2. IInv => TypeOK /\ PublishedClientIsOpen
  BY DEF IInv
<1> QED
  BY <1>1, <1>2, RegisteredStep, Invariance, PTL DEF Spec

-----------------------------------------------------------------------------
(* The count of failed startups                                            *)

\* The clients that were closed without having been published.
Failed == {g \in Gens : client[g] = "closed" /\ quit[g] = "none"}

\* There are finitely many of them.
LEMMA FailedFinite == IsFiniteSet(Failed)
<1>1. IsFiniteSet(Gens)
  BY FS_Interval
<1>2. Failed \in SUBSET Gens
  BY DEF Failed
<1> QED
  BY <1>1, <1>2, FS_Subset

\* AbortStart closes one unpublished client more and counts it; a cleanup closes
\* published ones only (FailuresCounted is preserved).
LEMMA FailureStep ==
  ASSUME TypeOK, MutexInv, HolderInv, GenInv, FailuresCounted, [Next]_vars
  PROVE  FailuresCounted'
<1>1. ASSUME Failed' = Failed, startupFailed' = startupFailed
      PROVE  FailuresCounted'
  BY <1>1 DEF FailuresCounted, Failed
<1> USE DEF TypeOK, clientVars, counterVars
<1>2. ASSUME NEW p \in Callers, AbortStart(p) PROVE FailuresCounted'
  <2>1. /\ cur[p] \in Gens /\ client[cur[p]] = "open" /\ quit[cur[p]] = "none"
    BY <1>2 DEF AbortStart, MutexInv, HolderInv, HolderOK, Holding
  <2>2. client' = [client EXCEPT ![cur[p]] = "closed"] /\ UNCHANGED quit
    BY <1>2 DEF AbortStart
  <2>3. Failed' = Failed \cup {cur[p]} /\ cur[p] \notin Failed
    BY <2>1, <2>2 DEF Failed
  <2>4. Cardinality(Failed') = Cardinality(Failed) + 1
    BY <2>3, FailedFinite, FS_AddElement
  <2> QED
    BY <1>2, <2>4 DEF AbortStart, FailuresCounted, Failed
<1>3. ASSUME NEW p \in Callers, StartDial(p) PROVE FailuresCounted'
  <2>1. startupTotal + 1 \in Gens /\ client[startupTotal + 1] = "none"
    BY <1>3 DEF StartDial, GenInv, GenOK
  <2>2. /\ client' = [client EXCEPT ![startupTotal + 1] = "open"]
        /\ UNCHANGED <<quit, startupFailed>>
    BY <1>3 DEF StartDial
  <2> QED
    BY <1>1, <2>1, <2>2 DEF Failed
<1>4. ASSUME NEW p \in Callers, Publish(p) \/ CloseQuit(p) \/ AwaitStats(p)
      PROVE  FailuresCounted'
  <2>1. cur[p] \in Gens /\ client[cur[p]] = "open"
    BY <1>4 DEF Publish, CloseQuit, AwaitStats, MutexInv, HolderInv, HolderOK, Holding
  <2>2. /\ client'[cur[p]] \in {"open", "closing"}
        /\ \A g \in Gens \ {cur[p]} : client'[g] = client[g] /\ quit'[g] = quit[g]
        /\ UNCHANGED startupFailed
    BY <1>4, <2>1 DEF Publish, CloseQuit, AwaitStats
  <2> QED
    BY <1>1, <2>1, <2>2 DEF Failed
<1>5. ASSUME NEW g \in Gens, FinishClose(g) PROVE FailuresCounted'
  <2>1. quit[g] = "closed"
    BY <1>5 DEF FinishClose, GenInv, GenOK
  <2> QED
    BY <1>1, <1>5, <2>1 DEF FinishClose, Failed
<1>6. ASSUME NEW p \in Callers,
             QuietStep(p) \/ SpawnPool(p) \/ SpawnInfo(p) \/ CleanTake(p)
      PROVE  UNCHANGED <<client, quit, startupFailed>>
  BY <1>6 DEF QuietStep, RefuseCancelled, StartBegin, CleanBegin, Cancel,
     StartRejected, PingOk, RegisterContract, CleanNothing, CleanReturn,
     CleanAbandon, SpawnPool, SpawnInfo, CleanTake
<1>7. ASSUME NEW g \in Gens, WaitBegin(g) \/ WaitReturn(g)
      PROVE  UNCHANGED <<client, quit, startupFailed>>
  BY <1>7 DEF WaitBegin, WaitReturn
<1>8. ASSUME NEW g \in Gens, NEW k \in Kinds, CollectorStep(g, k)
      PROVE  UNCHANGED <<client, quit, startupFailed>>
  BY <1>8, CollectorEffect DEF Moved
<1>9. ASSUME UNCHANGED coreVars PROVE UNCHANGED <<client, quit, startupFailed>>
  BY <1>9 DEF coreVars
<1>10. UNCHANGED <<client, quit, startupFailed>> => FailuresCounted'
  BY <1>1 DEF Failed
<1> QED
  BY <1>2, <1>3, <1>4, <1>5, <1>6, <1>7, <1>8, <1>9, <1>10, NextKinds

\* redis_client_startup_failed_total is exact: no failure path misses it and no
\* client that was published counts as failed, however its life ends.
THEOREM CountsFailures == Spec => []FailuresCounted
<1>1. Init => FailuresCounted
  <2> SUFFICES ASSUME Init PROVE FailuresCounted
    OBVIOUS
  <2>1. {g \in Gens : client[g] = "closed" /\ quit[g] = "none"} = {}
    BY DEF Init
  <2> QED
    BY <2>1, FS_EmptySet DEF Init, FailuresCounted
<1>2. IInv => TypeOK /\ MutexInv /\ HolderInv /\ GenInv
  BY DEF IInv
<1> QED
  BY <1>1, <1>2, FailureStep, Invariance, PTL DEF Spec

-----------------------------------------------------------------------------
(* A start that succeeds                                                   *)

\* The collectors are started one after the other, and one that has been started
\* is never again as if it had not been (SpawnInv is preserved).
LEMMA SpawnedStep ==
  ASSUME TypeOK, MutexInv, HolderInv, SpawnInv, [Next]_vars
  PROVE  SpawnInv'
<1> SUFFICES ASSUME NEW p \in Callers, pc'[p] = "spawnInfo"
             PROVE  collector'[cur'[p]]["pool"] # "none"
  BY DEF SpawnInv
<1> USE DEF TypeOK, callVars
<1>1. CASE pc[p] # "spawnInfo"
  <2>1. CallerStep(p)
    BY <1>1, OwnMoves
  <2>2. SpawnPool(p)
    BY <1>1, <2>1 DEF CallerStep, RefuseCancelled, StartBegin, CleanBegin, Cancel,
       StartRejected, StartDial, PingOk, AbortStart, Publish, RegisterContract,
       SpawnInfo, CleanNothing, CleanTake, CloseQuit, AwaitStats, CleanReturn,
       CleanAbandon, Return, Goto
  <2>3. rdb = cur[p] /\ rdb \in Gens /\ statsQuit = rdb /\ cur' = cur
    BY <2>2, SpawnerHolds DEF SpawnPool
  <2>4. collector' = [collector EXCEPT ![rdb]["pool"] = "idle"]
    BY <2>2, <2>3 DEF SpawnPool, Spawn
  <2> QED
    BY <2>3, <2>4 DEF Kinds
<1>2. CASE pc[p] = "spawnInfo"
  <2>1. /\ lifecycleMu = p /\ cur[p] \in Gens /\ statsQuit = cur[p]
        /\ collector[cur[p]]["pool"] # "none"
    BY <1>2, SpawnerHolds DEF SpawnInv
  <2>2. ASSUME NEW q \in Callers, QuietStep(q) \/ StartDial(q) \/ AbortStart(q) \/ Publish(q)
                                  \/ CleanTake(q) \/ CloseQuit(q) \/ AwaitStats(q)
        PROVE  UNCHANGED <<collector, cur>> \/ (collector' = collector /\ q # p /\ cur'[p] = cur[p])
    BY <1>2, <2>1, <2>2 DEF QuietStep, RefuseCancelled, StartBegin, CleanBegin, Cancel,
       StartRejected, PingOk, RegisterContract, CleanNothing, CleanReturn, CleanAbandon,
       StartDial, AbortStart, Publish, CleanTake, CloseQuit, AwaitStats, Return, Goto,
       statsVars, MutexInv, Holding
  <2>3. ASSUME NEW q \in Callers, SpawnPool(q) \/ SpawnInfo(q) PROVE FALSE
    <3>1. q = p
      BY <2>1, <2>3, SpawnerHolds DEF SpawnPool, SpawnInfo
    <3> QED
      BY <1>2, <2>3, <3>1 DEF SpawnPool, SpawnInfo, Return, Goto
  <2>4. ASSUME NEW g \in Gens, FinishClose(g) \/ WaitBegin(g) \/ WaitReturn(g)
        PROVE  UNCHANGED <<collector, cur>>
    BY <2>4 DEF FinishClose, WaitBegin, WaitReturn, statsVars
  <2>5. ASSUME NEW g \in Gens, NEW k \in Kinds, CollectorStep(g, k)
        PROVE  collector'[cur'[p]]["pool"] # "none"
    <3>1. Moved(g, k)
      BY <2>5, CollectorEffect
    <3>2. cur' = cur /\ "pool" \in Kinds
      BY <3>1 DEF Moved, Kinds
    <3> QED
      BY <2>1, <3>1, <3>2, MovedStates
  <2>6. ASSUME UNCHANGED coreVars PROVE UNCHANGED <<collector, cur>>
    BY <2>6 DEF coreVars, statsVars
  <2> QED
    BY <2>1, <2>2, <2>3, <2>4, <2>5, <2>6, NextKinds
<1> QED
  BY <1>1, <1>2

\* A caller about to start the info collector has started the pool collector.
LEMMA SpawnedInv == Spec => []SpawnInv
<1>1. Init => SpawnInv
  BY DEF Init, SpawnInv
<1>2. IInv => TypeOK /\ MutexInv /\ HolderInv
  BY DEF IInv
<1> QED
  BY <1>1, <1>2, SpawnedStep, Invariance, PTL DEF Spec

\* StartupTasksContext returns nil only when the client it constructed itself is
\* published and open and both of its collectors have been started, whoever else
\* starts or stops the plugin meanwhile.
THEOREM StartOutcome == Spec => StartDelivers
<1>1. IInv /\ SpawnInv /\ [Next]_vars =>
        [\A p \in Callers :
            pc[p] = "spawnInfo" /\ pc'[p] = "ok" =>
                /\ rdb' = cur[p] /\ statsQuit' = cur[p]
                /\ client'[cur[p]] = "open"
                /\ \A k \in Kinds : collector'[cur[p]][k] # "none"]_vars
  <2> SUFFICES ASSUME IInv, SpawnInv, [Next]_vars,
                      NEW p \in Callers, pc[p] = "spawnInfo", pc'[p] = "ok"
               PROVE  /\ rdb' = cur[p] /\ statsQuit' = cur[p]
                      /\ client'[cur[p]] = "open"
                      /\ \A k \in Kinds : collector'[cur[p]][k] # "none"
    OBVIOUS
  <2> USE DEF IInv
  <2>1. SpawnInfo(p)
    <3>1. CallerStep(p)
      BY OwnMoves
    <3> QED
      BY <3>1 DEF CallerStep, RefuseCancelled, StartBegin, CleanBegin, Cancel,
         StartRejected, StartDial, PingOk, AbortStart, Publish, RegisterContract,
         SpawnPool, CleanNothing, CleanTake, CloseQuit, AwaitStats, CleanReturn,
         CleanAbandon, callVars, Returned
  <2>2. rdb = cur[p] /\ statsQuit = rdb /\ rdb \in Gens /\ rdb # Nil
    BY SpawnerHolds
  <2>3. UNCHANGED <<rdb, statsQuit, client>> /\ client[rdb] = "open"
    BY <2>1, <2>2 DEF SpawnInfo, pluginVars, clientVars, PublishedClientIsOpen
  <2>4. collector' = [collector EXCEPT ![rdb]["info"] = "idle"]
    BY <2>1, <2>2 DEF SpawnInfo, Spawn
  <2>5. \A k \in Kinds : collector'[rdb][k] # "none"
    BY <2>2, <2>4 DEF SpawnInv, TypeOK, Kinds
  <2> QED
    BY <2>2, <2>3, <2>5
<1> QED
  BY <1>1, SpawnedInv, Invariance, PTL DEF Spec, StartDelivers

-----------------------------------------------------------------------------
(* A cleanup that succeeds                                                 *)

\* While a caller is at "awaitClose" nobody else sends a waiter out, and a waiter
\* that came back stays so (WaitedInv is preserved).
LEMMA WaitedStep ==
  ASSUME TypeOK, MutexInv, HolderInv, WaitedInv, [Next]_vars
  PROVE  WaitedInv'
<1> SUFFICES ASSUME ~CapFires, NEW p \in Callers,
                    pc'[p] = "awaitClose", ~cancelled'[p]
             PROVE  waiter'[cur'[p]] = "done"
  BY DEF WaitedInv
<1> USE DEF TypeOK, callVars
<1>1. CASE pc[p] # "awaitClose"
  <2>1. CallerStep(p)
    BY <1>1, OwnMoves
  <2>2. AwaitStats(p)
    BY <1>1, <2>1 DEF CallerStep, RefuseCancelled, StartBegin, CleanBegin, Cancel,
       StartRejected, StartDial, PingOk, AbortStart, Publish, RegisterContract,
       SpawnPool, SpawnInfo, CleanNothing, CleanTake, CloseQuit, CleanReturn,
       CleanAbandon, Return, Goto
  <2>3. UNCHANGED <<waiter, cur, cancelled>>
    BY <2>2 DEF AwaitStats, statsVars
  <2> QED
    BY <2>2, <2>3 DEF AwaitStats
<1>2. CASE pc[p] = "awaitClose"
  <2>1. lifecycleMu = p /\ cur[p] \in Gens
    BY <1>2 DEF MutexInv, Holding
  <2>2. SUFFICES /\ cur'[p] = cur[p] /\ ~cancelled[p]
                 /\ waiter[cur[p]] = "done" => waiter'[cur[p]] = "done"
    BY <1>2, <2>1 DEF WaitedInv
  <2>3. ASSUME NEW q \in Callers, QuietStep(q) \/ StartDial(q) \/ AbortStart(q) \/ Publish(q)
                                  \/ CleanTake(q) \/ AwaitStats(q)
        PROVE  cur'[p] = cur[p] /\ ~cancelled[p] /\ waiter' = waiter
    BY <1>2, <2>1, <2>3 DEF QuietStep, RefuseCancelled, StartBegin, CleanBegin, Cancel,
       StartRejected, PingOk, RegisterContract, CleanNothing, CleanReturn, CleanAbandon,
       StartDial, AbortStart, Publish, CleanTake, AwaitStats, Return, Goto, Returned,
       statsVars, MutexInv, Holding
  <2>4. ASSUME NEW q \in Callers, CloseQuit(q) \/ SpawnPool(q) \/ SpawnInfo(q) PROVE FALSE
    <3>1. q = p
      BY <2>1, <2>4 DEF CloseQuit, SpawnPool, SpawnInfo, MutexInv, Holding
    <3> QED
      BY <1>2, <2>4, <3>1 DEF CloseQuit, SpawnPool, SpawnInfo
  <2>5. ASSUME NEW g \in Gens, FinishClose(g) \/ WaitBegin(g) \/ WaitReturn(g)
        PROVE  /\ UNCHANGED <<cur, cancelled>>
               /\ waiter[cur[p]] = "done" => waiter'[cur[p]] = "done"
    BY <2>1, <2>5 DEF FinishClose, WaitBegin, WaitReturn, statsVars
  <2>6. ASSUME NEW g \in Gens, NEW k \in Kinds, CollectorStep(g, k)
        PROVE  /\ UNCHANGED <<cur, cancelled>>
               /\ waiter[cur[p]] = "done" => waiter'[cur[p]] = "done"
    <3>1. Moved(g, k)
      BY <2>6, CollectorEffect
    <3>2. UNCHANGED <<cur, cancelled>>
      BY <3>1 DEF Moved
    <3>3. \/ waiter' = waiter
          \/ waiter' = [h \in Gens |-> IF statsWG = 1 /\ waiter[h] = "waiting"
                                       THEN "released" ELSE waiter[h]]
      BY <3>1 DEF Moved
    <3> QED
      BY <2>1, <3>2, <3>3
  <2>7. ASSUME UNCHANGED coreVars PROVE UNCHANGED <<cur, cancelled, waiter>>
    BY <2>7 DEF coreVars, statsVars
  <2> QED
    BY <2>3, <2>4, <2>5, <2>6, <2>7, NextKinds
<1> QED
  BY <1>1, <1>2

\* A cleanup whose context is live has waited its collectors out.
LEMMA WaitedOut == Spec => []WaitedInv
<1>1. Init => WaitedInv
  BY DEF Init, WaitedInv
<1>2. IInv => TypeOK /\ MutexInv /\ HolderInv
  BY DEF IInv
<1> QED
  BY <1>1, <1>2, WaitedStep, Invariance, PTL DEF Spec

\* The step with which a cleanup that took a client reports success.
LEMMA SuccessfulCleanup ==
  ASSUME TypeOK, [Next]_vars, NEW p \in Callers, pc[p] = "awaitClose", pc'[p] = "ok"
  PROVE  CleanReturn(p)
<1>1. CallerStep(p)
  BY OwnMoves
<1> QED
  BY <1>1 DEF TypeOK, CallerStep, RefuseCancelled, StartBegin, CleanBegin, Cancel,
     StartRejected, StartDial, PingOk, AbortStart, Publish, RegisterContract,
     SpawnPool, SpawnInfo, CleanNothing, CleanTake, CloseQuit, AwaitStats,
     CleanAbandon, callVars, Return, Goto, Returned

\* When the cap does not run out, CleanupTasksContext returns nil only after the
\* client it took is closed and the collectors of that client are gone, even if
\* its context could have been cancelled at any time.
THEOREM CleanupOutcome == ASSUME ~CapFires PROVE Spec => CleanupDelivers
<1>1. IInv /\ WaitedInv /\ [Next]_vars =>
        [\A p \in Callers :
            pc[p] = "awaitClose" /\ pc'[p] = "ok" =>
                /\ client[cur[p]] = "closed"
                /\ \A k \in Kinds : collector[cur[p]][k] \notin Running]_vars
  <2> SUFFICES ASSUME IInv, WaitedInv, [Next]_vars,
                      NEW p \in Callers, pc[p] = "awaitClose", pc'[p] = "ok"
               PROVE  /\ client[cur[p]] = "closed"
                      /\ \A k \in Kinds : collector[cur[p]][k] \notin Running
    OBVIOUS
  <2> USE DEF IInv
  <2>1. CleanReturn(p)
    BY SuccessfulCleanup
  <2>2. cur[p] \in Gens
    BY DEF TypeOK, MutexInv, Holding
  <2>3. waiter[cur[p]] = "done"
    BY <2>1 DEF CleanReturn, WaitedInv
  <2> QED
    BY <2>1, <2>2, <2>3 DEF CleanReturn, WaitMeansStopped
<1> QED
  BY <1>1, WaitedOut, Invariance, PTL DEF Spec, CleanupDelivers

-----------------------------------------------------------------------------
(* The orderly shutdown                                                    *)

\* A caller that waits in a cleanup keeps the mutex and its client until the wait,
\* or the call, is over.
LEMMA HeldStays ==
  ASSUME TypeOK, MutexInv, [Next]_vars,
         NEW p \in Callers, NEW label \in {"awaitStats", "awaitClose"},
         lifecycleMu = p, pc[p] = label
  PROVE  \/ lifecycleMu' = p /\ pc'[p] = label /\ cur'[p] = cur[p]
         \/ AwaitStats(p) \/ CleanReturn(p) \/ CleanAbandon(p)
<1> USE DEF TypeOK, callVars
<1>1. ASSUME NEW q \in Callers,
             \/ QuietStep(q) /\ ~CleanReturn(q) /\ ~CleanAbandon(q)
             \/ StartDial(q) \/ CleanTake(q)
      PROVE  lifecycleMu' = p /\ pc'[p] = label /\ cur'[p] = cur[p]
  BY <1>1 DEF QuietStep, RefuseCancelled, StartBegin, CleanBegin, Cancel, StartRejected,
     PingOk, RegisterContract, CleanNothing, StartDial, CleanTake, Return, Goto, Returned
<1>2. ASSUME NEW q \in Callers,
             \/ AbortStart(q) \/ Publish(q) \/ SpawnPool(q) \/ SpawnInfo(q)
             \/ CloseQuit(q) \/ AwaitStats(q) \/ CleanReturn(q) \/ CleanAbandon(q)
      PROVE  AwaitStats(p) \/ CleanReturn(p) \/ CleanAbandon(p)
  <2>1. pc[q] \in Holding
    BY <1>2 DEF AbortStart, Publish, SpawnPool, SpawnInfo, CloseQuit, AwaitStats,
       CleanReturn, CleanAbandon, Holding
  <2>2. q = p
    BY <2>1 DEF MutexInv
  <2> QED
    BY <1>2, <2>2 DEF AbortStart, Publish, SpawnPool, SpawnInfo, CloseQuit
<1>3. ASSUME NEW g \in Gens, FinishClose(g) \/ WaitBegin(g) \/ WaitReturn(g)
      PROVE  UNCHANGED callVars
  BY <1>3 DEF FinishClose, WaitBegin, WaitReturn
<1>4. ASSUME NEW g \in Gens, NEW k \in Kinds, CollectorStep(g, k) PROVE UNCHANGED callVars
  <2>1. Moved(g, k)
    BY <1>4, CollectorEffect
  <2> QED
    BY <2>1 DEF Moved
<1>5. ASSUME UNCHANGED coreVars PROVE UNCHANGED callVars
  BY <1>5 DEF coreVars
<1> QED
  BY <1>1, <1>2, <1>3, <1>4, <1>5, NextKinds

\* Who sends a waiter out and who begins to close a client.
LEMMA LeftBehindSteps ==
  ASSUME TypeOK, MutexInv, HolderInv, [Next]_vars, NEW g \in Gens
  PROVE  /\ waiter'[g] \notin {"none", "done"} =>
               \/ waiter[g] \notin {"none", "done"}
               \/ \E p \in Callers : CloseQuit(p) /\ cur[p] = g
         /\ client'[g] = "closing" =>
               \/ client[g] = "closing"
               \/ \E p \in Callers : AwaitStats(p) /\ cur[p] = g
<1> USE DEF TypeOK
<1>1. ASSUME NEW p \in Callers, CloseQuit(p) \/ AwaitStats(p)
      PROVE  /\ waiter'[g] # waiter[g] => CloseQuit(p) /\ cur[p] = g
             /\ client'[g] # client[g] => AwaitStats(p) /\ cur[p] = g
  BY <1>1 DEF CloseQuit, AwaitStats, statsVars
<1>2. ASSUME NEW p \in Callers,
             \/ QuietStep(p) \/ StartDial(p) \/ AbortStart(p) \/ Publish(p)
             \/ SpawnPool(p) \/ SpawnInfo(p) \/ CleanTake(p)
      PROVE  waiter' = waiter /\ client'[g] \in {client[g], "open", "closed"}
  <2>1. waiter' = waiter
    BY <1>2 DEF QuietStep, RefuseCancelled, StartBegin, CleanBegin, Cancel, StartRejected,
       PingOk, RegisterContract, CleanNothing, CleanReturn, CleanAbandon, StartDial,
       AbortStart, Publish, SpawnPool, SpawnInfo, CleanTake, statsVars
  <2>2. client'[g] \in {client[g], "open", "closed"}
    BY <1>2 DEF QuietStep, RefuseCancelled, StartBegin, CleanBegin, Cancel, StartRejected,
       PingOk, RegisterContract, CleanNothing, CleanReturn, CleanAbandon, StartDial,
       AbortStart, Publish, SpawnPool, SpawnInfo, CleanTake, clientVars
  <2> QED
    BY <2>1, <2>2
<1>3. ASSUME NEW h \in Gens, FinishClose(h) \/ WaitBegin(h) \/ WaitReturn(h)
      PROVE  /\ waiter'[g] = waiter[g] \/ waiter[g] \notin {"none", "done"}
             /\ client'[g] \in {client[g], "closed"}
  BY <1>3 DEF FinishClose, WaitBegin, WaitReturn, statsVars, clientVars
<1>4. ASSUME NEW h \in Gens, NEW k \in Kinds, CollectorStep(h, k)
      PROVE  /\ waiter'[g] = waiter[g] \/ waiter[g] \notin {"none", "done"}
             /\ client' = client
  <2>1. Moved(h, k)
    BY <1>4, CollectorEffect
  <2> QED
    BY <2>1 DEF Moved, clientVars
<1>5. ASSUME UNCHANGED coreVars PROVE UNCHANGED <<waiter, client>>
  BY <1>5 DEF coreVars, statsVars, clientVars
<1> QED
  BY <1>1, <1>2, <1>3, <1>4, <1>5, NextKinds

\* Without cancellable callers no context ends.
LEMMA LiveContexts ==
  ASSUME Orderly, TypeOK, [Next]_vars, NEW p \in Callers, ~cancelled[p]
  PROVE  ~cancelled'[p]
<1> USE DEF TypeOK, callVars
<1>1. ASSUME NEW q \in Callers,
             \/ QuietStep(q) \/ StartDial(q) \/ AbortStart(q) \/ Publish(q) \/ SpawnPool(q)
             \/ SpawnInfo(q) \/ CleanTake(q) \/ CloseQuit(q) \/ AwaitStats(q)
      PROVE  cancelled'[p] \in {cancelled[p], FALSE}
  <2>1. ~Cancel(q)
    BY DEF Cancel, Orderly
  <2> QED
    BY <1>1, <2>1 DEF QuietStep, RefuseCancelled, StartBegin, CleanBegin, StartRejected,
       PingOk, RegisterContract, CleanNothing, CleanReturn, CleanAbandon, StartDial,
       AbortStart, Publish, SpawnPool, SpawnInfo, CleanTake, CloseQuit, AwaitStats, Return
<1>2. ASSUME NEW g \in Gens, FinishClose(g) \/ WaitBegin(g) \/ WaitReturn(g)
      PROVE  UNCHANGED cancelled
  BY <1>2 DEF FinishClose, WaitBegin, WaitReturn
<1>3. ASSUME NEW g \in Gens, NEW k \in Kinds, CollectorStep(g, k) PROVE UNCHANGED cancelled
  <2>1. Moved(g, k)
    BY <1>3, CollectorEffect
  <2> QED
    BY <2>1 DEF Moved
<1>4. ASSUME UNCHANGED coreVars PROVE UNCHANGED cancelled
  BY <1>4 DEF coreVars
<1> QED
  BY <1>1, <1>2, <1>3, <1>4, NextKinds

\* No cleanup returns, or goes on to close the client, before the goroutine it
\* waits for is done (OrderlyInv is preserved).
LEMMA OrderlyStep ==
  ASSUME Orderly, TypeOK, MutexInv, HolderInv, OrderlyInv, [Next]_vars
  PROVE  OrderlyInv'
<1>1. \A p \in Callers : ~cancelled'[p]
  BY LiveContexts DEF OrderlyInv
<1>2. ASSUME NEW g \in Gens, waiter'[g] \notin {"none", "done"}
      PROVE  HeldAt(g, "awaitStats")'
  <2>1. CASE waiter[g] \notin {"none", "done"}
    <3>1. PICK p \in Callers : lifecycleMu = p /\ pc[p] = "awaitStats" /\ cur[p] = g
      BY <2>1 DEF OrderlyInv, HeldAt
    <3>2. ~AwaitStats(p)
      BY <2>1, <3>1 DEF AwaitStats, OrderlyInv, Orderly
    <3>3. ~CleanReturn(p) /\ ~CleanAbandon(p)
      BY <3>1 DEF CleanReturn, CleanAbandon
    <3>4. lifecycleMu' = p /\ pc'[p] = "awaitStats" /\ cur'[p] = g
      BY <3>1, <3>2, <3>3, HeldStays
    <3> QED
      BY <3>4 DEF HeldAt
  <2>2. ASSUME NEW p \in Callers, CloseQuit(p), cur[p] = g
        PROVE  HeldAt(g, "awaitStats")'
    <3>1. lifecycleMu' = p /\ pc'[p] = "awaitStats" /\ cur'[p] = g
      BY <2>2 DEF CloseQuit, Goto, TypeOK, MutexInv, Holding
    <3> QED
      BY <3>1 DEF HeldAt
  <2> QED
    BY <1>2, <2>1, <2>2, LeftBehindSteps
<1>3. ASSUME NEW g \in Gens, client'[g] = "closing"
      PROVE  HeldAt(g, "awaitClose")'
  <2>1. CASE client[g] = "closing"
    <3>1. PICK p \in Callers : lifecycleMu = p /\ pc[p] = "awaitClose" /\ cur[p] = g
      BY <2>1 DEF OrderlyInv, HeldAt
    <3>2. ~AwaitStats(p) /\ ~CleanReturn(p) /\ ~CleanAbandon(p)
      BY <2>1, <3>1 DEF AwaitStats, CleanReturn, CleanAbandon, OrderlyInv
    <3>3. lifecycleMu' = p /\ pc'[p] = "awaitClose" /\ cur'[p] = g
      BY <3>1, <3>2, HeldStays
    <3> QED
      BY <3>3 DEF HeldAt
  <2>2. ASSUME NEW p \in Callers, AwaitStats(p), cur[p] = g
        PROVE  HeldAt(g, "awaitClose")'
    <3>1. lifecycleMu' = p /\ pc'[p] = "awaitClose" /\ cur'[p] = g
      BY <2>2 DEF AwaitStats, Goto, TypeOK, MutexInv, Holding
    <3> QED
      BY <3>1 DEF HeldAt
  <2> QED
    BY <1>3, <2>1, <2>2, LeftBehindSteps
<1> QED
  BY <1>1, <1>2, <1>3 DEF OrderlyInv

\* In an orderly shutdown every goroutine a cleanup starts ends before the cleanup.
THEOREM OrderlyShutdown == ASSUME Orderly PROVE Spec => []OrderlyInv
<1>1. Init => OrderlyInv
  BY DEF Init, OrderlyInv
<1>2. IInv => TypeOK /\ MutexInv /\ HolderInv
  BY DEF IInv
<1>3. TypeOK /\ MutexInv /\ HolderInv /\ OrderlyInv /\ [Next]_vars => OrderlyInv'
  BY OrderlyStep
<1> QED
  BY <1>1, <1>2, <1>3, Invariance, PTL DEF Spec

\* Start and stop the plugin as often as you like: as long as no context ends and
\* the cap does not run out, the WaitGroup is never found in use again and no
\* goroutine of the plugin panics.
THEOREM NoPanic == ASSUME Orderly PROVE Spec => []NeverPanics
<1>1. IInv /\ OrderlyInv /\ PanicOnlyAfterAbandonedWait => NeverPanics
  <2> SUFFICES ASSUME IInv, OrderlyInv, NEW g \in Gens, Abandoned(g) PROVE FALSE
    BY DEF PanicOnlyAfterAbandonedWait, NeverPanics
  <2> USE DEF IInv
  <2>1. PICK p \in Callers : lifecycleMu = p /\ pc[p] = "awaitStats" /\ cur[p] = g
    BY DEF Abandoned, OrderlyInv, HeldAt
  <2>2. client[g] = "open"
    BY <2>1 DEF HolderInv, HolderOK
  <2> QED
    BY <2>2 DEF Abandoned
<1> QED
  BY <1>1, OrderlyShutdown, PanicNeedsAbandonedWait, Invariance, PTL

\* What nobody holds at the end of an orderly cleanup is down: a running collector
\* or an open client would be in somebody's hands.
LEMMA NothingLeft ==
  ASSUME IInv, OrderlyInv, rdb = Nil,
         \A p \in Callers : lifecycleMu = p =>
            pc[p] = "awaitClose" /\ client[cur[p]] = "closed"
  PROVE  /\ Alive = {}
         /\ \A g \in Gens : client[g] \in {"none", "closed"}
<1> USE DEF IInv
<1>1. ASSUME NEW g \in Gens, NEW k \in Kinds, collector[g][k] \in Running PROVE FALSE
  <2>1. quit[g] = "closed"
    BY <1>1 DEF NoOrphanCollector
  <2>2. waiter[g] \notin {"none", "done"}
    BY <1>1, <2>1 DEF GenInv, GenOK, WaitMeansStopped
  <2> QED
    BY <2>2 DEF OrderlyInv, HeldAt
<1>2. ASSUME NEW g \in Gens PROVE client[g] \notin {"open", "closing"}
  <2>1. client[g] # "open"
    BY DEF NoLeakedClient, MutexInv, TypeOK
  <2>2. client[g] # "closing"
    BY DEF OrderlyInv, HeldAt
  <2> QED
    BY <2>1, <2>2
<1>3. Alive = {}
  BY <1>1 DEF Alive
<1> QED
  BY <1>2, <1>3 DEF TypeOK

\* An orderly CleanupTasksContext that reports success leaves no collector of any
\* generation running and no client open, also when it found nothing to clean up.
THEOREM DownAfterCleanup == ASSUME Orderly PROVE Spec => CleanupNilMeansDown
<1>1. IInv /\ OrderlyInv /\ [Next]_vars =>
        [\A p \in Callers :
            pc[p] \in {"cleanLock", "awaitClose"} /\ pc'[p] = "ok" =>
                /\ Alive = {}
                /\ \A g \in Gens : client[g] \in {"none", "closed"}]_vars
  <2> SUFFICES ASSUME IInv, OrderlyInv, [Next]_vars, NEW p \in Callers,
                      pc[p] \in {"cleanLock", "awaitClose"}, pc'[p] = "ok"
               PROVE  /\ Alive = {}
                      /\ \A g \in Gens : client[g] \in {"none", "closed"}
    OBVIOUS
  <2> USE DEF IInv
  <2>1. CASE pc[p] = "cleanLock"
    <3>1. CallerStep(p)
      BY <2>1, OwnMoves
    <3>2. CleanNothing(p)
      BY <2>1, <3>1 DEF TypeOK, CallerStep, RefuseCancelled, StartBegin, CleanBegin,
         Cancel, StartRejected, StartDial, PingOk, AbortStart, Publish, RegisterContract,
         SpawnPool, SpawnInfo, CleanTake, CloseQuit, AwaitStats, CleanReturn,
         CleanAbandon, callVars, Return, Goto, Returned
    <3>3. rdb = Nil /\ \A q \in Callers : lifecycleMu # q
      BY <3>2 DEF CleanNothing
    <3> QED
      BY <3>3, NothingLeft
  <2>2. CASE pc[p] = "awaitClose"
    <3>1. CleanReturn(p)
      BY <2>2, SuccessfulCleanup
    <3>2. lifecycleMu = p /\ client[cur[p]] = "closed" /\ rdb = Nil
      BY <2>2, <3>1 DEF CleanReturn, MutexInv, HolderInv, HolderOK, Holding
    <3> QED
      BY <2>2, <3>2, NothingLeft
  <2> QED
    BY <2>1, <2>2
<1> QED
  BY <1>1, OrderlyShutdown, Invariance, PTL DEF Spec, CleanupNilMeansDown
=============================================================================
