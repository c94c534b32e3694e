--------------------------- MODULE LifecycleProofs ---------------------------
(***************************************************************************)
(* Machine-checked proofs about Lifecycle, for any number of callers and   *)
(* of restarts, cancellable or not, and whether or not the cap runs out.   *)
(* The argument is the inductive invariant IInv of LifecycleProperties:    *)
(* each of its conjuncts is preserved by every kind of step, with the help *)
(* of the conjuncts named in the lemma about it.                           *)
(***************************************************************************)
EXTENDS LifecycleProperties, TLAPS, FiniteSetTheorems

USE LifecycleAssumption DEF Nil, Gens

CollectorStates == Running \cup {"none", "exited"}

\* What every conjunct of IInv but TypeOK is about.
coreVars == <<pluginVars, clientVars, statsVars, callVars, counterVars, panicked>>

\* The steps of a caller that move nothing but the caller and the mutex.
QuietStep(p) ==
    \/ RefuseCancelled(p) \/ StartBegin(p) \/ CleanBegin(p) \/ Cancel(p)
    \/ StartRejected(p) \/ PingOk(p) \/ RegisterContract(p)
    \/ CleanNothing(p) \/ CleanReturn(p) \/ CleanAbandon(p)

-----------------------------------------------------------------------------
(* The steps, by kind                                                      *)

\* Every step is one of a caller that only moves the caller and the mutex, one of
\* a caller that moves a client or a collector, one of a goroutine that a cleanup
\* left behind, one of a collector, or one that leaves the lifecycle alone.
LEMMA NextKinds ==
  ASSUME [Next]_vars
  PROVE  \/ \E p \in Callers :
               \/ QuietStep(p) \/ StartDial(p) \/ AbortStart(p) \/ Publish(p)
               \/ SpawnPool(p) \/ SpawnInfo(p)
               \/ CleanTake(p) \/ CloseQuit(p) \/ AwaitStats(p)
         \/ \E g \in Gens : FinishClose(g) \/ WaitBegin(g) \/ WaitReturn(g)
         \/ \E g \in Gens, k \in Kinds : CollectorStep(g, k)
         \/ UNCHANGED coreVars
<1> USE DEF coreVars, vars
<1>1. ASSUME NEW k \in Confs, Configure(k) PROVE UNCHANGED coreVars
  BY <1>1 DEF Configure
<1>2. ASSUME NEW i \in Initializers, InitializeLoad(i) PROVE UNCHANGED coreVars
  BY <1>2 DEF InitializeLoad
<1>3. ASSUME NEW i \in Initializers, InitializeStore(i) PROVE UNCHANGED coreVars
  BY <1>3 DEF InitializeStore
<1>4. CASE UNCHANGED vars
  BY <1>4
<1> QED
  BY <1>1, <1>2, <1>3, <1>4 DEF Next, CallerStep, QuietStep, Halted

\* One entry of a two-level function is replaced.
LEMMA Update ==
  ASSUME NEW S, NEW f \in [Gens -> [Kinds -> S]], NEW g \in Gens, NEW k \in Kinds,
         NEW v \in S, NEW e, e = [f EXCEPT ![g][k] = v]
  PROVE  /\ e \in [Gens -> [Kinds -> S]]
         /\ \A h \in Gens, l \in Kinds :
               e[h][l] = IF h = g /\ l = k THEN v ELSE f[h][l]
  OBVIOUS

\* What a caller that is about to start a collector knows.
LEMMA SpawnerHolds ==
  ASSUME TypeOK, MutexInv, HolderInv,
         NEW p \in Callers, pc[p] \in {"spawnPool", "spawnInfo"}
  PROVE  /\ lifecycleMu = p /\ rdb = cur[p] /\ statsQuit = rdb /\ rdb \in Gens
         /\ pc[p] = "spawnPool" => collector[rdb]["pool"] = "none"
         /\ collector[rdb]["info"] = "none"
  BY DEF TypeOK, MutexInv, HolderInv, HolderOK, Holding

\* What starting the collector of a kind does: one entry turns to "idle" and the
\* counter goes up by one.
Spawned(p, kind) ==
    /\ collector[rdb][kind] = "none"
    /\ statsWG' = statsWG + 1
    /\ collector' \in [Gens -> [Kinds -> CollectorStates]]
    /\ \A h \in Gens, l \in Kinds :
         collector'[h][l] = IF h = rdb /\ l = kind THEN "idle" ELSE collector[h][l]
    /\ \/ /\ kind = "pool" /\ pc[p] = "spawnPool" /\ pc' = [pc EXCEPT ![p] = "spawnInfo"]
          /\ UNCHANGED <<lifecycleMu, cur, cancelled>>
       \/ kind = "info" /\ pc[p] = "spawnInfo" /\ Return(p, "ok")
    /\ UNCHANGED <<confVars, contractVars, pluginVars, clientVars, waiter, using,
                   counterVars, panicked>>

\* startPoolStatsCollector and startInfoCollector start a collector of the client
\* that is published, and count it in the WaitGroup.
LEMMA SpawnEffect ==
  ASSUME TypeOK, MutexInv, HolderInv,
         NEW p \in Callers, SpawnPool(p) \/ SpawnInfo(p)
  PROVE  \E kind \in Kinds : Spawned(p, kind)
<1> USE DEF Spawned
<1>1. "pool" \in Kinds /\ "info" \in Kinds /\ "idle" \in CollectorStates
  BY DEF Kinds, CollectorStates, Running
<1>2. collector \in [Gens -> [Kinds -> CollectorStates]]
  BY DEF TypeOK, CollectorStates
<1>3. CASE SpawnPool(p)
  <2>1. /\ statsQuit = rdb /\ rdb \in Gens /\ rdb # Nil
        /\ collector[rdb]["pool"] = "none" /\ Spawn("pool")
    BY <1>3, SpawnerHolds DEF SpawnPool
  <2>2. statsWG' = statsWG + 1 /\ collector' = [collector EXCEPT ![rdb]["pool"] = "idle"]
    BY <2>1 DEF Spawn
  <2> QED
    BY <1>1, <1>2, <1>3, <2>1, <2>2, Update DEF SpawnPool, Goto
<1>4. CASE SpawnInfo(p)
  <2>1. /\ statsQuit = rdb /\ rdb \in Gens /\ rdb # Nil
        /\ collector[rdb]["info"] = "none" /\ Spawn("info")
    BY <1>4, SpawnerHolds DEF SpawnInfo
  <2>2. statsWG' = statsWG + 1 /\ collector' = [collector EXCEPT ![rdb]["info"] = "idle"]
    BY <2>1 DEF Spawn
  <2> QED
    BY <1>1, <1>2, <1>4, <2>1, <2>2, Update DEF SpawnInfo
<1> QED
  BY <1>3, <1>4

\* What a step of a collector does: it moves that collector alone, and the
\* WaitGroup only when the collector exits.
Moved(g, k) ==
    /\ collector[g][k] \in Running
    /\ collector' \in [Gens -> [Kinds -> CollectorStates]]
    /\ using' \in [Gens -> [Kinds -> 0..MaxGen]]
    /\ \A h \in Gens, l \in Kinds :
         h # g \/ l # k => /\ collector'[h][l] = collector[h][l]
                           /\ using'[h][l] = using[h][l]
    /\ using'[g][k] # Nil => collector'[g][k] \in Running /\ using'[g][k] = rdb
    /\ \/ collector'[g][k] \in Running /\ UNCHANGED <<statsWG, waiter>>
       \/ /\ collector'[g][k] = "exited"
          /\ statsWG' = statsWG - 1
          /\ waiter' = [h \in Gens |-> IF statsWG = 1 /\ waiter[h] = "waiting"
                                       THEN "released" ELSE waiter[h]]
    /\ UNCHANGED <<confVars, contractVars, pluginVars, clientVars, callVars,
                   counterVars, panicked>>

\* A collector's step changes nothing of the plugin but that collector's place and,
\* when it calls Done, the WaitGroup.
LEMMA CollectorEffect ==
  ASSUME TypeOK, NEW g \in Gens, NEW k \in Kinds, CollectorStep(g, k)
  PROVE  Moved(g, k)
<1> USE DEF Moved
<1>1. /\ collector \in [Gens -> [Kinds -> CollectorStates]]
      /\ using \in [Gens -> [Kinds -> 0..MaxGen]]
      /\ rdb \in 0..MaxGen /\ Nil \in 0..MaxGen
  BY DEF TypeOK, CollectorStates
<1>2. {"idle", "busy", "version", "exited"} \subseteq CollectorStates
  BY DEF CollectorStates, Running
<1>3. CASE Tick(g, k)
  <2>1. /\ collector' = [collector EXCEPT ![g][k] = "busy"]
        /\ using' = [using EXCEPT ![g][k] = rdb]
    BY <1>3 DEF Tick
  <2>2. /\ collector' \in [Gens -> [Kinds -> CollectorStates]]
        /\ \A h \in Gens, l \in Kinds :
              collector'[h][l] = IF h = g /\ l = k THEN "busy" ELSE collector[h][l]
    BY <1>1, <1>2, <2>1, Update
  <2>3. /\ using' \in [Gens -> [Kinds -> 0..MaxGen]]
        /\ \A h \in Gens, l \in Kinds :
              using'[h][l] = IF h = g /\ l = k THEN rdb ELSE using[h][l]
    BY <1>1, <2>1, Update
  <2> QED
    BY <1>3, <2>2, <2>3 DEF Tick, Running
<1>4. CASE Reread(g, k)
  <2> DEFINE next == IF rdb = Nil THEN "idle" ELSE "version"
  <2>1. /\ collector' = [collector EXCEPT ![g][k] = next]
        /\ using' = [using EXCEPT ![g][k] = rdb]
    BY <1>4 DEF Reread
  <2>2. /\ collector' \in [Gens -> [Kinds -> CollectorStates]]
        /\ \A h \in Gens, l \in Kinds :
              collector'[h][l] = IF h = g /\ l = k THEN next ELSE collector[h][l]
    <3>1. next \in CollectorStates
      BY <1>2
    <3> QED
      BY <1>1, <2>1, <3>1, Update
  <2>3. /\ using' \in [Gens -> [Kinds -> 0..MaxGen]]
        /\ \A h \in Gens, l \in Kinds :
              using'[h][l] = IF h = g /\ l = k THEN rdb ELSE using[h][l]
    BY <1>1, <2>1, Update
  <2> QED
    BY <1>4, <2>2, <2>3 DEF Reread, Running
<1>5. CASE FinishTick(g, k)
  <2>1. /\ collector' = [collector EXCEPT ![g][k] = "idle"]
        /\ using' = [using EXCEPT ![g][k] = Nil]
    BY <1>5 DEF FinishTick
  <2>2. /\ collector' \in [Gens -> [Kinds -> CollectorStates]]
        /\ \A h \in Gens, l \in Kinds :
              collector'[h][l] = IF h = g /\ l = k THEN "idle" ELSE collector[h][l]
    BY <1>1, <1>2, <2>1, Update
  <2>3. /\ using' \in [Gens -> [Kinds -> 0..MaxGen]]
        /\ \A h \in Gens, l \in Kinds :
              using'[h][l] = IF h = g /\ l = k THEN Nil ELSE using[h][l]
    BY <1>1, <2>1, Update
  <2> QED
    BY <1>5, <2>2, <2>3 DEF FinishTick, Running
<1>6. CASE CollectorExit(g, k) \/ CollectorPanic(g, k)
  <2>1. /\ collector' = [collector EXCEPT ![g][k] = "exited"]
        /\ using' = [using EXCEPT ![g][k] = Nil]
    BY <1>6 DEF CollectorExit, CollectorPanic, Done
  <2>2. /\ collector' \in [Gens -> [Kinds -> CollectorStates]]
        /\ \A h \in Gens, l \in Kinds :
              collector'[h][l] = IF h = g /\ l = k THEN "exited" ELSE collector[h][l]
    BY <1>1, <1>2, <2>1, Update
  <2>3. /\ using' \in [Gens -> [Kinds -> 0..MaxGen]]
        /\ \A h \in Gens, l \in Kinds :
              using'[h][l] = IF h = g /\ l = k THEN Nil ELSE using[h][l]
    BY <1>1, <2>1, Update
  <2> QED
    BY <1>6, <2>2, <2>3 DEF CollectorExit, CollectorPanic, Done, Running
<1> QED
  BY <1>3, <1>4, <1>5, <1>6 DEF CollectorStep

\* No collector is started by the step of another, nor revived by its own.
LEMMA MovedStates ==
  ASSUME TypeOK, NEW g \in Gens, NEW k \in Kinds, Moved(g, k)
  PROVE  \A h \in Gens, l \in Kinds :
            /\ collector[h][l] = "none" <=> collector'[h][l] = "none"
            /\ collector'[h][l] \in Running => collector[h][l] \in Running
<1>1. /\ collector[g][k] # "none" /\ collector'[g][k] # "none"
      /\ collector[g][k] \in Running
  BY DEF Moved, Running
<1> QED
  BY <1>1 DEF Moved

-----------------------------------------------------------------------------
(* The WaitGroup's counter                                                 *)

\* There are finitely many collectors at any time.
LEMMA AliveFinite == IsFiniteSet(Alive) /\ Cardinality(Alive) \in Nat
<1>1. IsFiniteSet(Gens) /\ IsFiniteSet(Kinds)
  <2>1. IsFiniteSet({"pool"}) /\ IsFiniteSet({"pool"} \cup {"info"})
    BY FS_EmptySet, FS_Singleton, FS_AddElement
  <2>2. Kinds = {"pool"} \cup {"info"}
    BY DEF Kinds
  <2> QED
    BY <2>1, <2>2, FS_Interval
<1>2. IsFiniteSet(Gens \X Kinds)
  BY <1>1, FS_Product
<1>3. Alive \in SUBSET (Gens \X Kinds)
  BY DEF Alive
<1> QED
  BY <1>2, <1>3, FS_Subset, FS_CardinalityType

\* A collector that was not running starts to.
LEMMA AliveGrows ==
  ASSUME NEW g \in Gens, NEW k \in Kinds,
         collector[g][k] \notin Running, collector'[g][k] \in Running,
         \A h \in Gens, l \in Kinds :
            h # g \/ l # k => collector'[h][l] = collector[h][l]
  PROVE  Cardinality(Alive') = Cardinality(Alive) + 1
<1>1. Alive' = Alive \cup {<<g, k>>}
  BY DEF Alive
<1>2. <<g, k>> \notin Alive
  BY DEF Alive
<1> QED
  BY <1>1, <1>2, AliveFinite, FS_AddElement

\* A running collector exits: the counter was not zero, and if it was one there
\* was no other.
LEMMA AliveShrinks ==
  ASSUME NEW g \in Gens, NEW k \in Kinds,
         collector[g][k] \in Running, collector'[g][k] \notin Running,
         \A h \in Gens, l \in Kinds :
            h # g \/ l # k => collector'[h][l] = collector[h][l]
  PROVE  /\ Cardinality(Alive') = Cardinality(Alive) - 1
         /\ Cardinality(Alive) # 0
         /\ Cardinality(Alive) = 1 =>
              \A h \in Gens, l \in Kinds : collector'[h][l] \notin Running
<1>1. Alive' = Alive \ {<<g, k>>}
  BY DEF Alive
<1>2. <<g, k>> \in Alive
  BY DEF Alive
<1>3. /\ Cardinality(Alive') = Cardinality(Alive) - 1
      /\ Cardinality(Alive) # 0
      /\ IsFiniteSet(Alive')
  BY <1>1, <1>2, AliveFinite, FS_RemoveElement, FS_EmptySet
<1>4. ASSUME Cardinality(Alive) = 1, NEW h \in Gens, NEW l \in Kinds,
             collector'[h][l] \in Running
      PROVE  FALSE
  <2>1. <<h, l>> \in Alive'
    BY <1>4 DEF Alive
  <2>2. Alive' = {}
    BY <1>3, <1>4, FS_EmptySet
  <2> QED
    BY <2>1, <2>2
<1> QED
  BY <1>3, <1>4

\* A counter of zero means that no collector runs.
LEMMA ZeroMeansNone ==
  ASSUME CounterIsExact
  PROVE  statsWG = 0 <=> \A g \in Gens, k \in Kinds : collector[g][k] \notin Running
<1>1. statsWG = 0 <=> Alive = {}
  BY AliveFinite, FS_EmptySet DEF CounterIsExact
<1>2. Alive = {} <=> \A g \in Gens, k \in Kinds : collector[g][k] \notin Running
  <2>1. ASSUME NEW g \in Gens, NEW k \in Kinds, collector[g][k] \in Running
        PROVE  <<g, k>> \in Alive
    BY <2>1 DEF Alive
  <2>2. ASSUME NEW c \in Alive
        PROVE  \E g \in Gens, k \in Kinds : collector[g][k] \in Running
    BY <2>2 DEF Alive
  <2> QED
    BY <2>1, <2>2
<1> QED
  BY <1>1, <1>2

\* lifecycleMu is held from the check at the start of a call to its return, and
\* by nobody else (MutexInv is preserved).
LEMMA MutexStep ==
  ASSUME TypeOK, MutexInv, HolderInv, [Next]_vars
  PROVE  MutexInv'
<1>1. ASSUME NEW p \in Callers, SpawnPool(p) \/ SpawnInfo(p) PROVE MutexInv'
  <2>1. PICK kind \in Kinds : Spawned(p, kind)
    BY <1>1, SpawnEffect
  <2>2. lifecycleMu = p /\ rdb = cur[p] /\ statsQuit = rdb /\ rdb \in Gens
    BY <1>1, SpawnerHolds DEF SpawnPool, SpawnInfo
  <2>3. pc[p] \in Holding /\ pc \in [Callers -> Labels] /\ cur \in [Callers -> 0..MaxGen]
    BY <2>1 DEF Spawned, Holding, TypeOK
  <2>4. CASE kind = "pool"
    <3>1. pc' = [pc EXCEPT ![p] = "spawnInfo"] /\ UNCHANGED <<lifecycleMu, cur, rdb, statsQuit>>
      BY <2>1, <2>4 DEF Spawned, pluginVars
    <3> QED
      BY <2>2, <2>3, <3>1 DEF MutexInv, Holding
  <2>5. CASE kind = "info"
    <3>1. /\ pc' = [pc EXCEPT ![p] = "ok"] /\ cur' = [cur EXCEPT ![p] = Nil]
          /\ lifecycleMu' = None /\ UNCHANGED <<rdb, statsQuit>>
      BY <2>1, <2>5 DEF Spawned, pluginVars, Return, Goto
    <3> QED
      BY <2>2, <2>3, <3>1 DEF MutexInv, Holding
  <2> QED
    BY <2>4, <2>5 DEF Kinds
<1>2. ASSUME NEW g \in Gens, NEW k \in Kinds, CollectorStep(g, k) PROVE MutexInv'
  <2>1. Moved(g, k)
    BY <1>2, CollectorEffect
  <2>2. UNCHANGED <<pluginVars, clientVars, callVars, counterVars>>
    BY <2>1 DEF Moved
  <2> QED
    BY <2>2 DEF MutexInv, callVars, pluginVars
<1> USE DEF confVars, contractVars, pluginVars, clientVars, statsVars, callVars,
            counterVars, TypeOK, MutexInv, Returned, Holding
<1>3. ASSUME NEW p \in Callers, QuietStep(p) PROVE MutexInv'
  <2>1. CASE RefuseCancelled(p)
    BY <2>1 DEF RefuseCancelled, Goto
  <2>2. CASE StartBegin(p)
    BY <2>2 DEF StartBegin, Goto
  <2>3. CASE CleanBegin(p)
    BY <2>3 DEF CleanBegin, Goto
  <2>4. CASE Cancel(p)
    BY <2>4 DEF Cancel
  <2>5. CASE StartRejected(p)
    BY <2>5 DEF StartRejected, Return, Goto
  <2>6. CASE PingOk(p)
    BY <2>6 DEF PingOk, Goto
  <2>7. CASE RegisterContract(p)
    BY <2>7 DEF RegisterContract, Goto
  <2>8. CASE CleanNothing(p)
    BY <2>8 DEF CleanNothing, Return, Goto
  <2>9. CASE CleanReturn(p)
    BY <2>9 DEF CleanReturn, Return, Goto
  <2>10. CASE CleanAbandon(p)
    BY <2>10 DEF CleanAbandon, Return, Goto
  <2> QED
    BY <1>3, <2>1, <2>2, <2>3, <2>4, <2>5, <2>6, <2>7, <2>8, <2>9, <2>10
       DEF QuietStep
<1>4. ASSUME NEW p \in Callers, StartDial(p) PROVE MutexInv'
  BY <1>4 DEF StartDial, Goto
<1>5. ASSUME NEW p \in Callers, AbortStart(p) PROVE MutexInv'
  BY <1>5 DEF AbortStart, Goto, Return
<1>6. ASSUME NEW p \in Callers, Publish(p) PROVE MutexInv'
  BY <1>6 DEF Publish, Goto
<1>7. ASSUME NEW p \in Callers, CleanTake(p) PROVE MutexInv'
  BY <1>7 DEF CleanTake, Goto
<1>8. ASSUME NEW p \in Callers, CloseQuit(p) PROVE MutexInv'
  BY <1>8 DEF CloseQuit, Goto
<1>9. ASSUME NEW p \in Callers, AwaitStats(p) PROVE MutexInv'
  BY <1>9 DEF AwaitStats, Goto
<1>10. ASSUME NEW g \in Gens, FinishClose(g) PROVE MutexInv'
  BY <1>10 DEF FinishClose
<1>11. ASSUME NEW g \in Gens, WaitBegin(g) PROVE MutexInv'
  BY <1>11 DEF WaitBegin
<1>12. ASSUME NEW g \in Gens, WaitReturn(g) PROVE MutexInv'
  BY <1>12 DEF WaitReturn
<1>13. ASSUME UNCHANGED coreVars PROVE MutexInv'
  BY <1>13 DEF coreVars
<1> QED
  BY <1>1, <1>2, <1>3, <1>4, <1>5, <1>6, <1>7, <1>8, <1>9, <1>10, <1>11, <1>12,
     <1>13, NextKinds

\* The caller that holds the mutex finds the client it works on as its last step
\* left it: nobody else moves it (HolderInv is preserved).
LEMMA HolderStep ==
  ASSUME TypeOK, MutexInv, HolderInv, GenInv, PublishedClientIsOpen, [Next]_vars
  PROVE  HolderInv'
<1>1. ASSUME NEW p \in Callers, SpawnPool(p) \/ SpawnInfo(p) PROVE HolderInv'
  <2>1. PICK kind \in Kinds : Spawned(p, kind)
    BY <1>1, SpawnEffect
  <2>2. lifecycleMu = p /\ rdb = cur[p] /\ statsQuit = rdb /\ rdb \in Gens
    BY <1>1, SpawnerHolds DEF SpawnPool, SpawnInfo
  <2>3. pc[p] = "spawnPool" => collector[rdb]["info"] = "none"
    BY <1>1, <2>2, SpawnerHolds
  <2> QED
    BY <2>1, <2>2, <2>3 DEF Spawned, Return, Goto, TypeOK, HolderInv, HolderOK,
       Kinds, pluginVars, clientVars
<1>2. ASSUME NEW g \in Gens, NEW k \in Kinds, CollectorStep(g, k) PROVE HolderInv'
  <2>1. Moved(g, k)
    BY <1>2, CollectorEffect
  <2>2. UNCHANGED <<pluginVars, clientVars, callVars, counterVars>>
    BY <2>1 DEF Moved
  <2>3. \A h \in Gens, l \in Kinds :
            /\ collector[h][l] = "none" <=> collector'[h][l] = "none"
            /\ collector'[h][l] \in Running => collector[h][l] \in Running
    BY <2>1, MovedStates
  <2> QED
    BY <2>2, <2>3 DEF HolderInv, HolderOK, MutexInv, TypeOK, Kinds, Holding,
       pluginVars, clientVars, callVars
<1> USE DEF confVars, contractVars, pluginVars, clientVars, statsVars, callVars,
            counterVars, TypeOK, MutexInv, Returned, Holding, HolderInv, HolderOK,
            GenInv, GenOK, PublishedClientIsOpen, Kinds
<1>3. ASSUME NEW p \in Callers, QuietStep(p) PROVE HolderInv'
  <2>1. CASE RefuseCancelled(p)
    BY <2>1 DEF RefuseCancelled, Goto
  <2>2. CASE StartBegin(p)
    BY <2>2 DEF StartBegin, Goto
  <2>3. CASE CleanBegin(p)
    BY <2>3 DEF CleanBegin, Goto
  <2>4. CASE Cancel(p)
    BY <2>4 DEF Cancel
  <2>5. CASE StartRejected(p)
    BY <2>5 DEF StartRejected, Return, Goto
  <2>6. CASE PingOk(p)
    BY <2>6 DEF PingOk, Goto
  <2>7. CASE RegisterContract(p)
    BY <2>7 DEF RegisterContract, Goto
  <2>8. CASE CleanNothing(p)
    BY <2>8 DEF CleanNothing, Return, Goto
  <2>9. CASE CleanReturn(p)
    BY <2>9 DEF CleanReturn, Return, Goto
  <2>10. CASE CleanAbandon(p)
    BY <2>10 DEF CleanAbandon, Return, Goto
  <2> QED
    BY <1>3, <2>1, <2>2, <2>3, <2>4, <2>5, <2>6, <2>7, <2>8, <2>9, <2>10
       DEF QuietStep
<1>4. ASSUME NEW p \in Callers, StartDial(p) PROVE HolderInv'
  BY <1>4 DEF StartDial, Goto
<1>5. ASSUME NEW p \in Callers, AbortStart(p) PROVE HolderInv'
  BY <1>5 DEF AbortStart, Goto, Return
<1>6. ASSUME NEW p \in Callers, Publish(p) PROVE HolderInv'
  BY <1>6 DEF Publish, Goto
<1>7. ASSUME NEW p \in Callers, CleanTake(p) PROVE HolderInv'
  BY <1>7 DEF CleanTake, Goto
<1>8. ASSUME NEW p \in Callers, CloseQuit(p) PROVE HolderInv'
  BY <1>8 DEF CloseQuit, Goto
<1>9. ASSUME NEW p \in Callers, AwaitStats(p) PROVE HolderInv'
  BY <1>9 DEF AwaitStats, Goto
<1>10. ASSUME NEW g \in Gens, FinishClose(g) PROVE HolderInv'
  BY <1>10 DEF FinishClose
<1>11. ASSUME NEW g \in Gens, WaitBegin(g) PROVE HolderInv'
  BY <1>11 DEF WaitBegin
<1>12. ASSUME NEW g \in Gens, WaitReturn(g) PROVE HolderInv'
  BY <1>12 DEF WaitReturn
<1>13. ASSUME UNCHANGED coreVars PROVE HolderInv'
  BY <1>13 DEF coreVars
<1> QED
  BY <1>1, <1>2, <1>3, <1>4, <1>5, <1>6, <1>7, <1>8, <1>9, <1>10, <1>11, <1>12,
     <1>13, NextKinds

\* A client's quit channel, waiter and collectors are created after it and end in
\* the order cleanup imposes (GenInv is preserved).
LEMMA GenStep ==
  ASSUME TypeOK, MutexInv, HolderInv, GenInv, PublishedClientIsOpen, [Next]_vars
  PROVE  GenInv'
<1>1. ASSUME NEW p \in Callers, SpawnPool(p) \/ SpawnInfo(p) PROVE GenInv'
  <2>1. PICK kind \in Kinds : Spawned(p, kind)
    BY <1>1, SpawnEffect
  <2>2. lifecycleMu = p /\ rdb = cur[p] /\ statsQuit = rdb /\ rdb \in Gens
    BY <1>1, SpawnerHolds DEF SpawnPool, SpawnInfo
  <2>3. quit[rdb] = "open"
    BY <2>2 DEF PublishedClientIsOpen
  <2>4. ASSUME NEW h \in Gens PROVE GenOK(h)'
    BY <2>1, <2>2, <2>3 DEF Spawned, GenInv, GenOK, clientVars, counterVars, Running
  <2> QED
    BY <2>4 DEF GenInv
<1>2. ASSUME NEW g \in Gens, NEW k \in Kinds, CollectorStep(g, k) PROVE GenInv'
  <2>1. Moved(g, k)
    BY <1>2, CollectorEffect
  <2>2. UNCHANGED <<pluginVars, clientVars, callVars, counterVars>>
    BY <2>1 DEF Moved
  <2>3. \A h \in Gens, l \in Kinds :
            /\ collector[h][l] = "none" <=> collector'[h][l] = "none"
            /\ collector'[h][l] \in Running => collector[h][l] \in Running
    BY <2>1, MovedStates
  <2>4. ASSUME NEW h \in Gens PROVE GenOK(h)'
    <3>1. waiter'[h] = "none" <=> waiter[h] = "none"
      BY <2>1 DEF Moved
    <3>2. \A l \in Kinds : using'[h][l] # Nil => collector'[h][l] \in Running
      BY <2>1 DEF Moved, GenInv, GenOK
    <3> QED
      BY <2>2, <2>3, <3>1, <3>2 DEF GenInv, GenOK, clientVars, counterVars
  <2> QED
    BY <2>4 DEF GenInv
<1> USE DEF confVars, contractVars, pluginVars, clientVars, statsVars, callVars,
            counterVars, TypeOK, MutexInv, Returned, Holding, HolderInv, HolderOK,
            GenInv, GenOK
<1>3. ASSUME NEW p \in Callers, QuietStep(p) PROVE GenInv'
  BY <1>3 DEF QuietStep, RefuseCancelled, StartBegin, CleanBegin, Cancel,
     StartRejected, PingOk, RegisterContract, CleanNothing, CleanReturn,
     CleanAbandon, Goto, Return
<1>4. ASSUME NEW p \in Callers, StartDial(p) PROVE GenInv'
  BY <1>4 DEF StartDial, Goto
<1>5. ASSUME NEW p \in Callers, AbortStart(p) PROVE GenInv'
  BY <1>5 DEF AbortStart, Goto, Return
<1>6. ASSUME NEW p \in Callers, Publish(p) PROVE GenInv'
  BY <1>6 DEF Publish, Goto
<1>7. ASSUME NEW p \in Callers, CleanTake(p) PROVE GenInv'
  BY <1>7 DEF CleanTake, Goto
<1>8. ASSUME NEW p \in Callers, CloseQuit(p) PROVE GenInv'
  BY <1>8 DEF CloseQuit, Goto
<1>9. ASSUME NEW p \in Callers, AwaitStats(p) PROVE GenInv'
  BY <1>9 DEF AwaitStats, Goto
<1>10. ASSUME NEW g \in Gens, FinishClose(g) PROVE GenInv'
  BY <1>10 DEF FinishClose
<1>11. ASSUME NEW g \in Gens, WaitBegin(g) PROVE GenInv'
  BY <1>11 DEF WaitBegin
<1>12. ASSUME NEW g \in Gens, WaitReturn(g) PROVE GenInv'
  BY <1>12 DEF WaitReturn
<1>13. ASSUME UNCHANGED coreVars PROVE GenInv'
  BY <1>13 DEF coreVars
<1> QED
  BY <1>1, <1>2, <1>3, <1>4, <1>5, <1>6, <1>7, <1>8, <1>9, <1>10, <1>11, <1>12,
     <1>13, NextKinds

\* No step closes the published client or its quit channel (preservation).
LEMMA PublishedStep ==
  ASSUME TypeOK, MutexInv, HolderInv, GenInv, PublishedClientIsOpen, [Next]_vars
  PROVE  PublishedClientIsOpen'
<1>1. ASSUME NEW p \in Callers, SpawnPool(p) \/ SpawnInfo(p)
      PROVE  PublishedClientIsOpen'
  <2>1. PICK kind \in Kinds : Spawned(p, kind)
    BY <1>1, SpawnEffect
  <2>2. lifecycleMu = p /\ rdb = cur[p] /\ statsQuit = rdb /\ rdb \in Gens
    BY <1>1, SpawnerHolds DEF SpawnPool, SpawnInfo
  <2> QED
    BY <2>1 DEF Spawned, PublishedClientIsOpen, pluginVars, clientVars
<1>2. ASSUME NEW g \in Gens, NEW k \in Kinds, CollectorStep(g, k)
      PROVE  PublishedClientIsOpen'
  <2>1. Moved(g, k)
    BY <1>2, CollectorEffect
  <2>2. UNCHANGED <<pluginVars, clientVars, callVars, counterVars>>
    BY <2>1 DEF Moved
  <2> QED
    BY <2>2 DEF PublishedClientIsOpen, pluginVars, clientVars
<1> USE DEF confVars, contractVars, pluginVars, clientVars, statsVars, callVars,
            counterVars, TypeOK, MutexInv, Returned, Holding, HolderInv, HolderOK,
            GenInv, GenOK, PublishedClientIsOpen
<1>3. ASSUME NEW p \in Callers, QuietStep(p) PROVE PublishedClientIsOpen'
  BY <1>3 DEF QuietStep, RefuseCancelled, StartBegin, CleanBegin, Cancel,
     StartRejected, PingOk, RegisterContract, CleanNothing, CleanReturn,
     CleanAbandon, Goto, Return
<1>4. ASSUME NEW p \in Callers, StartDial(p) PROVE PublishedClientIsOpen'
  BY <1>4 DEF StartDial, Goto
<1>5. ASSUME NEW p \in Callers, AbortStart(p) PROVE PublishedClientIsOpen'
  BY <1>5 DEF AbortStart, Goto, Return
<1>6. ASSUME NEW p \in Callers, Publish(p) PROVE PublishedClientIsOpen'
  BY <1>6 DEF Publish, Goto
<1>7. ASSUME NEW p \in Callers, CleanTake(p) PROVE PublishedClientIsOpen'
  BY <1>7 DEF CleanTake, Goto
<1>8. ASSUME NEW p \in Callers, CloseQuit(p) PROVE PublishedClientIsOpen'
  BY <1>8 DEF CloseQuit, Goto
<1>9. ASSUME NEW p \in Callers, AwaitStats(p) PROVE PublishedClientIsOpen'
  BY <1>9 DEF AwaitStats, Goto
<1>10. ASSUME NEW g \in Gens, FinishClose(g) PROVE PublishedClientIsOpen'
  BY <1>10 DEF FinishClose
<1>11. ASSUME NEW g \in Gens, WaitBegin(g) PROVE PublishedClientIsOpen'
  BY <1>11 DEF WaitBegin
<1>12. ASSUME NEW g \in Gens, WaitReturn(g) PROVE PublishedClientIsOpen'
  BY <1>12 DEF WaitReturn
<1>13. ASSUME UNCHANGED coreVars PROVE PublishedClientIsOpen'
  BY <1>13 DEF coreVars
<1> QED
  BY <1>1, <1>2, <1>3, <1>4, <1>5, <1>6, <1>7, <1>8, <1>9, <1>10, <1>11, <1>12,
     <1>13, NextKinds

\* Every step that makes a client unreachable from the plugin leaves it with the
\* caller that must close it, or closes it (preservation).
LEMMA LeakStep ==
  ASSUME TypeOK, MutexInv, HolderInv, GenInv, NoLeakedClient, [Next]_vars
  PROVE  NoLeakedClient'
<1>1. ASSUME NEW p \in Callers, SpawnPool(p) \/ SpawnInfo(p) PROVE NoLeakedClient'
  <2>1. PICK kind \in Kinds : Spawned(p, kind)
    BY <1>1, SpawnEffect
  <2>2. lifecycleMu = p /\ rdb = cur[p] /\ statsQuit = rdb /\ rdb \in Gens
    BY <1>1, SpawnerHolds DEF SpawnPool, SpawnInfo
  <2> QED
    BY <2>1, <2>2 DEF Spawned, Return, Goto, NoLeakedClient, TypeOK, Holding,
       pluginVars, clientVars
<1>2. ASSUME NEW g \in Gens, NEW k \in Kinds, CollectorStep(g, k)
      PROVE  NoLeakedClient'
  <2>1. Moved(g, k)
    BY <1>2, CollectorEffect
  <2>2. UNCHANGED <<pluginVars, clientVars, callVars, counterVars>>
    BY <2>1 DEF Moved
  <2> QED
    BY <2>2 DEF NoLeakedClient, pluginVars, clientVars, callVars
<1> USE DEF confVars, contractVars, pluginVars, clientVars, statsVars, callVars,
            counterVars, TypeOK, MutexInv, Returned, Holding, HolderInv, HolderOK,
            NoLeakedClient
<1>3. ASSUME NEW p \in Callers, QuietStep(p) PROVE NoLeakedClient'
  BY <1>3 DEF QuietStep, RefuseCancelled, StartBegin, CleanBegin, Cancel,
     StartRejected, PingOk, RegisterContract, CleanNothing, CleanReturn,
     CleanAbandon, Goto, Return
<1>4. ASSUME NEW p \in Callers, StartDial(p) PROVE NoLeakedClient'
  BY <1>4 DEF StartDial, Goto
<1>5. ASSUME NEW p \in Callers, AbortStart(p) PROVE NoLeakedClient'
  BY <1>5 DEF AbortStart, Goto, Return
<1>6. ASSUME NEW p \in Callers, Publish(p) PROVE NoLeakedClient'
  BY <1>6 DEF Publish, Goto
<1>7. ASSUME NEW p \in Callers, CleanTake(p) PROVE NoLeakedClient'
  BY <1>7 DEF CleanTake, Goto
<1>8. ASSUME NEW p \in Callers, CloseQuit(p) PROVE NoLeakedClient'
  BY <1>8 DEF CloseQuit, Goto
<1>9. ASSUME NEW p \in Callers, AwaitStats(p) PROVE NoLeakedClient'
  BY <1>9 DEF AwaitStats, Goto
<1>10. ASSUME NEW g \in Gens, FinishClose(g) PROVE NoLeakedClient'
  BY <1>10 DEF FinishClose
<1>11. ASSUME NEW g \in Gens, WaitBegin(g) PROVE NoLeakedClient'
  BY <1>11 DEF WaitBegin
<1>12. ASSUME NEW g \in Gens, WaitReturn(g) PROVE NoLeakedClient'
  BY <1>12 DEF WaitReturn
<1>13. ASSUME UNCHANGED coreVars PROVE NoLeakedClient'
  BY <1>13 DEF coreVars
<1> QED
  BY <1>1, <1>2, <1>3, <1>4, <1>5, <1>6, <1>7, <1>8, <1>9, <1>10, <1>11, <1>12,
     <1>13, NextKinds

\* Every step that takes the published client away leaves its collectors with the
\* caller that must close their quit channel, or closes it (preservation).
LEMMA OrphanStep ==
  ASSUME TypeOK, MutexInv, HolderInv, GenInv, NoOrphanCollector, [Next]_vars
  PROVE  NoOrphanCollector'
<1>1. ASSUME NEW p \in Callers, SpawnPool(p) \/ SpawnInfo(p)
      PROVE  NoOrphanCollector'
  <2>1. PICK kind \in Kinds : Spawned(p, kind)
    BY <1>1, SpawnEffect
  <2>2. lifecycleMu = p /\ rdb = cur[p] /\ statsQuit = rdb /\ rdb \in Gens
    BY <1>1, SpawnerHolds DEF SpawnPool, SpawnInfo
  <2>3. ASSUME NEW h \in Gens, NEW l \in Kinds, collector'[h][l] \in Running, rdb # h
        PROVE  quit'[h] = "closed"
    <3>1. collector[h][l] \in Running
      BY <2>1, <2>3 DEF Spawned
    <3>2. \A q \in Callers : lifecycleMu = q => pc[q] # "closeQuit"
      BY <1>1, <2>2 DEF SpawnPool, SpawnInfo
    <3> QED
      BY <2>1, <2>3, <3>1, <3>2 DEF Spawned, NoOrphanCollector, clientVars
  <2> QED
    BY <2>1, <2>3 DEF Spawned, NoOrphanCollector, pluginVars
<1>2. ASSUME NEW g \in Gens, NEW k \in Kinds, CollectorStep(g, k)
      PROVE  NoOrphanCollector'
  <2>1. Moved(g, k)
    BY <1>2, CollectorEffect
  <2>2. UNCHANGED <<pluginVars, clientVars, callVars, counterVars>>
    BY <2>1 DEF Moved
  <2>3. \A h \in Gens, l \in Kinds :
            /\ collector[h][l] = "none" <=> collector'[h][l] = "none"
            /\ collector'[h][l] \in Running => collector[h][l] \in Running
    BY <2>1, MovedStates
  <2> QED
    BY <2>2, <2>3 DEF NoOrphanCollector, pluginVars, clientVars, callVars
<1> USE DEF confVars, contractVars, pluginVars, clientVars, statsVars, callVars,
            counterVars, TypeOK, MutexInv, Returned, Holding, HolderInv, HolderOK,
            GenInv, GenOK, NoOrphanCollector, Running
<1>3. ASSUME NEW p \in Callers, QuietStep(p) PROVE NoOrphanCollector'
  BY <1>3 DEF QuietStep, RefuseCancelled, StartBegin, CleanBegin, Cancel,
     StartRejected, PingOk, RegisterContract, CleanNothing, CleanReturn,
     CleanAbandon, Goto, Return
<1>4. ASSUME NEW p \in Callers, StartDial(p) PROVE NoOrphanCollector'
  BY <1>4 DEF StartDial, Goto
<1>5. ASSUME NEW p \in Callers, AbortStart(p) PROVE NoOrphanCollector'
  BY <1>5 DEF AbortStart, Goto, Return
<1>6. ASSUME NEW p \in Callers, Publish(p) PROVE NoOrphanCollector'
  BY <1>6 DEF Publish, Goto
<1>7. ASSUME NEW p \in Callers, CleanTake(p) PROVE NoOrphanCollector'
  BY <1>7 DEF CleanTake, Goto
<1>8. ASSUME NEW p \in Callers, CloseQuit(p) PROVE NoOrphanCollector'
  BY <1>8 DEF CloseQuit, Goto
<1>9. ASSUME NEW p \in Callers, AwaitStats(p) PROVE NoOrphanCollector'
  BY <1>9 DEF AwaitStats, Goto
<1>10. ASSUME NEW g \in Gens, FinishClose(g) PROVE NoOrphanCollector'
  BY <1>10 DEF FinishClose
<1>11. ASSUME NEW g \in Gens, WaitBegin(g) PROVE NoOrphanCollector'
  BY <1>11 DEF WaitBegin
<1>12. ASSUME NEW g \in Gens, WaitReturn(g) PROVE NoOrphanCollector'
  BY <1>12 DEF WaitReturn
<1>13. ASSUME UNCHANGED coreVars PROVE NoOrphanCollector'
  BY <1>13 DEF coreVars
<1> QED
  BY <1>1, <1>2, <1>3, <1>4, <1>5, <1>6, <1>7, <1>8, <1>9, <1>10, <1>11, <1>12,
     <1>13, NextKinds

\* Add and Done keep the WaitGroup's counter equal to the number of collectors
\* that run (preservation).
LEMMA CounterStep ==
  ASSUME TypeOK, MutexInv, HolderInv, CounterIsExact, [Next]_vars
  PROVE  CounterIsExact'
<1>1. ASSUME NEW p \in Callers, SpawnPool(p) \/ SpawnInfo(p) PROVE CounterIsExact'
  <2>1. PICK kind \in Kinds : Spawned(p, kind)
    BY <1>1, SpawnEffect
  <2>2. rdb \in Gens
    BY <1>1, SpawnerHolds DEF SpawnPool, SpawnInfo
  <2>3. collector[rdb][kind] \notin Running /\ collector'[rdb][kind] \in Running
    BY <2>1, <2>2 DEF Spawned, Running
  <2> QED
    BY <2>1, <2>2, <2>3, AliveGrows DEF Spawned, CounterIsExact
<1>2. ASSUME NEW g \in Gens, NEW k \in Kinds, CollectorStep(g, k)
      PROVE  CounterIsExact'
  <2>1. Moved(g, k)
    BY <1>2, CollectorEffect
  <2>2. CASE collector'[g][k] \in Running
    <3>1. \A h \in Gens, l \in Kinds :
            collector[h][l] \in Running <=> collector'[h][l] \in Running
      BY <2>1, <2>2 DEF Moved
    <3>2. Alive' = Alive /\ statsWG' = statsWG
      BY <2>1, <2>2, <3>1 DEF Alive, Moved, Running
    <3> QED
      BY <3>2 DEF CounterIsExact
  <2>3. CASE collector'[g][k] \notin Running
    BY <2>1, <2>3, AliveShrinks DEF Moved, CounterIsExact
  <2> QED
    BY <2>2, <2>3
<1>3. ASSUME UNCHANGED <<statsWG, collector>> PROVE CounterIsExact'
  BY <1>3 DEF CounterIsExact, Alive
<1>4. ASSUME NEW p \in Callers,
             \/ QuietStep(p) \/ StartDial(p) \/ AbortStart(p) \/ Publish(p)
             \/ CleanTake(p) \/ CloseQuit(p) \/ AwaitStats(p)
      PROVE  UNCHANGED <<statsWG, collector>>
  BY <1>4 DEF QuietStep, RefuseCancelled, StartBegin, CleanBegin, Cancel,
     StartRejected, PingOk, RegisterContract, CleanNothing, CleanReturn,
     CleanAbandon, StartDial, AbortStart, Publish, CleanTake, CloseQuit,
     AwaitStats, statsVars
<1>5. ASSUME NEW g \in Gens, FinishClose(g) \/ WaitBegin(g) \/ WaitReturn(g)
      PROVE  UNCHANGED <<statsWG, collector>>
  BY <1>5 DEF FinishClose, WaitBegin, WaitReturn, statsVars
<1>6. ASSUME UNCHANGED coreVars PROVE UNCHANGED <<statsWG, collector>>
  BY <1>6 DEF coreVars, statsVars
<1> QED
  BY <1>1, <1>2, <1>3, <1>4, <1>5, <1>6, NextKinds

\* Wait comes back only when no collector runs, and the collectors of a generation
\* that was shut down do not start again (preservation).
LEMMA WaitStep ==
  ASSUME TypeOK, MutexInv, HolderInv, GenInv, PublishedClientIsOpen,
         CounterIsExact, WaitMeansStopped, [Next]_vars
  PROVE  WaitMeansStopped'
<1>1. ASSUME NEW p \in Callers, SpawnPool(p) \/ SpawnInfo(p) PROVE WaitMeansStopped'
  <2>1. PICK kind \in Kinds : Spawned(p, kind)
    BY <1>1, SpawnEffect
  <2>2. lifecycleMu = p /\ rdb = cur[p] /\ statsQuit = rdb /\ rdb \in Gens
    BY <1>1, SpawnerHolds DEF SpawnPool, SpawnInfo
  <2>3. waiter[rdb] = "none"
    BY <2>2 DEF PublishedClientIsOpen, GenInv, GenOK
  <2> QED
    BY <2>1, <2>2, <2>3 DEF Spawned, WaitMeansStopped
<1>2. ASSUME NEW g \in Gens, NEW k \in Kinds, CollectorStep(g, k)
      PROVE  WaitMeansStopped'
  <2>1. Moved(g, k)
    BY <1>2, CollectorEffect
  <2>2. UNCHANGED <<pluginVars, clientVars, callVars, counterVars>>
    BY <2>1 DEF Moved
  <2>3. \A h \in Gens, l \in Kinds :
            /\ collector[h][l] = "none" <=> collector'[h][l] = "none"
            /\ collector'[h][l] \in Running => collector[h][l] \in Running
    BY <2>1, MovedStates
  <2>4. ASSUME NEW h \in Gens, NEW l \in Kinds, waiter'[h] \in {"released", "done"}
        PROVE  collector'[h][l] \notin Running
    <3>1. CASE waiter[h] \in {"released", "done"}
      BY <2>3, <3>1 DEF WaitMeansStopped
    <3>2. CASE waiter[h] \notin {"released", "done"}
      <4>1. collector'[g][k] = "exited" /\ statsWG = 1
        BY <2>1, <2>4, <3>2 DEF Moved
      <4>2. collector'[g][k] \notin Running
        BY <4>1 DEF Running
      <4> QED
        BY <2>1, <4>1, <4>2, AliveShrinks DEF Moved, CounterIsExact
    <3> QED
      BY <3>1, <3>2
  <2> QED
    BY <2>4 DEF WaitMeansStopped
<1> USE DEF confVars, contractVars, pluginVars, clientVars, statsVars, callVars,
            counterVars, TypeOK, MutexInv, Returned, Holding, HolderInv, HolderOK,
            GenInv, GenOK, WaitMeansStopped
<1>3. ASSUME NEW p \in Callers, QuietStep(p) PROVE WaitMeansStopped'
  BY <1>3 DEF QuietStep, RefuseCancelled, StartBegin, CleanBegin, Cancel,
     StartRejected, PingOk, RegisterContract, CleanNothing, CleanReturn,
     CleanAbandon, Goto, Return
<1>4. ASSUME NEW p \in Callers, StartDial(p) PROVE WaitMeansStopped'
  BY <1>4 DEF StartDial, Goto
<1>5. ASSUME NEW p \in Callers, AbortStart(p) PROVE WaitMeansStopped'
  BY <1>5 DEF AbortStart, Goto, Return
<1>6. ASSUME NEW p \in Callers, Publish(p) PROVE WaitMeansStopped'
  BY <1>6 DEF Publish, Goto
<1>7. ASSUME NEW p \in Callers, CleanTake(p) PROVE WaitMeansStopped'
  BY <1>7 DEF CleanTake, Goto
<1>8. ASSUME NEW p \in Callers, CloseQuit(p) PROVE WaitMeansStopped'
  BY <1>8 DEF CloseQuit, Goto
<1>9. ASSUME NEW p \in Callers, AwaitStats(p) PROVE WaitMeansStopped'
  BY <1>9 DEF AwaitStats, Goto
<1>10. ASSUME NEW g \in Gens, FinishClose(g) PROVE WaitMeansStopped'
  BY <1>10 DEF FinishClose
<1>11. ASSUME NEW g \in Gens, WaitBegin(g) PROVE WaitMeansStopped'
  <2>1. statsWG = 0 => \A h \in Gens, l \in Kinds : collector[h][l] \notin Running
    BY ZeroMeansNone
  <2> QED
    BY <1>11, <2>1 DEF WaitBegin
<1>12. ASSUME NEW g \in Gens, WaitReturn(g) PROVE WaitMeansStopped'
  BY <1>12 DEF WaitReturn
<1>13. ASSUME UNCHANGED coreVars PROVE WaitMeansStopped'
  BY <1>13 DEF coreVars
<1> QED
  BY <1>1, <1>2, <1>3, <1>4, <1>5, <1>6, <1>7, <1>8, <1>9, <1>10, <1>11, <1>12,
     <1>13, NextKinds

\* Nothing reads the client that is not published yet.
LEMMA UnpublishedUnread ==
  ASSUME GenInv, NEW g \in Gens, quit[g] = "none"
  PROVE  \A k \in Kinds : using[g][k] = Nil
<1>1. GenOK(g)
  BY DEF GenInv
<1> QED
  BY <1>1 DEF GenOK, Running

\* A collector reads the client it finds published, which is its own unless its
\* cleanup gave up on it (preservation).
LEMMA UseStep ==
  ASSUME TypeOK, MutexInv, HolderInv, GenInv, PublishedClientIsOpen,
         NoLeakedClient, NoOrphanCollector, CounterIsExact, WaitMeansStopped,
         CollectorsUseTheirClient, [Next]_vars
  PROVE  CollectorsUseTheirClient'
<1>1. ASSUME NEW p \in Callers, SpawnPool(p) \/ SpawnInfo(p)
      PROVE  CollectorsUseTheirClient'
  <2>1. PICK kind \in Kinds : Spawned(p, kind)
    BY <1>1, SpawnEffect
  <2>2. lifecycleMu = p /\ rdb = cur[p] /\ statsQuit = rdb /\ rdb \in Gens
    BY <1>1, SpawnerHolds DEF SpawnPool, SpawnInfo
  <2> QED
    BY <2>1 DEF Spawned, CollectorsUseTheirClient, Abandoned, clientVars
<1>2. ASSUME NEW g \in Gens, NEW k \in Kinds, CollectorStep(g, k)
      PROVE  CollectorsUseTheirClient'
  <2>1. Moved(g, k)
    BY <1>2, CollectorEffect
  <2>2. UNCHANGED <<pluginVars, clientVars, callVars, counterVars>>
    BY <2>1 DEF Moved
  <2>3. \A h \in Gens : Abandoned(h)' <=> Abandoned(h)
    BY <2>1, <2>2 DEF Moved, Abandoned, clientVars
  <2>4. ASSUME using'[g][k] # Nil, ~Abandoned(g)
        PROVE  rdb = g /\ client[g] = "open"
    <3>1. rdb # Nil /\ rdb \in Gens /\ collector[g][k] \in Running
      BY <2>1, <2>4 DEF Moved, TypeOK
    <3>2. \A q \in Callers : lifecycleMu = q /\ cur[q] = g => rdb = g
      BY <3>1 DEF MutexInv, HolderInv, HolderOK, Holding
    <3>3. CASE quit[g] = "closed"
      <4>1. client[g] \notin {"closing", "closed"}
        BY <2>4, <3>1, <3>3 DEF Abandoned, GenInv, GenOK, WaitMeansStopped
      <4>2. client[g] = "open"
        BY <3>3, <4>1 DEF TypeOK, GenInv, GenOK
      <4> QED
        BY <3>2, <4>2 DEF NoLeakedClient
    <3>4. CASE quit[g] # "closed"
      <4>1. rdb = g
        BY <3>1, <3>2, <3>4 DEF NoOrphanCollector
      <4> QED
        BY <3>1, <4>1 DEF PublishedClientIsOpen
    <3> QED
      BY <3>3, <3>4
  <2>5. ASSUME NEW h \in Gens, NEW l \in Kinds, using'[h][l] # Nil, ~Abandoned(h)'
        PROVE  using'[h][l] = h /\ client'[h] = "open"
    <3>1. CASE h = g /\ l = k
      BY <2>1, <2>2, <2>3, <2>4, <2>5, <3>1 DEF Moved, clientVars
    <3>2. CASE h # g \/ l # k
      <4>1. using'[h][l] = using[h][l] /\ client'[h] = client[h]
        BY <2>1, <2>2, <3>2 DEF Moved, clientVars
      <4> QED
        BY <2>3, <2>5, <4>1 DEF CollectorsUseTheirClient
    <3> QED
      BY <3>1, <3>2
  <2> QED
    BY <2>5 DEF CollectorsUseTheirClient
<1> USE DEF confVars, contractVars, pluginVars, clientVars, statsVars, callVars,
            counterVars, TypeOK, MutexInv, Returned, Holding, HolderInv, HolderOK,
            GenInv, GenOK, Abandoned, CollectorsUseTheirClient
<1>3. ASSUME NEW p \in Callers, QuietStep(p) PROVE CollectorsUseTheirClient'
  BY <1>3 DEF QuietStep, RefuseCancelled, StartBegin, CleanBegin, Cancel,
     StartRejected, PingOk, RegisterContract, CleanNothing, CleanReturn,
     CleanAbandon, Goto, Return
<1>4. ASSUME NEW p \in Callers, StartDial(p) PROVE CollectorsUseTheirClient'
  BY <1>4 DEF StartDial, Goto
<1>5. ASSUME NEW p \in Callers, AbortStart(p) PROVE CollectorsUseTheirClient'
  <2>1. cur[p] \in Gens /\ quit[cur[p]] = "none"
    BY <1>5 DEF AbortStart
  <2>2. \A k \in Kinds : using[cur[p]][k] = Nil
    BY <2>1, UnpublishedUnread
  <2>3. client' = [client EXCEPT ![cur[p]] = "closed"] /\ UNCHANGED <<using, waiter>>
    BY <1>5 DEF AbortStart
  <2> QED
    BY <2>1, <2>2, <2>3
<1>6. ASSUME NEW p \in Callers, Publish(p) PROVE CollectorsUseTheirClient'
  BY <1>6 DEF Publish, Goto
<1>7. ASSUME NEW p \in Callers, CleanTake(p) PROVE CollectorsUseTheirClient'
  BY <1>7 DEF CleanTake, Goto
<1>8. ASSUME NEW p \in Callers, CloseQuit(p) PROVE CollectorsUseTheirClient'
  BY <1>8 DEF CloseQuit, Goto
<1>9. ASSUME NEW p \in Callers, AwaitStats(p) PROVE CollectorsUseTheirClient'
  <2>1. \A k \in Kinds : waiter[cur[p]] = "done" => using[cur[p]][k] = Nil
    BY <1>9 DEF AwaitStats, WaitMeansStopped
  <2> QED
    BY <1>9, <2>1 DEF AwaitStats, Goto
<1>10. ASSUME NEW g \in Gens, FinishClose(g) PROVE CollectorsUseTheirClient'
  BY <1>10 DEF FinishClose
<1>11. ASSUME NEW g \in Gens, WaitBegin(g) PROVE CollectorsUseTheirClient'
  <2>1. statsWG = 0 => \A h \in Gens, l \in Kinds : using[h][l] = Nil
    BY ZeroMeansNone
  <2> QED
    BY <1>11, <2>1 DEF WaitBegin
<1>12. ASSUME NEW g \in Gens, WaitReturn(g) PROVE CollectorsUseTheirClient'
  <2>1. \A k \in Kinds : using[g][k] = Nil
    BY <1>12 DEF WaitReturn, WaitMeansStopped
  <2> QED
    BY <1>12, <2>1 DEF WaitReturn
<1>13. ASSUME UNCHANGED coreVars PROVE CollectorsUseTheirClient'
  BY <1>13 DEF coreVars
<1> QED
  BY <1>1, <1>2, <1>3, <1>4, <1>5, <1>6, <1>7, <1>8, <1>9, <1>10, <1>11, <1>12,
     <1>13, NextKinds

\* The variables outside coreVars keep their types.
LEMMA ConfTypeStep ==
  ASSUME TypeOK, [Next]_vars
  PROVE  /\ conf' \in Confs \cup {None} /\ rt' \in BOOLEAN
         /\ pending' \in [Initializers -> Confs \cup {None}]
         /\ registered' \in [RawNames -> 0..MaxGen]
<1>1. ASSUME NEW p \in Callers, RegisterContract(p)
      PROVE  UNCHANGED confVars /\ registered' \in [RawNames -> 0..MaxGen]
  BY <1>1 DEF RegisterContract, TypeOK
<1>2. ASSUME NEW k \in Confs, Configure(k)
      PROVE  conf' = k /\ UNCHANGED <<rt, pending, contractVars>>
  BY <1>2 DEF Configure
<1>3. ASSUME NEW i \in Initializers, InitializeLoad(i)
      PROVE  /\ rt' = TRUE /\ UNCHANGED <<conf, contractVars>>
             /\ \E k \in Confs : pending' = [pending EXCEPT ![i] = k]
  BY <1>3 DEF InitializeLoad
<1>4. ASSUME NEW i \in Initializers, InitializeStore(i)
      PROVE  /\ conf' \in {conf, pending[i]} /\ UNCHANGED <<rt, contractVars>>
             /\ pending' = [pending EXCEPT ![i] = None]
  BY <1>4 DEF InitializeStore
<1>5. ASSUME NEW p \in Callers, CallerStep(p), ~RegisterContract(p)
      PROVE  UNCHANGED <<confVars, contractVars>>
  BY <1>5 DEF CallerStep, RefuseCancelled, StartBegin, CleanBegin, Cancel,
     StartRejected, StartDial, PingOk, AbortStart, Publish, SpawnPool, SpawnInfo,
     CleanNothing, CleanTake, CloseQuit, AwaitStats, CleanReturn, CleanAbandon
<1>6. ASSUME NEW g \in Gens, FinishClose(g) \/ WaitBegin(g) \/ WaitReturn(g)
      PROVE  UNCHANGED <<confVars, contractVars>>
  BY <1>6 DEF FinishClose, WaitBegin, WaitReturn
<1>7. ASSUME NEW g \in Gens, NEW k \in Kinds, CollectorStep(g, k)
      PROVE  UNCHANGED <<confVars, contractVars>>
  BY <1>7, CollectorEffect DEF Moved
<1> DEFINE Typed == /\ conf' \in Confs \cup {None} /\ rt' \in BOOLEAN
                    /\ pending' \in [Initializers -> Confs \cup {None}]
                    /\ registered' \in [RawNames -> 0..MaxGen]
<1> USE DEF confVars, contractVars
<1>8. ASSUME UNCHANGED <<confVars, contractVars>> PROVE Typed
  BY <1>8 DEF TypeOK
<1>9. ASSUME UNCHANGED vars PROVE Typed
  BY <1>8, <1>9 DEF vars
<1>10. ASSUME NEW p \in Callers, CallerStep(p) PROVE Typed
  <2>1. CASE RegisterContract(p)
    BY <1>1, <2>1 DEF TypeOK
  <2> QED
    BY <1>5, <1>8, <1>10, <2>1
<1>11. ASSUME NEW k \in Confs, Configure(k) PROVE Typed
  BY <1>2, <1>11 DEF TypeOK
<1>12. ASSUME NEW i \in Initializers, InitializeLoad(i) PROVE Typed
  <2>1. PICK k \in Confs : pending' = [pending EXCEPT ![i] = k]
    BY <1>3, <1>12
  <2> QED
    BY <1>3, <1>12, <2>1 DEF TypeOK
<1>13. ASSUME NEW i \in Initializers, InitializeStore(i) PROVE Typed
  BY <1>4, <1>13 DEF TypeOK
<1>14. Typed
  BY <1>6, <1>7, <1>8, <1>9, <1>10, <1>11, <1>12, <1>13 DEF Next, Halted
<1> QED
  BY <1>14

\* Every step keeps the types; Done is called only while the counter is positive.
LEMMA TypeStep ==
  ASSUME TypeOK, MutexInv, HolderInv, CounterIsExact, [Next]_vars
  PROVE  TypeOK'
<1>0. /\ conf' \in Confs \cup {None} /\ rt' \in BOOLEAN
      /\ pending' \in [Initializers -> Confs \cup {None}]
      /\ registered' \in [RawNames -> 0..MaxGen]
  BY ConfTypeStep
<1>1. ASSUME NEW p \in Callers, SpawnPool(p) \/ SpawnInfo(p) PROVE TypeOK'
  <2>1. PICK kind \in Kinds : Spawned(p, kind)
    BY <1>1, SpawnEffect
  <2>2. collector' \in [Gens -> [Kinds -> CollectorStates]] /\ statsWG' \in Nat
    BY <2>1 DEF Spawned, TypeOK
  <2>3. UNCHANGED <<pluginVars, clientVars, waiter, using, counterVars, panicked>>
    BY <2>1 DEF Spawned
  <2>4. /\ lifecycleMu' \in Callers \cup {None} /\ pc' \in [Callers -> Labels]
        /\ cur' \in [Callers -> 0..MaxGen] /\ cancelled' \in [Callers -> BOOLEAN]
    <3>1. CASE kind = "pool"
      <4>1. /\ pc' = [pc EXCEPT ![p] = "spawnInfo"]
            /\ UNCHANGED <<lifecycleMu, cur, cancelled>>
        BY <2>1, <3>1 DEF Spawned
      <4> QED
        BY <4>1 DEF TypeOK, Labels, Holding
    <3>2. CASE kind = "info"
      <4>1. Return(p, "ok")
        BY <2>1, <3>2 DEF Spawned
      <4> QED
        BY <4>1 DEF Return, Goto, TypeOK, Labels, Returned
    <3> QED
      BY <3>1, <3>2 DEF Kinds
  <2> QED
    BY <1>0, <2>2, <2>3, <2>4 DEF TypeOK, CollectorStates, pluginVars, clientVars,
       counterVars
<1>2. ASSUME NEW g \in Gens, NEW k \in Kinds, CollectorStep(g, k) PROVE TypeOK'
  <2>1. Moved(g, k)
    BY <1>2, CollectorEffect
  <2>2. statsWG' \in Nat
    <3>1. CASE collector'[g][k] = "exited"
      <4>1. collector'[g][k] \notin Running
        BY <3>1 DEF Running
      <4>2. statsWG # 0
        BY <2>1, <4>1, AliveShrinks DEF Moved, CounterIsExact
      <4> QED
        BY <2>1, <3>1, <4>1, <4>2 DEF Moved, TypeOK
    <3>2. CASE collector'[g][k] # "exited"
      BY <2>1, <3>2 DEF Moved, TypeOK
    <3> QED
      BY <3>1, <3>2
  <2>3. waiter' \in [Gens -> {"none", "spawned", "waiting", "released", "done"}]
    BY <2>1 DEF Moved, TypeOK
  <2> QED
    BY <1>0, <2>1, <2>2, <2>3
       DEF Moved, TypeOK, CollectorStates, pluginVars, clientVars, callVars, counterVars
<1> USE <1>0 DEF confVars, contractVars, pluginVars, clientVars, statsVars, callVars,
            counterVars, TypeOK, Returned, Holding, Labels
<1>3. ASSUME NEW p \in Callers, QuietStep(p) PROVE TypeOK'
  <2>1. CASE RefuseCancelled(p)
    BY <2>1 DEF RefuseCancelled, Goto
  <2>2. CASE StartBegin(p)
    BY <2>2 DEF StartBegin, Goto
  <2>3. CASE CleanBegin(p)
    BY <2>3 DEF CleanBegin, Goto
  <2>4. CASE Cancel(p)
    BY <2>4 DEF Cancel
  <2>5. CASE StartRejected(p)
    BY <2>5 DEF StartRejected, Return, Goto
  <2>6. CASE PingOk(p)
    BY <2>6 DEF PingOk, Goto
  <2>7. CASE RegisterContract(p)
    BY <2>7 DEF RegisterContract, Goto
  <2>8. CASE CleanNothing(p)
    BY <2>8 DEF CleanNothing, Return, Goto
  <2>9. CASE CleanReturn(p)
    BY <2>9 DEF CleanReturn, Return, Goto
  <2>10. CASE CleanAbandon(p)
    BY <2>10 DEF CleanAbandon, Return, Goto
  <2> QED
    BY <1>3, <2>1, <2>2, <2>3, <2>4, <2>5, <2>6, <2>7, <2>8, <2>9, <2>10
       DEF QuietStep
<1>4. ASSUME NEW p \in Callers, StartDial(p) PROVE TypeOK'
  BY <1>4 DEF StartDial, Goto
<1>5. ASSUME NEW p \in Callers, AbortStart(p) PROVE TypeOK'
  <2>1. client' \in [Gens -> {"none", "open", "closing", "closed"}]
    BY <1>5 DEF AbortStart
  <2>2. /\ lifecycleMu' = None /\ pc' \in [Callers -> Labels]
        /\ cur' \in [Callers -> 0..MaxGen] /\ cancelled' \in [Callers -> BOOLEAN]
    BY <1>5 DEF AbortStart, Return, Goto
  <2> QED
    BY <1>5, <2>1, <2>2 DEF AbortStart
<1>6. ASSUME NEW p \in Callers, Publish(p) PROVE TypeOK'
  BY <1>6 DEF Publish, Goto
<1>7. ASSUME NEW p \in Callers, CleanTake(p) PROVE TypeOK'
  BY <1>7 DEF CleanTake, Goto
<1>8. ASSUME NEW p \in Callers, CloseQuit(p) PROVE TypeOK'
  BY <1>8 DEF CloseQuit, Goto
<1>9. ASSUME NEW p \in Callers, AwaitStats(p) PROVE TypeOK'
  BY <1>9 DEF AwaitStats, Goto
<1>10. ASSUME NEW g \in Gens, FinishClose(g) PROVE TypeOK'
  BY <1>10 DEF FinishClose
<1>11. ASSUME NEW g \in Gens, WaitBegin(g) PROVE TypeOK'
  BY <1>11 DEF WaitBegin
<1>12. ASSUME NEW g \in Gens, WaitReturn(g) PROVE TypeOK'
  BY <1>12 DEF WaitReturn
<1>13. ASSUME UNCHANGED coreVars PROVE TypeOK'
  BY <1>13 DEF coreVars
<1> QED
  BY <1>1, <1>2, <1>3, <1>4, <1>5, <1>6, <1>7, <1>8, <1>9, <1>10, <1>11, <1>12,
     <1>13, NextKinds

-----------------------------------------------------------------------------
(* The inductive invariant                                                 *)

\* A plugin that has just been constructed satisfies the inductive invariant.
LEMMA InitIInv == Init => IInv
<1> SUFFICES ASSUME Init PROVE IInv
  OBVIOUS
<1>1. TypeOK
  <2>1. "idle" \in Labels
    BY DEF Labels, Returned
  <2>2. /\ collector \in [Gens -> [Kinds -> Running \cup {"none", "exited"}]]
        /\ using \in [Gens -> [Kinds -> 0..MaxGen]]
    BY DEF Init
  <2>3. /\ client \in [Gens -> {"none", "open", "closing", "closed"}]
        /\ builtFrom \in [Gens -> Confs \cup {None}]
        /\ quit \in [Gens -> {"none", "open", "closed"}]
        /\ waiter \in [Gens -> {"none", "spawned", "waiting", "released", "done"}]
    BY DEF Init
  <2>4. /\ pc \in [Callers -> Labels] /\ cur \in [Callers -> 0..MaxGen]
        /\ cancelled \in [Callers -> BOOLEAN]
        /\ pending \in [Initializers -> Confs \cup {None}]
        /\ registered \in [RawNames -> 0..MaxGen]
    BY <2>1 DEF Init
  <2>5. /\ lifecycleMu \in Callers \cup {None} /\ conf \in Confs \cup {None}
        /\ rt \in BOOLEAN /\ panicked \in BOOLEAN
    BY DEF Init
  <2>6. /\ rdb \in 0..MaxGen /\ statsQuit \in 0..MaxGen /\ startupTotal \in 0..MaxGen
        /\ statsWG \in Nat /\ startupFailed \in Nat
    BY DEF Init
  <2> QED
    BY <2>2, <2>3, <2>4, <2>5, <2>6 DEF TypeOK
<1>2. \A g \in Gens, k \in Kinds : collector[g][k] = "none" /\ using[g][k] = Nil
  BY DEF Init
<1>3. MutexInv /\ HolderInv
  BY DEF Init, MutexInv, HolderInv, HolderOK, Holding
<1>4. GenInv
  <2>1. ASSUME NEW g \in Gens PROVE GenOK(g)
    BY <1>2 DEF Init, GenOK
  <2> QED
    BY <2>1 DEF GenInv
<1>5. PublishedClientIsOpen /\ NoLeakedClient
  BY DEF Init, PublishedClientIsOpen, NoLeakedClient
<1>6. NoOrphanCollector /\ WaitMeansStopped /\ CollectorsUseTheirClient
  BY <1>2 DEF Init, NoOrphanCollector, WaitMeansStopped, CollectorsUseTheirClient,
     Running
<1>7. CounterIsExact
  <2>1. Alive = {}
    BY <1>2 DEF Alive, Running
  <2> QED
    BY <2>1, FS_EmptySet DEF Init, CounterIsExact
<1> QED
  BY <1>1, <1>3, <1>4, <1>5, <1>6, <1>7 DEF IInv

\* No step of the lifecycle breaks the inductive invariant.
LEMMA NextIInv == IInv /\ [Next]_vars => IInv'
  BY TypeStep, MutexStep, HolderStep, GenStep, PublishedStep, LeakStep, OrphanStep,
     CounterStep, WaitStep, UseStep DEF IInv

\* The inductive invariant holds of every reachable state: for any callers and
\* any number of restarts, the mutex, the published client, quit channels,
\* waiters and collectors stay in the relation the lifecycle code relies on.
THEOREM Invariance == Spec => []IInv
  BY InitIInv, NextIInv, PTL DEF Spec

\* Every variable keeps its type; in particular statsWG never drops below zero.
THEOREM TypeCorrect == Spec => []TypeOK
<1>1. IInv => TypeOK
  BY DEF IInv
<1> QED
  BY Invariance, <1>1, PTL

\* getClient never returns a client that cleanup has begun to shut down.
THEOREM PublishedIsOpen == Spec => []PublishedClientIsOpen
<1>1. IInv => PublishedClientIsOpen
  BY DEF IInv
<1> QED
  BY Invariance, <1>1, PTL

\* No error path, cancelled context or cap leaves a client that nobody closes.
THEOREM NoLeak == Spec => []NoLeakedClient
<1>1. IInv => NoLeakedClient
  BY DEF IInv
<1> QED
  BY Invariance, <1>1, PTL

\* No collector is left running without having been told to exit.
THEOREM NoOrphan == Spec => []NoOrphanCollector
<1>1. IInv => NoOrphanCollector
  BY DEF IInv
<1> QED
  BY Invariance, <1>1, PTL

\* A cleanup whose wait came back may close the client: nothing reads it.
THEOREM WaitIsSound == Spec => []WaitMeansStopped
<1>1. IInv => WaitMeansStopped
  BY DEF IInv
<1> QED
  BY Invariance, <1>1, PTL

\* Collectors read clients of other generations, or closed ones, only after a
\* cleanup that gave up waiting for them.
THEOREM UseIsSound == Spec => []CollectorsUseTheirClient
<1>1. IInv => CollectorsUseTheirClient
  BY DEF IInv
<1> QED
  BY Invariance, <1>1, PTL
-----------------------------------------------------------------------------
(* Panics                                                                  *)

\* The process takes no step after a panic.
LEMMA PanicStops == panicked /\ [Next]_vars => UNCHANGED vars
  BY DEF Next, Halted

\* A waiter that finds the WaitGroup in use again has been given up on, or the
\* collectors that use it have.
LEMMA ReuseMeansAbandoned ==
  ASSUME IInv, NEW g \in Gens, waiter[g] = "released", statsWG # 0
  PROVE  \E h \in Gens : Abandoned(h)
<1> USE DEF IInv
<1>1. PICK h \in Gens, l \in Kinds : collector[h][l] \in Running
  BY ZeroMeansNone
<1>2. GenOK(g) /\ GenOK(h)
  BY DEF GenInv
<1> SUFFICES ASSUME ~Abandoned(g) PROVE Abandoned(h)
  OBVIOUS
<1>3. quit[g] = "closed" /\ client[g] = "open"
  BY <1>2 DEF GenOK, Abandoned, TypeOK
<1>4. PICK p \in Callers : lifecycleMu = p /\ cur[p] = g /\ pc[p] \in Holding
  BY <1>3 DEF NoLeakedClient, PublishedClientIsOpen
<1>5. HolderOK(p, g)
  BY <1>4 DEF HolderInv
<1>6. pc[p] = "awaitStats" /\ rdb = Nil
  <2>1. rdb # g
    BY <1>3 DEF PublishedClientIsOpen
  <2> QED
    BY <1>3, <1>4, <1>5, <2>1 DEF HolderOK, Holding
<1>7. h # g /\ waiter[h] \notin {"released", "done"}
  BY <1>1 DEF WaitMeansStopped
<1>8. quit[h] = "closed"
  BY <1>1, <1>4, <1>6 DEF NoOrphanCollector
<1>9. client[h] # "open"
  BY <1>4, <1>6, <1>7 DEF NoLeakedClient
<1> QED
  BY <1>2, <1>7, <1>8, <1>9 DEF GenOK, Abandoned, TypeOK

\* A generation that was given up on stays so while its waiter is away; the only
\* step that panics is that of a waiter which finds the group in use.
LEMMA PanicStep ==
  ASSUME IInv, PanicOnlyAfterAbandonedWait, [Next]_vars
  PROVE  PanicOnlyAfterAbandonedWait'
<1>1. CASE panicked
  <2>1. UNCHANGED vars
    BY <1>1, PanicStops
  <2> QED
    BY <2>1 DEF PanicOnlyAfterAbandonedWait, Abandoned, vars, clientVars, statsVars
<1>2. CASE ~panicked
  <2>1. ASSUME NEW p \in Callers, CallerStep(p) PROVE ~panicked'
    BY <1>2, <2>1
       DEF CallerStep, RefuseCancelled, StartBegin, CleanBegin, Cancel, StartRejected,
           StartDial, PingOk, AbortStart, Publish, RegisterContract, SpawnPool, SpawnInfo,
           CleanNothing, CleanTake, CloseQuit, AwaitStats, CleanReturn, CleanAbandon
  <2>2. ASSUME NEW g \in Gens, NEW k \in Kinds, CollectorStep(g, k) PROVE ~panicked'
    BY <1>2, <2>2, CollectorEffect DEF Moved, IInv
  <2>3. ASSUME NEW g \in Gens, WaitReturn(g) PROVE PanicOnlyAfterAbandonedWait'
    <3>1. CASE statsWG = 0
      BY <1>2, <2>3, <3>1 DEF WaitReturn, PanicOnlyAfterAbandonedWait
    <3>2. CASE statsWG # 0
      <4>1. \E h \in Gens : Abandoned(h)
        BY <2>3, <3>2, ReuseMeansAbandoned DEF WaitReturn
      <4>2. UNCHANGED <<client, waiter>>
        BY <2>3, <3>2 DEF WaitReturn, clientVars
      <4> QED
        BY <4>1, <4>2 DEF PanicOnlyAfterAbandonedWait, Abandoned
    <3> QED
      BY <3>1, <3>2
  <2>4. ASSUME NEW g \in Gens, FinishClose(g) \/ WaitBegin(g) PROVE ~panicked'
    BY <1>2, <2>4 DEF FinishClose, WaitBegin
  <2>5. ASSUME UNCHANGED coreVars PROVE ~panicked'
    BY <1>2, <2>5 DEF coreVars
  <2>6. ASSUME ~panicked' PROVE PanicOnlyAfterAbandonedWait'
    BY <2>6 DEF PanicOnlyAfterAbandonedWait
  <2> QED
    BY <2>1, <2>2, <2>3, <2>4, <2>5, <2>6, NextKinds DEF CallerStep, QuietStep
<1> QED
  BY <1>1, <1>2

\* sync.WaitGroup's reuse panic needs a cleanup that gave up waiting first: as
\* long as every cleanup waits its collectors out, restarts never crash.
THEOREM PanicNeedsAbandonedWait == Spec => []PanicOnlyAfterAbandonedWait
<1>1. Init => PanicOnlyAfterAbandonedWait
  BY DEF Init, PanicOnlyAfterAbandonedWait
<1> QED
  BY <1>1, PanicStep, Invariance, PTL DEF Spec

-----------------------------------------------------------------------------
(* Refinement                                                              *)

\* Nothing about the lives of clients changes unless one of these does.
LEMMA LifeFrame ==
  ASSUME UNCHANGED <<rdb, client, quit, panicked>>
  PROVE  Life' = Life
  BY DEF Life, Stage

\* Only one client's life changes when only its stage does.
LEMMA LifeChange ==
  ASSUME NEW g \in Gens, NEW s, Stage(g)' = s,
         \A h \in Gens \ {g} : Stage(h)' = Stage(h)
  PROVE  Life' = [Life EXCEPT ![g] = s]
  BY DEF Life

\* Every step of the lifecycle dials, publishes, withdraws or closes one client of
\* ClientHandle, kills the process, or leaves all lives as they are.
LEMMA RefineStep ==
  ASSUME IInv, [Next]_vars
  PROVE  [Handle!Next]_Life
<1> USE DEF IInv
<1>1. CASE panicked
  <2>1. UNCHANGED <<rdb, client, quit, panicked>>
    BY <1>1, PanicStops DEF vars, pluginVars, clientVars
  <2> QED
    BY <2>1, LifeFrame
<1>2. CASE ~panicked
  <2>0. \A g \in Gens : Life[g] = Stage(g)
    BY DEF Life
  <2>1. ASSUME NEW p \in Callers, StartDial(p) PROVE Handle!Next
    <3>1. PICK g \in Gens : /\ g = startupTotal + 1 /\ client[g] = "none"
                            /\ quit[g] = "none" /\ rdb = Nil
      BY <2>1 DEF StartDial, TypeOK, GenInv, GenOK
    <3>2. /\ client' = [client EXCEPT ![g] = "open"]
          /\ UNCHANGED <<rdb, quit, panicked>>
      BY <2>1, <3>1 DEF StartDial, pluginVars
    <3>3. Stage(g) = "none" /\ Stage(g)' = "dialled"
      BY <1>2, <3>1, <3>2 DEF Stage, TypeOK
    <3>4. \A h \in Gens \ {g} : Stage(h)' = Stage(h)
      BY <3>1, <3>2 DEF Stage, TypeOK
    <3>5. Handle!Dial(g)
      BY <2>0, <3>1, <3>3, <3>4, LifeChange DEF Handle!Dial
    <3> QED
      BY <3>1, <3>5 DEF Handle!Next, Handle!Clients
  <2>2. ASSUME NEW p \in Callers, AbortStart(p) PROVE Handle!Next
    <3>1. PICK g \in Gens : /\ g = cur[p] /\ client[g] = "open"
                            /\ quit[g] = "none" /\ rdb = Nil
      BY <2>2 DEF AbortStart, TypeOK, MutexInv, HolderInv, HolderOK, Holding
    <3>2. /\ client' = [client EXCEPT ![g] = "closed"]
          /\ UNCHANGED <<rdb, quit, panicked>>
      BY <2>2, <3>1 DEF AbortStart, pluginVars
    <3>3. Stage(g) = "dialled" /\ Stage(g)' = "closed"
      BY <1>2, <3>1, <3>2 DEF Stage, TypeOK
    <3>4. \A h \in Gens \ {g} : Stage(h)' = Stage(h)
      BY <3>1, <3>2 DEF Stage, TypeOK
    <3>5. Handle!Close(g)
      BY <2>0, <3>1, <3>3, <3>4, LifeChange DEF Handle!Close
    <3> QED
      BY <3>1, <3>5 DEF Handle!Next, Handle!Clients
  <2>3. ASSUME NEW p \in Callers, Publish(p) PROVE Handle!Next
    <3>1. PICK g \in Gens : /\ g = cur[p] /\ client[g] = "open"
                            /\ quit[g] = "none" /\ rdb = Nil
      BY <2>3 DEF Publish, TypeOK, MutexInv, HolderInv, HolderOK, Holding
    <3>2. /\ rdb' = g /\ quit' = [quit EXCEPT ![g] = "open"]
          /\ UNCHANGED <<client, panicked>>
      BY <2>3, <3>1 DEF Publish
    <3>3. Stage(g) = "dialled" /\ Stage(g)' = "published"
      BY <1>2, <3>1, <3>2 DEF Stage, TypeOK
    <3>4. \A h \in Gens \ {g} : Stage(h)' = Stage(h)
      BY <3>1, <3>2 DEF Stage, TypeOK
    <3>5. \A h \in Gens : Stage(h) # "published"
      BY <3>1 DEF Stage
    <3>6. Handle!Publish(g)
      BY <2>0, <3>1, <3>3, <3>4, <3>5, LifeChange DEF Handle!Publish, Handle!Clients
    <3> QED
      BY <3>1, <3>6 DEF Handle!Next, Handle!Clients
  <2>4. ASSUME NEW p \in Callers, CleanTake(p) PROVE Handle!Next
    <3>1. PICK g \in Gens : g = rdb /\ client[g] = "open" /\ quit[g] = "open"
      BY <2>4 DEF CleanTake, TypeOK, PublishedClientIsOpen
    <3>2. rdb' = Nil /\ UNCHANGED <<client, quit, panicked>>
      BY <2>4 DEF CleanTake, clientVars
    <3>3. Stage(g) = "published" /\ Stage(g)' = "retired"
      BY <1>2, <3>1, <3>2 DEF Stage, TypeOK
    <3>4. \A h \in Gens \ {g} : Stage(h)' = Stage(h)
      BY <3>1, <3>2 DEF Stage, TypeOK
    <3>5. Handle!Withdraw(g)
      BY <2>0, <3>1, <3>3, <3>4, LifeChange DEF Handle!Withdraw
    <3> QED
      BY <3>1, <3>5 DEF Handle!Next, Handle!Clients
  <2>5. ASSUME NEW p \in Callers, CloseQuit(p) \/ AwaitStats(p) PROVE Life' = Life
    <3>1. PICK g \in Gens : /\ g = cur[p] /\ client[g] = "open"
                            /\ quit[g] # "none" /\ rdb = Nil
      BY <2>5 DEF CloseQuit, AwaitStats, TypeOK, MutexInv, HolderInv, HolderOK,
         Holding
    <3>2. /\ client'[g] \in {"open", "closing"} /\ quit'[g] # "none"
          /\ \A h \in Gens \ {g} : client'[h] = client[h] /\ quit'[h] = quit[h]
          /\ UNCHANGED <<rdb, panicked>>
      BY <2>5, <3>1 DEF CloseQuit, AwaitStats, TypeOK, pluginVars
    <3>3. \A h \in Gens : Stage(h)' = Stage(h)
      BY <1>2, <3>1, <3>2 DEF Stage
    <3> QED
      BY <3>3 DEF Life
  <2>6. ASSUME NEW g \in Gens, FinishClose(g) PROVE Handle!Next
    <3>1. client[g] = "closing" /\ quit[g] = "closed" /\ rdb # g
      BY <2>6 DEF FinishClose, GenInv, GenOK, PublishedClientIsOpen
    <3>2. /\ client' = [client EXCEPT ![g] = "closed"]
          /\ UNCHANGED <<rdb, quit, panicked>>
      BY <2>6 DEF FinishClose, pluginVars
    <3>3. Stage(g) = "retired" /\ Stage(g)' = "closed"
      BY <1>2, <3>1, <3>2 DEF Stage, TypeOK
    <3>4. \A h \in Gens \ {g} : Stage(h)' = Stage(h)
      BY <3>1, <3>2 DEF Stage, TypeOK
    <3>5. Handle!Close(g)
      BY <2>0, <3>1, <3>3, <3>4, LifeChange DEF Handle!Close
    <3> QED
      BY <3>5 DEF Handle!Next, Handle!Clients
  <2>7. ASSUME NEW g \in Gens, WaitReturn(g) PROVE [Handle!Next]_Life
    <3>1. UNCHANGED <<rdb, client, quit>>
      BY <2>7 DEF WaitReturn, pluginVars, clientVars
    <3>2. CASE panicked' = panicked
      BY <3>1, <3>2, LifeFrame
    <3>3. CASE panicked' # panicked
      <4>1. panicked' = TRUE
        BY <2>7, <3>3 DEF WaitReturn
      <4>2. \A h \in Gens : Stage(h)' = IF Stage(h) = "none" THEN "none" ELSE "closed"
        BY <1>2, <3>1, <4>1 DEF Stage
      <4>3. Handle!Crash
        BY <4>2 DEF Handle!Crash, Handle!Clients, Life
      <4> QED
        BY <4>3 DEF Handle!Next
    <3> QED
      BY <3>2, <3>3
  <2>8. ASSUME NEW p \in Callers, QuietStep(p) PROVE Life' = Life
    <3>1. UNCHANGED <<rdb, client, quit, panicked>>
      BY <2>8 DEF QuietStep, RefuseCancelled, StartBegin, CleanBegin, Cancel,
         StartRejected, PingOk, RegisterContract, CleanNothing, CleanReturn,
         CleanAbandon, pluginVars, clientVars
    <3> QED
      BY <3>1, LifeFrame
  <2>9. ASSUME NEW p \in Callers, SpawnPool(p) \/ SpawnInfo(p) PROVE Life' = Life
    <3>1. UNCHANGED <<rdb, client, quit, panicked>>
      BY <2>9 DEF SpawnPool, SpawnInfo, pluginVars, clientVars
    <3> QED
      BY <3>1, LifeFrame
  <2>10. ASSUME NEW g \in Gens, WaitBegin(g) PROVE Life' = Life
    <3>1. UNCHANGED <<rdb, client, quit, panicked>>
      BY <2>10 DEF WaitBegin, pluginVars, clientVars
    <3> QED
      BY <3>1, LifeFrame
  <2>11. ASSUME NEW g \in Gens, NEW k \in Kinds, CollectorStep(g, k)
         PROVE  Life' = Life
    <3>1. UNCHANGED <<rdb, client, quit, panicked>>
      BY <2>11, CollectorEffect DEF Moved, pluginVars, clientVars
    <3> QED
      BY <3>1, LifeFrame
  <2>12. ASSUME UNCHANGED coreVars PROVE Life' = Life
    <3>1. UNCHANGED <<rdb, client, quit, panicked>>
      BY <2>12 DEF coreVars, pluginVars, clientVars
    <3> QED
      BY <3>1, LifeFrame
  <2> QED
    BY <2>1, <2>2, <2>3, <2>4, <2>5, <2>6, <2>7, <2>8, <2>9, <2>10, <2>11, <2>12,
       NextKinds
<1> QED
  BY <1>1, <1>2

\* The lifecycle code keeps the promises of ClientHandle: clients are published
\* one at a time, withdrawn before they are closed, and never reopened.
THEOREM Refinement == Spec => ImplementsClientHandle
<1>1. Init => Handle!Init
  BY DEF Init, Handle!Init, Handle!Clients, Life, Stage
<1> QED
  BY <1>1, RefineStep, Invariance, PTL DEF Spec, ImplementsClientHandle, Handle!Spec
====
