----------------------------- MODULE CacheProofs -----------------------------
(***************************************************************************)
(* Machine-checked proofs about Cache, for any number of callers, deleters *)
(* and keys, any ttl, any delay and any number of retries.  That a scan    *)
(* misses nothing is proved for a single server (SingleNode).              *)
(***************************************************************************)
EXTENDS CacheProperties, TLAPS

USE CacheAssumption

LEMMA InitCacheInv == Init => CacheInv
<1> SUFFICES ASSUME Init PROVE CacheInv
  OBVIOUS
<1> USE DEF Init, Horizon
<1>1. TypeOK
  BY DEF TypeOK, Sets
<1>2. HeldInv
  BY DEF HeldInv, Holds
<1>3. StoredInv
  BY DEF StoredInv
<1>4. ScanInv
  BY DEF ScanInv, Present
<1> QED
  BY <1>1, <1>2, <1>3, <1>4 DEF CacheInv, FreshInv

\* A tick makes a copy that is obsolete older, and only that.
LEMMA OlderType ==
  ASSUME NEW o \in 0..Horizon
  PROVE  Older(o) \in 0..Horizon /\ Older(o) <= o + 1 /\ (o = 0 => Older(o) = 0)
  BY DEF Older, Horizon

\* Every action keeps the types.
LEMMA TypeStep ==
  ASSUME TypeOK, HeldInv, [Next]_vars
  PROVE  TypeOK'
<1> USE DEF TypeOK, Horizon, Sets, cacheVars, callVars, deleteVars, Goto, Return,
            Take, Store
<1>1. ASSUME NEW c \in Callers, GetBegin(c) \/ GetHit(c) \/ GetMiss(c) PROVE TypeOK'
  BY <1>1 DEF GetBegin, GetHit, GetMiss
<1>2. ASSUME NEW c \in Callers, Load(c) \/ LoadFails(c) PROVE TypeOK'
  BY <1>2 DEF Load, LoadFails
<1>3. ASSUME NEW c \in Callers, SetBegin(c) \/ WaitEnds(c) PROVE TypeOK'
  BY <1>3 DEF SetBegin, WaitEnds
<1>4. ASSUME NEW c \in Callers, Serve(c) PROVE TypeOK'
  <2>1. key[c] \in Keys
    BY <1>4 DEF Serve, HeldInv
  <2>2. /\ cached' \in [Keys -> {None, Junk} \cup 0..Horizon]
        /\ pttl' \in [Keys -> 0..TTL]
    BY <1>4, <2>1 DEF Serve
  <2>3. CASE Return(c)
    BY <1>4, <2>2, <2>3 DEF Serve
  <2>4. CASE UNCHANGED callVars
    BY <1>4, <2>2, <2>4 DEF Serve
  <2> QED
    BY <1>4, <2>3, <2>4 DEF Serve
<1>5. ASSUME NEW c \in Callers, SetFails(c) PROVE TypeOK'
  BY <1>5 DEF SetFails, HeldInv
<1>6. CASE ServeLate \/ LoseLate
  BY <1>6 DEF ServeLate, LoseLate
<1>7. ASSUME NEW d \in Deleters,
             DeleteBegin(d) \/ ScanKey(d) \/ ScanEnds(d) \/ DeleteReturn(d)
      PROVE  TypeOK'
  BY <1>7 DEF DeleteBegin, ScanKey, ScanEnds, DeleteReturn, DGoto, Present
<1>8. ASSUME NEW d \in Deleters, Del(d) PROVE TypeOK'
  BY <1>8 DEF Del, DGoto, Remove
<1>9. ASSUME NEW k \in Keys, Update(k) PROVE TypeOK'
  BY <1>9 DEF Update, Obsoleted
<1>10. ASSUME NEW k \in Keys, Foreign(k) \/ Evict(k) PROVE TypeOK'
  BY <1>10 DEF Foreign, Evict, Remove
<1>11. CASE Tick
  <2>1. cached' \in [Keys -> {None, Junk} \cup 0..Horizon]
    <3> SUFFICES ASSUME NEW k \in Keys
                 PROVE  cached'[k] \in {None, Junk} \cup 0..Horizon
      BY <1>11 DEF Tick, AgeCache
    <3> QED
      BY <1>11, OlderType DEF Tick, AgeCache
  <2>2. pttl' \in [Keys -> 0..TTL]
    <3>1. pttl' = [k \in Keys |-> IF pttl[k] = 0 THEN 0 ELSE pttl[k] - 1]
      BY <1>11 DEF Tick, AgeCache
    <3>2. \A k \in Keys : pttl[k] \in 0..TTL
      OBVIOUS
    <3> QED
      BY <3>1, <3>2
  <2>3. late' \subseteq Sets
    <3> SUFFICES ASSUME NEW s \in late, s.held < Delay
                 PROVE  [key |-> s.key, copy |-> Older(s.copy), held |-> s.held + 1]
                          \in Sets
      BY <1>11 DEF Tick, AgeLate
    <3>1. s \in Sets /\ Older(s.copy) \in 0..Horizon
      BY OlderType
    <3> HIDE DEF Horizon
    <3> QED
      BY <3>1
  <2>4. copy' \in [Callers -> 0..Horizon]
    BY <1>11, OlderType DEF Tick, AgeCalls
  <2>5. held' \in [Callers -> 0..(Delay + 1)]
    BY <1>11 DEF Tick, AgeCalls, Holds
  <2>6. old' \in [Deleters -> SUBSET Keys]
    BY <1>11 DEF Tick, AgeCache
  <2> QED
    BY <1>11, <2>1, <2>2, <2>3, <2>4, <2>5, <2>6 DEF Tick
<1>12. CASE UNCHANGED vars
  BY <1>12 DEF vars
<1> QED
  BY <1>1, <1>2, <1>3, <1>4, <1>5, <1>6, <1>7, <1>8, <1>9, <1>10, <1>11, <1>12
  DEF Next

\* A value is never obsolete for longer than it has been held.
LEMMA HeldStep ==
  ASSUME TypeOK, HeldInv, [Next]_vars
  PROVE  HeldInv'
<1> USE DEF TypeOK, HeldInv, Holds, Horizon, Sets, cacheVars, callVars, deleteVars,
            Goto, Return, Take
<1>1. ASSUME NEW c \in Callers, GetBegin(c) \/ GetHit(c) \/ GetMiss(c) PROVE HeldInv'
  BY <1>1 DEF GetBegin, GetHit, GetMiss
<1>2. ASSUME NEW c \in Callers, Load(c) \/ LoadFails(c) PROVE HeldInv'
  BY <1>2 DEF Load, LoadFails
<1>3. ASSUME NEW c \in Callers, SetBegin(c) \/ WaitEnds(c) PROVE HeldInv'
  BY <1>3 DEF SetBegin, WaitEnds
<1>4. ASSUME NEW c \in Callers, Serve(c) PROVE HeldInv'
  BY <1>4 DEF Serve
<1>5. ASSUME NEW c \in Callers, SetFails(c) PROVE HeldInv'
  BY <1>5 DEF SetFails
<1>6. CASE ServeLate \/ LoseLate
  BY <1>6 DEF ServeLate, LoseLate
<1>7. ASSUME NEW d \in Deleters,
             \/ DeleteBegin(d) \/ ScanKey(d) \/ ScanEnds(d)
             \/ DeleteReturn(d) \/ Del(d)
      PROVE  HeldInv'
  BY <1>7 DEF DeleteBegin, ScanKey, ScanEnds, DeleteReturn, Del
<1>8. ASSUME NEW k \in Keys, Update(k) PROVE HeldInv'
  BY <1>8 DEF Update, Obsoleted
<1>9. ASSUME NEW k \in Keys, Foreign(k) \/ Evict(k) PROVE HeldInv'
  BY <1>9 DEF Foreign, Evict
<1>10. CASE Tick
  <2>1. ASSUME NEW c \in Callers, Holds(c)' PROVE copy'[c] <= held'[c] + 1
    BY <1>10, <2>1, OlderType DEF Tick, AgeCalls
  <2>2. ASSUME NEW s \in late' PROVE s.copy <= s.held + 1
    <3>1. PICK r \in late :
             /\ r.held < Delay
             /\ s = [key |-> r.key, copy |-> Older(r.copy), held |-> r.held + 1]
      BY <1>10, <2>2 DEF Tick, AgeLate
    <3>2. r \in Sets /\ r.copy <= r.held + 1 /\ Older(r.copy) <= r.copy + 1
          /\ (r.copy = 0 => Older(r.copy) = 0)
      BY OlderType
    <3>3. s.copy = Older(r.copy) /\ s.held = r.held + 1
      BY <3>1, <3>2
    <3> QED
      BY <3>2, <3>3, OlderType
  <2>3. ASSUME NEW c \in Callers, pc'[c] # "idle" PROVE key'[c] \in Keys
    BY <1>10, <2>3 DEF Tick
  <2> QED
    BY <2>1, <2>2, <2>3
<1>11. CASE UNCHANGED vars
  BY <1>11 DEF vars
<1> QED
  BY <1>1, <1>2, <1>3, <1>4, <1>5, <1>6, <1>7, <1>8, <1>9, <1>10, <1>11 DEF Next

\* What is stored is as old as it was held at most, and then runs out.
LEMMA StoredStep ==
  ASSUME TypeOK, HeldInv, StoredInv, [Next]_vars
  PROVE  StoredInv'
<1> USE DEF TypeOK, StoredInv, Horizon, cacheVars
<1>1. ASSUME NEW c \in Callers,
             \/ GetBegin(c) \/ GetHit(c) \/ GetMiss(c) \/ Load(c) \/ LoadFails(c)
             \/ SetBegin(c) \/ WaitEnds(c) \/ SetFails(c)
      PROVE  StoredInv'
  BY <1>1 DEF GetBegin, GetHit, GetMiss, Load, LoadFails, SetBegin, WaitEnds, SetFails
<1>2. ASSUME NEW c \in Callers, Serve(c) PROVE StoredInv'
  BY <1>2 DEF Serve, Store, HeldInv, Holds
<1>3. CASE ServeLate
  BY <1>3 DEF ServeLate, Store, HeldInv, Sets
<1>4. CASE LoseLate
  BY <1>4 DEF LoseLate
<1>5. ASSUME NEW d \in Deleters,
             DeleteBegin(d) \/ ScanKey(d) \/ ScanEnds(d) \/ DeleteReturn(d)
      PROVE  StoredInv'
  BY <1>5 DEF DeleteBegin, ScanKey, ScanEnds, DeleteReturn
<1>6. ASSUME NEW d \in Deleters, Del(d) PROVE StoredInv'
  BY <1>6 DEF Del, Remove
<1>7. ASSUME NEW k \in Keys, Update(k) PROVE StoredInv'
  BY <1>7 DEF Update
<1>8. ASSUME NEW k \in Keys, Foreign(k) PROVE StoredInv'
  BY <1>8 DEF Foreign, Store
<1>9. ASSUME NEW k \in Keys, Evict(k) PROVE StoredInv'
  BY <1>9 DEF Evict, Remove
<1>10. CASE Tick
  <2> SUFFICES ASSUME NEW k \in Keys
               PROVE  /\ cached'[k] = None <=> pttl'[k] = 0
                      /\ cached'[k] \in Int =>
                            cached'[k] + pttl'[k] <= TTL + Delay + 1
    OBVIOUS
  <2>1. CASE k \in Expired
    BY <1>10, <2>1 DEF Tick, AgeCache, Expired
  <2>2. CASE k \notin Expired /\ cached[k] \in Int
    <3>1. cached[k] \in 0..Horizon /\ pttl[k] \in 0..TTL /\ pttl[k] > 1
      BY <2>2 DEF Expired
    <3>2. cached'[k] = Older(cached[k]) /\ pttl'[k] = pttl[k] - 1
      BY <1>10, <2>2, <3>1 DEF Tick, AgeCache
    <3> QED
      BY <2>2, <3>1, <3>2, OlderType
  <2>3. CASE k \notin Expired /\ cached[k] \notin Int
    BY <1>10, <2>3 DEF Tick, AgeCache, Expired
  <2> QED
    BY <2>1, <2>2, <2>3
<1>11. CASE UNCHANGED vars
  BY <1>11 DEF vars
<1> QED
  BY <1>1, <1>2, <1>3, <1>4, <1>5, <1>6, <1>7, <1>8, <1>9, <1>10, <1>11 DEF Next

\* A key stays in the way of the scan until it is returned or gone.
LEMMA ScanStep ==
  ASSUME SingleNode, TypeOK, StoredInv, ScanInv, [Next]_vars
  PROVE  ScanInv'
<1> USE DEF TypeOK, ScanInv, Present, cacheVars, callVars, deleteVars, DGoto
<1>1. ASSUME NEW c \in Callers,
             \/ GetBegin(c) \/ GetHit(c) \/ GetMiss(c) \/ Load(c) \/ LoadFails(c)
             \/ SetBegin(c) \/ WaitEnds(c) \/ SetFails(c)
      PROVE  ScanInv'
  BY <1>1 DEF GetBegin, GetHit, GetMiss, Load, LoadFails, SetBegin, WaitEnds, SetFails
<1>2. ASSUME NEW c \in Callers, Serve(c) PROVE ScanInv'
  BY <1>2 DEF Serve, Store
<1>3. CASE ServeLate \/ LoseLate
  BY <1>3 DEF ServeLate, LoseLate, Store, Sets
<1>4. ASSUME NEW d \in Deleters, DeleteBegin(d) PROVE ScanInv'
  BY <1>4 DEF DeleteBegin, SingleNode
<1>5. ASSUME NEW d \in Deleters, ScanKey(d) PROVE ScanInv'
  BY <1>5 DEF ScanKey
<1>6. ASSUME NEW d \in Deleters, ScanEnds(d) PROVE ScanInv'
  BY <1>6 DEF ScanEnds
<1>7. ASSUME NEW d \in Deleters, Del(d) PROVE ScanInv'
  BY <1>7 DEF Del, Remove
<1>8. ASSUME NEW d \in Deleters, DeleteReturn(d) PROVE ScanInv'
  BY <1>8 DEF DeleteReturn
<1>9. ASSUME NEW k \in Keys, Update(k) PROVE ScanInv'
  BY <1>9 DEF Update
<1>10. ASSUME NEW k \in Keys, Foreign(k) PROVE ScanInv'
  BY <1>10 DEF Foreign, Store
<1>11. ASSUME NEW k \in Keys, Evict(k) PROVE ScanInv'
  BY <1>11 DEF Evict, Remove
<1>12. CASE Tick
  <2>1. \A k \in Keys \ Expired : cached[k] # None => cached'[k] # None
    BY <1>12, OlderType DEF Tick, AgeCache
  <2>2. \A k \in Expired : k \in Keys
    BY DEF Expired
  <2> QED
    BY <1>12, <2>1, <2>2 DEF Tick, AgeCache
<1>13. CASE UNCHANGED vars
  BY <1>13 DEF vars
<1> QED
  BY <1>1, <1>2, <1>3, <1>4, <1>5, <1>6, <1>7, <1>8, <1>9, <1>10, <1>11, <1>12,
     <1>13
  DEF Next

\* What a caller or a late SET holds, and what is cached, is never more obsolete
\* than its age allows, with any number of nodes.
THEOREM Freshness == Spec => []FreshInv
<1>1. Init => FreshInv
  BY InitCacheInv DEF CacheInv
<1>2. FreshInv /\ [Next]_vars => FreshInv'
  BY TypeStep, HeldStep, StoredStep DEF FreshInv
<1> QED
  BY <1>1, <1>2, PTL DEF Spec

THEOREM CacheTypes == Spec => []TypeOK
<1>1. FreshInv => TypeOK
  BY DEF FreshInv
<1> QED
  BY Freshness, <1>1, PTL

\* A hit decodes and is obsolete for the ttl and the delay at most.
THEOREM FreshHits == Spec => HitIsFresh
<1>1. FreshInv /\ [Next]_vars =>
        [\A c \in Callers : pc[c] = "get" /\ pc'[c] = "idle" =>
            cached[key[c]] \in 0..(TTL + Delay)]_vars
  <2> SUFFICES ASSUME FreshInv, [Next]_vars, NEW c \in Callers,
                      pc[c] = "get", pc'[c] = "idle"
               PROVE  cached[key[c]] \in 0..(TTL + Delay)
    OBVIOUS
  <2> USE DEF FreshInv, TypeOK
  <2>1. GetHit(c)
    BY DEF Next, vars, callVars, Goto, Return, Take, GetBegin, GetHit, GetMiss, Load,
           LoadFails, SetBegin, WaitEnds, Serve, SetFails, ServeLate, LoseLate,
           DeleteBegin, ScanKey, ScanEnds, Del, DeleteReturn, Update, Foreign, Evict,
           Tick
  <2>2. key[c] \in Keys
    BY DEF HeldInv
  <2>3. cached[key[c]] \in 0..Horizon
    BY <2>1, <2>2 DEF GetHit
  <2>4. cached[key[c]] # None /\ cached[key[c]] + pttl[key[c]] <= TTL + Delay + 1
    BY <2>2, <2>3 DEF StoredInv
  <2> QED
    BY <2>2, <2>3, <2>4 DEF StoredInv, Horizon
<1> QED
  BY Freshness, <1>1, PTL DEF Spec, HitIsFresh

\* The whole inductive invariant, against one server.
THEOREM Caching == ASSUME SingleNode PROVE Spec => []CacheInv
<1>1. CacheInv /\ [Next]_vars => CacheInv'
  BY TypeStep, HeldStep, StoredStep, ScanStep DEF CacheInv, FreshInv
<1> QED
  BY InitCacheInv, <1>1, PTL DEF Spec

\* DeletePattern returns nil only when every key it was called for has gone.
THEOREM Deletion == ASSUME SingleNode PROVE Spec => []DeleteIsComplete
<1>1. CacheInv => DeleteIsComplete
  BY DEF CacheInv, ScanInv, DeleteIsComplete
<1> QED
  BY Caching, <1>1, PTL
=============================================================================
