----------------------- MODULE DistributedLockProofs -----------------------
(***************************************************************************)
(* Machine-checked proofs about DistributedLock, for any number of         *)
(* instances, any TTL and any number of resends and attempts, as long as   *)
(* the instances are used properly (ProperUse): Extend asks for whole      *)
(* seconds and no two threads share an instance.                           *)
(***************************************************************************)
EXTENDS DistributedLockProperties, TLAPS

USE LockAssumption

\* No lock is held, requested or late in the beginning.
LEMMA InitLeaseInv == Init => LeaseInv
  BY DEF Init, LeaseInv, TypeOK, MutexHeld, PromiseBounded, LeaseIsBacked,
         GrantIsBacked, StageInv, LateInv, Ops

\* Every action keeps the types.
LEMMA TypeStep ==
  ASSUME TypeOK, [Next]_vars
  PROVE  TypeOK'
<1> USE DEF TypeOK, Ops, Requests, serverVars, callVars, ownerVars, fieldVars
<1>1. Granted \in Nat
  BY DEF Granted
<1>2. ASSUME NEW l \in Locks, NEW op \in Ops, Run(l, op)
      PROVE  key' \in Locks \cup {None} /\ pttl' \in Nat
  BY <1>1, <1>2 DEF Run, SetNX, ReleaseScript, ExtendScript
<1>3. ASSUME NEW t \in Threads, Abandoned(t), pc[t] \in Ops
      PROVE  late' \subseteq Requests
  BY <1>3 DEF Abandoned
<1>4. ASSUME NEW t \in Threads, NEW where \in {"idle", "wait"}, Settle(t, where)
      PROVE  /\ pc' \in [Threads -> Ops \cup {"idle", "wait"}]
             /\ reply' \in [Threads -> {"none", "yes", "no"}]
             /\ attempts' \in [Threads -> 0..MaxAttempts]
             /\ resends' \in [Threads -> 0..Resends]
             /\ promise' \in [Threads -> Nat]
  BY <1>4 DEF Settle
<1>5. ASSUME NEW t \in Threads, NEW op \in Ops, NEW granted \in Nat,
             Send(t, op, granted)
      PROVE  /\ pc' \in [Threads -> Ops \cup {"idle", "wait"}]
             /\ promise' \in [Threads -> Nat]
             /\ resends' \in [Threads -> 0..Resends]
  BY <1>5 DEF Send
<1>6. ASSUME NEW t \in Threads, Serve(t) PROVE TypeOK'
  BY <1>2, <1>6 DEF Serve
<1>7. ASSUME NEW t \in Threads, Resend(t) PROVE TypeOK'
  BY <1>3, <1>7 DEF Resend
<1>8. ASSUME NEW t \in Threads, Fail(t) PROVE TypeOK'
  BY <1>3, <1>4, <1>8 DEF Fail
<1>9. ASSUME NEW t \in Threads, LockCall(t) PROVE TypeOK'
  BY <1>5, <1>9 DEF LockCall
<1>10. ASSUME NEW t \in Threads, LockAcquired(t) PROVE TypeOK'
  BY <1>4, <1>10 DEF LockAcquired
<1>11. ASSUME NEW t \in Threads, LockTaken(t) PROVE TypeOK'
  BY <1>4, <1>11 DEF LockTaken
<1>12. ASSUME NEW t \in Threads, Retry(t) PROVE TypeOK'
  BY <1>5, <1>12 DEF Retry
<1>13. ASSUME NEW t \in Threads, LockGiveUp(t) PROVE TypeOK'
  BY <1>4, <1>13 DEF LockGiveUp
<1>14. ASSUME NEW t \in Threads, UnlockCall(t) PROVE TypeOK'
  BY <1>5, <1>14 DEF UnlockCall, Enter
<1>15. ASSUME NEW t \in Threads, UnlockReturn(t) PROVE TypeOK'
  BY <1>4, <1>15 DEF UnlockReturn
<1>16. ASSUME NEW t \in Threads, ExtendCall(t) PROVE TypeOK'
  BY <1>5, <1>16 DEF ExtendCall, Enter, Least
<1>17. ASSUME NEW t \in Threads, ExtendReturn(t) PROVE TypeOK'
  BY <1>4, <1>17 DEF ExtendReturn
<1>18. ASSUME NEW r \in Requests, ServeLate(r) \/ LoseLate(r) PROVE TypeOK'
  BY <1>2, <1>18 DEF ServeLate, LoseLate
<1>19. CASE Tick
  BY <1>19 DEF Tick
<1>20. CASE UNCHANGED vars
  BY <1>20 DEF vars
<1> QED
  BY <1>6, <1>7, <1>8, <1>9, <1>10, <1>11, <1>12, <1>13, <1>14, <1>15, <1>16,
     <1>17, <1>18, <1>19, <1>20 DEF Next, ThreadStep

\* Unlock and Extend take the instance's mutex and every way out of them, the
\* failing ones included, releases it.
LEMMA MutexStep ==
  ASSUME TypeOK, MutexHeld, [Next]_vars
  PROVE  MutexHeld'
<1> USE DEF TypeOK, Ops, serverVars, callVars, ownerVars, fieldVars, MutexHeld
<1>1. ASSUME NEW t \in Threads, Serve(t) PROVE MutexHeld'
  BY <1>1 DEF Serve, Run, SetNX, ReleaseScript, ExtendScript, Succeeds
<1>2. ASSUME NEW t \in Threads, Resend(t) PROVE MutexHeld'
  BY <1>2 DEF Resend, Abandoned
<1>3. ASSUME NEW t \in Threads, Fail(t) PROVE MutexHeld'
  BY <1>3 DEF Fail, Abandoned, Settle
<1>4. ASSUME NEW t \in Threads, LockCall(t) PROVE MutexHeld'
  BY <1>4 DEF LockCall, Send
<1>5. ASSUME NEW t \in Threads, LockAcquired(t) PROVE MutexHeld'
  BY <1>5 DEF LockAcquired, Settle
<1>6. ASSUME NEW t \in Threads, LockTaken(t) PROVE MutexHeld'
  BY <1>6 DEF LockTaken, Settle
<1>7. ASSUME NEW t \in Threads, Retry(t) PROVE MutexHeld'
  BY <1>7 DEF Retry, Send
<1>8. ASSUME NEW t \in Threads, LockGiveUp(t) PROVE MutexHeld'
  BY <1>8 DEF LockGiveUp, Settle
<1>9. ASSUME NEW t \in Threads, UnlockCall(t) PROVE MutexHeld'
  BY <1>9 DEF UnlockCall, Enter, Send
<1>10. ASSUME NEW t \in Threads, UnlockReturn(t) PROVE MutexHeld'
  BY <1>10 DEF UnlockReturn, Settle
<1>11. ASSUME NEW t \in Threads, ExtendCall(t) PROVE MutexHeld'
  BY <1>11 DEF ExtendCall, Enter, Send, Least
<1>12. ASSUME NEW t \in Threads, ExtendReturn(t) PROVE MutexHeld'
  BY <1>12 DEF ExtendReturn, Settle
<1>13. ASSUME NEW r \in Requests, ServeLate(r) PROVE MutexHeld'
  BY <1>13 DEF ServeLate, Run, SetNX, ReleaseScript, ExtendScript
<1>14. ASSUME NEW r \in Requests, LoseLate(r) PROVE MutexHeld'
  BY <1>14 DEF LoseLate
<1>15. CASE Tick
  BY <1>15 DEF Tick
<1>16. CASE UNCHANGED vars
  BY <1>16 DEF vars
<1> QED
  BY <1>1, <1>2, <1>3, <1>4, <1>5, <1>6, <1>7, <1>8, <1>9, <1>10, <1>11, <1>12,
     <1>13, <1>14, <1>15, <1>16 DEF Next, ThreadStep

\* A call promises what it asks for and the promise only shrinks; what the owner
\* counts on shrinks with it while the call runs.
LEMMA PromiseStep ==
  ASSUME ProperUse, TypeOK, PromiseBounded, [Next]_vars
  PROVE  PromiseBounded'
<1> USE DEF TypeOK, Ops, serverVars, callVars, ownerVars, fieldVars, ProperUse,
   PromiseBounded
<1>1. ASSUME NEW t \in Threads, Serve(t) PROVE PromiseBounded'
  BY <1>1 DEF Serve, Run, SetNX, ReleaseScript, ExtendScript, Succeeds
<1>2. ASSUME NEW t \in Threads, Resend(t) PROVE PromiseBounded'
  BY <1>2 DEF Resend, Abandoned
<1>3. ASSUME NEW t \in Threads, Fail(t) PROVE PromiseBounded'
  BY <1>3 DEF Fail, Abandoned, Settle
<1>4. ASSUME NEW t \in Threads, LockCall(t) PROVE PromiseBounded'
  BY <1>4 DEF LockCall, Send
<1>5. ASSUME NEW t \in Threads, LockAcquired(t) PROVE PromiseBounded'
  BY <1>5 DEF LockAcquired, Settle
<1>6. ASSUME NEW t \in Threads, LockTaken(t) PROVE PromiseBounded'
  BY <1>6 DEF LockTaken, Settle
<1>7. ASSUME NEW t \in Threads, Retry(t) PROVE PromiseBounded'
  BY <1>7 DEF Retry, Send
<1>8. ASSUME NEW t \in Threads, LockGiveUp(t) PROVE PromiseBounded'
  BY <1>8 DEF LockGiveUp, Settle
<1>9. ASSUME NEW t \in Threads, UnlockCall(t) PROVE PromiseBounded'
  BY <1>9 DEF UnlockCall, Enter, Send
<1>10. ASSUME NEW t \in Threads, UnlockReturn(t) PROVE PromiseBounded'
  BY <1>10 DEF UnlockReturn, Settle
<1>11. ASSUME NEW t \in Threads, ExtendCall(t) PROVE PromiseBounded'
  BY <1>11 DEF ExtendCall, Enter, Send, Least
<1>12. ASSUME NEW t \in Threads, ExtendReturn(t) PROVE PromiseBounded'
  BY <1>12 DEF ExtendReturn, Settle
<1>13. ASSUME NEW r \in Requests, ServeLate(r) PROVE PromiseBounded'
  BY <1>13 DEF ServeLate, Run, SetNX, ReleaseScript, ExtendScript
<1>14. ASSUME NEW r \in Requests, LoseLate(r) PROVE PromiseBounded'
  BY <1>14 DEF LoseLate
<1>15. CASE Tick
  BY <1>15 DEF Tick
<1>16. CASE UNCHANGED vars
  BY <1>16 DEF vars
<1> QED
  BY <1>1, <1>2, <1>3, <1>4, <1>5, <1>6, <1>7, <1>8, <1>9, <1>10, <1>11, <1>12,
     <1>13, <1>14, <1>15, <1>16 DEF Next, ThreadStep

\* The owner of an instance with late requests locks it, extends it and unlocks it
\* in this order, and counts on nothing once it unlocks.
LEMMA StageStep ==
  ASSUME ProperUse, TypeOK, PromiseBounded, StageInv, [Next]_vars
  PROVE  StageInv'
<1> USE DEF TypeOK, Ops, serverVars, callVars, ownerVars, fieldVars, ProperUse,
   PromiseBounded, StageInv
<1>1. ASSUME NEW t \in Threads, Serve(t) PROVE StageInv'
  BY <1>1 DEF Serve, Run, SetNX, ReleaseScript, ExtendScript, Succeeds
<1>2. ASSUME NEW t \in Threads, Resend(t) PROVE StageInv'
  BY <1>2 DEF Resend, Abandoned
<1>3. ASSUME NEW t \in Threads, Fail(t) PROVE StageInv'
  BY <1>3 DEF Fail, Abandoned, Settle
<1>4. ASSUME NEW t \in Threads, LockCall(t) PROVE StageInv'
  BY <1>4 DEF LockCall, Send
<1>5. ASSUME NEW t \in Threads, LockAcquired(t) PROVE StageInv'
  BY <1>5 DEF LockAcquired, Settle
<1>6. ASSUME NEW t \in Threads, LockTaken(t) PROVE StageInv'
  BY <1>6 DEF LockTaken, Settle
<1>7. ASSUME NEW t \in Threads, Retry(t) PROVE StageInv'
  BY <1>7 DEF Retry, Send
<1>8. ASSUME NEW t \in Threads, LockGiveUp(t) PROVE StageInv'
  BY <1>8 DEF LockGiveUp, Settle
<1>9. ASSUME NEW t \in Threads, UnlockCall(t) PROVE StageInv'
  BY <1>9 DEF UnlockCall, Enter, Send
<1>10. ASSUME NEW t \in Threads, UnlockReturn(t) PROVE StageInv'
  BY <1>10 DEF UnlockReturn, Settle
<1>11. ASSUME NEW t \in Threads, ExtendCall(t) PROVE StageInv'
  BY <1>11 DEF ExtendCall, Enter, Send, Least
<1>12. ASSUME NEW t \in Threads, ExtendReturn(t) PROVE StageInv'
  BY <1>12 DEF ExtendReturn, Settle
<1>13. ASSUME NEW r \in Requests, ServeLate(r) PROVE StageInv'
  BY <1>13 DEF ServeLate, Run, SetNX, ReleaseScript, ExtendScript
<1>14. ASSUME NEW r \in Requests, LoseLate(r) PROVE StageInv'
  BY <1>14 DEF LoseLate
<1>15. CASE Tick
  BY <1>15 DEF Tick
<1>16. CASE UNCHANGED vars
  BY <1>16 DEF vars
<1> QED
  BY <1>1, <1>2, <1>3, <1>4, <1>5, <1>6, <1>7, <1>8, <1>9, <1>10, <1>11, <1>12,
     <1>13, <1>14, <1>15, <1>16 DEF Next, ThreadStep

\* A request that was given up stays harmless: its owner goes on, and never back.
LEMMA LateStep ==
  ASSUME ProperUse, TypeOK, PromiseBounded, StageInv, LateInv, [Next]_vars
  PROVE  LateInv'
<1> USE DEF TypeOK, Ops, serverVars, callVars, ownerVars, fieldVars, Requests,
   ProperUse, PromiseBounded, StageInv, LateInv
<1>1. ASSUME NEW t \in Threads, Serve(t) PROVE LateInv'
  BY <1>1 DEF Serve, Run, SetNX, ReleaseScript, ExtendScript, Succeeds
<1>2. ASSUME NEW t \in Threads, Resend(t) PROVE LateInv'
  BY <1>2 DEF Resend, Abandoned
<1>3. ASSUME NEW t \in Threads, Fail(t) PROVE LateInv'
  BY <1>3 DEF Fail, Abandoned, Settle
<1>4. ASSUME NEW t \in Threads, LockCall(t) PROVE LateInv'
  BY <1>4 DEF LockCall, Send
<1>5. ASSUME NEW t \in Threads, LockAcquired(t) PROVE LateInv'
  BY <1>5 DEF LockAcquired, Settle
<1>6. ASSUME NEW t \in Threads, LockTaken(t) PROVE LateInv'
  BY <1>6 DEF LockTaken, Settle
<1>7. ASSUME NEW t \in Threads, Retry(t) PROVE LateInv'
  BY <1>7 DEF Retry, Send
<1>8. ASSUME NEW t \in Threads, LockGiveUp(t) PROVE LateInv'
  BY <1>8 DEF LockGiveUp, Settle
<1>9. ASSUME NEW t \in Threads, UnlockCall(t) PROVE LateInv'
  BY <1>9 DEF UnlockCall, Enter, Send
<1>10. ASSUME NEW t \in Threads, UnlockReturn(t) PROVE LateInv'
  BY <1>10 DEF UnlockReturn, Settle
<1>11. ASSUME NEW t \in Threads, ExtendCall(t) PROVE LateInv'
  BY <1>11 DEF ExtendCall, Enter, Send, Least
<1>12. ASSUME NEW t \in Threads, ExtendReturn(t) PROVE LateInv'
  BY <1>12 DEF ExtendReturn, Settle
<1>13. ASSUME NEW r \in Requests, ServeLate(r) PROVE LateInv'
  BY <1>13 DEF ServeLate, Run, SetNX, ReleaseScript, ExtendScript
<1>14. ASSUME NEW r \in Requests, LoseLate(r) PROVE LateInv'
  BY <1>14 DEF LoseLate
<1>15. CASE Tick
  BY <1>15 DEF Tick
<1>16. CASE UNCHANGED vars
  BY <1>16 DEF vars
<1> QED
  BY <1>1, <1>2, <1>3, <1>4, <1>5, <1>6, <1>7, <1>8, <1>9, <1>10, <1>11, <1>12,
     <1>13, <1>14, <1>15, <1>16 DEF Next, ThreadStep

\* What the server granted is still there when the reply is read: nobody else can
\* take it away, and the key expires no earlier than the promise.
LEMMA GrantStep ==
  ASSUME ProperUse, TypeOK, PromiseBounded, LeaseIsBacked, GrantIsBacked,
     StageInv, LateInv, [Next]_vars
  PROVE  GrantIsBacked'
<1> USE DEF TypeOK, Ops, serverVars, callVars, ownerVars, fieldVars, Requests,
   ProperUse, PromiseBounded, GrantIsBacked, StageInv, LateInv
<1>1. ASSUME NEW t \in Threads, Serve(t) PROVE GrantIsBacked'
  BY <1>1 DEF Serve, Run, SetNX, ReleaseScript, ExtendScript, Succeeds
<1>2. ASSUME NEW t \in Threads, Resend(t) PROVE GrantIsBacked'
  BY <1>2 DEF Resend, Abandoned
<1>3. ASSUME NEW t \in Threads, Fail(t) PROVE GrantIsBacked'
  BY <1>3 DEF Fail, Abandoned, Settle
<1>4. ASSUME NEW t \in Threads, LockCall(t) PROVE GrantIsBacked'
  BY <1>4 DEF LockCall, Send
<1>5. ASSUME NEW t \in Threads, LockAcquired(t) PROVE GrantIsBacked'
  BY <1>5 DEF LockAcquired, Settle
<1>6. ASSUME NEW t \in Threads, LockTaken(t) PROVE GrantIsBacked'
  BY <1>6 DEF LockTaken, Settle
<1>7. ASSUME NEW t \in Threads, Retry(t) PROVE GrantIsBacked'
  BY <1>7 DEF Retry, Send
<1>8. ASSUME NEW t \in Threads, LockGiveUp(t) PROVE GrantIsBacked'
  BY <1>8 DEF LockGiveUp, Settle
<1>9. ASSUME NEW t \in Threads, UnlockCall(t) PROVE GrantIsBacked'
  BY <1>9 DEF UnlockCall, Enter, Send
<1>10. ASSUME NEW t \in Threads, UnlockReturn(t) PROVE GrantIsBacked'
  BY <1>10 DEF UnlockReturn, Settle
<1>11. ASSUME NEW t \in Threads, ExtendCall(t) PROVE GrantIsBacked'
  BY <1>11 DEF ExtendCall, Enter, Send, Least
<1>12. ASSUME NEW t \in Threads, ExtendReturn(t) PROVE GrantIsBacked'
  BY <1>12 DEF ExtendReturn, Settle
<1>13. ASSUME NEW r \in Requests, ServeLate(r) PROVE GrantIsBacked'
  BY <1>13 DEF ServeLate, Run, SetNX, ReleaseScript, ExtendScript
<1>14. ASSUME NEW r \in Requests, LoseLate(r) PROVE GrantIsBacked'
  BY <1>14 DEF LoseLate
<1>15. CASE Tick
  BY <1>15 DEF Tick
<1>16. CASE UNCHANGED vars
  BY <1>16 DEF vars
<1> QED
  BY <1>1, <1>2, <1>3, <1>4, <1>5, <1>6, <1>7, <1>8, <1>9, <1>10, <1>11, <1>12,
     <1>13, <1>14, <1>15, <1>16 DEF Next, ThreadStep

\* A lease begins with what the server granted, and only its owner's Unlock, which
\* ends it first, removes the key before it runs out.
LEMMA LeaseStep ==
  ASSUME ProperUse, TypeOK, PromiseBounded, LeaseIsBacked, GrantIsBacked,
     StageInv, LateInv, [Next]_vars
  PROVE  LeaseIsBacked'
<1> USE DEF TypeOK, Ops, serverVars, callVars, ownerVars, fieldVars, Requests,
   ProperUse, PromiseBounded, LeaseIsBacked, GrantIsBacked, StageInv, LateInv
<1>1. ASSUME NEW t \in Threads, Serve(t) PROVE LeaseIsBacked'
  BY <1>1 DEF Serve, Run, SetNX, ReleaseScript, ExtendScript, Succeeds
<1>2. ASSUME NEW t \in Threads, Resend(t) PROVE LeaseIsBacked'
  BY <1>2 DEF Resend, Abandoned
<1>3. ASSUME NEW t \in Threads, Fail(t) PROVE LeaseIsBacked'
  BY <1>3 DEF Fail, Abandoned, Settle
<1>4. ASSUME NEW t \in Threads, LockCall(t) PROVE LeaseIsBacked'
  BY <1>4 DEF LockCall, Send
<1>5. ASSUME NEW t \in Threads, LockAcquired(t) PROVE LeaseIsBacked'
  BY <1>5 DEF LockAcquired, Settle
<1>6. ASSUME NEW t \in Threads, LockTaken(t) PROVE LeaseIsBacked'
  BY <1>6 DEF LockTaken, Settle
<1>7. ASSUME NEW t \in Threads, Retry(t) PROVE LeaseIsBacked'
  BY <1>7 DEF Retry, Send
<1>8. ASSUME NEW t \in Threads, LockGiveUp(t) PROVE LeaseIsBacked'
  BY <1>8 DEF LockGiveUp, Settle
<1>9. ASSUME NEW t \in Threads, UnlockCall(t) PROVE LeaseIsBacked'
  BY <1>9 DEF UnlockCall, Enter, Send
<1>10. ASSUME NEW t \in Threads, UnlockReturn(t) PROVE LeaseIsBacked'
  BY <1>10 DEF UnlockReturn, Settle
<1>11. ASSUME NEW t \in Threads, ExtendCall(t) PROVE LeaseIsBacked'
  BY <1>11 DEF ExtendCall, Enter, Send, Least
<1>12. ASSUME NEW t \in Threads, ExtendReturn(t) PROVE LeaseIsBacked'
  BY <1>12 DEF ExtendReturn, Settle
<1>13. ASSUME NEW r \in Requests, ServeLate(r) PROVE LeaseIsBacked'
  BY <1>13 DEF ServeLate, Run, SetNX, ReleaseScript, ExtendScript
<1>14. ASSUME NEW r \in Requests, LoseLate(r) PROVE LeaseIsBacked'
  BY <1>14 DEF LoseLate
<1>15. CASE Tick
  BY <1>15 DEF Tick
<1>16. CASE UNCHANGED vars
  BY <1>16 DEF vars
<1> QED
  BY <1>1, <1>2, <1>3, <1>4, <1>5, <1>6, <1>7, <1>8, <1>9, <1>10, <1>11, <1>12,
     <1>13, <1>14, <1>15, <1>16 DEF Next, ThreadStep

\* No step breaks the inductive invariant of a lock that is used properly.
LEMMA NextLeaseInv == ProperUse /\ LeaseInv /\ [Next]_vars => LeaseInv'
  BY TypeStep, MutexStep, PromiseStep, StageStep, LateStep, GrantStep, LeaseStep
     DEF LeaseInv

\* The state of the lock is well typed, however instances are shared among threads.
THEOREM LockTypes == Spec => []TypeOK
<1>1. Init => TypeOK
  BY InitLeaseInv DEF LeaseInv
<1>2. TypeOK /\ [Next]_vars => TypeOK'
  BY TypeStep
<1> QED
  BY <1>1, <1>2, PTL DEF Spec

\* The inductive invariant holds of every reachable state of a lock that is used
\* properly, whatever is lost, sent again, late or given up.
THEOREM Leases == ASSUME ProperUse PROVE Spec => []LeaseInv
<1>1. LeaseInv /\ [Next]_vars => LeaseInv'
  BY NextLeaseInv
<1> QED
  BY InitLeaseInv, <1>1, PTL DEF Spec

\* While an owner counts on the lock, its value is in Redis and stays there.
THEOREM Backing == ASSUME ProperUse PROVE Spec => []LeaseIsBacked
<1>1. LeaseInv => LeaseIsBacked
  BY DEF LeaseInv
<1> QED
  BY Leases, <1>1, PTL

\* Two owners never count on the lock at the same time.
THEOREM Exclusion == ASSUME ProperUse PROVE Spec => []MutualExclusion
<1>1. LeaseInv => MutualExclusion
  BY DEF LeaseInv, LeaseIsBacked, MutualExclusion
<1> QED
  BY Leases, <1>1, PTL

\* An Extend that returns nil has kept the lock for the time it was asked for.
THEOREM Extends == ASSUME ProperUse PROVE Spec => ExtendDelivers
<1>1. LeaseInv /\ [Next]_vars =>
        [\A t \in Threads :
            ExtendReturn(t) /\ reply[t] = "yes" /\ promise[t] > 0 =>
                key = Handle[t] /\ pttl >= promise[t]]_vars
  BY DEF LeaseInv, GrantIsBacked, ExtendReturn
<1> QED
  BY Leases, <1>1, PTL DEF Spec, ExtendDelivers

\* The key of an instance is never taken away by a call of another one.
THEOREM Releases == ASSUME ProperUse PROVE Spec => OnlyOwnerReleases
<1> DEFINE OwnUnlock(l) ==
             \/ pttl = 1 /\ UNCHANGED <<reply, late>>
             \/ \E t \in Threads : /\ Handle[t] = l /\ pc[t] = "unlock"
                                   /\ reply[t] = "none" /\ reply'[t] = "yes"
             \/ [lock |-> l, op |-> "unlock"] \in late \ late'
<1>1. LeaseInv /\ [Next]_vars =>
        [\A l \in Locks : key = l /\ key' # l => OwnUnlock(l)]_vars
  <2> SUFFICES ASSUME LeaseInv, [Next]_vars, NEW l \in Locks, key = l, key' # l
               PROVE  OwnUnlock(l)
    OBVIOUS
  <2> USE DEF LeaseInv, TypeOK, ProperUse, Run, SetNX, ReleaseScript, ExtendScript,
              Succeeds, Requests, serverVars
  <2>1. ASSUME NEW t \in Threads, Serve(t) PROVE OwnUnlock(l)
    BY <2>1 DEF Serve
  <2>2. ASSUME NEW r \in Requests, ServeLate(r) PROVE OwnUnlock(l)
    BY <2>2 DEF ServeLate
  <2>3. CASE Tick
    BY <2>3 DEF Tick
  <2>4. key' = key \/ Tick \/ (\E t \in Threads : Serve(t))
          \/ (\E r \in Requests : ServeLate(r))
    BY DEF Next, ThreadStep, LockCall, LockAcquired, LockTaken, Retry, LockGiveUp,
           UnlockCall, UnlockReturn, ExtendCall, ExtendReturn, Enter, Resend, Fail,
           LoseLate, vars
  <2> QED
    BY <2>1, <2>2, <2>3, <2>4
<1> QED
  BY Leases, <1>1, PTL DEF Spec, OnlyOwnerReleases
-----------------------------------------------------------------------------
(* What an answer of Unlock means                                          *)

\* Serving an Unlock removes the instance's value, and nobody else sets it.
LEMMA ReleasedStep ==
  ASSUME ProperUse, TypeOK, PromiseBounded, LateInv, ReleasedInv, [Next]_vars
  PROVE  ReleasedInv'
<1> SUFFICES ASSUME NEW t \in Threads, pc'[t] = "unlock", reply'[t] # "none",
                    Handle[t] \notin Delayed
             PROVE  key' # Handle[t]
  BY DEF ReleasedInv
<1> USE DEF TypeOK, Ops, serverVars, callVars, ownerVars, fieldVars, Requests
<1>1. ASSUME NEW u \in Threads, Serve(u) PROVE key' # Handle[t]
  <2>1. CASE u = t
    BY <1>1, <2>1 DEF Serve, Run, ReleaseScript
  <2>2. CASE u # t
    <3>1. pc[t] = "unlock" /\ reply[t] # "none" /\ Handle[u] # Handle[t]
      BY <1>1, <2>2 DEF Serve, ProperUse
    <3>2. key # Handle[t]
      BY <3>1 DEF ReleasedInv
    <3> QED
      BY <1>1, <3>1, <3>2 DEF Serve, Run, SetNX, ReleaseScript, ExtendScript
  <2> QED
    BY <2>1, <2>2
<1>2. ASSUME NEW r \in Requests, ServeLate(r) PROVE key' # Handle[t]
  <2>1. r.lock \in Delayed
    BY <1>2 DEF ServeLate, LateInv
  <2>2. key # Handle[t] /\ r.lock # Handle[t]
    BY <1>2, <2>1 DEF ServeLate, ReleasedInv
  <2> QED
    BY <1>2, <2>2 DEF ServeLate, Run, SetNX, ReleaseScript, ExtendScript
<1>3. CASE Tick
  <2>1. key # Handle[t]
    BY <1>3 DEF Tick, ReleasedInv
  <2> QED
    BY <1>3, <2>1 DEF Tick
<1>4. ASSUME NEW u \in Threads,
             \/ LockCall(u) \/ LockAcquired(u) \/ LockTaken(u) \/ Retry(u)
             \/ LockGiveUp(u) \/ UnlockReturn(u) \/ ExtendReturn(u) \/ Resend(u) \/ Fail(u)
      PROVE  key' = key /\ pc[t] = "unlock" /\ reply[t] # "none"
  BY <1>4 DEF LockCall, LockAcquired, LockTaken, Retry, LockGiveUp, UnlockReturn,
     ExtendReturn, Resend, Fail, Send, Settle
<1>5. ASSUME NEW u \in Threads, UnlockCall(u) \/ ExtendCall(u)
      PROVE  key' = key /\ pc[t] = "unlock" /\ reply[t] # "none"
  BY <1>5 DEF UnlockCall, ExtendCall, Enter, Send, PromiseBounded
<1>6. ASSUME NEW r \in Requests, LoseLate(r)
      PROVE  key' = key /\ pc[t] = "unlock" /\ reply[t] # "none"
  BY <1>6 DEF LoseLate
<1>7. CASE UNCHANGED vars
  BY <1>7 DEF vars, ReleasedInv
<1> QED
  BY <1>1, <1>2, <1>3, <1>4, <1>5, <1>6, <1>7 DEF Next, ThreadStep, ReleasedInv

\* Unlock lets go of the lock whenever it is answered: an error "not held" after a
\* lost reply is spurious, and never hides a lock that is still there.
THEOREM Unlocks == ASSUME ProperUse PROVE Spec => UnlockReleases
<1>1. Init => ReleasedInv
  BY DEF Init, ReleasedInv
<1>2. LeaseInv => TypeOK /\ PromiseBounded /\ LateInv
  BY DEF LeaseInv
<1>3. TypeOK /\ PromiseBounded /\ LateInv /\ ReleasedInv /\ [Next]_vars => ReleasedInv'
  BY ReleasedStep
<1>4. ReleasedInv /\ [Next]_vars =>
        [\A t \in Threads :
            UnlockReturn(t) /\ Handle[t] \notin Delayed => key # Handle[t]]_vars
  BY DEF ReleasedInv, UnlockReturn
<1> QED
  BY <1>1, <1>2, <1>3, <1>4, Leases, PTL DEF Spec, UnlockReleases
-----------------------------------------------------------------------------
(* Refinement                                                              *)

\* A step that does not change what owners count on is a stutter of Lease.
LEMMA LeaseFrame ==
  ASSUME TypeOK, [Next]_vars, lease' # lease
  PROVE  \/ \E t \in Threads : \/ LockAcquired(t) \/ UnlockCall(t)
                               \/ ExtendCall(t) \/ ExtendReturn(t)
         \/ Tick
<1> USE DEF ownerVars
<1>1. ASSUME NEW t \in Threads,
             \/ LockCall(t) \/ LockTaken(t) \/ Retry(t) \/ LockGiveUp(t)
             \/ UnlockReturn(t) \/ Serve(t) \/ Resend(t) \/ Fail(t)
      PROVE  lease' = lease
  BY <1>1 DEF LockCall, LockTaken, Retry, LockGiveUp, UnlockReturn, Serve, Resend, Fail
<1>2. ASSUME NEW r \in Requests, ServeLate(r) \/ LoseLate(r) PROVE lease' = lease
  BY <1>2 DEF ServeLate, LoseLate
<1>3. CASE UNCHANGED vars
  BY <1>3 DEF vars
<1> QED
  BY <1>1, <1>2, <1>3 DEF Next, ThreadStep

\* What a successful reply grants is granted to one owner, and for no longer than
\* was asked for.
LEMMA GrantMaps ==
  ASSUME LeaseInv, NEW t \in Threads, pc[t] \in {"lock", "extend"}, reply[t] = "yes",
         lease' = [lease EXCEPT ![Handle[t]] = promise[t]]
  PROVE  Promised!Next
<1> USE DEF LeaseInv, TypeOK
<1>1. /\ Handle[t] \in Locks /\ promise[t] \in Nat
      /\ promise[t] <= IF TTL < Extension THEN Extension ELSE TTL
  BY DEF PromiseBounded
<1>2. CASE promise[t] = 0
  <2>1. Promised!Waive(Handle[t], 0)
    BY <1>1, <1>2 DEF Promised!Waive
  <2> QED
    BY <1>1, <1>2, <2>1 DEF Promised!Next
<1>3. CASE promise[t] > 0
  <2>1. key = Handle[t]
    BY <1>3 DEF GrantIsBacked
  <2>2. \A l \in Locks \ {Handle[t]} : lease[l] = 0
    BY <2>1 DEF LeaseIsBacked
  <2>3. Promised!Grant(Handle[t], promise[t])
    BY <2>2 DEF Promised!Grant
  <2> QED
    BY <1>1, <2>3 DEF Promised!Next
<1> QED
  BY <1>1, <1>2, <1>3

\* Every step of the lock grants the lease, waives some of it, lets a tick pass, or
\* leaves it as it is.
LEMMA LeaseRefines ==
  ASSUME LeaseInv, [Next]_vars
  PROVE  [Promised!Next]_lease
<1> SUFFICES ASSUME lease' # lease PROVE Promised!Next
  OBVIOUS
<1> DEFINE longest == IF TTL < Extension THEN Extension ELSE TTL
<1> USE DEF LeaseInv, TypeOK
<1>1. ASSUME NEW t \in Threads, LockAcquired(t) PROVE Promised!Next
  BY <1>1, GrantMaps DEF LockAcquired
<1>2. ASSUME NEW t \in Threads, UnlockCall(t) PROVE Promised!Next
  <2>1. Promised!Waive(Handle[t], 0)
    BY <1>2 DEF UnlockCall, Promised!Waive
  <2> QED
    BY <2>1 DEF Promised!Next
<1>3. ASSUME NEW t \in Threads, ExtendCall(t) PROVE Promised!Next
  <2> DEFINE l == Handle[t]
             less == Least(lease[l], Extension)
  <2>1. less \in 0..longest /\ less <= lease[l] /\ l \in Locks
    BY DEF Least
  <2>2. lease' = [lease EXCEPT ![l] = less]
    BY <1>3 DEF ExtendCall
  <2>3. Promised!Waive(l, less)
    BY <2>1, <2>2 DEF Promised!Waive
  <2> QED
    BY <2>1, <2>3 DEF Promised!Next
<1>4. ASSUME NEW t \in Threads, ExtendReturn(t) PROVE Promised!Next
  <2>1. reply[t] = "yes" /\ lease' = [lease EXCEPT ![Handle[t]] = promise[t]]
    BY <1>4 DEF ExtendReturn
  <2> QED
    BY <1>4, <2>1, GrantMaps DEF ExtendReturn
<1>5. CASE Tick
  BY <1>5 DEF Tick, Promised!Tick, Promised!Next
<1> QED
  BY <1>1, <1>2, <1>3, <1>4, <1>5, LeaseFrame

\* A DistributedLock that is used properly implements Lease: whatever the server,
\* the network and the retries do, its owners see one lease granted in turn.
THEOREM LeaseRefinement == ASSUME ProperUse PROVE Spec => ImplementsLease
<1>1. Init => Promised!Init
  BY DEF Init, Promised!Init
<1> QED
  BY <1>1, LeaseRefines, Leases, PTL DEF Spec, ImplementsLease, Promised!Spec

\* A lease is one owner's at a time, because it is granted only when it is free and
\* running out makes nobody rely on it again.
THEOREM LeaseExclusive == Promised!Spec => []Promised!Exclusive
<1>1. Promised!Init => Promised!Exclusive
  BY DEF Promised!Init, Promised!Exclusive
<1>2. Promised!Exclusive /\ [Promised!Next]_lease => Promised!Exclusive'
  <2> SUFFICES ASSUME Promised!Exclusive, [Promised!Next]_lease
               PROVE  Promised!Exclusive'
    OBVIOUS
  <2> USE DEF Promised!Exclusive
  <2>1. ASSUME NEW l \in Locks,
               NEW ticks \in 0..(IF TTL < Extension THEN Extension ELSE TTL),
               Promised!Grant(l, ticks) \/ Promised!Waive(l, ticks)
        PROVE  Promised!Exclusive'
    BY <2>1 DEF Promised!Grant, Promised!Waive
  <2>2. CASE Promised!Tick
    BY <2>2 DEF Promised!Tick
  <2>3. CASE lease' = lease
    BY <2>3
  <2> QED
    BY <2>1, <2>2, <2>3 DEF Promised!Next
<1> QED
  BY <1>1, <1>2, PTL DEF Promised!Spec
=============================================================================
