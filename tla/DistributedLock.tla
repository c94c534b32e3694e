-------------------------- MODULE DistributedLock --------------------------
(***************************************************************************)
(* DistributedLock: mutual exclusion by one key of a Redis server.  Each   *)
(* instance has a value of its own; a lock is SET NX with a time to live,  *)
(* Unlock and Extend are scripts that act only on the instance's value.    *)
(* The go-redis client sends a command again when no reply comes back, and *)
(* a request that was given up may still reach the server.                 *)
(*                                                                         *)
(* Time passes in ticks.  Nothing holds a clock: what has a duration counts *)
(* down, so the state is finite without a bound on time.                   *)
(***************************************************************************)
EXTENDS Integers

CONSTANTS
    Locks,          \* DistributedLock instances for one key, each with its value
    Threads,        \* goroutines that call them
    Handle,         \* thread -> the instance it calls
    None,           \* no key, a free mutex
    TTL,            \* ttl of the instances, in ticks
    Extension,      \* additionalTTL of every Extend, in ticks
    Second,         \* ticks in a second
    MaxAttempts,    \* bound: the largest maxRetries of LockWithRetry
    Resends,        \* how often go-redis sends a command again
    Delayed         \* instances whose requests may arrive after they were given up

ASSUME LockAssumption ==
    /\ Handle \in [Threads -> Locks]
    /\ None \notin Locks \cup Threads
    /\ TTL \in Nat \ {0} /\ Extension \in Nat \ {0} /\ Second \in Nat \ {0}
    /\ MaxAttempts \in Nat \ {0} /\ Resends \in Nat
    /\ Delayed \subseteq Locks

VARIABLES
    key,        \* the instance whose value the key holds, or None
    pttl,       \* the ticks the key has left
    late,       \* requests that were given up and are still on their way
    unlocked,   \* instance -> its field unlocked
    mu,         \* instance -> the thread that holds its mutex, or None
    pc,         \* thread -> the command it has sent, "wait" between two attempts
    reply,      \* thread -> the server's answer to that command
    attempts,   \* thread -> attempts LockWithRetry has left
    resends,    \* thread -> how often go-redis will still send the command
    promise,    \* thread -> ticks left of what its call would grant
    lease,      \* instance -> ticks left of what its owner was granted
    stage       \* instance -> what its owner has done with it

serverVars == <<key, pttl>>
callVars   == <<pc, reply, attempts, resends, promise>>
ownerVars  == <<lease, stage>>
fieldVars  == <<unlocked, mu>>
vars == <<serverVars, late, fieldVars, callVars, ownerVars>>

Ops      == {"lock", "unlock", "extend"}
Requests == [lock : Locks, op : Ops]
Least(x, y) == IF x < y THEN x ELSE y

TypeOK ==
    /\ key \in Locks \cup {None}
    /\ pttl \in Nat
    /\ late \subseteq Requests
    /\ unlocked \in [Locks -> BOOLEAN]
    /\ mu \in [Locks -> Threads \cup {None}]
    /\ pc \in [Threads -> Ops \cup {"idle", "wait"}]
    /\ reply \in [Threads -> {"none", "yes", "no"}]
    /\ attempts \in [Threads -> 0..MaxAttempts]
    /\ resends \in [Threads -> 0..Resends]
    /\ promise \in [Threads -> Nat]
    /\ lease \in [Locks -> Nat]
    /\ stage \in [Locks -> {"fresh", "locked", "unlocking"}]

Init ==
    /\ key = None
    /\ pttl = 0
    /\ late = {}
    /\ unlocked = [l \in Locks |-> FALSE]
    /\ mu = [l \in Locks |-> None]
    /\ pc = [t \in Threads |-> "idle"]
    /\ reply = [t \in Threads |-> "none"]
    /\ attempts = [t \in Threads |-> 0]
    /\ resends = [t \in Threads |-> 0]
    /\ promise = [t \in Threads |-> 0]
    /\ lease = [l \in Locks |-> 0]
    /\ stage = [l \in Locks |-> "fresh"]
-----------------------------------------------------------------------------
(* The server                                                              *)

\* The TTL Extend asks for: whole seconds.
Granted == (Extension \div Second) * Second

\* Mutants of SetNX: the key is set even if another instance holds it; it is set
\* without a time to live.
SetWithoutNX(l) == key' = l /\ pttl' = TTL

SetForever(l) ==
    IF key = None
    THEN key' = l /\ pttl' = 0
    ELSE UNCHANGED serverVars

\* SET key value NX PX ttl.
SetNX(l) ==
    IF key = None
    THEN key' = l /\ pttl' = TTL
    ELSE UNCHANGED serverVars

\* Mutants of ReleaseScript: the value is not compared; the comparison is the wrong
\* way round.
DeleteScript(l) == key' = None /\ pttl' = 0

MismatchedScript(l) ==
    IF key \notin {l, None}
    THEN key' = None /\ pttl' = 0
    ELSE UNCHANGED serverVars

\* DEL, if the key still holds the value of the instance.
ReleaseScript(l) ==
    IF key = l
    THEN key' = None /\ pttl' = 0
    ELSE UNCHANGED serverVars

\* Mutants of ExtendScript: the value is not compared; the key's TTL is left alone.
ExpireScript(l) ==
    IF key # None
    THEN key' = (IF Granted = 0 THEN None ELSE key) /\ pttl' = Granted
    ELSE UNCHANGED serverVars

KeepTTLScript(l) == UNCHANGED serverVars

\* EXPIRE with a TTL of zero deletes the key, and succeeds.
ExtendScript(l) ==
    IF key = l
    THEN key' = (IF Granted = 0 THEN None ELSE l) /\ pttl' = Granted
    ELSE UNCHANGED serverVars

Run(l, op) ==
    \/ op = "lock" /\ SetNX(l)
    \/ op = "unlock" /\ ReleaseScript(l)
    \/ op = "extend" /\ ExtendScript(l)

Succeeds(l, op) == key = IF op = "lock" THEN None ELSE l

\* The server executes the command of a thread that waits for the reply.
Serve(t) ==
    /\ pc[t] \in Ops
    /\ reply[t] = "none"
    /\ Run(Handle[t], pc[t])
    /\ reply' =
          [reply EXCEPT ![t] = IF Succeeds(Handle[t], pc[t]) THEN "yes" ELSE "no"]
    /\ UNCHANGED <<late, fieldVars, pc, attempts, resends, promise, ownerVars>>

\* The server executes a command nobody waits for any more.
ServeLate(r) ==
    /\ r \in late
    /\ Run(r.lock, r.op)
    /\ late' = late \ {r}
    /\ UNCHANGED <<fieldVars, callVars, ownerVars>>

LoseLate(r) ==
    /\ r \in late
    /\ late' = late \ {r}
    /\ UNCHANGED <<serverVars, fieldVars, callVars, ownerVars>>

\* A tick passes; a key whose time is up is gone.
Tick ==
    /\ key' = IF pttl = 1 THEN None ELSE key
    /\ pttl' = IF pttl = 0 THEN 0 ELSE pttl - 1
    /\ promise' = [t \in Threads |-> IF promise[t] = 0 THEN 0 ELSE promise[t] - 1]
    /\ lease' = [l \in Locks |-> IF lease[l] = 0 THEN 0 ELSE lease[l] - 1]
    /\ UNCHANGED <<late, fieldVars, pc, reply, attempts, resends, stage>>
-----------------------------------------------------------------------------
(* The client                                                              *)

\* A command is sent; what it grants counts from now.
Send(t, op, granted) ==
    /\ pc' = [pc EXCEPT ![t] = op]
    /\ promise' = [promise EXCEPT ![t] = granted]
    /\ resends' = [resends EXCEPT ![t] = Resends]

\* The call is over, or waits for its next attempt.
Settle(t, where) ==
    /\ pc' = [pc EXCEPT ![t] = where]
    /\ reply' = [reply EXCEPT ![t] = "none"]
    /\ promise' = [promise EXCEPT ![t] = 0]
    /\ resends' = [resends EXCEPT ![t] = 0]
    /\ attempts' = [attempts EXCEPT ![t] = IF where = "idle" THEN 0 ELSE @]

\* A request that is given up before it was served may be on its way for long.
Abandoned(t) ==
    \/ UNCHANGED late
    \/ /\ reply[t] = "none"
       /\ Handle[t] \in Delayed
       /\ late' = late \cup {[lock |-> Handle[t], op |-> pc[t]]}

\* The request or its reply is lost, and go-redis sends the command again.
Resend(t) ==
    /\ pc[t] \in Ops
    /\ resends[t] > 0
    /\ resends' = [resends EXCEPT ![t] = @ - 1]
    /\ reply' = [reply EXCEPT ![t] = "none"]
    /\ Abandoned(t)
    /\ UNCHANGED <<serverVars, fieldVars, pc, attempts, promise, ownerVars>>

\* Mutant of Fail: the early return does not release the instance's mutex.
FailLocked(t) ==
    /\ pc[t] \in Ops
    /\ Abandoned(t)
    /\ Settle(t, "idle")
    /\ UNCHANGED <<serverVars, fieldVars, ownerVars>>

\* The context is done, or go-redis gives up: the call returns the error.
Fail(t) ==
    /\ pc[t] \in Ops
    /\ Abandoned(t)
    /\ Settle(t, "idle")
    /\ mu' = [l \in Locks |-> IF mu[l] = t THEN None ELSE mu[l]]
    /\ UNCHANGED <<serverVars, unlocked, ownerVars>>
-----------------------------------------------------------------------------
(* Lock and LockWithRetry: no mutex is taken                               *)

\* An instance whose requests may be late is locked by one successful call, and
\* unlocked after its last Extend: the value is the instance's, not the call's.
LockCall(t) ==
    /\ pc[t] = "idle"
    /\ Handle[t] \in Delayed => stage[Handle[t]] = "fresh"
    /\ \E maxRetries \in 1..MaxAttempts :
          attempts' = [attempts EXCEPT ![t] = maxRetries]
    /\ Send(t, "lock", TTL)
    /\ UNCHANGED <<serverVars, late, fieldVars, reply, ownerVars>>

LockAcquired(t) ==
    /\ pc[t] = "lock" /\ reply[t] = "yes"
    /\ lease' = [lease EXCEPT ![Handle[t]] = promise[t]]
    /\ stage' = [stage EXCEPT ![Handle[t]] = "locked"]
    /\ Settle(t, "idle")
    /\ UNCHANGED <<serverVars, late, fieldVars>>

LockTaken(t) ==
    /\ pc[t] = "lock" /\ reply[t] = "no"
    /\ Settle(t, "wait")
    /\ UNCHANGED <<serverVars, late, fieldVars, ownerVars>>

\* The delay is over, and attempts are left.
Retry(t) ==
    /\ pc[t] = "wait"
    /\ attempts[t] > 1
    /\ attempts' = [attempts EXCEPT ![t] = @ - 1]
    /\ Send(t, "lock", TTL)
    /\ UNCHANGED <<serverVars, late, fieldVars, reply, ownerVars>>

\* It was the last attempt, or the context is done.
LockGiveUp(t) ==
    /\ pc[t] = "wait"
    /\ Settle(t, "idle")
    /\ UNCHANGED <<serverVars, late, fieldVars, ownerVars>>
-----------------------------------------------------------------------------
(* Unlock and Extend: under the instance's mutex, and refused once Unlock  *)
(* has succeeded.  The owner relies on the lock no longer than the call    *)
(* allows: not at all once it unlocks, for Extension once it extends.      *)

Enter(t) ==
    /\ pc[t] = "idle"
    /\ mu[Handle[t]] = None
    /\ ~unlocked[Handle[t]]
    /\ mu' = [mu EXCEPT ![Handle[t]] = t]
    /\ UNCHANGED <<serverVars, late, unlocked, reply, attempts>>

UnlockCall(t) ==
    /\ Enter(t)
    /\ Handle[t] \in Delayed => stage[Handle[t]] # "fresh"
    /\ Send(t, "unlock", 0)
    /\ lease' = [lease EXCEPT ![Handle[t]] = 0]
    /\ stage' = [stage EXCEPT ![Handle[t]] = "unlocking"]

UnlockReturn(t) ==
    /\ pc[t] = "unlock" /\ reply[t] # "none"
    /\ unlocked' = [unlocked EXCEPT ![Handle[t]] = reply[t] = "yes"]
    /\ mu' = [mu EXCEPT ![Handle[t]] = None]
    /\ Settle(t, "idle")
    /\ UNCHANGED <<serverVars, late, ownerVars>>

ExtendCall(t) ==
    /\ Enter(t)
    /\ Handle[t] \in Delayed => stage[Handle[t]] = "locked"
    /\ Send(t, "extend", Extension)
    /\ lease' = [lease EXCEPT ![Handle[t]] = Least(@, Extension)]
    /\ UNCHANGED stage

ExtendReturn(t) ==
    /\ pc[t] = "extend" /\ reply[t] # "none"
    /\ lease' = IF reply[t] = "yes"
                THEN [lease EXCEPT ![Handle[t]] = promise[t]]
                ELSE lease
    /\ mu' = [mu EXCEPT ![Handle[t]] = None]
    /\ Settle(t, "idle")
    /\ UNCHANGED <<serverVars, late, unlocked, stage>>
-----------------------------------------------------------------------------
ThreadStep(t) ==
    \/ LockCall(t) \/ LockAcquired(t) \/ LockTaken(t) \/ Retry(t) \/ LockGiveUp(t)
    \/ UnlockCall(t) \/ UnlockReturn(t) \/ ExtendCall(t) \/ ExtendReturn(t)
    \/ Serve(t) \/ Resend(t) \/ Fail(t)

Next ==
    \/ \E t \in Threads : ThreadStep(t)
    \/ \E r \in Requests : ServeLate(r) \/ LoseLate(r)
    \/ Tick

Spec == Init /\ [][Next]_vars
=============================================================================
