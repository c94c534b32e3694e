--------------------- MODULE DistributedLockProperties ---------------------
(***************************************************************************)
(* What owners of a DistributedLock may rely on.                           *)
(***************************************************************************)
EXTENDS DistributedLock

\* Two instances never hold the lock at the same time, as their owners count the
\* time: from the moment the command that granted it was first sent.
MutualExclusion ==
    \A l, m \in Locks : lease[l] > 0 /\ lease[m] > 0 => l = m

\* While an owner may rely on the lock, the key holds its value and will not
\* expire earlier than the owner expects.
LeaseIsBacked ==
    \A l \in Locks : lease[l] > 0 => key = l /\ pttl >= lease[l]

\* A key disappears when its time is up, or because the instance whose value it
\* holds asked for it: never by another's Unlock or Extend, however late.
OnlyOwnerReleases ==
    [][\A l \in Locks : key = l /\ key' # l =>
          \/ pttl = 1 /\ UNCHANGED <<reply, late>>
          \/ \E t \in Threads : /\ Handle[t] = l /\ pc[t] = "unlock"
                                /\ reply[t] = "none" /\ reply'[t] = "yes"
          \/ [lock |-> l, op |-> "unlock"] \in late \ late']_vars

\* When Extend returns nil, the lock is still in Redis and will be for what is
\* left of the time that was asked for.
ExtendDelivers ==
    [][\A t \in Threads :
          ExtendReturn(t) /\ reply[t] = "yes" /\ promise[t] > 0 =>
              key = Handle[t] /\ pttl >= promise[t]]_vars

\* Whatever happens to the owner, even if its process dies with the lock, the
\* key runs out unless Extend is called for ever.
FairSpec == Spec /\ WF_vars(Tick)

KeyRunsOut ==
    \A l \in Locks :
        []<>(key # l \/ \E t \in Threads : Handle[t] = l /\ pc[t] = "extend")

\* When Unlock has an answer the key does not hold the instance's value, whichever
\* the answer: "not held" may only mean that the reply to the script which did
\* release the lock was lost.  (A late SET NX may still set the key again.)
UnlockReleases ==
    [][\A t \in Threads :
          UnlockReturn(t) /\ Handle[t] \notin Delayed => key # Handle[t]]_vars
-----------------------------------------------------------------------------
(* Refinement of Lease                                                     *)

Promised == INSTANCE Lease WITH
    Owners <- Locks,
    Longest <- IF TTL < Extension THEN Extension ELSE TTL,
    left <- lease

\* The owners of the lock see a lease that one of them has at a time, and that is
\* never granted for longer than was asked for.
ImplementsLease == Promised!Spec
-----------------------------------------------------------------------------
(* The inductive invariant                                                 *)

\* Extend asks for whole seconds, and every thread has an instance of its own:
\* what the promises of a lock depend on.
ProperUse ==
    /\ Granted = Extension
    /\ \A t, u \in Threads : Handle[t] = Handle[u] => t = u

\* An instance's mutex is held exactly during its Unlock and Extend.
MutexHeld ==
    /\ \A t \in Threads : pc[t] \in {"unlock", "extend"} => mu[Handle[t]] = t
    /\ \A l \in Locks : mu[l] # None =>
          Handle[mu[l]] = l /\ pc[mu[l]] \in {"unlock", "extend"}

\* Only a command has a reply.  A call promises no more than it asked for; while
\* Unlock or Extend runs, the owner counts on no more than the call will leave.
PromiseBounded ==
    \A t \in Threads :
        /\ pc[t] \in {"idle", "wait"} => reply[t] = "none"
        /\ pc[t] = "lock" => promise[t] <= TTL
        /\ pc[t] = "extend" => promise[t] <= Extension
        /\ pc[t] = "unlock" => promise[t] = 0
        /\ pc[t] \in {"unlock", "extend"} => lease[Handle[t]] <= promise[t]

\* A lock the server has granted or extended is there when the reply arrives.
GrantIsBacked ==
    \A t \in Threads :
        pc[t] \in {"lock", "extend"} /\ reply[t] = "yes" /\ promise[t] > 0 =>
            key = Handle[t] /\ pttl >= promise[t]

\* Where the owner of an instance with late requests can be in its life.
StageInv ==
    /\ \A t \in Threads : Handle[t] \in Delayed =>
          /\ pc[t] \in {"lock", "wait"} => stage[Handle[t]] = "fresh"
          /\ pc[t] = "extend" => stage[Handle[t]] = "locked"
          /\ pc[t] = "unlock" => stage[Handle[t]] = "unlocking"
    /\ \A l \in Delayed : stage[l] = "unlocking" => lease[l] = 0

\* A late Unlock finds an owner that has let go, a late Extend one that counts on
\* no more than it grants.
LateInv ==
    \A r \in late :
        /\ r.lock \in Delayed
        /\ r.op = "unlock" => stage[r.lock] = "unlocking"
        /\ r.op = "extend" => stage[r.lock] # "fresh" /\ lease[r.lock] <= Extension

\* The script behind an answered Unlock has removed the instance's value, and no
\* request of the instance is left to set it again.
ReleasedInv ==
    \A t \in Threads :
        pc[t] = "unlock" /\ reply[t] # "none" /\ Handle[t] \notin Delayed =>
            key # Handle[t]

LeaseInv ==
    /\ TypeOK
    /\ MutexHeld
    /\ PromiseBounded
    /\ LeaseIsBacked
    /\ GrantIsBacked
    /\ StageInv
    /\ LateInv
=============================================================================
