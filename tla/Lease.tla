------------------------------- MODULE Lease -------------------------------
(***************************************************************************)
(* What a DistributedLock promises its owners, without a server, requests, *)
(* retries or mutexes: the lock is granted for a time, to one owner after  *)
(* another, and a grant runs out by itself.  DistributedLock.tla is shown  *)
(* to implement this module.                                               *)
(***************************************************************************)
EXTENDS Integers

CONSTANTS
    Owners,         \* those who may hold the lock
    Longest         \* the longest time it is granted for, in ticks

VARIABLE left       \* owner -> ticks for which it may still rely on the lock

Init == left = [o \in Owners |-> 0]

\* Lock, or Extend, succeeds: nobody else relies on the lock.
Grant(o, ticks) ==
    /\ \A p \in Owners \ {o} : left[p] = 0
    /\ left' = [left EXCEPT ![o] = ticks]

\* The owner relies on less: it unlocks, or does not know yet what Extend did.
Waive(o, ticks) ==
    /\ ticks <= left[o]
    /\ left' = [left EXCEPT ![o] = ticks]

Tick ==
    left' = [o \in Owners |-> IF left[o] = 0 THEN 0 ELSE left[o] - 1]

Next ==
    \/ \E o \in Owners, ticks \in 0..Longest : Grant(o, ticks) \/ Waive(o, ticks)
    \/ Tick

Spec == Init /\ [][Next]_left

\* What owners rely on: the lock is one owner's at a time.
Exclusive ==
    /\ left \in [Owners -> Nat]
    /\ \A o, p \in Owners : left[o] > 0 /\ left[p] > 0 => o = p
=============================================================================
