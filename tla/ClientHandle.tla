---------------------------- MODULE ClientHandle ----------------------------
(***************************************************************************)
(* What the Redis plugin promises about the clients it constructs, without *)
(* locks, callers, contexts or collectors: a client is dialled, is         *)
(* published to the rest of the application only while no other client is, *)
(* is withdrawn before it is closed, and once withdrawn is closed in the   *)
(* end.  Lifecycle.tla is shown to implement this module.                  *)
(***************************************************************************)
EXTENDS Naturals

CONSTANT MaxGen         \* how many clients are constructed, at most

VARIABLE life           \* client generation -> stage of its life

Clients == 1..MaxGen
Stages  == {"none", "dialled", "published", "retired", "closed"}

Init == life = [g \in Clients |-> "none"]

\* StartupTasksContext constructs a client; nobody else can reach it yet.
Dial(g) ==
    /\ life[g] = "none"
    /\ life' = [life EXCEPT ![g] = "dialled"]

\* The client becomes the one every getter returns.
Publish(g) ==
    /\ life[g] = "dialled"
    /\ \A h \in Clients : life[h] # "published"
    /\ life' = [life EXCEPT ![g] = "published"]

\* CleanupTasksContext takes the client back.
Withdraw(g) ==
    /\ life[g] = "published"
    /\ life' = [life EXCEPT ![g] = "retired"]

\* A client nobody can obtain is closed: the startup ping failed, or it was
\* withdrawn.
Close(g) ==
    /\ life[g] \in {"dialled", "retired"}
    /\ life' = [life EXCEPT ![g] = "closed"]

\* The process dies and takes every connection with it.
Crash ==
    life' = [g \in Clients |-> IF life[g] = "none" THEN "none" ELSE "closed"]

Next ==
    \/ \E g \in Clients : Dial(g) \/ Publish(g) \/ Withdraw(g) \/ Close(g)
    \/ Crash

Spec == Init /\ [][Next]_life

\* No client stays retired or dialled for ever.
FairSpec ==
    /\ Spec
    /\ \A g \in Clients : WF_life(Close(g))
=============================================================================
