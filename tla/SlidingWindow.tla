--------------------------- MODULE SlidingWindow ---------------------------
(***************************************************************************)
(* What a RateLimiter promises, without a server, a sorted set, clocks or  *)
(* retries: in any stretch of time no more than Limit calls are admitted.  *)
(* RateLimiter.tla is shown to implement this module.                      *)
(***************************************************************************)
EXTENDS Integers, FiniteSets

CONSTANTS
    Calls,          \* calls of Allow
    Limit,          \* how many are admitted
    Stretch,        \* in how many ticks
    Old             \* an age that no longer matters, or that of no admission

VARIABLE age        \* call -> ticks since it was admitted

Recent == {c \in Calls : age[c] < Stretch}

Init == age = [c \in Calls |-> Old]

Admit(c) ==
    /\ c \notin Recent
    /\ Cardinality(Recent) < Limit
    /\ age' = [age EXCEPT ![c] = 0]

\* The limiter is reset, or every admission is too old to count.
Forget == age' = [c \in Calls |-> Old]

Tick == age' = [c \in Calls |-> IF age[c] < Old THEN age[c] + 1 ELSE Old]

Next == (\E c \in Calls : Admit(c)) \/ Forget \/ Tick

Spec == Init /\ [][Next]_age

\* What the users of a limiter rely on.
WithinLimit == Cardinality(Recent) <= Limit
=============================================================================
