----------------------- MODULE RateLimiterProperties -----------------------
(***************************************************************************)
(* What a RateLimiter promises, given how far callers' clocks may be off.  *)
(***************************************************************************)
EXTENDS RateLimiter

\* The calls admitted less than d ticks ago, by the server's clock.
Admitted(d) == {m \in Members : at[m] < d}

\* No more than Limit calls are admitted in any stretch of time as long as the
\* window less the clocks' error: the callers trim the set by their own time.
WindowLimit == Cardinality(Admitted(Window - Behind - Ahead)) <= Limit

Refused(c) == reply[c] = "none" /\ reply'[c] = "no"

\* The other calls that were admitted in the last window plus the clocks' error.
Others(c) == Admitted(Horizon) \ {sent[c]}

\* A call is turned away only if Limit other calls were admitted recently, with
\* one exception: if its own script has run before, was given room and lost its
\* reply, the second run counts the member of the first and may turn away the
\* call that has the Limit-th place itself.
NeverTooStrict ==
    [][\A c \in Clients : Refused(c) =>
          /\ sent[c] \notin Admitted(Horizon) => Cardinality(Others(c)) >= Limit
          /\ Cardinality(Others(c)) >= Limit - 1]_vars

\* A call is never turned away for itself: true only if no command is sent again.
RefusedForOthers ==
    [][\A c \in Clients : Refused(c) => Cardinality(Others(c)) >= Limit]_vars

\* A set nobody adds to disappears: PEXPIRE is renewed by admissions only.
FairSpec == Spec /\ WF_vars(Tick)

SetRunsOut == []<>(zset = {} \/ \E c \in Clients : sent[c] # None)
-----------------------------------------------------------------------------
(* Refinement of SlidingWindow                                             *)

Ideal == INSTANCE SlidingWindow WITH
    Calls <- Members,
    Stretch <- Window - Behind - Ahead,
    Old <- Horizon,
    age <- at

\* Callers see a window that slides with the server's clock, shorter than the one
\* they asked for by what their own clocks are off.
ImplementsSlidingWindow == Ideal!Spec
-----------------------------------------------------------------------------
(* The inductive invariant                                                 *)

\* GetUsage is not called with a window shorter than the limiter's.
ProperUse == \A window \in UsageWindows : window >= Window

\* A call that was admitted within the guaranteed stretch is in the set.
RecentIsKept == Admitted(Window - Behind - Ahead) \subseteq zset

\* A member's score is off by no more than the clocks' error, and its key lives
\* until it is a window old.
ScoreInv ==
    /\ \A m \in zset :
          /\ score[m] >= at[m] - Ahead
          /\ at[m] < Horizon => score[m] <= at[m] + Behind
          /\ at[m] < Window => pttl >= Window - at[m]
    /\ \A m \in InFlight : score[m] >= -Ahead

\* The set never holds more than Limit members.
SetBounded == Cardinality(zset) <= Limit

\* Without retries, a script that has not run has not counted its call.
OneRun ==
    /\ \A c, d \in Clients : sent[c] = sent[d] /\ sent[c] # None => c = d
    /\ Resends = 0 =>
          /\ \A c \in Clients : resends[c] = 0
          /\ \A c \in Clients :
                sent[c] # None /\ reply[c] = "none" => at[sent[c]] = Horizon

LimiterInv ==
    /\ TypeOK
    /\ SetBounded
    /\ RecentIsKept
    /\ ScoreInv
=============================================================================
