---------------------------- MODULE RateLimiter ----------------------------
(***************************************************************************)
(* RateLimiter: a sliding window over one sorted set of a Redis server.    *)
(* Allow is one atomic script, but the time it goes by is the caller's: it *)
(* is read before the request is sent, from the clock of one process among *)
(* many, so the server sees it Behind ticks late at most, or Ahead early.  *)
(*                                                                         *)
(* Scores are modelled by their age, so the state is finite without a bound *)
(* on time.  A member of the sorted set stands for one Allow call.         *)
(***************************************************************************)
EXTENDS Integers, FiniteSets

CONSTANTS
    Clients,        \* goroutines that call the limiter
    Members,        \* bound: the calls that can be told apart at any time
    None,           \* no call
    Limit,          \* limit of every Allow
    Window,         \* window of every Allow, in ticks
    UsageWindows,   \* windows GetUsage is called with
    Behind,         \* how old a caller's time may be when its script runs
    Ahead,          \* how far in the future it may be
    Oldest,         \* bound: an age at which every trim removes a member
    Resends         \* how often go-redis sends a command again

ASSUME LimiterAssumption ==
    /\ IsFiniteSet(Members) /\ None \notin Members
    /\ Limit \in Nat \ {0} /\ Window \in Nat \ {0}
    /\ UsageWindows \subseteq Nat
    /\ Behind \in Nat /\ Ahead \in Nat /\ Resends \in Nat
    /\ Oldest \in Nat
    /\ \A window \in UsageWindows \cup {Window} : Oldest >= window + Behind

VARIABLES
    zset,       \* members of the sorted set
    pttl,       \* the ticks the key has left
    score,      \* member -> age of its score
    at,         \* member -> ticks since it was added, Horizon: long ago or never
    sent,       \* client -> the member its call would add, or None
    reply,      \* client -> what the script returned
    resends     \* client -> how often go-redis will still send the script

serverVars == <<zset, pttl, at>>
callVars   == <<sent, reply, resends>>
vars       == <<serverVars, score, callVars>>

Least(x, y) == IF x < y THEN x ELSE y

Errors   == (-Ahead)..Behind
Horizon  == Window + Behind + Ahead
InFlight == {m \in Members : \E c \in Clients : sent[c] = m}

TypeOK ==
    /\ zset \subseteq Members
    /\ pttl \in 0..Window
    /\ score \in [Members -> (-Ahead)..Oldest]
    /\ at \in [Members -> 0..Horizon]
    /\ sent \in [Clients -> Members \cup {None}]
    /\ reply \in [Clients -> {"none", "yes", "no"}]
    /\ resends \in [Clients -> 0..Resends]

Init ==
    /\ zset = {}
    /\ pttl = 0
    /\ score = [m \in Members |-> 0]
    /\ at = [m \in Members |-> Horizon]
    /\ sent = [c \in Clients |-> None]
    /\ reply = [c \in Clients |-> "none"]
    /\ resends = [c \in Clients |-> 0]
-----------------------------------------------------------------------------
(* Allow                                                                   *)

\* The caller reads its clock, draws a member and sends the script.
Allow(c) ==
    /\ sent[c] = None
    /\ \E m \in Members \ (zset \cup InFlight), e \in Errors :
          /\ at[m] = Horizon
          /\ sent' = [sent EXCEPT ![c] = m]
          /\ score' = [score EXCEPT ![m] = e]
    /\ reply' = [reply EXCEPT ![c] = "none"]
    /\ resends' = [resends EXCEPT ![c] = Resends]
    /\ UNCHANGED serverVars

\* Mutants of Kept: nothing is removed; a tick too much is removed.
KeptAll(e, window) == zset

KeptTooFew(e, window) == {m \in zset : score[m] < e + window - 1}

\* ZREMRANGEBYSCORE key 0 (now - window), for a now of age e: what is left.
Kept(e, window) == {m \in zset : score[m] < e + window}

\* Mutant of Full: one member too many.
FullOffByOne(members) == Cardinality(members) > Limit

\* The sorted set holds limit members or more.
Full(members) == Cardinality(members) >= Limit

\* Mutant of PExpire: it is left out.
PExpireNever == UNCHANGED pttl

\* PEXPIRE key window.
PExpire == pttl' = Window

\* Mutant of Serve: a call that is turned away is recorded as well.
ServeRecordsAll(c) ==
    LET m    == sent[c]
        kept == Kept(score[m], Window)
    IN  /\ m # None
        /\ reply[c] = "none"
        /\ score[m] <= Behind
        /\ zset' = kept \cup {m}
        /\ at' = IF m \in kept THEN at ELSE [at EXCEPT ![m] = 0]
        /\ reply' = [reply EXCEPT ![c] = IF Full(kept) THEN "no" ELSE "yes"]
        /\ PExpire
        /\ UNCHANGED <<score, sent, resends>>

\* The script.  Run again for a call it has already admitted, it finds the
\* member in the set and adds nothing.
Serve(c) ==
    LET m    == sent[c]
        kept == Kept(score[m], Window)
    IN  /\ m # None
        /\ reply[c] = "none"
        /\ score[m] <= Behind
        /\ \/ /\ Full(kept)
              /\ zset' = kept
              /\ reply' = [reply EXCEPT ![c] = "no"]
              /\ UNCHANGED <<pttl, at>>
           \/ /\ ~Full(kept)
              /\ zset' = kept \cup {m}
              /\ at' = IF m \in kept THEN at ELSE [at EXCEPT ![m] = 0]
              /\ reply' = [reply EXCEPT ![c] = "yes"]
              /\ PExpire
        /\ UNCHANGED <<score, sent, resends>>

\* The request or its reply is lost: go-redis sends the same script again.
Resend(c) ==
    /\ sent[c] # None
    /\ resends[c] > 0
    /\ resends' = [resends EXCEPT ![c] = @ - 1]
    /\ reply' = [reply EXCEPT ![c] = "none"]
    /\ UNCHANGED <<serverVars, score, sent>>

\* The call returns: with the reply, or with an error whatever the script did.
Return(c) ==
    /\ sent[c] # None
    /\ sent' = [sent EXCEPT ![c] = None]
    /\ reply' = [reply EXCEPT ![c] = "none"]
    /\ resends' = [resends EXCEPT ![c] = 0]
    /\ UNCHANGED <<serverVars, score>>
-----------------------------------------------------------------------------
(* GetUsage and Reset                                                      *)

\* GetUsage trims the set by a window and a clock of its own before it counts.
GetUsage ==
    /\ \E e \in Errors, window \in UsageWindows : zset' = Kept(e, window)
    /\ UNCHANGED <<pttl, at, score, callVars>>

\* The key is deleted: the limit starts over.
Reset ==
    /\ zset' = {}
    /\ pttl' = 0
    /\ at' = [m \in Members |-> Horizon]
    /\ UNCHANGED <<score, callVars>>
-----------------------------------------------------------------------------
\* A tick passes; a key whose time is up is gone.
Tick ==
    /\ zset' = IF pttl = 1 THEN {} ELSE zset
    /\ pttl' = IF pttl = 0 THEN 0 ELSE pttl - 1
    /\ at' = [m \in Members |-> IF at[m] < Horizon THEN at[m] + 1 ELSE Horizon]
    /\ score' = [m \in Members |->
          IF m \in zset'          THEN Least(score[m] + 1, Oldest)
          ELSE IF m \in InFlight  THEN Least(score[m], Behind) + 1
          ELSE 0]
    /\ UNCHANGED callVars

Next ==
    \/ \E c \in Clients : Allow(c) \/ Serve(c) \/ Resend(c) \/ Return(c)
    \/ GetUsage \/ Reset \/ Tick

Spec == Init /\ [][Next]_vars
=============================================================================
