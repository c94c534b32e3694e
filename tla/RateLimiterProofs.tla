------------------------- MODULE RateLimiterProofs -------------------------
(***************************************************************************)
(* Machine-checked proofs about RateLimiter, for any limit, any window and *)
(* any error of the callers' clocks: GetUsage is never called with a       *)
(* window shorter than Allow's (ProperUse).                                *)
(***************************************************************************)
EXTENDS RateLimiterProperties, TLAPS, FiniteSetTheorems

USE LimiterAssumption

\* Sets of members are finite, and smaller ones have no more members.
LEMMA MemberSets ==
  /\ \A S \in SUBSET Members : IsFiniteSet(S) /\ Cardinality(S) \in Nat
  /\ \A S, T \in SUBSET Members : S \subseteq T => Cardinality(S) <= Cardinality(T)
<1>1. \A S \in SUBSET Members : IsFiniteSet(S)
  BY FS_Subset
<1>2. \A S \in SUBSET Members : Cardinality(S) \in Nat
  BY <1>1, FS_CardinalityType
<1>3. \A S, T \in SUBSET Members : S \subseteq T => Cardinality(S) <= Cardinality(T)
  BY <1>1, FS_Subset
<1> QED
  BY <1>1, <1>2, <1>3

\* Nothing is admitted or sent in the beginning.
LEMMA InitLimiterInv == Init => LimiterInv
<1> SUFFICES ASSUME Init PROVE LimiterInv
  OBVIOUS
<1> USE DEF Init, Horizon
<1>1. TypeOK
  BY DEF TypeOK
<1>2. SetBounded
  BY FS_EmptySet DEF SetBounded
<1>3. RecentIsKept
  BY DEF RecentIsKept, Admitted
<1>4. ScoreInv
  BY DEF ScoreInv, InFlight
<1> QED
  BY <1>1, <1>2, <1>3, <1>4 DEF LimiterInv

\* Every action keeps the types.
LEMMA TypeStep ==
  ASSUME TypeOK, [Next]_vars
  PROVE  TypeOK'
<1> USE DEF TypeOK, serverVars, callVars, Horizon
<1>1. ASSUME NEW c \in Clients, Allow(c) PROVE TypeOK'
  BY <1>1 DEF Allow, Errors
<1>2. ASSUME NEW c \in Clients, Serve(c) PROVE TypeOK'
  BY <1>2 DEF Serve, Kept, PExpire
<1>3. ASSUME NEW c \in Clients, Resend(c) \/ Return(c) PROVE TypeOK'
  BY <1>3 DEF Resend, Return
<1>4. CASE GetUsage
  BY <1>4 DEF GetUsage, Kept
<1>5. CASE Reset
  BY <1>5 DEF Reset
<1>6. CASE Tick
  BY <1>6 DEF Tick, Least
<1>7. CASE UNCHANGED vars
  BY <1>7 DEF vars
<1> QED
  BY <1>1, <1>2, <1>3, <1>4, <1>5, <1>6, <1>7 DEF Next

\* A set grows by one member at most when one is added.
LEMMA OneMore ==
  ASSUME NEW S, NEW x, IsFiniteSet(S)
  PROVE  /\ Cardinality(S \cup {x}) \in Nat
         /\ Cardinality(S \cup {x}) <= Cardinality(S) + 1
<1>1. Cardinality(S) \in Nat
  BY FS_CardinalityType
<1>2. Cardinality(S \cup {x}) =
        IF x \in S THEN Cardinality(S) ELSE Cardinality(S) + 1
  BY FS_AddElement
<1> QED
  BY <1>1, <1>2

\* The script adds a member only to a set that has room for it; everything else
\* removes members.
LEMMA BoundStep ==
  ASSUME TypeOK, SetBounded, [Next]_vars
  PROVE  SetBounded'
<1> USE DEF SetBounded, TypeOK, serverVars, callVars
<1>1. zset' \subseteq zset => SetBounded'
  BY MemberSets
<1>2. ASSUME NEW c \in Clients, Serve(c) PROVE SetBounded'
  <2> DEFINE kept == Kept(score[sent[c]], Window)
  <2>1. kept \subseteq zset
    BY DEF Kept
  <2>2. CASE zset' = kept
    BY <1>1, <2>1, <2>2
  <2>3. CASE ~Full(kept) /\ zset' = kept \cup {sent[c]}
    <3>1. IsFiniteSet(kept) /\ Cardinality(kept) \in Nat
      BY <2>1, MemberSets
    <3>2. /\ Cardinality(kept \cup {sent[c]}) \in Nat
          /\ Cardinality(kept \cup {sent[c]}) <= Cardinality(kept) + 1
      BY <3>1, OneMore
    <3>3. Cardinality(kept) < Limit
      BY <2>3, <3>1 DEF Full
    <3>4. Cardinality(kept \cup {sent[c]}) <= Limit
      <4> HIDE DEF kept
      <4> QED BY <3>1, <3>2, <3>3
    <3> QED
      BY <2>3, <3>4
  <2> QED
    BY <1>2, <2>2, <2>3 DEF Serve
<1>3. zset' \subseteq zset \/ \E c \in Clients : Serve(c)
  BY DEF Next, Allow, Resend, Return, GetUsage, Kept, Reset, Tick, vars
<1> QED
  BY <1>1, <1>2, <1>3

\* A member leaves the set only once it is older than the guaranteed stretch: the
\* caller that trims the set is off by no more than the one that added it.
LEMMA KeptStep ==
  ASSUME ProperUse, TypeOK, RecentIsKept, ScoreInv, [Next]_vars
  PROVE  RecentIsKept'
<1> USE DEF TypeOK, RecentIsKept, Admitted, ScoreInv, serverVars, callVars, Horizon
<1>1. ASSUME NEW c \in Clients, Allow(c) PROVE RecentIsKept'
  BY <1>1 DEF Allow
<1>2. ASSUME NEW c \in Clients, Serve(c) PROVE RecentIsKept'
  BY <1>2 DEF Serve, Kept, InFlight
<1>3. ASSUME NEW c \in Clients, Resend(c) \/ Return(c) PROVE RecentIsKept'
  BY <1>3 DEF Resend, Return
<1>4. CASE GetUsage
  BY <1>4 DEF GetUsage, Kept, Errors, ProperUse
<1>5. CASE Reset
  BY <1>5 DEF Reset
<1>6. CASE Tick
  BY <1>6 DEF Tick
<1>7. CASE UNCHANGED vars
  BY <1>7 DEF vars
<1> QED
  BY <1>1, <1>2, <1>3, <1>4, <1>5, <1>6, <1>7 DEF Next

\* Scores and times since admission age together, and PEXPIRE gives the key a
\* window from the last admission.
LEMMA ScoreStep ==
  ASSUME TypeOK, ScoreInv, [Next]_vars
  PROVE  ScoreInv'
<1> USE DEF TypeOK, ScoreInv, InFlight, serverVars, callVars, Horizon
<1>1. ASSUME NEW c \in Clients, Allow(c) PROVE ScoreInv'
  BY <1>1 DEF Allow, Errors
<1>2. ASSUME NEW c \in Clients, Serve(c) PROVE ScoreInv'
  BY <1>2 DEF Serve, Kept, PExpire
<1>3. ASSUME NEW c \in Clients, Resend(c) \/ Return(c) PROVE ScoreInv'
  BY <1>3 DEF Resend, Return
<1>4. CASE GetUsage
  BY <1>4 DEF GetUsage, Kept
<1>5. CASE Reset
  BY <1>5 DEF Reset
<1>6. CASE Tick
  BY <1>6 DEF Tick, Least
<1>7. CASE UNCHANGED vars
  BY <1>7 DEF vars
<1> QED
  BY <1>1, <1>2, <1>3, <1>4, <1>5, <1>6, <1>7 DEF Next

\* No step breaks the inductive invariant.
LEMMA NextLimiterInv ==
  ASSUME ProperUse
  PROVE  LimiterInv /\ [Next]_vars => LimiterInv'
  BY TypeStep, BoundStep, KeptStep, ScoreStep DEF LimiterInv

\* The state of the limiter is well typed, whatever windows usage is asked for.
THEOREM LimiterTypes == Spec => []TypeOK
<1>1. Init => TypeOK
  BY InitLimiterInv DEF LimiterInv
<1>2. TypeOK /\ [Next]_vars => TypeOK'
  BY TypeStep
<1> QED
  BY <1>1, <1>2, PTL DEF Spec

\* The inductive invariant holds of every reachable state.
THEOREM Limiting == ASSUME ProperUse PROVE Spec => []LimiterInv
<1>1. LimiterInv /\ [Next]_vars => LimiterInv'
  BY NextLimiterInv
<1> QED
  BY InitLimiterInv, <1>1, PTL DEF Spec

\* No more than limit calls are admitted in a window less the clocks' error.
THEOREM Windows == ASSUME ProperUse PROVE Spec => []WindowLimit
<1>1. LimiterInv => WindowLimit
  <2> SUFFICES ASSUME LimiterInv PROVE WindowLimit
    OBVIOUS
  <2> DEFINE recent == Admitted(Window - Behind - Ahead)
  <2>1. recent \in SUBSET Members /\ zset \in SUBSET Members /\ recent \subseteq zset
    BY DEF LimiterInv, TypeOK, RecentIsKept, Admitted
  <2>2. /\ Cardinality(recent) <= Cardinality(zset)
        /\ Cardinality(recent) \in Nat /\ Cardinality(zset) \in Nat
    BY <2>1, MemberSets
  <2> QED
    BY <2>2 DEF LimiterInv, SetBounded, WindowLimit
<1> QED
  BY Limiting, <1>1, PTL

\* A script that turns a call away trimmed nothing it should have counted: what it
\* found in the set was admitted recently by the server's clock.
LEMMA RefusedStep ==
  ASSUME LimiterInv, [Next]_vars, NEW c \in Clients, Refused(c)
  PROVE  /\ Cardinality(Admitted(Horizon)) >= Limit
         /\ Cardinality(Others(c)) >= Limit - 1
<1> DEFINE kept == Kept(score[sent[c]], Window)
<1>1. Serve(c) /\ Full(kept)
  BY DEF Refused, LimiterInv, TypeOK, Next, Allow, Serve, Resend, Return, GetUsage,
         Reset, Tick, vars, callVars
<1>2. kept \subseteq Admitted(Horizon)
  BY <1>1 DEF Serve, Kept, Admitted, LimiterInv, TypeOK, ScoreInv, Horizon
<1>3. kept \in SUBSET Members /\ Admitted(Horizon) \in SUBSET Members
  BY <1>2 DEF Admitted
<1>4. /\ Cardinality(kept) <= Cardinality(Admitted(Horizon))
      /\ Cardinality(kept) \in Nat /\ Cardinality(Admitted(Horizon)) \in Nat
  BY <1>2, <1>3, MemberSets
<1>5. Cardinality(Admitted(Horizon)) >= Limit
  BY <1>1, <1>4 DEF Full
<1>6. /\ Cardinality(Others(c)) \in Nat
      /\ Cardinality(Others(c)) >= Cardinality(Admitted(Horizon)) - 1
  <2>1. Others(c) \in SUBSET Members /\ IsFiniteSet(Others(c))
    BY <1>3, MemberSets DEF Others
  <2>2. /\ Cardinality(Others(c) \cup {sent[c]}) <= Cardinality(Others(c)) + 1
        /\ Cardinality(Others(c) \cup {sent[c]}) \in Nat
    BY <2>1, OneMore
  <2>3. Admitted(Horizon) \subseteq Others(c) \cup {sent[c]}
    BY DEF Others
  <2>4. sent[c] \in Members
    BY <1>1 DEF Serve, LimiterInv, TypeOK
  <2>5. Cardinality(Admitted(Horizon)) <= Cardinality(Others(c) \cup {sent[c]})
    BY <1>3, <2>1, <2>3, <2>4, MemberSets
  <2> QED
    BY <1>4, <2>1, <2>2, <2>5, MemberSets
<1> QED
  BY <1>4, <1>5, <1>6

\* A call is turned away only if limit other calls were admitted recently, or one
\* fewer and its own script has run before.
THEOREM Leniency == ASSUME ProperUse PROVE Spec => NeverTooStrict
<1>1. LimiterInv /\ [Next]_vars =>
        [\A c \in Clients : Refused(c) =>
            /\ sent[c] \notin Admitted(Horizon) => Cardinality(Others(c)) >= Limit
            /\ Cardinality(Others(c)) >= Limit - 1]_vars
  <2> SUFFICES ASSUME LimiterInv, [Next]_vars, NEW c \in Clients, Refused(c)
               PROVE  /\ sent[c] \notin Admitted(Horizon)
                           => Cardinality(Others(c)) >= Limit
                      /\ Cardinality(Others(c)) >= Limit - 1
    OBVIOUS
  <2>1. sent[c] \notin Admitted(Horizon) => Others(c) = Admitted(Horizon)
    BY DEF Others
  <2> QED
    BY <2>1, RefusedStep
<1> QED
  BY Limiting, <1>1, PTL DEF Spec, NeverTooStrict

\* No two calls share a member, and without retries the member of a call whose
\* script has not run is in nobody's count.
LEMMA OneRunStep ==
  ASSUME TypeOK, OneRun, [Next]_vars
  PROVE  OneRun'
<1> USE DEF TypeOK, OneRun, serverVars, callVars, Horizon
<1>1. ASSUME NEW c \in Clients, Allow(c) PROVE OneRun'
  BY <1>1 DEF Allow, InFlight
<1>2. ASSUME NEW c \in Clients, Serve(c) PROVE OneRun'
  BY <1>2 DEF Serve
<1>3. ASSUME NEW c \in Clients, Resend(c) \/ Return(c) PROVE OneRun'
  BY <1>3 DEF Resend, Return
<1>4. CASE GetUsage \/ Reset
  BY <1>4 DEF GetUsage, Reset
<1>5. CASE Tick
  BY <1>5 DEF Tick
<1>6. CASE UNCHANGED vars
  BY <1>6 DEF vars
<1> QED
  BY <1>1, <1>2, <1>3, <1>4, <1>5, <1>6 DEF Next

\* If go-redis sends no command again, a call is turned away only if limit other
\* calls were admitted recently.
THEOREM FirstRuns == ASSUME ProperUse, Resends = 0 PROVE Spec => RefusedForOthers
<1>1. Init => OneRun
  BY DEF Init, OneRun
<1>2. LimiterInv /\ OneRun /\ [Next]_vars => OneRun'
  BY OneRunStep DEF LimiterInv
<1>3. LimiterInv /\ OneRun /\ [Next]_vars =>
        [\A c \in Clients : Refused(c) => Cardinality(Others(c)) >= Limit]_vars
  <2> SUFFICES ASSUME LimiterInv, OneRun, [Next]_vars, NEW c \in Clients, Refused(c)
               PROVE  Cardinality(Others(c)) >= Limit
    OBVIOUS
  <2>1. sent[c] # None /\ reply[c] = "none"
    BY DEF Refused, LimiterInv, TypeOK, Next, Allow, Serve, Resend, Return, GetUsage,
           Reset, Tick, vars, callVars
  <2>2. at[sent[c]] = Horizon /\ Horizon \in Nat
    BY <2>1 DEF OneRun, Horizon
  <2>3. Others(c) = Admitted(Horizon)
    BY <2>2 DEF Others, Admitted
  <2> QED
    BY <2>3, RefusedStep
<1> QED
  BY Limiting, <1>1, <1>2, <1>3, PTL DEF Spec, RefusedForOthers
-----------------------------------------------------------------------------
(* Refinement                                                              *)

\* SlidingWindow counts with its own instance of Cardinality.
LEMMA SameCount == \A S : Ideal!Cardinality(S) = Cardinality(S)
  BY DEF Ideal!Cardinality, Cardinality

\* A caller whose script runs trims no member that was admitted recently, by the
\* server's clock.
LEMMA KeepsRecent ==
  ASSUME LimiterInv, NEW c \in Clients, Serve(c)
  PROVE  Ideal!Recent \subseteq Kept(score[sent[c]], Window)
<1> DEFINE m == sent[c]
<1>1. m \in Members /\ score[m] >= -Ahead
  BY DEF Serve, LimiterInv, TypeOK, ScoreInv, InFlight
<1>2. Ideal!Recent \subseteq zset
  BY DEF Ideal!Recent, LimiterInv, RecentIsKept, Admitted
<1>3. \A n \in Ideal!Recent : score[n] < score[m] + Window
  <2> SUFFICES ASSUME NEW n \in Members, n \in zset, at[n] < Window - Behind - Ahead
               PROVE  score[n] < score[m] + Window
    BY <1>2 DEF Ideal!Recent
  <2>1. at[n] \in Nat /\ score[n] \in Int /\ score[m] \in Int
    BY <1>1 DEF LimiterInv, TypeOK
  <2>2. at[n] < Horizon
    BY <2>1 DEF Horizon
  <2>3. score[n] <= at[n] + Behind
    BY <2>2 DEF LimiterInv, ScoreInv
  <2> QED
    BY <1>1, <2>1, <2>3
<1> QED
  BY <1>2, <1>3 DEF Kept

\* The script admits a call only if it has not been admitted within the stretch and
\* fewer than Limit others have.
LEMMA ServeMaps ==
  ASSUME LimiterInv, NEW c \in Clients, Serve(c), at' # at
  PROVE  \E m \in Members : Ideal!Admit(m)
<1> DEFINE m    == sent[c]
           kept == Kept(score[m], Window)
<1>1. ~Full(kept) /\ m \notin kept /\ m \in Members /\ at' = [at EXCEPT ![m] = 0]
  BY DEF Serve, LimiterInv, TypeOK
<1>2. Ideal!Recent \subseteq kept /\ kept \in SUBSET Members
  BY KeepsRecent DEF Kept, LimiterInv, TypeOK
<1>3. /\ Cardinality(Ideal!Recent) <= Cardinality(kept)
      /\ Cardinality(Ideal!Recent) \in Nat /\ Cardinality(kept) \in Nat
  <2>1. Ideal!Recent \in SUBSET Members
    BY <1>2
  <2> QED
    BY <1>2, <2>1, MemberSets
<1>4. Cardinality(Ideal!Recent) < Limit
  BY <1>1, <1>3 DEF Full
<1> QED
  BY <1>1, <1>2, <1>4, SameCount DEF Ideal!Admit

\* Every step of the limiter admits one call, lets a tick pass, forgets, or leaves
\* the admissions as they are.
LEMMA WindowRefines ==
  ASSUME LimiterInv, [Next]_vars
  PROVE  [Ideal!Next]_at
<1> SUFFICES ASSUME at' # at PROVE Ideal!Next
  OBVIOUS
<1>1. ASSUME NEW c \in Clients, Serve(c) PROVE Ideal!Next
  BY <1>1, ServeMaps DEF Ideal!Next
<1>2. CASE Reset
  BY <1>2 DEF Reset, Ideal!Forget, Ideal!Next
<1>3. CASE Tick
  BY <1>3 DEF Tick, Ideal!Tick, Ideal!Next
<1>4. Reset \/ Tick \/ \E c \in Clients : Serve(c)
  BY DEF Next, Allow, Resend, Return, GetUsage, vars, serverVars
<1> QED
  BY <1>1, <1>2, <1>3, <1>4

\* The limiter implements a sliding window by the server's clock: lost replies,
\* scripts that run twice, wrong clocks and an expired key admit nobody too many.
THEOREM WindowRefinement == ASSUME ProperUse PROVE Spec => ImplementsSlidingWindow
<1>1. Init => Ideal!Init
  BY DEF Init, Ideal!Init
<1> QED
  BY <1>1, WindowRefines, Limiting, PTL DEF Spec, ImplementsSlidingWindow, Ideal!Spec

\* A sliding window never holds more than Limit admissions: only Admit adds one,
\* and it counts first.
THEOREM WindowBounded == Ideal!Spec => []Ideal!WithinLimit
<1> DEFINE Inv == at \in [Members -> 0..Horizon] /\ Ideal!WithinLimit
<1>1. Ideal!Init => Inv
  <2> SUFFICES ASSUME Ideal!Init PROVE Inv
    OBVIOUS
  <2>1. at \in [Members -> 0..Horizon] /\ Ideal!Recent = {}
    BY DEF Ideal!Init, Ideal!Recent, Horizon
  <2> QED
    BY <2>1, FS_EmptySet, SameCount DEF Ideal!WithinLimit
<1>2. Inv /\ [Ideal!Next]_at => Inv'
  <2> SUFFICES ASSUME Inv, [Ideal!Next]_at PROVE Inv'
    OBVIOUS
  <2>1. Ideal!Recent \in SUBSET Members /\ Ideal!Recent' \in SUBSET Members
    BY DEF Ideal!Recent
  <2>2. /\ Cardinality(Ideal!Recent) \in Nat /\ Cardinality(Ideal!Recent') \in Nat
        /\ Ideal!Recent' \subseteq Ideal!Recent =>
              Cardinality(Ideal!Recent') <= Cardinality(Ideal!Recent)
    BY <2>1, MemberSets
  <2>3. ASSUME NEW m \in Members, Ideal!Admit(m) PROVE Inv'
    <3>1. at' \in [Members -> 0..Horizon] /\ Ideal!Recent' \subseteq Ideal!Recent \cup {m}
      BY <2>3 DEF Ideal!Admit, Ideal!Recent, Horizon
    <3>2. IsFiniteSet(Ideal!Recent) /\ IsFiniteSet(Ideal!Recent \cup {m})
      BY <2>1, MemberSets, FS_AddElement
    <3>3. /\ Cardinality(Ideal!Recent \cup {m}) \in Nat
          /\ Cardinality(Ideal!Recent \cup {m}) <= Cardinality(Ideal!Recent) + 1
      BY <3>2, OneMore
    <3>4. Cardinality(Ideal!Recent') <= Cardinality(Ideal!Recent \cup {m})
      BY <3>1, <3>2, FS_Subset
    <3>5. Cardinality(Ideal!Recent) < Limit
      BY <2>3, SameCount DEF Ideal!Admit
    <3>6. Cardinality(Ideal!Recent') <= Limit
      BY <2>2, <3>3, <3>4, <3>5
    <3> QED
      BY <3>1, <3>6, SameCount DEF Ideal!WithinLimit
  <2>4. CASE Ideal!Forget \/ Ideal!Tick \/ at' = at
    <3>1. at' \in [Members -> 0..Horizon] /\ Ideal!Recent' \subseteq Ideal!Recent
      BY <2>4 DEF Ideal!Forget, Ideal!Tick, Ideal!Recent, Horizon
    <3> QED
      BY <2>2, <3>1, SameCount DEF Ideal!WithinLimit
  <2> QED
    BY <2>3, <2>4 DEF Ideal!Next
<1>3. Inv => Ideal!WithinLimit
  OBVIOUS
<1> HIDE DEF Inv
<1> QED
  BY <1>1, <1>2, <1>3, PTL DEF Ideal!Spec
=============================================================================
