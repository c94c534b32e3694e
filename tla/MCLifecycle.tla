---------------------------- MODULE MCLifecycle ----------------------------
(***************************************************************************)
(* Instances of Lifecycle for TLC.                                         *)
(***************************************************************************)
EXTENDS LifecycleProperties, TLC

CONSTANTS a, b, k1, k2      \* callers and configurations

TwoCallers == {a, b}
OneCaller  == {a}
NoCaller   == {}
NoConf     == {}
TwoConfs   == {k1, k2}

\* The callers are interchangeable when both or none can be cancelled.
CallerSymmetry == Permutations(TwoCallers)
=============================================================================
