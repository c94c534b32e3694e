-------------------------- MODULE MCDistributedLock --------------------------
(***************************************************************************)
(* Instances of DistributedLock for TLC.                                   *)
(***************************************************************************)
EXTENDS DistributedLockProperties

\* One thread each: the first instance is used freely, the second may be late.
TwoLocks    == {"free", "late"}
OneEach     == {"t", "u"}
OwnHandle   == [t |-> "free", u |-> "late"]
LateOnly    == {"late"}

\* Two threads share an instance, the third has its own.
SharedBy    == {"t", "u", "v"}
SharedHandle == [t |-> "free", u |-> "free", v |-> "late"]
NoneLate    == {}
=============================================================================
