---------------------------- MODULE MCRateLimiter ----------------------------
(***************************************************************************)
(* Instances of RateLimiter for TLC.                                       *)
(***************************************************************************)
EXTENDS RateLimiterProperties

ThreeMembers == {"m1", "m2", "m3"}
TwoClients   == {"c1", "c2"}
=============================================================================
