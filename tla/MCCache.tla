------------------------------- MODULE MCCache -------------------------------
(***************************************************************************)
(* Instances of Cache for TLC: a single server and a cluster of two nodes. *)
(***************************************************************************)
EXTENDS CacheProperties

OneServer  == [k \in Keys |-> "n1"]
TwoServers == [k \in Keys |-> IF k = "k1" THEN "n1" ELSE "n2"]
=============================================================================
