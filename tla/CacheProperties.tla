--------------------------- MODULE CacheProperties ---------------------------
(***************************************************************************)
(* What a CacheManager promises its callers.                               *)
(***************************************************************************)
EXTENDS Cache

\* A hit returns a value that decodes and has been obsolete for no longer than
\* the ttl plus the time from a value's reading to its SET, in whatever order
\* loads, updates, retries and late requests fall.
HitIsFresh ==
    [][\A c \in Callers : pc[c] = "get" /\ pc'[c] = "idle" =>
          cached[key[c]] \in 0..(TTL + Delay)]_vars

\* When DeletePattern is about to return nil, every key that was there when it
\* began has been gone since: scanning first and deleting later misses none.
DeleteIsComplete == \A d \in Deleters : dpc[d] = "deleted" => old[d] = {}

\* Time goes on; nothing else is needed for what expires to expire.
FairSpec == Spec /\ WF_vars(Tick)

\* Unless the source keeps changing, the cache is in the end never obsolete:
\* every value that lost a race against an update runs out.
EventuallyCurrent ==
    \/ []<><<\E k \in Keys : Update(k)>>_vars
    \/ <>[](\A k \in Keys : cached[k] \in {None, Junk, 0})
-----------------------------------------------------------------------------
(* The inductive invariant                                                 *)

\* There is no cluster: a scan sees every key.
SingleNode == \A n \in Nodes, k \in Keys : NodeOf[k] = n

\* A value became obsolete after it was read.
HeldInv ==
    /\ \A c \in Callers : Holds(c) => copy[c] <= held[c] + 1
    /\ \A c \in Callers : pc[c] # "idle" => key[c] \in Keys
    /\ \A s \in late : s.copy <= s.held + 1

\* What the cache holds ages by as much as its time to live shrinks.
StoredInv ==
    \A k \in Keys :
        /\ cached[k] = None <=> pttl[k] = 0
        /\ cached[k] \in Int => cached[k] + pttl[k] <= TTL + Delay + 1

\* The keys a scan is to delete are those it returned or has yet to reach.
ScanInv ==
    \A d \in Deleters :
        /\ old[d] \subseteq Present
        /\ dpc[d] = "scan" => old[d] \subseteq todo[d] \cup found[d]
        /\ dpc[d] = "del" => old[d] \subseteq found[d]
        /\ dpc[d] = "deleted" => old[d] = {}

FreshInv == TypeOK /\ HeldInv /\ StoredInv

CacheInv == FreshInv /\ ScanInv
=============================================================================
