-------------------------------- MODULE Cache --------------------------------
(***************************************************************************)
(* Cache: CacheManager, a JSON cache in Redis in front of a source of truth *)
(* that changes.  GetWithLoader and SetWithRetry take several requests, so *)
(* a value may be stored after the source has moved on; DeletePattern      *)
(* first scans and then deletes what the scan returned.                    *)
(*                                                                         *)
(* A copy of a value is modelled by its obsolescence: 0 as long as it is   *)
(* what the source holds, then the ticks since it no longer is, so the     *)
(* state is finite without versions and without a bound on time.           *)
(***************************************************************************)
EXTENDS Integers, FiniteSets

CONSTANTS
    Callers,    \* goroutines that call GetWithLoader or SetWithRetry
    Deleters,   \* goroutines that call DeletePattern
    Keys,       \* keys that match the pattern
    None,       \* no key, no value
    Junk,       \* a value that is not JSON
    TTL,        \* ttl of every call, in ticks
    Delay,      \* environment: the ticks from reading a value to storing it
    MaxRetries, \* maxRetries of SetWithRetry
    MaxLate,    \* bound: the SETs on their way after their call gave up
    Nodes,      \* nodes of the cluster, or one server
    NodeOf      \* key -> the node that holds it

ASSUME CacheAssumption ==
    /\ None \notin Keys
    /\ None \notin Int /\ Junk \notin Int /\ None # Junk
    /\ TTL \in Nat \ {0} /\ Delay \in Nat
    /\ MaxRetries \in Nat /\ MaxLate \in Nat
    /\ Nodes # {} /\ NodeOf \in [Keys -> Nodes]

VARIABLES
    cached,     \* key -> None, Junk or the obsolescence of the value
    pttl,       \* key -> the ticks it has left
    late,       \* SETs on their way whose call has given up
    pc,         \* caller -> where its call is
    key,        \* caller -> the key of its call
    copy,       \* caller -> obsolescence of the value it holds
    held,       \* caller -> ticks since that value was read
    tries,      \* caller -> attempts SetWithRetry has left; 0: GetWithLoader
    dpc,        \* deleter -> where its call is
    todo,       \* deleter -> keys the scan has not reached
    found,      \* deleter -> keys the scan has returned
    old         \* ghost: deleter -> keys there without a gap since it began

cacheVars  == <<cached, pttl>>
callVars   == <<pc, key, copy, held, tries>>
deleteVars == <<dpc, todo, found>>
vars       == <<cacheVars, late, callVars, deleteVars, old>>

Horizon == TTL + Delay + 2
Sets    == [key : Keys, copy : 0..Horizon, held : 0..Delay]
Present == {k \in Keys : cached[k] # None}

TypeOK ==
    /\ cached \in [Keys -> {None, Junk} \cup 0..Horizon]
    /\ pttl \in [Keys -> 0..TTL]
    /\ late \subseteq Sets
    /\ pc \in [Callers -> {"idle", "get", "load", "set", "wait"}]
    /\ key \in [Callers -> Keys \cup {None}]
    /\ copy \in [Callers -> 0..Horizon]
    /\ held \in [Callers -> 0..(Delay + 1)]
    /\ tries \in [Callers -> 0..MaxRetries]
    /\ dpc \in [Deleters -> {"idle", "scan", "del", "deleted"}]
    /\ todo \in [Deleters -> SUBSET Keys]
    /\ found \in [Deleters -> SUBSET Keys]
    /\ old \in [Deleters -> SUBSET Keys]

Init ==
    /\ cached = [k \in Keys |-> None]
    /\ pttl = [k \in Keys |-> 0]
    /\ late = {}
    /\ pc = [c \in Callers |-> "idle"]
    /\ key = [c \in Callers |-> None]
    /\ copy = [c \in Callers |-> 0]
    /\ held = [c \in Callers |-> 0]
    /\ tries = [c \in Callers |-> 0]
    /\ dpc = [d \in Deleters |-> "idle"]
    /\ todo = [d \in Deleters |-> {}]
    /\ found = [d \in Deleters |-> {}]
    /\ old = [d \in Deleters |-> {}]
-----------------------------------------------------------------------------
(* Steps that several operations share                                     *)

Goto(c, label) == pc' = [pc EXCEPT ![c] = label]

\* The call holds a value that is current.
Take(c, attempts) ==
    /\ copy' = [copy EXCEPT ![c] = 0]
    /\ held' = [held EXCEPT ![c] = 0]
    /\ tries' = [tries EXCEPT ![c] = attempts]
    /\ Goto(c, "set")

\* The call returns.
Return(c) ==
    /\ Goto(c, "idle")
    /\ key' = [key EXCEPT ![c] = None]
    /\ copy' = [copy EXCEPT ![c] = 0]
    /\ held' = [held EXCEPT ![c] = 0]
    /\ tries' = [tries EXCEPT ![c] = 0]

\* SET key value with a ttl.
Store(k, value) ==
    /\ cached' = [cached EXCEPT ![k] = value]
    /\ pttl' = [pttl EXCEPT ![k] = TTL]

\* Keys are removed: a deleter that looks for them has nothing left to do.
Remove(keys) ==
    /\ cached' = [k \in Keys |-> IF k \in keys THEN None ELSE cached[k]]
    /\ pttl' = [k \in Keys |-> IF k \in keys THEN 0 ELSE pttl[k]]
    /\ old' = [d \in Deleters |-> old[d] \ keys]
-----------------------------------------------------------------------------
(* GetWithLoader                                                           *)

GetBegin(c) ==
    /\ pc[c] = "idle"
    /\ \E k \in Keys : key' = [key EXCEPT ![c] = k]
    /\ Goto(c, "get")
    /\ UNCHANGED <<cacheVars, late, copy, held, tries, deleteVars, old>>

\* Mutants of GetHit: the value is not decoded; a hit renews the ttl.
GetHitAny(c) ==
    /\ pc[c] = "get"
    /\ cached[key[c]] # None
    /\ Return(c)
    /\ UNCHANGED <<cacheVars, late, deleteVars, old>>

GetHitRenews(c) ==
    /\ pc[c] = "get"
    /\ cached[key[c]] \notin {None, Junk}
    /\ pttl' = [pttl EXCEPT ![key[c]] = TTL]
    /\ Return(c)
    /\ UNCHANGED <<cached, late, deleteVars, old>>

\* GET answers with a value that unmarshals: it is what the call returns.
GetHit(c) ==
    /\ pc[c] = "get"
    /\ cached[key[c]] \notin {None, Junk}
    /\ Return(c)
    /\ UNCHANGED <<cacheVars, late, deleteVars, old>>

\* A miss, a value that does not unmarshal, or an error, which a GET may meet
\* whatever is cached: all three go on to the loader.
GetMiss(c) ==
    /\ pc[c] = "get"
    /\ Goto(c, "load")
    /\ UNCHANGED <<cacheVars, late, key, copy, held, tries, deleteVars, old>>

\* The loader reads the source of truth.
Load(c) ==
    /\ pc[c] = "load"
    /\ Take(c, 0)
    /\ UNCHANGED <<cacheVars, late, key, deleteVars, old>>

\* The loader fails, or its value does not marshal.
LoadFails(c) ==
    /\ pc[c] = "load"
    /\ Return(c)
    /\ UNCHANGED <<cacheVars, late, deleteVars, old>>
-----------------------------------------------------------------------------
(* SetWithRetry                                                            *)

\* A value that was just read from the source; with maxRetries = 0 the call
\* returns its error without a single attempt.
SetBegin(c) ==
    /\ pc[c] = "idle"
    /\ MaxRetries > 0
    /\ \E k \in Keys : key' = [key EXCEPT ![c] = k]
    /\ Take(c, MaxRetries)
    /\ UNCHANGED <<cacheVars, late, deleteVars, old>>

\* The backoff after a failed attempt is over, or the context ends in it.
WaitEnds(c) ==
    /\ pc[c] = "wait"
    /\ \/ /\ tries[c] > 0
          /\ Goto(c, "set")
          /\ UNCHANGED <<key, copy, held, tries>>
       \/ Return(c)
    /\ UNCHANGED <<cacheVars, late, deleteVars, old>>
-----------------------------------------------------------------------------
(* The SET of both                                                         *)

\* The server stores the value.  Its reply ends either call, or is lost and
\* go-redis sends the same SET again.
Serve(c) ==
    /\ pc[c] = "set"
    /\ held[c] <= Delay
    /\ Store(key[c], copy[c])
    /\ Return(c) \/ UNCHANGED callVars
    /\ UNCHANGED <<late, deleteVars, old>>

\* An error: GetWithLoader returns the data it has, SetWithRetry backs off.
\* The request may still be on its way to the server.
SetFails(c) ==
    /\ pc[c] = "set"
    /\ \/ UNCHANGED late
       \/ /\ held[c] <= Delay
          /\ Cardinality(late) < MaxLate
          /\ late' = late \cup
                {[key |-> key[c], copy |-> copy[c], held |-> held[c]]}
    /\ \/ tries[c] = 0 /\ Return(c)
       \/ /\ tries[c] > 0
          /\ tries' = [tries EXCEPT ![c] = @ - 1]
          /\ Goto(c, "wait")
          /\ UNCHANGED <<key, copy, held>>
    /\ UNCHANGED <<cacheVars, deleteVars, old>>

\* A SET whose call is gone reaches the server, or is lost.
ServeLate ==
    /\ \E s \in late : Store(s.key, s.copy) /\ late' = late \ {s}
    /\ UNCHANGED <<callVars, deleteVars, old>>

LoseLate ==
    /\ \E s \in late : late' = late \ {s}
    /\ UNCHANGED <<cacheVars, callVars, deleteVars, old>>
-----------------------------------------------------------------------------
(* DeletePattern                                                           *)

DGoto(d, label) == dpc' = [dpc EXCEPT ![d] = label]

\* SCAN has no key, so a cluster client sends it to one node of its choice.
DeleteBegin(d) ==
    /\ dpc[d] = "idle"
    /\ \E n \in Nodes : todo' = [todo EXCEPT ![d] = {k \in Keys : NodeOf[k] = n}]
    /\ old' = [old EXCEPT ![d] = Present]
    /\ DGoto(d, "scan")
    /\ UNCHANGED <<cacheVars, late, callVars, found>>

\* Mutant of ScanKey: a page replaces the one before it.
ScanKeyOverwrites(d) ==
    /\ dpc[d] = "scan"
    /\ \E k \in todo[d] :
          /\ todo' = [todo EXCEPT ![d] = @ \ {k}]
          /\ found' = [found EXCEPT ![d] = {k} \cap Present]
    /\ UNCHANGED <<cacheVars, late, callVars, dpc, old>>

\* The cursor reaches a key: it is returned if it is there at that time.
ScanKey(d) ==
    /\ dpc[d] = "scan"
    /\ \E k \in todo[d] :
          /\ todo' = [todo EXCEPT ![d] = @ \ {k}]
          /\ found' = [found EXCEPT ![d] = @ \cup ({k} \cap Present)]
    /\ UNCHANGED <<cacheVars, late, callVars, dpc, old>>

\* Mutant of ScanEnds: only the first page is read.
ScanEndsEarly(d) ==
    /\ dpc[d] = "scan"
    /\ found[d] # {} \/ todo[d] = {}
    /\ DGoto(d, IF found[d] = {} THEN "deleted" ELSE "del")
    /\ UNCHANGED <<cacheVars, late, callVars, todo, found, old>>

\* The iterator is through: DEL is sent unless there is nothing to delete.
ScanEnds(d) ==
    /\ dpc[d] = "scan"
    /\ todo[d] = {}
    /\ DGoto(d, IF found[d] = {} THEN "deleted" ELSE "del")
    /\ UNCHANGED <<cacheVars, late, callVars, todo, found, old>>

\* DEL of everything the scan returned, and of whatever is under it by now.
\* Its reply arrives, or is lost and go-redis sends the same DEL again.
Del(d) ==
    /\ dpc[d] = "del"
    /\ Remove(found[d])
    /\ \/ DGoto(d, "deleted") /\ found' = [found EXCEPT ![d] = {}]
       \/ UNCHANGED <<dpc, found>>
    /\ UNCHANGED <<late, callVars, todo>>

\* The call returns: nil from "deleted", an error from anywhere.
DeleteReturn(d) ==
    /\ dpc[d] # "idle"
    /\ DGoto(d, "idle")
    /\ todo' = [todo EXCEPT ![d] = {}]
    /\ found' = [found EXCEPT ![d] = {}]
    /\ old' = [old EXCEPT ![d] = {}]
    /\ UNCHANGED <<cacheVars, late, callVars>>
-----------------------------------------------------------------------------
(* The environment                                                         *)

\* The call holds a value it may still store.
Holds(c) == pc[c] \in {"set", "wait"} /\ held[c] <= Delay

Obsoleted(o) == IF o = 0 THEN 1 ELSE o

\* The source of truth changes: every copy of the key's value is obsolete.
Update(k) ==
    /\ cached' = IF cached[k] = 0 THEN [cached EXCEPT ![k] = 1] ELSE cached
    /\ late' = {[s EXCEPT !.copy = IF s.key = k THEN Obsoleted(@) ELSE @] :
                   s \in late}
    /\ copy' = [c \in Callers |->
          IF Holds(c) /\ key[c] = k THEN Obsoleted(copy[c]) ELSE copy[c]]
    /\ UNCHANGED <<pttl, pc, key, held, tries, deleteVars, old>>

\* Another program stores something that is not JSON.
Foreign(k) ==
    /\ Store(k, Junk)
    /\ UNCHANGED <<late, callVars, deleteVars, old>>

\* The server evicts a key, or restarts without it.
Evict(k) ==
    /\ Remove({k})
    /\ UNCHANGED <<late, callVars, deleteVars>>

Older(o) == IF o \in 1..(Horizon - 1) THEN o + 1 ELSE o

Expired == {k \in Keys : pttl[k] = 1}

\* A tick: keys expire, and nobody stores a value he read too long ago.
AgeCache ==
    /\ cached' = [k \in Keys |->
          IF k \in Expired THEN None
          ELSE IF cached[k] \in Int THEN Older(cached[k]) ELSE cached[k]]
    /\ pttl' = [k \in Keys |-> IF pttl[k] = 0 THEN 0 ELSE pttl[k] - 1]
    /\ old' = [d \in Deleters |-> old[d] \ Expired]

AgeLate ==
    late' = {[key |-> s.key, copy |-> Older(s.copy), held |-> s.held + 1] :
                s \in {s \in late : s.held < Delay}}

AgeCalls ==
    /\ copy' = [c \in Callers |->
          IF Holds(c) /\ held[c] < Delay THEN Older(copy[c]) ELSE 0]
    /\ held' = [c \in Callers |-> IF Holds(c) THEN held[c] + 1 ELSE held[c]]

Tick ==
    /\ AgeCache /\ AgeLate /\ AgeCalls
    /\ UNCHANGED <<pc, key, tries, deleteVars>>

Next ==
    \/ \E c \in Callers :
          \/ GetBegin(c) \/ GetHit(c) \/ GetMiss(c) \/ Load(c) \/ LoadFails(c)
          \/ SetBegin(c) \/ WaitEnds(c)
          \/ Serve(c) \/ SetFails(c)
    \/ ServeLate \/ LoseLate
    \/ \E d \in Deleters :
          \/ DeleteBegin(d) \/ ScanKey(d) \/ ScanEnds(d)
          \/ Del(d) \/ DeleteReturn(d)
    \/ \E k \in Keys : Update(k) \/ Foreign(k) \/ Evict(k)
    \/ Tick

Spec == Init /\ [][Next]_vars
=============================================================================
