--------------------------- MODULE MCConfiguration ---------------------------
(***************************************************************************)
(* Candidates for TLC: around one plain configuration, the groups of fields *)
(* that are validated together take their values at the boundaries.        *)
(***************************************************************************)
EXTENDS ConfigurationProperties

Plain  == [scheme |-> "none", hostPort |-> TRUE]
Prefix(scheme) == [scheme |-> scheme, hostPort |-> TRUE]
Broken == [scheme |-> "none", hostPort |-> FALSE]

Base == [Empty EXCEPT !.addrs = <<Plain>>]

Pools ==
    {[Base EXCEPT !.minIdleConns = min, !.maxActiveConns = max] :
        min \in {-1, 0, 5, 10, 100, 101}, max \in {-1, 0, 5, 9, 10, 101}}
    \cup {[Base EXCEPT !.maxIdleConns = max] : max \in {-1, 1}}

Lifecycles ==
    {[Base EXCEPT !.connMaxIdleTime = d, !.idleTimeout = a] :
        d \in {None, 0, Day}, a \in {None, 0, Day, Day + 1}}
    \cup {[Base EXCEPT !.connMaxLifetime = d, !.maxConnAge = a] :
        d \in {None, Minute}, a \in {None, 0, 7 * Day + 1}}

Timeouts ==
    {[Base EXCEPT !.dialTimeout = d] : d \in {0, 60 * Second, 60 * Second + 1}}
    \cup {[Base EXCEPT !.readTimeout = d] : d \in {-1, 300 * Second}}
    \cup {[Base EXCEPT !.writeTimeout = d] : d \in {0, 300 * Second + 1}}
    \cup {[Base EXCEPT !.poolTimeout = d] : d \in {0, 5 * Minute, 5 * Minute + 1}}

Retries ==
    {[Base EXCEPT !.minRetryBackoff = min, !.maxRetryBackoff = max] :
        min \in {None, 0, 8, 512, 513, 1000, 1001}, max \in {None, 0, 7, 8, 600, 30001}}
    \cup {[Base EXCEPT !.maxRetries = n] : n \in {-1, 10, 11}}

Topologies ==
    {[Base EXCEPT !.addrs = addrs, !.sentinel = sentinel, !.db = db] :
        addrs \in {<<>>, <<Plain>>, <<Plain, Prefix("rediss")>>},
        sentinel \in {None} \cup
            {[masterName |-> name, addrs |-> sentinels] :
                name \in {"", "blank", "name"},
                sentinels \in {<<>>, <<Plain>>, <<Plain, Plain>>, <<Broken>>}},
        db \in {0, 15}}
    \cup {[Base EXCEPT !.db = db] : db \in {-1, 16}}

Others ==
    {[Base EXCEPT !.addrs = <<Prefix(scheme)>>,
                  !.tls = [enabled |-> on, insecureSkipVerify |-> insecure]] :
        scheme \in Schemes, on \in BOOLEAN, insecure \in BOOLEAN}
    \cup {[Base EXCEPT !.clientName = n] : n \in {"valid", "invalid"}}
    \cup {[Base EXCEPT !.network = n] : n \in {"unix", "unknown"}}

Boundaries ==
    Pools \cup Lifecycles \cup Timeouts \cup Retries \cup Topologies \cup Others
=============================================================================
