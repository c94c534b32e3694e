-------------------------------- MODULE Config --------------------------------
(***************************************************************************)
(* Config: the configuration of the plugin as a value - what a caller may  *)
(* give, the defaults that are filled in, the rules it is validated by, the *)
(* options a client is constructed with and the mode that is reported.     *)
(*                                                                         *)
(* Durations are in milliseconds.  An address is its scheme and whether the *)
(* rest is a host and a port.  User name and password are passed through    *)
(* and left out.  A list of errors is reduced to whether there is one.      *)
(***************************************************************************)
EXTENDS Integers, Sequences

CONSTANTS
    None,               \* nil
    InsecureRefused     \* external: the policy refuses insecure_skip_verify

Second == 1000
Minute == 60 * Second
Hour   == 60 * Minute
Day    == 24 * Hour

Schemes   == {"none", "redis", "rediss", "REDISS"}
Address   == [scheme : Schemes, hostPort : BOOLEAN]
Networks  == {"tcp", "tcp4", "tcp6", "unix", "unixpacket"}
Duration  == Int \cup {None}
TLS       == [enabled : BOOLEAN, insecureSkipVerify : BOOLEAN]
Sentinel  == [masterName : {"", "blank", "name"}, addrs : Seq(Address)]

Redis == [
    network         : Networks \cup {"", "unknown"},
    addrs           : Seq(Address),
    db              : Int,
    clientName      : {"", "valid", "invalid"},
    minIdleConns    : Int,
    maxIdleConns    : Int,
    maxActiveConns  : Int,
    connMaxIdleTime : Duration,
    idleTimeout     : Duration,
    connMaxLifetime : Duration,
    maxConnAge      : Duration,
    poolTimeout     : Duration,
    dialTimeout     : Duration,
    readTimeout     : Duration,
    writeTimeout    : Duration,
    maxRetries      : Int,
    minRetryBackoff : Duration,
    maxRetryBackoff : Duration,
    tls             : TLS \cup {None},
    sentinel        : Sentinel \cup {None}]

ASSUME ConfigAssumption ==
    /\ InsecureRefused \in BOOLEAN
    /\ None \notin Int /\ None \notin Redis

\* &conf.Redis{}
Empty == [
    network |-> "", addrs |-> <<>>, db |-> 0, clientName |-> "",
    minIdleConns |-> 0, maxIdleConns |-> 0, maxActiveConns |-> 0,
    connMaxIdleTime |-> None, idleTimeout |-> None,
    connMaxLifetime |-> None, maxConnAge |-> None, poolTimeout |-> None,
    dialTimeout |-> None, readTimeout |-> None, writeTimeout |-> None,
    maxRetries |-> 0, minRetryBackoff |-> None, maxRetryBackoff |-> None,
    tls |-> None, sentinel |-> None]
-----------------------------------------------------------------------------
(* Defaults                                                                *)

\* The preferred field if it is set, else its deprecated alias.
Effective(preferred, alias) == IF preferred = None THEN alias ELSE preferred

normalizeLegacyLifecycleFields(c) ==
    [c EXCEPT !.connMaxIdleTime = Effective(c.connMaxIdleTime, c.idleTimeout),
              !.connMaxLifetime = Effective(c.connMaxLifetime, c.maxConnAge)]

\* Mutant of OrDefault: a duration of zero counts as not set.
OrDefaultZero(d, value) == IF d \in {None, 0} THEN value ELSE d

OrDefault(d, value) == IF d = None THEN value ELSE d

\* An int32 cannot be absent: zero is.
IntOrDefault(i, value) == IF i = 0 THEN value ELSE i

\* Mutant of DefaultMaxRetryBackoff: the unit is forgotten.
DefaultNanoseconds == 0

DefaultMaxRetryBackoff == 512

setDefaultValues(given) ==
    LET c == normalizeLegacyLifecycleFields(given)
    IN  [network         |-> IF c.network = "" THEN "tcp" ELSE c.network,
         addrs           |-> c.addrs,
         db              |-> c.db,
         clientName      |-> c.clientName,
         minIdleConns    |-> IntOrDefault(c.minIdleConns, 10),
         maxIdleConns    |-> IntOrDefault(c.maxIdleConns, 20),
         maxActiveConns  |-> IntOrDefault(c.maxActiveConns, 100),
         connMaxIdleTime |-> OrDefault(c.connMaxIdleTime, 5 * Minute),
         idleTimeout     |-> c.idleTimeout,
         connMaxLifetime |-> OrDefault(c.connMaxLifetime, 30 * Minute),
         maxConnAge      |-> c.maxConnAge,
         poolTimeout     |-> OrDefault(c.poolTimeout, 3 * Second),
         dialTimeout     |-> OrDefault(c.dialTimeout, 10 * Second),
         readTimeout     |-> OrDefault(c.readTimeout, 10 * Second),
         writeTimeout    |-> OrDefault(c.writeTimeout, 10 * Second),
         maxRetries      |-> IntOrDefault(c.maxRetries, 3),
         minRetryBackoff |-> OrDefault(c.minRetryBackoff, 8),
         maxRetryBackoff |-> OrDefault(c.maxRetryBackoff,
                                       DefaultMaxRetryBackoff),
         tls             |-> c.tls,
         sentinel        |-> c.sentinel]
-----------------------------------------------------------------------------
(* Validation                                                              *)

\* A prefix is recognised in any case and removed in lower case only: the upper
\* case one stays, and what is left is not host:port.
validateAddress(a) == a.scheme # "REDISS" /\ a.hostPort

validateAddresses(addrs) == \A i \in DOMAIN addrs : validateAddress(addrs[i])

validateBasicConnection(c) == c.addrs # <<>> /\ validateAddresses(c.addrs)

Within(d, limit) == d # None => d >= 0 /\ d <= limit

\* A field and its alias agree when both are set.
Agree(preferred, alias) ==
    preferred # None /\ alias # None => preferred = alias

validateConnectionPool(c) ==
    /\ c.minIdleConns >= 0
    /\ c.maxIdleConns >= 0
    /\ c.maxActiveConns > 0
    /\ c.minIdleConns > 0 /\ c.maxActiveConns > 0 =>
          c.minIdleConns <= c.maxActiveConns
    /\ Agree(c.connMaxIdleTime, c.idleTimeout)
    /\ Agree(c.connMaxLifetime, c.maxConnAge)
    /\ Within(Effective(c.connMaxIdleTime, c.idleTimeout), Day)
    /\ Within(Effective(c.connMaxLifetime, c.maxConnAge), 7 * Day)
    /\ Within(c.poolTimeout, 5 * Minute)

validateTimeouts(c) ==
    /\ Within(c.dialTimeout, 60 * Second)
    /\ Within(c.readTimeout, 300 * Second)
    /\ Within(c.writeTimeout, 300 * Second)

validateRetryConfig(c) ==
    /\ c.maxRetries >= 0 /\ c.maxRetries <= 10
    /\ Within(c.minRetryBackoff, Second)
    /\ Within(c.maxRetryBackoff, 30 * Second)
    /\ c.minRetryBackoff # None /\ c.maxRetryBackoff # None =>
          c.minRetryBackoff <= c.maxRetryBackoff

validateTLSConfig(c) ==
    c.tls # None =>
        ~(InsecureRefused /\ c.tls.enabled /\ c.tls.insecureSkipVerify)

validateSentinelConfig(c) ==
    c.sentinel # None =>
        c.sentinel.masterName = "name" /\ validateAddresses(c.sentinel.addrs)

isClusterMode(c) ==
    /\ Len(c.addrs) > 1
    /\ c.sentinel # None => c.sentinel.masterName = ""

validateDatabaseConfig(c) ==
    /\ c.db >= 0
    /\ IF isClusterMode(c) THEN c.db = 0 ELSE c.db <= 15

validateClientName(c) == c.clientName # "invalid"

validateNetworkConfig(c) == c.network \in Networks \cup {""}

ValidateRedisConfig(config) ==
    LET c == normalizeLegacyLifecycleFields(config)
    IN  /\ validateBasicConnection(c)
        /\ validateConnectionPool(c)
        /\ validateTimeouts(c)
        /\ validateRetryConfig(c)
        /\ validateTLSConfig(c)
        /\ validateSentinelConfig(c)
        /\ validateDatabaseConfig(c)
        /\ validateClientName(c)
        /\ validateNetworkConfig(c)

\* Mutant of Accepted: the validation comes before the defaults.
AcceptedEarly(c) ==
    ValidateRedisConfig([c EXCEPT !.maxActiveConns = IntOrDefault(@, 100)])

\* ValidateAndSetDefaults fills setDefaultValues(c) in, then returns nil or not.
Accepted(c) == ValidateRedisConfig(setDefaultValues(c))
-----------------------------------------------------------------------------
(* Options, topology and mode                                              *)

AsDuration(d) == IF d = None THEN 0 ELSE d

IsRediss(a) == a.scheme \in {"rediss", "REDISS"}

\* The prefix is removed in lower case only, and only rediss:// is.
TrimRediss(a) == IF a.scheme = "rediss" THEN [a EXCEPT !.scheme = "none"] ELSE a

tlsConfig(c) ==
    IF c.tls # None /\ c.tls.enabled
    THEN IF c.tls.insecureSkipVerify THEN "insecure" ELSE "verified"
    ELSE IF \E i \in DOMAIN c.addrs : IsRediss(c.addrs[i])
    THEN "verified" ELSE "none"

\* The addresses of the sentinels replace the others, as they were given.
HasSentinels(c) == c.sentinel # None /\ c.sentinel.addrs # <<>>

buildUniversalOptions(c) == [
    addrs           |-> IF HasSentinels(c) THEN c.sentinel.addrs
                        ELSE [i \in DOMAIN c.addrs |-> TrimRediss(c.addrs[i])],
    masterName      |-> IF c.sentinel = None THEN "" ELSE c.sentinel.masterName,
    db              |-> c.db,
    minIdleConns    |-> c.minIdleConns,
    maxIdleConns    |-> c.maxIdleConns,
    poolSize        |-> c.maxActiveConns,
    maxActiveConns  |-> c.maxActiveConns,
    dialTimeout     |-> AsDuration(c.dialTimeout),
    readTimeout     |-> AsDuration(c.readTimeout),
    writeTimeout    |-> AsDuration(c.writeTimeout),
    connMaxIdleTime |-> AsDuration(Effective(c.connMaxIdleTime, c.idleTimeout)),
    connMaxLifetime |-> AsDuration(Effective(c.connMaxLifetime, c.maxConnAge)),
    poolTimeout     |-> AsDuration(c.poolTimeout),
    maxRetries      |-> c.maxRetries,
    minRetryBackoff |-> AsDuration(c.minRetryBackoff),
    maxRetryBackoff |-> AsDuration(c.maxRetryBackoff),
    clientName      |-> c.clientName,
    tls             |-> tlsConfig(c),
    contextTimeoutEnabled |-> TRUE]

\* External: what redis.NewUniversalClient constructs from the options.
Topology(options) ==
    IF options.masterName # "" THEN "sentinel"
    ELSE IF Len(options.addrs) > 1 THEN "cluster" ELSE "single"

currentAddrList(c) == IF HasSentinels(c) THEN c.sentinel.addrs ELSE c.addrs

\* Mutant of detectMode: the number of addresses comes first.
detectModeByAddrs(c) ==
    IF c = None THEN "unknown"
    ELSE IF Len(currentAddrList(c)) > 1 THEN "cluster"
    ELSE IF c.sentinel # None THEN "sentinel" ELSE "single"

detectMode(c) ==
    IF c = None THEN "unknown"
    ELSE IF c.sentinel # None /\ c.sentinel.masterName # "" THEN "sentinel"
    ELSE IF Len(currentAddrList(c)) > 1 THEN "cluster" ELSE "single"
=============================================================================
