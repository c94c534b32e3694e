------------------------- MODULE ConfigurationProofs -------------------------
(***************************************************************************)
(* Machine-checked proofs about Configuration, for every configuration a   *)
(* caller or the runtime may provide.                                      *)
(***************************************************************************)
EXTENDS ConfigurationProperties, TLAPS

USE ConfigAssumption

(* Fields of a configuration, named once for the lemmas below              *)

Typed(c) ==
    /\ c.addrs \in Seq(Address) /\ c.db \in Int
    /\ c.network \in Networks \cup {"", "unknown"}
    /\ c.clientName \in {"", "valid", "invalid"}
    /\ c.tls \in TLS \cup {None} /\ c.sentinel \in Sentinel \cup {None}
    /\ c.minIdleConns \in Int /\ c.maxIdleConns \in Int
    /\ c.maxActiveConns \in Int /\ c.maxRetries \in Int
    /\ c.connMaxIdleTime \in Duration /\ c.idleTimeout \in Duration
    /\ c.connMaxLifetime \in Duration /\ c.maxConnAge \in Duration
    /\ c.poolTimeout \in Duration /\ c.dialTimeout \in Duration
    /\ c.readTimeout \in Duration /\ c.writeTimeout \in Duration
    /\ c.minRetryBackoff \in Duration /\ c.maxRetryBackoff \in Duration

\* x and y differ in the preferred lifecycle fields and the pool size at most.
Alike(x, y) ==
    /\ x.addrs = y.addrs /\ x.network = y.network /\ x.tls = y.tls
    /\ x.db = y.db /\ x.sentinel = y.sentinel /\ x.clientName = y.clientName
    /\ x.minIdleConns = y.minIdleConns /\ x.maxIdleConns = y.maxIdleConns
    /\ x.idleTimeout = y.idleTimeout /\ x.maxConnAge = y.maxConnAge
    /\ x.poolTimeout = y.poolTimeout /\ x.dialTimeout = y.dialTimeout
    /\ x.readTimeout = y.readTimeout /\ x.writeTimeout = y.writeTimeout
    /\ x.maxRetries = y.maxRetries /\ x.minRetryBackoff = y.minRetryBackoff
    /\ x.maxRetryBackoff = y.maxRetryBackoff

\* d is c with the defaults, given what normalization makes of two fields.
Filled(d, c, idle, life) ==
    /\ d.addrs = c.addrs /\ d.tls = c.tls /\ d.db = c.db
    /\ d.sentinel = c.sentinel /\ d.clientName = c.clientName
    /\ d.idleTimeout = c.idleTimeout /\ d.maxConnAge = c.maxConnAge
    /\ d.network = IF c.network = "" THEN "tcp" ELSE c.network
    /\ d.minIdleConns = IntOrDefault(c.minIdleConns, 10)
    /\ d.maxIdleConns = IntOrDefault(c.maxIdleConns, 20)
    /\ d.maxActiveConns = IntOrDefault(c.maxActiveConns, 100)
    /\ d.maxRetries = IntOrDefault(c.maxRetries, 3)
    /\ d.connMaxIdleTime = OrDefault(idle, 5 * Minute)
    /\ d.connMaxLifetime = OrDefault(life, 30 * Minute)
    /\ d.poolTimeout = OrDefault(c.poolTimeout, 3 * Second)
    /\ d.dialTimeout = OrDefault(c.dialTimeout, 10 * Second)
    /\ d.readTimeout = OrDefault(c.readTimeout, 10 * Second)
    /\ d.writeTimeout = OrDefault(c.writeTimeout, 10 * Second)
    /\ d.minRetryBackoff = OrDefault(c.minRetryBackoff, 8)
    /\ d.maxRetryBackoff = OrDefault(c.maxRetryBackoff, DefaultMaxRetryBackoff)

\* The default durations are integers.
LEMMA Units ==
  /\ Second \in Int /\ Minute \in Int
  /\ 3 * Second \in Int /\ 10 * Second \in Int
  /\ 5 * Minute \in Int /\ 30 * Minute \in Int
  /\ DefaultMaxRetryBackoff \in Int
  BY DEF Second, Minute, DefaultMaxRetryBackoff

LEMMA FieldTypes ==
  ASSUME NEW c \in Redis
  PROVE  Typed(c)
  BY DEF Redis, Typed
-----------------------------------------------------------------------------
(* Defaults                                                                *)

\* Normalization fills in two fields and leaves the others alone.
LEMMA Normalized ==
  ASSUME NEW c \in Redis
  PROVE  LET n == normalizeLegacyLifecycleFields(c)
         IN  /\ n \in Redis /\ Alike(n, c)
             /\ n.maxActiveConns = c.maxActiveConns
             /\ n.connMaxIdleTime = Effective(c.connMaxIdleTime, c.idleTimeout)
             /\ n.connMaxLifetime = Effective(c.connMaxLifetime, c.maxConnAge)
  BY DEF Redis, normalizeLegacyLifecycleFields, Effective, Alike

\* What the defaults make of every field.
LEMMA DefaultFields ==
  ASSUME NEW c \in Redis
  PROVE  Filled(setDefaultValues(c), c, Effective(c.connMaxIdleTime, c.idleTimeout),
                Effective(c.connMaxLifetime, c.maxConnAge))
<1> DEFINE n == normalizeLegacyLifecycleFields(c)
           d == setDefaultValues(c)
<1>1. /\ Alike(n, c) /\ n.maxActiveConns = c.maxActiveConns
      /\ n.connMaxIdleTime = Effective(c.connMaxIdleTime, c.idleTimeout)
      /\ n.connMaxLifetime = Effective(c.connMaxLifetime, c.maxConnAge)
  BY Normalized
<1> HIDE DEF n
<1>2. Filled(d, n, n.connMaxIdleTime, n.connMaxLifetime)
  BY DEF setDefaultValues, n, Filled
<1> HIDE DEF d
<1> QED
  BY <1>1, <1>2 DEF d, Alike, Filled

\* A configuration with its defaults is a configuration, and has no field that
\* normalization or the defaults would fill in.
LEMMA DefaultTypes ==
  ASSUME NEW c \in Redis
  PROVE  LET d == setDefaultValues(c)
         IN  /\ d \in Redis
             /\ d.connMaxIdleTime # None /\ d.connMaxLifetime # None
             /\ Filled(d, d, d.connMaxIdleTime, d.connMaxLifetime)
<1> DEFINE n == normalizeLegacyLifecycleFields(c)
           d == setDefaultValues(c)
<1>1. n \in Redis
  BY Normalized
<1> HIDE DEF n
<1>2. Typed(n)
  BY <1>1, FieldTypes
<1>3. Filled(d, n, n.connMaxIdleTime, n.connMaxLifetime)
  BY DEF setDefaultValues, n, Filled
<1>4. d = [network         |-> d.network,
           addrs           |-> d.addrs,
           db              |-> d.db,
           clientName      |-> d.clientName,
           minIdleConns    |-> d.minIdleConns,
           maxIdleConns    |-> d.maxIdleConns,
           maxActiveConns  |-> d.maxActiveConns,
           connMaxIdleTime |-> d.connMaxIdleTime,
           idleTimeout     |-> d.idleTimeout,
           connMaxLifetime |-> d.connMaxLifetime,
           maxConnAge      |-> d.maxConnAge,
           poolTimeout     |-> d.poolTimeout,
           dialTimeout     |-> d.dialTimeout,
           readTimeout     |-> d.readTimeout,
           writeTimeout    |-> d.writeTimeout,
           maxRetries      |-> d.maxRetries,
           minRetryBackoff |-> d.minRetryBackoff,
           maxRetryBackoff |-> d.maxRetryBackoff,
           tls             |-> d.tls,
           sentinel        |-> d.sentinel]
  BY DEF setDefaultValues
<1> HIDE DEF d
<1>5. Typed(d)
  <2>1. /\ d.addrs \in Seq(Address) /\ d.db \in Int
        /\ d.network \in Networks \cup {"", "unknown"}
        /\ d.clientName \in {"", "valid", "invalid"}
        /\ d.tls \in TLS \cup {None} /\ d.sentinel \in Sentinel \cup {None}
        /\ d.idleTimeout \in Duration /\ d.maxConnAge \in Duration
    BY <1>2, <1>3 DEF Typed, Filled, Networks
  <2>2. /\ d.minIdleConns \in Int /\ d.maxIdleConns \in Int
        /\ d.maxActiveConns \in Int /\ d.maxRetries \in Int
    <3>1. /\ n.minIdleConns \in Int /\ n.maxIdleConns \in Int
          /\ n.maxActiveConns \in Int /\ n.maxRetries \in Int
      BY <1>2 DEF Typed
    <3>2. /\ d.minIdleConns = IntOrDefault(n.minIdleConns, 10)
          /\ d.maxIdleConns = IntOrDefault(n.maxIdleConns, 20)
          /\ d.maxActiveConns = IntOrDefault(n.maxActiveConns, 100)
          /\ d.maxRetries = IntOrDefault(n.maxRetries, 3)
      BY <1>3 DEF Filled
    <3> QED
      BY <3>1, <3>2 DEF IntOrDefault
  <2>3. /\ d.connMaxIdleTime \in Duration /\ d.connMaxLifetime \in Duration
        /\ d.poolTimeout \in Duration /\ d.dialTimeout \in Duration
        /\ d.readTimeout \in Duration /\ d.writeTimeout \in Duration
        /\ d.minRetryBackoff \in Duration /\ d.maxRetryBackoff \in Duration
    <3>1. /\ n.connMaxIdleTime \in Duration /\ n.connMaxLifetime \in Duration
          /\ n.poolTimeout \in Duration /\ n.dialTimeout \in Duration
          /\ n.readTimeout \in Duration /\ n.writeTimeout \in Duration
          /\ n.minRetryBackoff \in Duration /\ n.maxRetryBackoff \in Duration
      BY <1>2 DEF Typed
    <3>2. /\ d.connMaxIdleTime = OrDefault(n.connMaxIdleTime, 5 * Minute)
          /\ d.connMaxLifetime = OrDefault(n.connMaxLifetime, 30 * Minute)
          /\ d.poolTimeout = OrDefault(n.poolTimeout, 3 * Second)
          /\ d.dialTimeout = OrDefault(n.dialTimeout, 10 * Second)
          /\ d.readTimeout = OrDefault(n.readTimeout, 10 * Second)
          /\ d.writeTimeout = OrDefault(n.writeTimeout, 10 * Second)
          /\ d.minRetryBackoff = OrDefault(n.minRetryBackoff, 8)
          /\ d.maxRetryBackoff = OrDefault(n.maxRetryBackoff, DefaultMaxRetryBackoff)
      BY <1>3 DEF Filled
    <3> QED
      BY <3>1, <3>2, Units DEF OrDefault, Duration
  <2> QED
    BY <2>1, <2>2, <2>3 DEF Typed
<1>6. d \in Redis
  BY <1>4, <1>5 DEF Redis, Typed
<1>7. d.connMaxIdleTime # None /\ d.connMaxLifetime # None
  BY <1>3, Units DEF Filled, OrDefault
<1>8. Filled(d, d, d.connMaxIdleTime, d.connMaxLifetime)
  BY <1>3 DEF Filled, OrDefault, IntOrDefault
<1> QED
  BY <1>6, <1>7, <1>8 DEF d

\* There is nothing to normalize after the defaults.
LEMMA NormalAfterDefaults ==
  ASSUME NEW c \in Redis
  PROVE  normalizeLegacyLifecycleFields(setDefaultValues(c)) = setDefaultValues(c)
<1> DEFINE d == setDefaultValues(c)
<1>1. d \in Redis /\ d.connMaxIdleTime # None /\ d.connMaxLifetime # None
  BY DefaultTypes
<1> HIDE DEF d
<1>2. [d EXCEPT !.connMaxIdleTime = d.connMaxIdleTime,
                !.connMaxLifetime = d.connMaxLifetime] = d
  BY <1>1 DEF Redis
<1>3. normalizeLegacyLifecycleFields(d) = d
  BY <1>1, <1>2 DEF normalizeLegacyLifecycleFields, Effective
<1> QED
  BY <1>3 DEF d

\* Filling in the defaults a second time changes nothing.
LEMMA DefaultsTwice ==
  ASSUME NEW c \in Redis
  PROVE  setDefaultValues(setDefaultValues(c)) = setDefaultValues(c)
<1> DEFINE d == setDefaultValues(c)
<1>1. /\ normalizeLegacyLifecycleFields(d) = d
      /\ Filled(d, d, d.connMaxIdleTime, d.connMaxLifetime)
  BY DefaultTypes, NormalAfterDefaults
<1>2. d = [network         |-> d.network,
           addrs           |-> d.addrs,
           db              |-> d.db,
           clientName      |-> d.clientName,
           minIdleConns    |-> d.minIdleConns,
           maxIdleConns    |-> d.maxIdleConns,
           maxActiveConns  |-> d.maxActiveConns,
           connMaxIdleTime |-> d.connMaxIdleTime,
           idleTimeout     |-> d.idleTimeout,
           connMaxLifetime |-> d.connMaxLifetime,
           maxConnAge      |-> d.maxConnAge,
           poolTimeout     |-> d.poolTimeout,
           dialTimeout     |-> d.dialTimeout,
           readTimeout     |-> d.readTimeout,
           writeTimeout    |-> d.writeTimeout,
           maxRetries      |-> d.maxRetries,
           minRetryBackoff |-> d.minRetryBackoff,
           maxRetryBackoff |-> d.maxRetryBackoff,
           tls             |-> d.tls,
           sentinel        |-> d.sentinel]
  BY DEF setDefaultValues
<1> HIDE DEF d
<1>3. setDefaultValues(d) = d
  BY <1>1, <1>2 DEF setDefaultValues, Filled
<1> QED
  BY <1>3 DEF d

\* What was accepted once is accepted again.
LEMMA AcceptedAgain ==
  ASSUME NEW c \in Redis, Accepted(c)
  PROVE  Accepted(setDefaultValues(c))
  BY DefaultsTwice DEF Accepted

\* Removing the prefix keeps the list and its length.
LEMMA Trimmed ==
  ASSUME NEW s \in Seq(Address)
  PROVE  LET t == [i \in DOMAIN s |-> TrimRediss(s[i])]
         IN  t \in Seq(Address) /\ Len(t) = Len(s)
<1> DEFINE t == [i \in DOMAIN s |-> TrimRediss(s[i])]
<1>1. \A a \in Address : TrimRediss(a) \in Address
  BY DEF TrimRediss, Address, Schemes
<1>2. DOMAIN s = 1..Len(s) /\ Len(s) \in Nat
  OBVIOUS
<1>3. t \in Seq(Address)
  BY <1>1, <1>2
<1>4. Len(t) = Len(s)
  BY <1>2, <1>3
<1> QED
  BY <1>3, <1>4

\* The mode that is reported is the topology the options make.
LEMMA ModesAgree ==
  ASSUME NEW c \in Redis
  PROVE  c # None /\ detectMode(c) = Topology(buildUniversalOptions(c))
<1> DEFINE o == buildUniversalOptions(c)
<1>1. c.addrs \in Seq(Address) /\ (c.sentinel # None => c.sentinel \in Sentinel)
  BY FieldTypes DEF Typed
<1>2. Len(o.addrs) = Len(currentAddrList(c))
  BY <1>1, Trimmed DEF buildUniversalOptions, currentAddrList, HasSentinels
<1>3. o.masterName = IF c.sentinel = None THEN "" ELSE c.sentinel.masterName
  BY DEF buildUniversalOptions
<1> HIDE DEF o
<1>4. detectMode(c) = Topology(o)
  BY <1>1, <1>2, <1>3 DEF detectMode, Topology
<1> QED
  BY <1>4 DEF o

\* The validation of the configuration with its defaults, rule by rule.
LEMMA AcceptedRules ==
  ASSUME NEW c \in Redis
  PROVE  LET d == setDefaultValues(c)
         IN  Accepted(c) <=>
               /\ validateBasicConnection(d)
               /\ validateConnectionPool(d)
               /\ validateTimeouts(d)
               /\ validateRetryConfig(d)
               /\ validateTLSConfig(d)
               /\ validateSentinelConfig(d)
               /\ validateDatabaseConfig(d)
               /\ validateClientName(d)
               /\ validateNetworkConfig(d)
  BY NormalAfterDefaults DEF Accepted, ValidateRedisConfig

\* Nothing but a default that contradicts it makes a valid configuration invalid.
LEMMA ConflictsOnly ==
  ASSUME NEW c \in Redis, ValidAsGiven(c), ~DefaultsConflict(c)
  PROVE  Accepted(c)
<1> DEFINE d == setDefaultValues(c)
           e == [c EXCEPT !.maxActiveConns = AnyPool(c)]
           n == normalizeLegacyLifecycleFields(e)
<1>b. Typed(c)
  BY FieldTypes
<1>d. AnyPool(c) \in Int
  <2>1. c.maxActiveConns \in Int /\ c.minIdleConns \in Int
    BY <1>b DEF Typed
  <2> QED
    BY <2>1 DEF AnyPool
<1>1. e \in Redis /\ Alike(e, c) /\ e.maxActiveConns = AnyPool(c)
      /\ e.connMaxIdleTime = c.connMaxIdleTime
      /\ e.connMaxLifetime = c.connMaxLifetime
  BY <1>d DEF Redis, Alike
<1>2. /\ validateBasicConnection(n) /\ validateConnectionPool(n)
      /\ validateTimeouts(n) /\ validateRetryConfig(n) /\ validateTLSConfig(n)
      /\ validateSentinelConfig(n) /\ validateDatabaseConfig(n)
      /\ validateClientName(n) /\ validateNetworkConfig(n)
  BY DEF ValidAsGiven, ValidateRedisConfig
<1> HIDE DEF e
<1>3. /\ Alike(n, e) /\ n.maxActiveConns = e.maxActiveConns
      /\ n.connMaxIdleTime = Effective(e.connMaxIdleTime, e.idleTimeout)
      /\ n.connMaxLifetime = Effective(e.connMaxLifetime, e.maxConnAge)
  BY <1>1, Normalized
<1>a. /\ Alike(n, c) /\ n.maxActiveConns = AnyPool(c)
      /\ n.connMaxIdleTime = Effective(c.connMaxIdleTime, c.idleTimeout)
      /\ n.connMaxLifetime = Effective(c.connMaxLifetime, c.maxConnAge)
  BY <1>1, <1>3 DEF Alike
<1>c. Filled(d, c, n.connMaxIdleTime, n.connMaxLifetime)
  BY <1>a, DefaultFields
<1> HIDE DEF n, d
<1>4. /\ validateBasicConnection(d) /\ validateTLSConfig(d)
      /\ validateSentinelConfig(d) /\ validateDatabaseConfig(d)
      /\ validateClientName(d)
  BY <1>2, <1>a, <1>b, <1>c
  DEF Typed, Alike, Filled, validateBasicConnection, validateTLSConfig, validateSentinelConfig,
      validateDatabaseConfig, isClusterMode, validateClientName
<1>5. validateNetworkConfig(d)
  BY <1>2, <1>a, <1>b, <1>c DEF Typed, Alike, Filled, validateNetworkConfig, Networks
<1>6. validateTimeouts(d)
  <2>1. /\ c.dialTimeout \in Duration /\ c.readTimeout \in Duration
        /\ c.writeTimeout \in Duration
    BY <1>b DEF Typed
  <2>2. /\ d.dialTimeout = OrDefault(c.dialTimeout, 10 * Second)
        /\ d.readTimeout = OrDefault(c.readTimeout, 10 * Second)
        /\ d.writeTimeout = OrDefault(c.writeTimeout, 10 * Second)
    BY <1>c DEF Filled
  <2>3. /\ Within(c.dialTimeout, 60 * Second)
        /\ Within(c.readTimeout, 300 * Second)
        /\ Within(c.writeTimeout, 300 * Second)
    BY <1>2, <1>a DEF Alike, validateTimeouts
  <2>4. /\ Within(d.dialTimeout, 60 * Second)
        /\ Within(d.readTimeout, 300 * Second)
        /\ Within(d.writeTimeout, 300 * Second)
    BY <2>1, <2>2, <2>3 DEF Within, OrDefault, Duration, Second
  <2> QED
    BY <2>4 DEF validateTimeouts
<1>7. validateRetryConfig(d)
  <2>1. /\ c.maxRetries \in Int /\ c.minRetryBackoff \in Duration
        /\ c.maxRetryBackoff \in Duration
    BY <1>b DEF Typed
  <2>2. /\ d.maxRetries = IntOrDefault(c.maxRetries, 3)
        /\ d.minRetryBackoff = OrDefault(c.minRetryBackoff, 8)
        /\ d.maxRetryBackoff = OrDefault(c.maxRetryBackoff, 512)
    BY <1>c DEF Filled, DefaultMaxRetryBackoff
  <2>3. /\ c.maxRetries >= 0 /\ c.maxRetries <= 10
        /\ Within(c.minRetryBackoff, 1000)
        /\ Within(c.maxRetryBackoff, 30 * 1000)
        /\ c.minRetryBackoff # None /\ c.maxRetryBackoff # None =>
              c.minRetryBackoff <= c.maxRetryBackoff
    BY <1>2, <1>a DEF Alike, validateRetryConfig, Second
  <2>4. /\ ~(c.minRetryBackoff = None /\ c.maxRetryBackoff \in 0..7)
        /\ ~(c.maxRetryBackoff = None /\ c.minRetryBackoff \in 513..1000)
    BY DEF DefaultsConflict
  <2>5. d.maxRetries >= 0 /\ d.maxRetries <= 10
    BY <2>1, <2>2, <2>3 DEF IntOrDefault
  <2>6. /\ Within(d.minRetryBackoff, 1000)
        /\ Within(d.maxRetryBackoff, 30 * 1000)
        /\ d.minRetryBackoff <= d.maxRetryBackoff
    BY <2>1, <2>2, <2>3, <2>4 DEF Within, OrDefault, Duration
  <2> QED
    BY <2>5, <2>6 DEF validateRetryConfig, Second
<1>8. validateConnectionPool(d)
  <2>1. /\ d.minIdleConns >= 0 /\ d.maxIdleConns >= 0 /\ d.maxActiveConns > 0
        /\ d.minIdleConns <= d.maxActiveConns
    <3>1. /\ c.minIdleConns \in Int /\ c.maxIdleConns \in Int
          /\ c.maxActiveConns \in Int
      BY <1>b DEF Typed
    <3>2. /\ d.minIdleConns = IntOrDefault(c.minIdleConns, 10)
          /\ d.maxIdleConns = IntOrDefault(c.maxIdleConns, 20)
          /\ d.maxActiveConns = IntOrDefault(c.maxActiveConns, 100)
      BY <1>c DEF Filled
    <3>3. /\ c.minIdleConns >= 0 /\ c.maxIdleConns >= 0 /\ AnyPool(c) > 0
          /\ c.minIdleConns > 0 /\ AnyPool(c) > 0 =>
                c.minIdleConns <= AnyPool(c)
      BY <1>2, <1>a DEF Alike, validateConnectionPool
    <3>4. /\ ~(c.minIdleConns = 0 /\ c.maxActiveConns \in 1..9)
          /\ ~(c.maxActiveConns = 0 /\ c.minIdleConns > 100)
      BY DEF DefaultsConflict
    <3> QED
      BY <3>1, <3>2, <3>3, <3>4 DEF IntOrDefault, AnyPool
  <2>a. /\ c.connMaxIdleTime \in Duration /\ c.idleTimeout \in Duration
        /\ c.connMaxLifetime \in Duration /\ c.maxConnAge \in Duration
        /\ c.poolTimeout \in Duration
    BY <1>b DEF Typed
  <2>b. /\ d.idleTimeout = c.idleTimeout /\ d.maxConnAge = c.maxConnAge
        /\ d.connMaxIdleTime = OrDefault(n.connMaxIdleTime, 5 * Minute)
        /\ d.connMaxLifetime = OrDefault(n.connMaxLifetime, 30 * Minute)
        /\ d.poolTimeout = OrDefault(c.poolTimeout, 3 * Second)
    BY <1>c DEF Filled
  <2>c. /\ n.idleTimeout = c.idleTimeout /\ n.maxConnAge = c.maxConnAge
        /\ n.poolTimeout = c.poolTimeout
        /\ n.connMaxIdleTime = Effective(c.connMaxIdleTime, c.idleTimeout)
        /\ n.connMaxLifetime = Effective(c.connMaxLifetime, c.maxConnAge)
    BY <1>a DEF Alike
  <2>d. /\ Agree(n.connMaxIdleTime, n.idleTimeout)
        /\ Agree(n.connMaxLifetime, n.maxConnAge)
        /\ Within(Effective(n.connMaxIdleTime, n.idleTimeout), Day)
        /\ Within(Effective(n.connMaxLifetime, n.maxConnAge), 7 * Day)
        /\ Within(n.poolTimeout, 5 * Minute)
    BY <1>2 DEF validateConnectionPool
  <2>2. /\ Agree(d.connMaxIdleTime, d.idleTimeout)
        /\ Agree(d.connMaxLifetime, d.maxConnAge)
    BY <2>b, <2>c, <2>d DEF Agree, Effective, OrDefault
  <2>3. /\ Within(Effective(d.connMaxIdleTime, d.idleTimeout), Day)
        /\ Within(Effective(d.connMaxLifetime, d.maxConnAge), 7 * Day)
    BY <2>a, <2>b, <2>c, <2>d
    DEF Within, Effective, OrDefault, Duration, Second, Minute, Hour, Day
  <2>4. Within(d.poolTimeout, 5 * Minute)
    BY <2>a, <2>b, <2>c, <2>d DEF Within, OrDefault, Duration, Second, Minute
  <2> QED
    BY <2>1, <2>2, <2>3, <2>4 DEF validateConnectionPool
<1> QED
  BY <1>4, <1>5, <1>6, <1>7, <1>8, AcceptedRules DEF d
-----------------------------------------------------------------------------
(* Options                                                                 *)

\* The options are well typed: no duration is nil.
LEMMA OptionTypes ==
  ASSUME NEW c \in Redis
  PROVE  buildUniversalOptions(c) \in [
                addrs           : Seq(Address),
                masterName      : {"", "blank", "name"},
                db              : Int,
                minIdleConns    : Int,
                maxIdleConns    : Int,
                poolSize        : Int,
                maxActiveConns  : Int,
                dialTimeout     : Int,
                readTimeout     : Int,
                writeTimeout    : Int,
                connMaxIdleTime : Int,
                connMaxLifetime : Int,
                poolTimeout     : Int,
                maxRetries      : Int,
                minRetryBackoff : Int,
                maxRetryBackoff : Int,
                clientName      : {"", "valid", "invalid"},
                tls             : {"none", "verified", "insecure"},
                contextTimeoutEnabled : BOOLEAN]
<1>1. /\ c.addrs \in Seq(Address) /\ (c.sentinel # None => c.sentinel \in Sentinel)
      /\ c.minIdleConns \in Int /\ c.maxIdleConns \in Int
      /\ c.maxActiveConns \in Int /\ c.maxRetries \in Int /\ c.db \in Int
      /\ c.clientName \in {"", "valid", "invalid"}
  BY FieldTypes DEF Typed
<1>2. /\ c.connMaxIdleTime \in Duration /\ c.idleTimeout \in Duration
      /\ c.connMaxLifetime \in Duration /\ c.maxConnAge \in Duration
      /\ c.poolTimeout \in Duration /\ c.dialTimeout \in Duration
      /\ c.readTimeout \in Duration /\ c.writeTimeout \in Duration
      /\ c.minRetryBackoff \in Duration /\ c.maxRetryBackoff \in Duration
  BY FieldTypes DEF Typed
<1>3. c.sentinel # None => /\ c.sentinel.addrs \in Seq(Address)
                           /\ c.sentinel.masterName \in {"", "blank", "name"}
  BY <1>1 DEF Sentinel
<1>4. (IF HasSentinels(c) THEN c.sentinel.addrs
       ELSE [i \in DOMAIN c.addrs |-> TrimRediss(c.addrs[i])]) \in Seq(Address)
  BY <1>1, <1>3, Trimmed DEF HasSentinels
<1>5. (IF c.sentinel = None THEN "" ELSE c.sentinel.masterName)
         \in {"", "blank", "name"}
  BY <1>3
<1>6. /\ AsDuration(c.dialTimeout) \in Int /\ AsDuration(c.readTimeout) \in Int
      /\ AsDuration(c.writeTimeout) \in Int /\ AsDuration(c.poolTimeout) \in Int
      /\ AsDuration(c.minRetryBackoff) \in Int
      /\ AsDuration(c.maxRetryBackoff) \in Int
      /\ AsDuration(Effective(c.connMaxIdleTime, c.idleTimeout)) \in Int
      /\ AsDuration(Effective(c.connMaxLifetime, c.maxConnAge)) \in Int
  BY <1>2 DEF AsDuration, Effective, Duration
<1>7. tlsConfig(c) \in {"none", "verified", "insecure"}
  BY DEF tlsConfig
<1> QED
  BY <1>1, <1>4, <1>5, <1>6, <1>7 DEF buildUniversalOptions

\* The empty configuration is one.
LEMMA EmptyIsConfiguration == Empty \in Redis
<1>1. <<>> \in Seq(Address) /\ 0 \in Int
  OBVIOUS
<1>2. /\ None \in Duration
      /\ None \in TLS \cup {None} /\ None \in Sentinel \cup {None}
      /\ "" \in Networks \cup {"", "unknown"} /\ "" \in {"", "valid", "invalid"}
  BY DEF Duration
<1> QED
  BY <1>1, <1>2 DEF Empty, Redis

\* What was given reaches the options through the defaults.
LEMMA Reaches ==
  ASSUME NEW g \in Redis
  PROVE  LET o == buildUniversalOptions(setDefaultValues(g))
         IN  /\ Taken(o.connMaxIdleTime, g.connMaxIdleTime, g.idleTimeout)
             /\ Taken(o.connMaxLifetime, g.connMaxLifetime, g.maxConnAge)
             /\ Taken(o.dialTimeout, g.dialTimeout, None)
             /\ Taken(o.readTimeout, g.readTimeout, None)
             /\ Taken(o.writeTimeout, g.writeTimeout, None)
             /\ Taken(o.poolTimeout, g.poolTimeout, None)
             /\ Taken(o.minRetryBackoff, g.minRetryBackoff, None)
             /\ Taken(o.maxRetryBackoff, g.maxRetryBackoff, None)
             /\ g.minIdleConns # 0 => o.minIdleConns = g.minIdleConns
             /\ g.maxIdleConns # 0 => o.maxIdleConns = g.maxIdleConns
             /\ g.maxActiveConns # 0 =>
                   o.poolSize = g.maxActiveConns /\ o.maxActiveConns = g.maxActiveConns
             /\ g.maxRetries # 0 => o.maxRetries = g.maxRetries
<1> DEFINE d == setDefaultValues(g)
           o == buildUniversalOptions(d)
<1>1. Filled(d, g, Effective(g.connMaxIdleTime, g.idleTimeout),
             Effective(g.connMaxLifetime, g.maxConnAge))
  BY DefaultFields
<1> HIDE DEF d
<1>2. /\ o.connMaxIdleTime = AsDuration(Effective(d.connMaxIdleTime, d.idleTimeout))
      /\ o.connMaxLifetime = AsDuration(Effective(d.connMaxLifetime, d.maxConnAge))
      /\ o.dialTimeout = AsDuration(d.dialTimeout)
      /\ o.readTimeout = AsDuration(d.readTimeout)
      /\ o.writeTimeout = AsDuration(d.writeTimeout)
      /\ o.poolTimeout = AsDuration(d.poolTimeout)
      /\ o.minRetryBackoff = AsDuration(d.minRetryBackoff)
      /\ o.maxRetryBackoff = AsDuration(d.maxRetryBackoff)
      /\ o.minIdleConns = d.minIdleConns /\ o.maxIdleConns = d.maxIdleConns
      /\ o.poolSize = d.maxActiveConns /\ o.maxActiveConns = d.maxActiveConns
      /\ o.maxRetries = d.maxRetries
  BY DEF buildUniversalOptions
<1> HIDE DEF o
<1>3. /\ d.connMaxIdleTime =
            OrDefault(Effective(g.connMaxIdleTime, g.idleTimeout), 5 * Minute)
      /\ d.connMaxLifetime =
            OrDefault(Effective(g.connMaxLifetime, g.maxConnAge), 30 * Minute)
      /\ d.dialTimeout = OrDefault(g.dialTimeout, 10 * Second)
      /\ d.readTimeout = OrDefault(g.readTimeout, 10 * Second)
      /\ d.writeTimeout = OrDefault(g.writeTimeout, 10 * Second)
      /\ d.poolTimeout = OrDefault(g.poolTimeout, 3 * Second)
      /\ d.minRetryBackoff = OrDefault(g.minRetryBackoff, 8)
      /\ d.maxRetryBackoff = OrDefault(g.maxRetryBackoff, DefaultMaxRetryBackoff)
      /\ d.minIdleConns = IntOrDefault(g.minIdleConns, 10)
      /\ d.maxIdleConns = IntOrDefault(g.maxIdleConns, 20)
      /\ d.maxActiveConns = IntOrDefault(g.maxActiveConns, 100)
      /\ d.maxRetries = IntOrDefault(g.maxRetries, 3)
  BY <1>1 DEF Filled
<1>4. /\ Taken(o.connMaxIdleTime, g.connMaxIdleTime, g.idleTimeout)
      /\ Taken(o.connMaxLifetime, g.connMaxLifetime, g.maxConnAge)
  BY <1>2, <1>3 DEF OrDefault, Effective, AsDuration, Taken
<1>5. /\ Taken(o.dialTimeout, g.dialTimeout, None)
      /\ Taken(o.readTimeout, g.readTimeout, None)
      /\ Taken(o.writeTimeout, g.writeTimeout, None)
      /\ Taken(o.poolTimeout, g.poolTimeout, None)
  BY <1>2, <1>3 DEF OrDefault, AsDuration, Taken
<1>6. /\ Taken(o.minRetryBackoff, g.minRetryBackoff, None)
      /\ Taken(o.maxRetryBackoff, g.maxRetryBackoff, None)
  BY <1>2, <1>3 DEF OrDefault, AsDuration, Taken
<1>7. /\ g.minIdleConns # 0 => o.minIdleConns = g.minIdleConns
      /\ g.maxIdleConns # 0 => o.maxIdleConns = g.maxIdleConns
      /\ g.maxActiveConns # 0 =>
            o.poolSize = g.maxActiveConns /\ o.maxActiveConns = g.maxActiveConns
      /\ g.maxRetries # 0 => o.maxRetries = g.maxRetries
  BY <1>2, <1>3 DEF IntOrDefault
<1> QED
  BY <1>4, <1>5, <1>6, <1>7 DEF o, d

\* An accepted configuration constructs what is reported, and no cluster with
\* a database.
LEMMA Matches ==
  ASSUME NEW g \in Redis, Accepted(g)
  PROVE  LET d == setDefaultValues(g)
         IN  /\ detectMode(d) = Topology(buildUniversalOptions(d))
             /\ detectMode(d) = "cluster" => buildUniversalOptions(d).db = 0
<1> DEFINE d == setDefaultValues(g)
<1>1. /\ d \in Redis /\ validateSentinelConfig(d) /\ validateDatabaseConfig(d)
  BY DefaultTypes, AcceptedRules
<1> HIDE DEF d
<1>2. d # None /\ detectMode(d) = Topology(buildUniversalOptions(d))
  BY <1>1, ModesAgree
<1>3. buildUniversalOptions(d).db = d.db
  BY DEF buildUniversalOptions
<1>4. detectMode(d) = "cluster" => d.db = 0
  BY <1>1, <1>2
  DEF detectMode, validateSentinelConfig, validateDatabaseConfig, isClusterMode,
      currentAddrList, HasSentinels
<1> QED
  BY <1>2, <1>3, <1>4 DEF d
-----------------------------------------------------------------------------
(* The inductive invariant                                                 *)

LEMMA PreparedInit == Init => PreparedInv
  BY DEF Init, PreparedInv

LEMMA PreparedStep == PreparedInv /\ [Next]_vars => PreparedInv'
<1> SUFFICES ASSUME PreparedInv, [Next]_vars
             PROVE  PreparedInv'
  OBVIOUS
<1>1. CASE UNCHANGED vars
  BY <1>1 DEF vars, PreparedInv
<1>2. ASSUME NEW c \in Candidates, Initialize(c)
      PROVE  PreparedInv'
  <2>1. c \in Redis /\ setDefaultValues(c) # None /\ c # None
    BY CandidatesAssumption, DefaultTypes
  <2> QED
    BY <1>2, <2>1 DEF Initialize, PreparedInv
<1>3. ASSUME NEW c \in Candidates, Configure(c)
      PROVE  PreparedInv'
  <2>1. c \in Redis /\ setDefaultValues(c) # None /\ c # None
    BY CandidatesAssumption, DefaultTypes
  <2> QED
    BY <1>3, <2>1 DEF Configure, PreparedInv
<1>4. CASE Reinitialize
  <2>1. /\ given \in Redis /\ Accepted(given) /\ conf = setDefaultValues(given)
    BY <1>4, CandidatesAssumption DEF Reinitialize, PreparedInv
  <2>2. conf' = conf /\ refused' = None
    BY <1>4, <2>1, DefaultsTwice, AcceptedAgain DEF Reinitialize
  <2> QED
    BY <1>4, <2>2 DEF Reinitialize, PreparedInv
<1>5. CASE Start
  BY <1>5 DEF Start, PreparedInv
<1>6. CASE Stop
  BY <1>6 DEF Stop, PreparedInv
<1> QED
  BY <1>1, <1>2, <1>3, <1>4, <1>5, <1>6 DEF Next

\* What is in memory was given and accepted, and the client was constructed from
\* what was in memory at its start.
THEOREM Preparation == Spec => []PreparedInv
  BY PreparedInit, PreparedStep, PTL DEF Spec

\* Initializing the plugin again neither fails nor changes the configuration.
THEOREM Stability == Spec => []AcceptedIsStable
<1>1. PreparedInv => AcceptedIsStable
  BY CandidatesAssumption, DefaultsTwice, AcceptedAgain
  DEF PreparedInv, AcceptedIsStable
<1> QED
  BY <1>1, Preparation, PTL

\* The reported mode is the constructed topology, and no cluster is asked for a
\* database.
THEOREM Topologies == Spec => []ClientMatchesConf
<1>1. PreparedInv => ClientMatchesConf
  <2> SUFFICES ASSUME PreparedInv, client # None, client.conf # None,
                      client.conf = conf
               PROVE  /\ detectMode(conf) = Topology(client.options)
                      /\ detectMode(conf) = "cluster" => client.options.db = 0
    BY DEF ClientMatchesConf
  <2>1. /\ client.given \in Redis /\ Accepted(client.given)
        /\ conf = setDefaultValues(client.given)
        /\ client.options = buildUniversalOptions(conf)
    BY CandidatesAssumption DEF PreparedInv
  <2> QED
    BY <2>1, Matches
<1> QED
  BY <1>1, Preparation, PTL

\* What was given is what the client was constructed with.
THEOREM Effect == Spec => []GivenTakesEffect
<1>1. PreparedInv => GivenTakesEffect
  <2> SUFFICES ASSUME PreparedInv, client # None, client.given # None
               PROVE  GivenTakesEffect
    BY DEF GivenTakesEffect
  <2>1. /\ client.given \in Redis
        /\ client.options = buildUniversalOptions(setDefaultValues(client.given))
    BY CandidatesAssumption DEF PreparedInv
  <2> QED
    BY <2>1, Reaches DEF GivenTakesEffect
<1> QED
  BY <1>1, Preparation, PTL

\* Nothing but a contradicting default makes a valid configuration refused.
THEOREM Conflicts == Spec => []OnlyDefaultsConflict
<1>1. PreparedInv => OnlyDefaultsConflict
  BY CandidatesAssumption, ConflictsOnly DEF PreparedInv, OnlyDefaultsConflict
<1> QED
  BY <1>1, Preparation, PTL

\* No duration of the options is nil, and the rest is well typed.
THEOREM ConfigurationTypes == Spec => []TypeOK
<1>1. Init => TypeOK
  BY DEF Init, TypeOK
<1>2. TypeOK /\ [Next]_vars => TypeOK'
  <2> SUFFICES ASSUME TypeOK, [Next]_vars
               PROVE  TypeOK'
    OBVIOUS
  <2>1. CASE UNCHANGED vars
    BY <2>1 DEF vars, TypeOK
  <2>2. ASSUME NEW c \in Candidates, Initialize(c) \/ Configure(c)
        PROVE  TypeOK'
    <3>1. c \in Redis /\ setDefaultValues(c) \in Redis
      BY CandidatesAssumption, DefaultTypes
    <3> QED
      BY <2>2, <3>1 DEF Initialize, Configure, TypeOK
  <2>3. CASE Reinitialize
    <3>1. conf \in Redis /\ setDefaultValues(conf) \in Redis
      BY <2>3, DefaultTypes DEF Reinitialize, TypeOK
    <3> QED
      BY <2>3, <3>1 DEF Reinitialize, TypeOK
  <2>4. CASE Start
    <3>1. (IF conf = None THEN Empty ELSE conf) \in Redis
      BY EmptyIsConfiguration DEF TypeOK
    <3>2. client' \in Client
      BY <2>4, <3>1, OptionTypes DEF Start, TypeOK, Client
    <3> QED
      BY <2>4, <3>2 DEF Start, TypeOK
  <2>5. CASE Stop
    BY <2>5 DEF Stop, TypeOK
  <2> QED
    BY <2>1, <2>2, <2>3, <2>4, <2>5 DEF Next
<1> QED
  BY <1>1, <1>2, PTL DEF Spec

\* What is in memory was given and accepted, the client was constructed from what
\* was in memory at its start, and no duration of its options is nil.
THEOREM Prepared == Spec => []ConfigInv
  BY ConfigurationTypes, Preparation, PTL DEF ConfigInv
=============================================================================
