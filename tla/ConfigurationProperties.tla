----------------------- MODULE ConfigurationProperties -----------------------
(***************************************************************************)
(* What the preparation of a configuration promises.                       *)
(***************************************************************************)
EXTENDS Configuration

\* A configuration that was accepted is accepted again and does not change: a
\* restart that initializes the plugin once more writes nothing into the
\* configuration that reports read at the same time, and cannot fail.
AcceptedIsStable ==
    conf # None => Accepted(conf) /\ setDefaultValues(conf) = conf

\* As long as the client is the one of the configuration in memory, the mode
\* that is reported is the topology that was constructed, and a cluster is never
\* asked for a database it does not have: detectMode, validateDatabaseConfig and
\* buildUniversalOptions each look at addresses and sentinel in their own way.
ClientMatchesConf ==
    client # None /\ client.conf # None /\ client.conf = conf =>
        /\ detectMode(conf) = Topology(client.options)
        /\ detectMode(conf) = "cluster" => client.options.db = 0

\* The option is the duration that was given under its name or, if there is none
\* under that, under its deprecated one.
Taken(option, d, alias) ==
    /\ d # None => option = d
    /\ d = None /\ alias # None => option = alias

\* What a caller gave is what the client is constructed with, under its
\* deprecated name as well and also when it is zero, through every preparation
\* in between: no default and no second preparation replaces it.
GivenTakesEffect ==
    client # None /\ client.given # None =>
        LET g == client.given
            o == client.options
        IN  /\ Taken(o.connMaxIdleTime, g.connMaxIdleTime, g.idleTimeout)
            /\ Taken(o.connMaxLifetime, g.connMaxLifetime, g.maxConnAge)
            /\ Taken(o.dialTimeout, g.dialTimeout, None)
            /\ Taken(o.readTimeout, g.readTimeout, None)
            /\ Taken(o.writeTimeout, g.writeTimeout, None)
            /\ Taken(o.poolTimeout, g.poolTimeout, None)
            /\ Taken(o.minRetryBackoff, g.minRetryBackoff, None)
            /\ Taken(o.maxRetryBackoff, g.maxRetryBackoff, None)
            /\ g.minIdleConns # 0 => o.minIdleConns = g.minIdleConns
            /\ g.maxIdleConns # 0 => o.maxIdleConns = g.maxIdleConns
            /\ g.maxActiveConns # 0 =>
                  o.poolSize = g.maxActiveConns /\ o.maxActiveConns = g.maxActiveConns
            /\ g.maxRetries # 0 => o.maxRetries = g.maxRetries

\* What a caller wrote obeys the rules, whatever the defaults are: only the
\* size of the pool cannot be left out.
AnyPool(c) ==
    IF c.maxActiveConns # 0 THEN c.maxActiveConns
    ELSE IF c.minIdleConns > 0 THEN c.minIdleConns ELSE 1

ValidAsGiven(c) == ValidateRedisConfig([c EXCEPT !.maxActiveConns = AnyPool(c)])

\* The defaults that can contradict what was given.
DefaultsConflict(c) ==
    \/ c.minIdleConns = 0 /\ c.maxActiveConns \in 1..9
    \/ c.maxActiveConns = 0 /\ c.minIdleConns > 100
    \/ c.minRetryBackoff = None /\ c.maxRetryBackoff \in 0..7
    \/ c.maxRetryBackoff = None /\ c.minRetryBackoff \in 513..1000

\* A configuration that obeys the rules is refused only where a default
\* contradicts it: a small pool, many idle connections in a pool of the default
\* size, or one of the two backoffs far from the other's default.
OnlyDefaultsConflict ==
    refused # None /\ ValidAsGiven(refused) => DefaultsConflict(refused)
-----------------------------------------------------------------------------
(* The inductive invariant                                                 *)

\* What is in memory was given and accepted, and the client was constructed from
\* what was in memory then.
PreparedInv ==
    /\ conf = None <=> given = None
    /\ conf # None => /\ given \in Candidates /\ Accepted(given)
                      /\ conf = setDefaultValues(given)
    /\ refused # None => refused \in Candidates /\ ~Accepted(refused)
    /\ client # None =>
          /\ client.conf = None <=> client.given = None
          /\ client.conf # None => /\ client.given \in Candidates
                                   /\ Accepted(client.given)
                                   /\ client.conf = setDefaultValues(client.given)
          /\ client.options = buildUniversalOptions(
                IF client.conf = None THEN Empty ELSE client.conf)

\* With the types, among them that no option is nil: a configuration that is
\* refused, or prepared once more, never takes the place of an accepted one.
ConfigInv == TypeOK /\ PreparedInv
=============================================================================
