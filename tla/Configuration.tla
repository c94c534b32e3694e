---------------------------- MODULE Configuration ----------------------------
(***************************************************************************)
(* Configuration: the way of a configuration into a client.  It is prepared *)
(* when the plugin is initialized from the runtime, again in place when it  *)
(* is initialized after that, and whenever a new one is configured; a start *)
(* takes whatever is in memory.  The calls are atomic here: how they        *)
(* interleave is Lifecycle's subject.                                       *)
(***************************************************************************)
EXTENDS Config

CONSTANTS Candidates    \* configurations the runtime or a caller may provide

ASSUME CandidatesAssumption == Candidates \subseteq Redis

VARIABLES
    conf,       \* the configuration in memory
    given,      \* history: conf as it was given
    refused,    \* history: what InitializeResources has just refused
    client      \* the running client: options, and what they were built from

vars == <<conf, given, refused, client>>

Client == [options : [
                addrs           : Seq(Address),
                masterName      : {"", "blank", "name"},
                db              : Int,
                minIdleConns    : Int,
                maxIdleConns    : Int,
                poolSize        : Int,
                maxActiveConns  : Int,
                dialTimeout     : Int,
                readTimeout     : Int,
                writeTimeout    : Int,
                connMaxIdleTime : Int,
                connMaxLifetime : Int,
                poolTimeout     : Int,
                maxRetries      : Int,
                minRetryBackoff : Int,
                maxRetryBackoff : Int,
                clientName      : {"", "valid", "invalid"},
                tls             : {"none", "verified", "insecure"},
                contextTimeoutEnabled : BOOLEAN],
           conf  : Redis \cup {None},
           given : Candidates \cup {None}]

TypeOK ==
    /\ conf \in Redis \cup {None}
    /\ given \in Candidates \cup {None}
    /\ refused \in Redis \cup {None}
    /\ client \in Client \cup {None}

Init == conf = None /\ given = None /\ refused = None /\ client = None

\* InitializeResources without a configuration in memory: the runtime's.
Initialize(c) ==
    /\ conf = None
    /\ \/ /\ Accepted(c)
          /\ conf' = setDefaultValues(c)
          /\ given' = c
          /\ refused' = None
       \/ /\ ~Accepted(c)
          /\ refused' = c
          /\ UNCHANGED <<conf, given>>
    /\ UNCHANGED client

\* InitializeResources with one: it is prepared again in place, also when that
\* ends in an error.
Reinitialize ==
    /\ conf # None
    /\ conf' = setDefaultValues(conf)
    /\ refused' = IF Accepted(conf) THEN None ELSE conf
    /\ UNCHANGED <<given, client>>

\* Mutant of Configure: the configuration is stored before it is validated.
ConfigureStoresFirst(c) ==
    /\ conf' = setDefaultValues(c)
    /\ given' = c
    /\ refused' = None
    /\ UNCHANGED client

\* A refused configuration leaves the one in memory alone.
Configure(c) ==
    /\ Accepted(c)
    /\ conf' = setDefaultValues(c)
    /\ given' = c
    /\ refused' = None
    /\ UNCHANGED client

\* StartupTasksContext; without a configuration the empty one is used.
Start ==
    /\ client = None
    /\ client' = [options |-> buildUniversalOptions(
                                 IF conf = None THEN Empty ELSE conf),
                  conf    |-> conf,
                  given   |-> given]
    /\ UNCHANGED <<conf, given, refused>>

\* CleanupTasksContext, or a start whose ping fails.
Stop ==
    /\ client # None
    /\ client' = None
    /\ UNCHANGED <<conf, given, refused>>

Next ==
    \/ \E c \in Candidates : Initialize(c) \/ Configure(c)
    \/ Reinitialize \/ Start \/ Stop

Spec == Init /\ [][Next]_vars
=============================================================================
