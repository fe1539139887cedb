--------------------------- MODULE AssistantPool ----------------------------
(***************************************************************************)
(* The life of one ai-assistant process (index.ts) and its PostgreSQL pool *)
(* (PgConnector.ts): start-up, queries, health checks, shutdown on a       *)
(* signal, restart by the orchestrator.                                    *)
(*                                                                         *)
(* The pool itself is pg-pool, modelled as the code uses it: connect()     *)
(* hands out a connection or queues the caller for connectionTimeoutMillis,*)
(* end() waits until every connection that was handed out has come back,   *)
(* and a second end() rejects.                                             *)
(***************************************************************************)
EXTENDS Integers, FiniteSets

CONSTANTS
    Queries,    \* the callers of query(); Boot is the test of initialize()
    Pings,      \* the health checks
    Boot,
    Signals,    \* SIGINT and SIGTERM, or one of them
    Max         \* max of the pool

ASSUME CallersAssumption ==
    /\ IsFiniteSet(Queries) /\ IsFiniteSet(Pings)
    /\ Queries \cap Pings = {} /\ Boot \in Queries
ASSUME SignalsAssumption == IsFiniteSet(Signals)
ASSUME MaxAssumption == Max \in Nat \ {0}

Callers == Queries \cup Pings

VARIABLES
    life,       \* "connecting" to Redis, "testing" the pool, "listening", "exited"
    exit,       \* the exit code, or the uncaught error: "TypeError" in a
                \* signal's handler, "crash" for a broken connection
    caller,     \* what each caller waits for
    cache,      \* the client of Redis: "null" or "client"
    pool,       \* "null", "open" or "ending"
    taken,      \* connections the pool has handed out
    handler,    \* where the handler of each signal is
    failedPings \* history: pings whose query failed since the pool was made

vars == <<life, exit, caller, cache, pool, taken, handler, failedPings>>

NoHandlers == [s \in Signals |-> "none"]
AllIdle == [c \in Callers |-> "idle"]

-----------------------------------------------------------------------------
Init ==
    /\ life = "connecting" /\ exit = "none"
    /\ caller = AllIdle
    /\ cache \in {"null", "client"}     \* whether REDIS_URL is set
    /\ pool = "null" /\ taken = 0
    /\ handler = NoHandlers
    /\ failedPings = 0

Running == life # "exited"

(* process.exit, or an uncaught error: whatever was under way is lost. *)
Exit(code) ==
    /\ life' = "exited" /\ exit' = code
    /\ caller' = AllIdle
    /\ cache' = "null" /\ pool' = "null" /\ taken' = 0
    /\ handler' = NoHandlers
    /\ failedPings' = 0

(* pool.connect() by caller c, and what follows at once. *)
Connect(c) ==
    \/ /\ pool = "open" /\ taken < Max
       /\ taken' = taken + 1
       /\ caller' = [caller EXCEPT ![c] = "querying"]
    \/ /\ pool = "open" /\ taken = Max
       /\ caller' = [caller EXCEPT ![c] = "waiting"]
       /\ UNCHANGED taken
    \* No pool, a pool that is ending, or a server that refuses.
    \/ /\ caller' = [caller EXCEPT ![c] = "idle"]
       /\ UNCHANGED taken

(* start() *)
RedisConnected ==
    /\ life = "connecting"
    /\ \/ \* PG_* is incomplete: no pool, and the service starts without.
          /\ life' = "listening"
          /\ UNCHANGED <<caller, pool, taken>>
       \/ /\ life' = "testing"
          /\ pool' = "open"
          /\ taken' = taken + 1
          /\ caller' = [caller EXCEPT ![Boot] = "querying"]
    /\ UNCHANGED <<exit, cache, handler, failedPings>>

(* Redis does not connect, or the port is taken. *)
StartFails ==
    /\ life = "connecting"
    /\ Exit("1")

(* query() settles: it gives its connection back either way. *)
Release(c) ==
    /\ taken' = taken - 1
    /\ caller' = [caller EXCEPT ![c] = "idle"]
    /\ UNCHANGED failedPings

BootSettles ==
    /\ life = "testing"
    /\ caller[Boot] = "querying"
    /\ \/ /\ Release(Boot)
          /\ life' = "listening"
          /\ UNCHANGED <<exit, cache, pool, handler>>
       \/ Exit("1")

(* A request that uses the database, or a health check, arrives.  fastify is
   never closed: requests are accepted until the process exits. *)
QueryArrives(c) ==
    /\ life = "listening"
    /\ c \in Queries \ {Boot} /\ caller[c] = "idle"
    /\ Connect(c)
    /\ UNCHANGED <<life, exit, cache, pool, handler, failedPings>>

HealthArrives(c) ==
    /\ life = "listening"
    /\ c \in Pings /\ caller[c] = "idle"
    /\ caller' = [caller EXCEPT ![c] = "redis"]
    /\ UNCHANGED <<life, exit, cache, pool, taken, handler, failedPings>>

(* checkHealth goes on when CacheClient.ping() has answered. *)
RedisPinged(c) ==
    /\ caller[c] = "redis"
    /\ Connect(c)
    /\ UNCHANGED <<life, exit, cache, pool, handler, failedPings>>

(* Mutant: no connectionTimeoutMillis. *)
WaitTimesOut_Never(c) ==
    /\ caller[c] = "waiting" /\ FALSE
    /\ UNCHANGED vars

WaitTimesOut(c) ==
    /\ caller[c] = "waiting"
    /\ caller' = [caller EXCEPT ![c] = "idle"]
    /\ UNCHANGED <<life, exit, cache, pool, taken, handler, failedPings>>

(* The pool serves a caller that waited; it does not while it ends. *)
Served(c) ==
    /\ caller[c] = "waiting"
    /\ pool = "open" /\ taken < Max
    /\ taken' = taken + 1
    /\ caller' = [caller EXCEPT ![c] = "querying"]
    /\ UNCHANGED <<life, exit, cache, pool, handler, failedPings>>

(* Mutant: the release is not in a finally. *)
QuerySettles_NoFinally(c) ==
    /\ c \in Queries \ {Boot} /\ caller[c] = "querying"
    /\ \/ Release(c)
       \/ caller' = [caller EXCEPT ![c] = "idle"] /\ UNCHANGED <<taken, failedPings>>
    /\ UNCHANGED <<life, exit, cache, pool, handler>>

QuerySettles(c) ==
    /\ c \in Queries \ {Boot} /\ caller[c] = "querying"
    /\ Release(c)
    /\ UNCHANGED <<life, exit, cache, pool, handler>>

PingSucceeds(c) ==
    /\ c \in Pings /\ caller[c] = "querying"
    /\ Release(c)
    /\ UNCHANGED <<life, exit, cache, pool, handler>>

(* The server refuses or cancels SELECT 1: release() is jumped over. *)
PingFails(c) ==
    /\ c \in Pings /\ caller[c] = "querying"
    /\ caller' = [caller EXCEPT ![c] = "idle"]
    /\ failedPings' = failedPings + 1
    /\ UNCHANGED <<life, exit, cache, pool, taken, handler>>

(* The connection of a client that is handed out breaks: its error event has
   no listener (the pool listens to idle clients only). *)
ConnectionBreaks ==
    /\ Running /\ taken > 0
    /\ Exit("crash")

-----------------------------------------------------------------------------
(* A signal: CacheClient.disconnect() comes first, and returns at once when
   there is no client. *)
Signal(s) ==
    /\ Running
    /\ handler[s] = "none"
    /\ handler' = [handler EXCEPT ![s] =
                      IF cache = "client" THEN "quitting" ELSE "returned"]
    /\ UNCHANGED <<life, exit, caller, cache, pool, taken, failedPings>>

(* PgClient.disconnect().  Without a pool, or when its end() rejects because
   the other handler called it before, the process exits. *)
PgDisconnect(s) ==
    \/ /\ pool = "open"
       /\ pool' = "ending"
       /\ handler' = [handler EXCEPT ![s] = "ending"]
       /\ cache' = "null"
       /\ UNCHANGED <<life, exit, caller, taken, failedPings>>
    \/ /\ pool # "open"
       /\ Exit("0")

(* Mutant: the end of the pool is not awaited. *)
RedisQuit_NoAwait(s) ==
    /\ handler[s] \in {"quitting", "returned"}
    /\ Exit("0")

(* quit() settles and the client is dropped.  One that rejects when the other
   handler has dropped it already goes on to call disconnect() on null. *)
RedisQuit(s) ==
    /\ \/ /\ handler[s] \in {"quitting", "returned"}
          /\ PgDisconnect(s)
       \/ /\ handler[s] = "quitting" /\ cache = "null"
          /\ Exit("TypeError")

(* end() resolves. *)
PoolEnded(s) ==
    /\ handler[s] = "ending"
    /\ taken = 0
    /\ Exit("0")

Restart ==
    /\ life = "exited"
    /\ life' = "connecting" /\ exit' = "none"
    /\ cache' \in {"null", "client"}
    /\ UNCHANGED <<caller, pool, taken, handler, failedPings>>

-----------------------------------------------------------------------------
StartStep == RedisConnected \/ StartFails

CallerStep(c) ==
    \/ RedisPinged(c) \/ WaitTimesOut(c) \/ Served(c)
    \/ QuerySettles(c) \/ PingSucceeds(c) \/ PingFails(c)

HandlerStep(s) == RedisQuit(s) \/ PoolEnded(s)

Next ==
    \/ StartStep \/ BootSettles
    \/ \E c \in Callers : QueryArrives(c) \/ HealthArrives(c) \/ CallerStep(c)
    \/ ConnectionBreaks
    \/ \E s \in Signals : Signal(s) \/ HandlerStep(s)
    \/ Restart

Spec == Init /\ [][Next]_vars

(* PostgreSQL answers every statement, Redis every command, the timer of a
   waiting caller runs, and the orchestrator restarts what has exited. *)
FairSpec ==
    /\ Spec
    /\ WF_vars(StartStep) /\ WF_vars(BootSettles)
    /\ \A c \in Callers : WF_vars(CallerStep(c))
    /\ \A s \in Signals : WF_vars(HandlerStep(s))
    /\ WF_vars(Restart)

-----------------------------------------------------------------------------
Querying == {c \in Callers : caller[c] = "querying"}

TypeOK ==
    /\ life \in {"connecting", "testing", "listening", "exited"}
    /\ exit \in {"none", "0", "1", "TypeError", "crash"}
    /\ caller \in [Callers -> {"idle", "redis", "waiting", "querying"}]
    /\ cache \in {"null", "client"}
    /\ pool \in {"null", "open", "ending"}
    /\ taken \in 0..Max
    /\ handler \in [Signals -> {"none", "quitting", "returned", "ending"}]
    /\ failedPings \in 0..Max

(* Every connection the pool has handed out is in the hands of a caller that
   waits for its query, or lost to a health check whose query failed: no path
   through query() loses one, and none is given back twice
   (PgConnector.ts:84-110). *)
OnlyFailedPingsLeak == taken = Cardinality(Querying) + failedPings

(* After one signal the process exits with 0 only when no query is under way,
   since pool.end() is awaited, and never by a TypeError of its handler.  With
   two, the second end() rejects and the process exits at once, or the second
   quit() does and finds no client (index.ts:238-248, PgConnector.ts:72-82,
   RedisConnector.ts:41-49). *)
OneSignalWaitsForQueries ==
    [][/\ life' = "exited"
       /\ (exit' = "0" /\ Querying # {}) \/ exit' = "TypeError"
       => Cardinality({s \in Signals : handler[s] # "none"}) > 1]_vars

(* A caller never waits for ever, even when failed pings have used up the
   pool: connectionTimeoutMillis (PgConnector.ts:35, 98-110). *)
CallersSettle == \A c \in Callers : caller[c] # "idle" ~> caller[c] = "idle"

(* Unless a health check has lost a connection, a signal ends the process. *)
ShutdownEnds ==
    \A s \in Signals :
        handler[s] # "none" ~> life = "exited" \/ failedPings > 0
=============================================================================
