------------------------ MODULE AssistantPoolProofs -------------------------
(***************************************************************************)
(* For any callers, signals and pool size, AssistantPool is well typed,    *)
(* loses connections to failed health checks only, and waits for its       *)
(* queries when it is stopped by one signal.  The count of connections     *)
(* needs Quiet (nobody holds one before there is a pool), the shutdown     *)
(* needs EndedBySomeone (a pool that ends, or a client that is dropped     *)
(* under another handler, is the work of a handler that still waits).      *)
(***************************************************************************)
EXTENDS AssistantPool, FiniteSetTheorems, TLAPS

Quiet ==
    /\ life \in {"connecting", "exited"} => caller = AllIdle /\ pool = "null"
    /\ life = "exited" => handler = NoHandlers
    /\ life = "testing" => \A c \in Callers \ {Boot} : caller[c] = "idle"
    /\ caller[Boot] # "idle" => life = "testing" /\ caller[Boot] = "querying"
    /\ pool = "null" => taken = 0 /\ failedPings = 0

EndedBySomeone ==
    /\ pool = "ending" => \E s \in Signals : handler[s] = "ending"
    /\ cache = "null" /\ (\E s \in Signals : handler[s] = "quitting")
          => \E s \in Signals : handler[s] = "ending"

IInv == TypeOK /\ OnlyFailedPingsLeak /\ Quiet /\ EndedBySomeone

-----------------------------------------------------------------------------
LEMMA BootCalls == Boot \in Callers \ Pings
BY CallersAssumption DEF Callers

LEMMA QueryingFinite == IsFiniteSet(Querying) /\ Cardinality(Querying) \in Nat
<1>1. IsFiniteSet(Callers)
  BY CallersAssumption, FS_Union DEF Callers
<1>2. Querying \subseteq Callers
  BY DEF Querying
<1> QED
  BY <1>1, <1>2, FS_Subset, FS_CardinalityType

LEMMA CallerJoins ==
    ASSUME TypeOK, NEW c \in Callers, caller[c] # "querying",
           caller' = [caller EXCEPT ![c] = "querying"]
    PROVE  Cardinality(Querying') = Cardinality(Querying) + 1
<1>1. Querying' = Querying \cup {c} /\ c \notin Querying
  BY DEF TypeOK, Querying
<1> QED
  BY <1>1, QueryingFinite, FS_AddElement

LEMMA CallerLeaves ==
    ASSUME TypeOK, NEW c \in Callers, caller[c] = "querying",
           NEW p, p # "querying", caller' = [caller EXCEPT ![c] = p]
    PROVE  Cardinality(Querying') = Cardinality(Querying) - 1
<1>1. Querying' = Querying \ {c} /\ c \in Querying
  BY DEF TypeOK, Querying
<1> QED
  BY <1>1, QueryingFinite, FS_RemoveElement

LEMMA CallerElsewhere ==
    ASSUME TypeOK, NEW c \in Callers, caller[c] # "querying",
           NEW p, p # "querying", caller' = [caller EXCEPT ![c] = p]
    PROVE  Querying' = Querying
BY DEF TypeOK, Querying

LEMMA NobodyQueries == caller = AllIdle => Querying = {} /\ Cardinality(Querying) = 0
BY FS_EmptySet DEF AllIdle, Querying

(* Leaving the process, for whatever reason, is clean. *)
LEMMA ExitIsClean ==
    ASSUME NEW code \in {"0", "1", "TypeError", "crash"}, Exit(code)
    PROVE  IInv'
<1>1. caller' = AllIdle /\ handler' = NoHandlers
  BY DEF Exit
<1>2. Querying' = {} /\ Cardinality(Querying') = 0
  BY <1>1, FS_EmptySet DEF AllIdle, Querying
<1>3. AllIdle \in [Callers -> {"idle", "redis", "waiting", "querying"}]
  BY DEF AllIdle
<1>4. NoHandlers \in [Signals -> {"none", "quitting", "returned", "ending"}]
  BY DEF NoHandlers
<1>5. caller'[Boot] = "idle"
  BY <1>1, BootCalls DEF AllIdle
<1>6. TypeOK'
  BY <1>3, <1>4, MaxAssumption DEF Exit, TypeOK
<1>7. EndedBySomeone'
  BY DEF Exit, EndedBySomeone, NoHandlers
<1> QED
  BY <1>1, <1>2, <1>5, <1>6, <1>7
     DEF Exit, IInv, OnlyFailedPingsLeak, Quiet

-----------------------------------------------------------------------------
LEMMA InitIInv == Init => IInv
<1> SUFFICES ASSUME Init PROVE IInv
  OBVIOUS
<1>1. Querying = {} /\ Cardinality(Querying) = 0
  BY NobodyQueries DEF Init
<1> QED
  BY <1>1, MaxAssumption, BootCalls
     DEF Init, IInv, TypeOK, OnlyFailedPingsLeak, Quiet, EndedBySomeone, AllIdle, NoHandlers

(* connect() counts the connection it hands out. *)
LEMMA ConnectCounts ==
    ASSUME IInv, NEW c \in Callers \ {Boot}, caller[c] # "querying", Connect(c),
           life = "listening", UNCHANGED <<life, exit, cache, pool, handler, failedPings>>
    PROVE  IInv'
<1> USE DEF IInv
<1>0. Cardinality(Querying) \in Nat
  BY QueryingFinite
<1>1. CASE /\ pool = "open" /\ taken < Max
           /\ taken' = taken + 1
           /\ caller' = [caller EXCEPT ![c] = "querying"]
  <2>1. Cardinality(Querying') = Cardinality(Querying) + 1
    BY <1>1, CallerJoins
  <2> QED
    BY <1>0, <1>1, <2>1, MaxAssumption, BootCalls DEF TypeOK, OnlyFailedPingsLeak, Quiet, EndedBySomeone
<1>2. CASE \E p \in {"waiting", "idle"} :
               caller' = [caller EXCEPT ![c] = p] /\ taken' = taken
  <2>1. Querying' = Querying
    BY <1>2, CallerElsewhere
  <2> QED
    BY <1>2, <2>1, BootCalls DEF TypeOK, OnlyFailedPingsLeak, Quiet, EndedBySomeone
<1> QED
  BY <1>1, <1>2 DEF Connect

(* query() gives its connection back. *)
LEMMA ReleaseCounts ==
    ASSUME IInv, NEW c \in Callers, caller[c] = "querying", Release(c),
           life \in {"testing", "listening"}, life' = "listening",
           UNCHANGED <<exit, cache, pool, handler>>
    PROVE  IInv'
<1> USE DEF IInv
<1>0. Cardinality(Querying) \in Nat
  BY QueryingFinite
<1>1. Cardinality(Querying') = Cardinality(Querying) - 1
  BY CallerLeaves DEF Release
<1>2. c \in Querying
  BY DEF Querying
<1>3. Cardinality(Querying) # 0
  BY <1>2, QueryingFinite, FS_EmptySet
<1>4. taken # 0
  BY <1>0, <1>3 DEF OnlyFailedPingsLeak, TypeOK
<1> QED
  BY <1>0, <1>1, <1>3, <1>4, MaxAssumption, BootCalls
     DEF Release, TypeOK, OnlyFailedPingsLeak, Quiet, EndedBySomeone

LEMMA CallersOnlyWhileListening ==
    ASSUME IInv, NEW c \in Callers \ {Boot}, caller[c] # "idle"
    PROVE  life = "listening"
BY DEF IInv, TypeOK, Quiet, AllIdle

LEMMA Step == IInv /\ [Next]_vars => IInv'
<1> SUFFICES ASSUME IInv, [Next]_vars PROVE IInv'
  OBVIOUS
<1> USE DEF IInv
<1>0. Cardinality(Querying) \in Nat
  BY QueryingFinite
<1>1. CASE UNCHANGED vars
  BY <1>1 DEF vars, TypeOK, OnlyFailedPingsLeak, Quiet, EndedBySomeone, Querying
<1>2. CASE RedisConnected
  <2>1. caller = AllIdle /\ pool = "null" /\ taken = 0 /\ failedPings = 0
    BY <1>2 DEF RedisConnected, Quiet
  <2>2. CASE life' = "listening" /\ UNCHANGED <<caller, pool, taken>>
    BY <1>2, <2>1, <2>2
       DEF RedisConnected, TypeOK, OnlyFailedPingsLeak, Quiet, EndedBySomeone, Querying
  <2>3. CASE /\ life' = "testing" /\ pool' = "open" /\ taken' = taken + 1
             /\ caller' = [caller EXCEPT ![Boot] = "querying"]
    <3>1. Boot \in Callers /\ caller[Boot] # "querying"
      BY <2>1, CallersAssumption DEF Callers, AllIdle
    <3>2. Cardinality(Querying') = Cardinality(Querying) + 1
      BY <2>3, <3>1, CallerJoins
    <3>3. /\ caller'[Boot] = "querying"
          /\ \A c \in Callers \ {Boot} : caller'[c] = "idle"
      BY <2>1, <2>3, <3>1 DEF AllIdle
    <3> QED
      BY <1>0, <1>2, <2>1, <2>3, <3>1, <3>2, <3>3, MaxAssumption
         DEF RedisConnected, TypeOK, OnlyFailedPingsLeak, Quiet, EndedBySomeone
  <2> QED
    BY <1>2, <2>2, <2>3 DEF RedisConnected
<1>3. CASE StartFails \/ ConnectionBreaks
  BY <1>3, ExitIsClean DEF StartFails, ConnectionBreaks
<1>4. CASE BootSettles
  BY <1>4, ExitIsClean, ReleaseCounts, CallersAssumption DEF BootSettles, Callers
<1>5. ASSUME NEW c \in Callers, QueryArrives(c)
      PROVE  IInv'
  BY <1>5, ConnectCounts, BootCalls DEF QueryArrives
<1>6. ASSUME NEW c \in Callers, HealthArrives(c)
      PROVE  IInv'
  <2>1. Querying' = Querying
    BY <1>6, CallerElsewhere DEF HealthArrives
  <2> QED
    BY <1>6, <2>1, BootCalls DEF HealthArrives, TypeOK, OnlyFailedPingsLeak, Quiet, EndedBySomeone
<1>7. ASSUME NEW c \in Callers, CallerStep(c)
      PROVE  IInv'
  <2>0. c # Boot /\ life = "listening"
    BY <1>7, CallersOnlyWhileListening, CallersAssumption
       DEF Quiet, CallerStep, RedisPinged, WaitTimesOut, Served, QuerySettles, PingSucceeds, PingFails
  <2>1. CASE WaitTimesOut(c)
    <3>1. Querying' = Querying
      BY <2>1, CallerElsewhere DEF WaitTimesOut
    <3> QED
      BY <2>0, <2>1, <3>1 DEF WaitTimesOut, TypeOK, OnlyFailedPingsLeak, Quiet, EndedBySomeone
  <2>2. CASE Served(c)
    <3>1. Cardinality(Querying') = Cardinality(Querying) + 1
      BY <2>2, CallerJoins DEF Served
    <3> QED
      BY <1>0, <2>0, <2>2, <3>1, MaxAssumption
         DEF Served, TypeOK, OnlyFailedPingsLeak, Quiet, EndedBySomeone
  <2>3. CASE PingFails(c)
    <3>1. Cardinality(Querying') = Cardinality(Querying) - 1
      BY <2>3, CallerLeaves DEF PingFails
    <3>2. c \in Querying
      BY <2>3 DEF PingFails, Querying
    <3>3. Cardinality(Querying) # 0
      BY <3>2, QueryingFinite, FS_EmptySet
    <3> QED
      BY <1>0, <2>0, <2>3, <3>1, <3>3, MaxAssumption
         DEF PingFails, TypeOK, OnlyFailedPingsLeak, Quiet, EndedBySomeone
  <2>4. CASE RedisPinged(c)
    BY <2>0, <2>4, ConnectCounts DEF RedisPinged
  <2>5. CASE QuerySettles(c) \/ PingSucceeds(c)
    BY <2>0, <2>5, ReleaseCounts, CallersAssumption DEF QuerySettles, PingSucceeds
  <2> QED
    BY <1>7, <2>1, <2>2, <2>3, <2>4, <2>5 DEF CallerStep
<1>8. ASSUME NEW s \in Signals, Signal(s)
      PROVE  IInv'
  <2>1. UNCHANGED <<life, exit, caller, cache, pool, taken, failedPings>>
    BY <1>8 DEF Signal
  <2>2. TypeOK'
    BY <1>8 DEF Signal, TypeOK
  <2>3. OnlyFailedPingsLeak' /\ Quiet'
    BY <1>8, <2>1 DEF Signal, Running, OnlyFailedPingsLeak, Quiet, Querying
  <2>4. EndedBySomeone'
    BY <1>8 DEF Signal, EndedBySomeone, TypeOK
  <2> QED
    BY <2>2, <2>3, <2>4
<1>9. ASSUME NEW s \in Signals, HandlerStep(s)
      PROVE  IInv'
  <2>1. CASE Exit("0") \/ Exit("TypeError")
    BY <2>1, ExitIsClean
  <2>2. CASE /\ pool = "open" /\ pool' = "ending" /\ cache' = "null"
             /\ handler' = [handler EXCEPT ![s] = "ending"]
             /\ UNCHANGED <<life, exit, caller, taken, failedPings>>
    BY <2>2 DEF TypeOK, OnlyFailedPingsLeak, Quiet, EndedBySomeone, Querying
  <2> QED
    BY <1>9, <2>1, <2>2 DEF HandlerStep, PoolEnded, RedisQuit, PgDisconnect
<1>10. CASE Restart
  <2>1. caller = AllIdle /\ pool = "null" /\ \A s \in Signals : handler[s] = "none"
    BY <1>10 DEF Restart, Quiet, NoHandlers
  <2> QED
    BY <1>10, <2>1
       DEF Restart, TypeOK, OnlyFailedPingsLeak, Quiet, EndedBySomeone, Querying
<1> QED
  BY <1>1, <1>2, <1>3, <1>4, <1>5, <1>6, <1>7, <1>8, <1>9, <1>10 DEF Next, StartStep

THEOREM Inductive == Spec => []IInv
BY InitIInv, Step, PTL DEF Spec

(* TypeOK: in particular, the pool never has handed out more than its max, and
   no more than max health checks have lost one (PgConnector.ts:25-37). *)
THEOREM TypeCorrect == Spec => []TypeOK
<1>1. IInv => TypeOK
  BY DEF IInv
<1> QED
  BY <1>1, Inductive, PTL

(* OnlyFailedPingsLeak: whatever the interleaving of queries, health checks,
   time-outs, signals and crashes, every connection handed out is held by a
   caller or was lost by ping() (PgConnector.ts:84-110). *)
THEOREM ConnectionsAccountedFor == Spec => []OnlyFailedPingsLeak
<1>1. IInv => OnlyFailedPingsLeak
  BY DEF IInv
<1> QED
  BY <1>1, Inductive, PTL

(* A second handler is what it takes to exit while a query is under way, or
   by a TypeError. *)
LEMMA ExitNeedsTwo ==
    ASSUME IInv, Next, life' = "exited",
           (exit' = "0" /\ Querying # {}) \/ exit' = "TypeError"
    PROVE  Cardinality({s \in Signals : handler[s] # "none"}) > 1
<1> USE DEF IInv
<1>1. Querying # {} => taken # 0
  BY QueryingFinite, FS_EmptySet DEF OnlyFailedPingsLeak, TypeOK
<1>2. life # "exited"
  <2> SUFFICES ASSUME life = "exited" PROVE FALSE
    OBVIOUS
  <2>1. /\ \A c \in Callers : caller[c] = "idle"
        /\ \A s \in Signals : handler[s] = "none"
    BY DEF Quiet, AllIdle, NoHandlers
  <2>2. \A c \in Callers : ~(QueryArrives(c) \/ HealthArrives(c) \/ CallerStep(c))
    BY <2>1 DEF QueryArrives, HealthArrives, CallerStep, RedisPinged, WaitTimesOut,
                Served, QuerySettles, PingSucceeds, PingFails
  <2>3. \A s \in Signals : ~(Signal(s) \/ HandlerStep(s))
    BY <2>1 DEF Signal, Running, HandlerStep, RedisQuit, PoolEnded
  <2>4. ~(StartStep \/ BootSettles \/ ConnectionBreaks \/ Restart)
    BY DEF StartStep, StartFails, RedisConnected, BootSettles, ConnectionBreaks,
           Running, Restart
  <2> QED
    BY <2>2, <2>3, <2>4 DEF Next
<1>3. \E s \in Signals : (RedisQuit(s) /\ Exit(exit')) \/ PoolEnded(s)
  <2>1. ~(StartStep \/ BootSettles \/ ConnectionBreaks \/ Restart)
    BY <1>2 DEF StartStep, StartFails, RedisConnected, BootSettles, ConnectionBreaks,
                Restart, Exit
  <2>2. \A c \in Callers : ~(QueryArrives(c) \/ HealthArrives(c) \/ CallerStep(c))
    BY <1>2 DEF QueryArrives, HealthArrives, CallerStep, RedisPinged, WaitTimesOut, Served,
                QuerySettles, PingSucceeds, PingFails
  <2>3. \A s \in Signals : ~Signal(s)
    BY <1>2 DEF Signal
  <2>4. \A s \in Signals : RedisQuit(s) => Exit(exit')
    BY <1>2 DEF RedisQuit, PgDisconnect, Exit
  <2> QED
    BY <2>1, <2>2, <2>3, <2>4 DEF Next, HandlerStep
<1>4. PICK s \in Signals :
         \/ handler[s] \in {"quitting", "returned"} /\ pool = "ending"
         \/ handler[s] = "quitting" /\ cache = "null"
  <2>1. PICK s \in Signals : (RedisQuit(s) /\ Exit(exit')) \/ PoolEnded(s)
    BY <1>3
  <2>2. ~PoolEnded(s)
    BY <1>1 DEF PoolEnded, Exit
  <2>3. CASE handler[s] \in {"quitting", "returned"} /\ PgDisconnect(s)
    <3>1. Querying # {} /\ pool # "open"
      BY <1>2, <2>3 DEF PgDisconnect, Exit
    <3> QED
      BY <1>1, <2>3, <3>1 DEF Quiet, TypeOK
  <2> QED
    BY <2>1, <2>2, <2>3 DEF RedisQuit
<1>5. PICK e \in Signals : handler[e] = "ending"
  BY <1>4 DEF EndedBySomeone
<1> DEFINE Stopping == {x \in Signals : handler[x] # "none"}
<1>6. {s, e} \subseteq Stopping /\ s # e
  BY <1>4, <1>5
<1>7. IsFiniteSet(Stopping)
  BY SignalsAssumption, FS_Subset
<1>8. IsFiniteSet({s}) /\ Cardinality({s}) = 1 /\ e \notin {s}
  BY <1>6, FS_Singleton
<1>9. Cardinality({s} \cup {e}) = Cardinality({s}) + 1
  BY <1>8, FS_AddElement
<1>10. Cardinality({s} \cup {e}) <= Cardinality(Stopping)
  BY <1>6, <1>7, FS_Subset
<1>11. Cardinality(Stopping) \in Nat
  BY <1>7, FS_CardinalityType
<1>12. Cardinality(Stopping) > 1
  <2> HIDE DEF Stopping
  <2> QED
    BY <1>8, <1>9, <1>10, <1>11
<1> QED
  BY <1>12

(* OneSignalWaitsForQueries, for any number of callers, signals and
   connections (index.ts:238-248, PgConnector.ts:72-82). *)
THEOREM ShutdownWaits == Spec => OneSignalWaitsForQueries
<1>1. IInv /\ [Next]_vars
        => [/\ life' = "exited"
            /\ (exit' = "0" /\ Querying # {}) \/ exit' = "TypeError"
            => Cardinality({s \in Signals : handler[s] # "none"}) > 1]_vars
  BY ExitNeedsTwo
<1> QED
  BY <1>1, Inductive, PTL DEF Spec, OneSignalWaitsForQueries
=============================================================================
