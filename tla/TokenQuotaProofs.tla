-------------------------- MODULE TokenQuotaProofs --------------------------
(***************************************************************************)
(* What TLAPS proves of TokenQuota for any users, replicas, limit, retries *)
(* and tokens of a call, any number of requests of a user at a time and of *)
(* tool calls in each.                                                     *)
(***************************************************************************)
EXTENDS TokenQuota, TLAPS, FiniteSetTheorems

(* The INCRBYs of one model call. *)
CallMax == MaxRetries + 1

(* The INCRBYs that call c can still cause: none before its request is
   admitted, none once its replica has dropped the client.  A proposeCode
   that has not been called can be for as long as the main call goes on. *)
Left(c) ==
    IF ~HasClient(c) THEN 0
    ELSE IF pc[c] = "model" THEN CallMax
    ELSE IF pc[c] \in {"stats", "incrby"} THEN CallMax - sent[c]
    ELSE IF ~IsMain(c) /\ pc[c] = "idle" /\ pc[MainOf(Request(c))] = "model"
         THEN CallMax
    ELSE 0

(* The INCRBYs one user's calls can cause at most, one by one, and those of
   them that are still to come. *)
Increments == (Places \X Kinds) \X (1..CallMax)
CallAt(u, x) == <<u, x[1][1], x[1][2]>>
Pending(u) == {x \in Increments : x[2] <= Left(CallAt(u, x))}

(* A replica that is down has no calls, and only main calls are tested. *)
Placed ==
    \A c \in Calls :
        /\ server[at[Request(c)]] = "down" => pc[c] = "idle"
        /\ pc[c] = "get" => IsMain(c)

(* Above the limit, the counter and all that can still be added to it stay
   within the bound. *)
Covered(u) ==
    used[u] > Limit =>
        used[u] + MaxTokens * Cardinality(Pending(u))
            <= Limit + MaxTokens * Cardinality(Increments)

QuotaInv == TypeOK /\ Placed /\ \A u \in Users : Covered(u)

-----------------------------------------------------------------------------
(* Type correctness and placement. *)

LEMMA ConstantTypes ==
    /\ Limit \in Nat /\ MaxRetries \in Nat
    /\ MaxTokens \in Nat /\ MaxTokens >= 1
    /\ CallMax \in Nat /\ CallMax = MaxRetries + 1
BY LimitAssumption, TokensAssumption, RetriesAssumption DEF CallMax

LEMMA CallParts ==
    ASSUME NEW c \in Calls
    PROVE  /\ c = <<c[1], c[2], c[3]>>
           /\ User(c) = c[1] /\ c[1] \in Users
           /\ c[2] \in Places /\ c[3] \in Kinds
           /\ Request(c) \in Requests
           /\ MainOf(Request(c)) \in Calls
           /\ IsMain(MainOf(Request(c)))
           /\ Request(MainOf(Request(c))) = Request(c)
           /\ User(MainOf(Request(c))) = User(c)
           /\ IsMain(c) => MainOf(Request(c)) = c
BY DEF Calls, Kinds, User, Request, Requests, MainOf, IsMain

LEMMA MainIsCall ==
    ASSUME NEW r \in Requests
    PROVE  MainOf(r) \in Calls /\ Request(MainOf(r)) = r /\ IsMain(MainOf(r))
BY DEF Requests, Request, Calls, Kinds, MainOf, IsMain

(* What the end of a call leaves behind. *)
LEMMA EndedCalls ==
    ASSUME TypeOK, NEW c \in Calls, pc' = Ended(c)
    PROVE  /\ pc' \in [Calls -> {"model"} \cup Commands \cup Resting]
           /\ pc'[c] \in Resting
           /\ IsMain(c) => pc'[c] = "idle"
           /\ \A d \in Calls : d # c =>
                 \/ pc'[d] = pc[d]
                 \/ IsMain(c) /\ Request(d) = Request(c)
                    /\ pc[d] = "over" /\ pc'[d] = "idle"
           /\ \A d \in Calls : pc[d] = "idle" /\ d # c => pc'[d] = "idle"
<1>1. CASE IsMain(c)
  <2>1. pc' = [d \in Calls |->
             IF d = c \/ (Request(d) = Request(c) /\ pc[d] = "over")
             THEN "idle" ELSE pc[d]]
    BY <1>1 DEF Ended
  <2> QED BY <1>1, <2>1 DEF TypeOK, Resting
<1>2. CASE ~IsMain(c)
  <2>1. pc' = [pc EXCEPT ![c] =
             IF pc[MainOf(Request(c))] = "idle" THEN "idle" ELSE "over"]
    BY <1>2 DEF Ended
  <2> QED BY <1>2, <2>1 DEF TypeOK, Resting
<1> QED BY <1>1, <1>2

LEMMA EndedPlaced ==
    ASSUME TypeOK, Placed, NEW c \in Calls, pc[c] # "idle", pc' = Ended(c),
           at' = at, server' = server
    PROVE  Placed'
BY EndedCalls DEF Placed, Resting

LEMMA CountedTyped ==
    ASSUME TypeOK, Placed, NEW c \in Calls, Counted(c), pc[c] # "idle",
           ttl' \in [Users -> Months \cup {NoExpiry}], used' = used
    PROVE  TypeOK' /\ Placed'
<1> USE ConstantTypes
<1>1. pc' \in [Calls -> {"model"} \cup Commands \cup Resting]
  BY EndedCalls DEF Counted
<1>2. /\ tokens' \in [Calls -> 0..MaxTokens]
      /\ sent' \in [Calls -> 0..MaxRetries]
      /\ due' \in [Calls -> Months]
  BY DEF TypeOK, Counted, Months
<1>3. TypeOK'
  BY <1>1, <1>2 DEF TypeOK, Counted
<1>4. Placed'
  BY EndedPlaced DEF Counted
<1> QED BY <1>3, <1>4

(* A step of one call that does not end, as far as types and places go. *)
LEMMA MovedTyped ==
    ASSUME TypeOK, Placed, NEW c \in Calls,
           NEW v \in {"model"} \cup Commands \cup Resting,
           v # "get",
           pc' = [pc EXCEPT ![c] = v], server[at[Request(c)]] # "down",
           at' = at, server' = server, lastSeconds' = lastSeconds,
           tokens' \in [Calls -> 0..MaxTokens],
           sent' \in [Calls -> 0..MaxRetries],
           due' = due, ttl' = ttl, used' \in [Users -> Nat]
    PROVE  TypeOK' /\ Placed'
<1>1. TypeOK'
  BY DEF TypeOK
<1>2. Placed'
  BY DEF TypeOK, Placed
<1> QED BY <1>1, <1>2

LEMMA ProgressTyped ==
    ASSUME TypeOK, Placed, NEW c \in Calls, Progress(c) \/ CommandFails(c)
    PROVE  TypeOK' /\ Placed'
<1> USE ConstantTypes, CallParts
<1>0. pc[c] # "idle" => server[at[Request(c)]] # "down"
  BY DEF Placed
<1>1. CASE Admit(c)
  BY <1>0, <1>1, MovedTyped DEF Admit, TypeOK, redisVars
<1>2. CASE Refuse(c)
  BY <1>0, <1>2, MovedTyped DEF Refuse, TypeOK, redisVars, Resting
<1>3. ASSUME NEW n \in 1..MaxTokens, ModelEnds(c, n)
      PROVE  TypeOK' /\ Placed'
  <2>1. tokens' \in [Calls -> 0..MaxTokens]
    BY <1>3 DEF ModelEnds, TypeOK
  <2> QED BY <1>0, <1>3, <2>1, MovedTyped
          DEF ModelEnds, TypeOK, redisVars, Commands
<1>4. CASE ModelFails(c)
  <2>1. pc' \in [Calls -> {"model"} \cup Commands \cup Resting]
    BY <1>4, EndedCalls DEF ModelFails
  <2> QED BY <1>4, <2>1, EndedPlaced DEF ModelFails, TypeOK, redisVars
<1>5. CASE CountStats(c)
  BY <1>0, <1>5, MovedTyped DEF CountStats, TypeOK, redisVars, Commands
<1>6. CASE CountUser(c)
  <2>1. used' \in [Users -> Nat]
    BY <1>6 DEF CountUser, TypeOK
  <2>2. /\ tokens' \in [Calls -> 0..MaxTokens]
        /\ sent' \in [Calls -> 0..MaxRetries]
    BY <1>6 DEF CountUser, TypeOK
  <2> QED BY <1>0, <1>6, <2>1, <2>2, MovedTyped DEF CountUser, Commands
<1>7. CASE CountUserAgain(c)
  <2>1. used' \in [Users -> Nat]
    BY <1>7 DEF CountUserAgain, TypeOK
  <2>2. sent' \in [Calls -> 0..MaxRetries]
    BY <1>7 DEF CountUserAgain, TypeOK
  <2> QED BY <1>7, <2>1, <2>2 DEF CountUserAgain, TypeOK, Placed
<1>8. CASE CountNothing(c)
  BY <1>8, CountedTyped DEF CountNothing, TypeOK, redisVars
<1>9. CASE ReadTtl(c)
  <2>1. CASE NeedsExpiry(User(c))
    BY <1>0, <1>9, <2>1, MovedTyped DEF ReadTtl, TypeOK, redisVars, Commands
  <2>2. CASE ~NeedsExpiry(User(c))
    BY <1>9, <2>2, CountedTyped DEF ReadTtl, TypeOK, redisVars
  <2> QED BY <2>1, <2>2
<1>10. CASE SetExpiry(c)
  <2>1. ttl' \in [Users -> Months \cup {NoExpiry}]
    BY <1>10 DEF SetExpiry, TypeOK
  <2> QED BY <1>10, <2>1, CountedTyped DEF SetExpiry
<1>11. CASE CommandFails(c)
  <2>1. pc[c] # "idle"
    BY <1>11 DEF CommandFails, Commands
  <2> QED BY <1>11, <2>1, CountedTyped DEF CommandFails, TypeOK, redisVars
<1> QED BY <1>1, <1>2, <1>3, <1>4, <1>5, <1>6, <1>7, <1>8, <1>9, <1>10, <1>11
        DEF Progress

LEMMA TypedInit == Init => TypeOK /\ Placed
<1> SUFFICES ASSUME Init PROVE TypeOK /\ Placed
  OBVIOUS
<1>1. /\ pc \in [Calls -> {"model"} \cup Commands \cup Resting]
      /\ at \in [Requests -> Replicas]
      /\ due \in [Calls -> Months]
  BY DEF Init, Months, Resting
<1>2. /\ tokens \in [Calls -> 0..MaxTokens]
      /\ sent \in [Calls -> 0..MaxRetries]
      /\ used \in [Users -> Nat]
  BY ConstantTypes DEF Init
<1>3. /\ server \in [Replicas -> ServerStates]
      /\ ttl \in [Users -> Months \cup {NoExpiry}]
      /\ lastSeconds \in BOOLEAN
  BY DEF Init, ServerStates
<1>4. Placed
  BY DEF Init, Placed
<1> QED BY <1>1, <1>2, <1>3, <1>4 DEF TypeOK

(* A request is placed where the server is up and none of its calls runs. *)
LEMMA AskTyped ==
    ASSUME TypeOK, Placed, NEW r \in Requests, NEW p \in Replicas, Ask(r, p)
    PROVE  TypeOK' /\ Placed'
<1>1. TypeOK'
  BY MainIsCall DEF Ask, TypeOK, redisVars, Commands
<1>2. \A c \in Calls : pc'[c] = "get" => IsMain(c)
  BY MainIsCall DEF Ask, TypeOK, Placed, IsMain, MainOf
<1>3. Placed'
  <2> SUFFICES ASSUME NEW c \in Calls, server'[at'[Request(c)]] = "down"
               PROVE  pc'[c] = "idle"
    BY <1>2 DEF Placed
  <2>1. Request(c) # r /\ server[at[Request(c)]] = "down"
    BY CallParts DEF Ask, TypeOK
  <2>2. c # MainOf(r)
    BY <2>1 DEF MainOf, Request, Requests
  <2> QED BY <2>1, <2>2, MainIsCall DEF Ask, TypeOK, Placed
<1> QED BY <1>1, <1>3

LEMMA TypedStep == TypeOK /\ Placed /\ [Next]_vars => TypeOK' /\ Placed'
<1> SUFFICES ASSUME TypeOK, Placed, [Next]_vars PROVE TypeOK' /\ Placed'
  OBVIOUS
<1>1. ASSUME NEW c \in Calls, ProposeCode(c)
      PROVE  TypeOK' /\ Placed'
  <2>1. server[at[Request(c)]] # "down"
    BY <1>1, CallParts DEF ProposeCode, Placed
  <2> QED BY <1>1, <2>1, MovedTyped DEF ProposeCode, TypeOK, redisVars
<1>2. CASE Calendar
  <2>1. CASE LastSeconds
    BY <2>1 DEF LastSeconds, TypeOK, Placed, callVars, redisVars
  <2>2. CASE NewMonth
    BY <2>2 DEF NewMonth, TypeOK, Placed, Months
  <2> QED BY <1>2, <2>1, <2>2 DEF Calendar
<1>3. ASSUME NEW u \in Users, ExpireKey(u)
      PROVE  TypeOK' /\ Placed'
  BY <1>3 DEF ExpireKey, TypeOK, Placed, callVars
<1>4. ASSUME NEW p \in Replicas,
             Sigterm(p) \/ Disconnect(p) \/ Restart(p)
      PROVE  TypeOK' /\ Placed'
  <2>1. server' \in [Replicas -> ServerStates]
    BY <1>4 DEF Sigterm, Disconnect, Restart, TypeOK, ServerStates
  <2>2. Placed'
    BY <1>4, CallParts
       DEF Sigterm, Disconnect, Restart, TypeOK, Placed, callVars
  <2> QED BY <1>4, <2>1, <2>2
          DEF Sigterm, Disconnect, Restart, TypeOK, callVars, redisVars
<1>5. ASSUME NEW p \in Replicas, ProcessExits(p)
      PROVE  TypeOK' /\ Placed'
  <2>1. TypeOK'
    BY <1>5, ConstantTypes
       DEF ProcessExits, TypeOK, ServerStates, Months, Resting, redisVars
  <2>2. Placed'
    BY <1>5, CallParts DEF ProcessExits, TypeOK, Placed
  <2> QED BY <2>1, <2>2
<1>6. CASE UNCHANGED vars
  BY <1>6 DEF vars, callVars, redisVars, TypeOK, Placed
<1> QED BY <1>1, <1>2, <1>3, <1>4, <1>5, <1>6, AskTyped, ProgressTyped
        DEF Next, Work, Faults

(* Every reachable state is well typed. *)
THEOREM QuotaTypeCorrect == Spec => []TypeOK
<1>1. Spec => [](TypeOK /\ Placed)
  BY TypedInit, TypedStep, PTL DEF Spec
<1> QED BY <1>1, PTL

-----------------------------------------------------------------------------
(* The increments still to come. *)

LEMMA LeftRange ==
    ASSUME TypeOK, NEW c \in Calls
    PROVE  Left(c) \in 0..CallMax
<1>1. sent[c] \in 0..MaxRetries
  BY DEF TypeOK
<1> QED BY <1>1, ConstantTypes DEF Left

LEMMA LeftRangeNext ==
    ASSUME TypeOK', NEW c \in Calls
    PROVE  Left(c)' \in 0..CallMax
<1>1. sent'[c] \in 0..MaxRetries
  BY DEF TypeOK
<1> QED BY <1>1, ConstantTypes DEF Left

LEMMA IncrementsFinite ==
    /\ IsFiniteSet(Increments)
    /\ Cardinality(Increments) = Cardinality(Places) * RequestMax
    /\ Cardinality(Increments) \in Nat /\ RequestMax \in Nat
    /\ Cardinality(Places) \in Nat
<1> DEFINE B == 1..CallMax
           np == Cardinality(Places)
           nt == Cardinality(ToolCalls)
<1>1. IsFiniteSet(B) /\ Cardinality(B) = CallMax
  BY ConstantTypes, FS_Interval
<1>2. IsFiniteSet(Kinds) /\ Cardinality(Kinds) = nt + 1
  <2>1. Kinds = ToolCalls \cup {Main}
    BY DEF Kinds
  <2> QED BY <2>1, BoundsAssumption, FS_AddElement
<1>3. np \in Nat /\ nt \in Nat
  BY BoundsAssumption, FS_CardinalityType
<1> HIDE DEF B, np, nt
<1>4. /\ IsFiniteSet(Places \X Kinds)
      /\ Cardinality(Places \X Kinds) = Cardinality(Places) * Cardinality(Kinds)
  BY <1>2, BoundsAssumption, FS_Product
<1>5. /\ IsFiniteSet((Places \X Kinds) \X B)
      /\ Cardinality((Places \X Kinds) \X B)
            = Cardinality(Places \X Kinds) * Cardinality(B)
  BY ONLY <1>1, <1>4, FS_Product, Zenon
<1>6. Increments = (Places \X Kinds) \X B
  BY DEF Increments, B
<1>7. /\ IsFiniteSet(Increments)
      /\ Cardinality(Increments) = (np * (nt + 1)) * CallMax
  BY <1>1, <1>2, <1>4, <1>5, <1>6 DEF np
<1>8. RequestMax = (1 + nt) * CallMax
  BY DEF RequestMax, CallMax, nt
<1>9. RequestMax \in Nat /\ (np * (nt + 1)) * CallMax = np * RequestMax
  BY ONLY <1>3, <1>8, ConstantTypes
<1> QED BY <1>3, <1>7, <1>9, FS_CardinalityType DEF np

LEMMA PendingFinite ==
    ASSUME NEW u \in Users
    PROVE  /\ IsFiniteSet(Pending(u))
           /\ Cardinality(Pending(u)) \in 0..Cardinality(Increments)
<1>1. Pending(u) \in SUBSET Increments
  BY DEF Pending
<1>2. IsFiniteSet(Pending(u)) /\ Cardinality(Pending(u)) <= Cardinality(Increments)
  BY <1>1, IncrementsFinite, FS_Subset
<1> QED BY <1>2, IncrementsFinite, FS_CardinalityType

LEMMA IncrementCalls ==
    ASSUME NEW u \in Users, NEW x \in Increments
    PROVE  /\ CallAt(u, x) \in Calls /\ User(CallAt(u, x)) = u
           /\ x[2] \in 1..CallMax
BY DEF Increments, CallAt, Calls, User

(* Where no call of a user gets more increments, none becomes pending. *)
LEMMA PendingShrinks ==
    ASSUME TypeOK, TypeOK', NEW u \in Users,
           \A q \in Calls : User(q) = u => Left(q)' <= Left(q)
    PROVE  Pending(u)' \in SUBSET Pending(u)
<1> SUFFICES ASSUME NEW y \in Pending(u)' PROVE y \in Pending(u)
  OBVIOUS
<1>1. y \in Increments /\ y[2] <= Left(CallAt(u, y))'
  BY DEF Pending, CallAt
<1> DEFINE q == CallAt(u, y)
<1>2. q \in Calls /\ User(q) = u /\ y[2] \in Nat
  BY <1>1, IncrementCalls, ConstantTypes
<1>3. Left(q)' <= Left(q) /\ Left(q) \in Nat /\ Left(q)' \in Nat
  BY <1>2, LeftRange, LeftRangeNext, ConstantTypes
<1>4. y[2] <= Left(q)'
  BY <1>1 DEF CallAt
<1> HIDE DEF q
<1>5. y[2] <= Left(q)
  BY <1>2, <1>3, <1>4
<1> QED BY <1>1, <1>5 DEF Pending, q

(* An INCRBY that call c causes uses up one of the increments. *)
LEMMA IncrementUsedUp ==
    ASSUME TypeOK, TypeOK', NEW c \in Calls, Left(c)' < Left(c),
           \A q \in Calls : Left(q)' <= Left(q)
    PROVE  Cardinality(Pending(User(c))') + 1 <= Cardinality(Pending(User(c)))
<1> DEFINE u == User(c)
           x == <<<<c[2], c[3]>>, Left(c)>>
<1>0. /\ u \in Users /\ c[2] \in Places /\ c[3] \in Kinds
      /\ CallAt(u, x) = c /\ x[2] = Left(c)
  BY CallParts DEF CallAt
<1>1. Left(c) \in 1..CallMax /\ Left(c)' \in Nat
  BY LeftRange, LeftRangeNext, ConstantTypes
<1>2. x \in Pending(u)
  BY <1>0, <1>1 DEF Pending, Increments
<1>3. x \notin Pending(u)'
  <2>1. CallAt(u, x)' = <<u, x[1][1], x[1][2]>>
    BY DEF CallAt
  <2> QED BY <1>0, <1>1 DEF Pending, CallAt
<1>4. Pending(u)' \in SUBSET (Pending(u) \ {x})
  BY <1>0, <1>3, PendingShrinks
<1>5. IsFiniteSet(Pending(u) \ {x})
      /\ Cardinality(Pending(u) \ {x}) = Cardinality(Pending(u)) - 1
  BY <1>0, <1>2, PendingFinite, FS_RemoveElement
<1>6. Cardinality(Pending(u)') <= Cardinality(Pending(u) \ {x})
  BY <1>4, <1>5, FS_Subset
<1>7. Cardinality(Pending(u)) \in Nat /\ Cardinality(Pending(u)') \in Nat
  BY <1>0, <1>4, <1>5, PendingFinite, FS_Subset, FS_CardinalityType
<1> QED BY <1>5, <1>6, <1>7

(* A user whose counter does not grow stays covered. *)
LEMMA StaysCovered ==
    ASSUME TypeOK, TypeOK', NEW u \in Users, Covered(u), used'[u] <= used[u],
           \A q \in Calls : User(q) = u => Left(q)' <= Left(q)
    PROVE  Covered(u)'
<1>1. Pending(u)' \in SUBSET Pending(u)
  BY PendingShrinks
<1> DEFINE c == Cardinality(Pending(u))
           d == Cardinality(Pending(u)')
           top == Limit + MaxTokens * Cardinality(Increments)
<1>2. d <= c /\ c \in Nat /\ d \in Nat
  BY <1>1, PendingFinite, FS_Subset, FS_CardinalityType
<1>3. used[u] \in Nat /\ used'[u] \in Nat /\ Limit \in Nat /\ MaxTokens \in Nat
  BY ConstantTypes DEF TypeOK
<1>4. top \in Nat
  BY <1>3, IncrementsFinite
<1>5. used[u] > Limit => used[u] + MaxTokens * c <= top
  BY DEF Covered
<1>6. SUFFICES used'[u] > Limit => used'[u] + MaxTokens * d <= top
  BY DEF Covered
<1> HIDE DEF c, d, top
<1>7. MaxTokens * d <= MaxTokens * c
  BY <1>2, <1>3
<1> QED BY <1>2, <1>3, <1>4, <1>5, <1>7

(* So does one whose counter grows by at most MaxTokens, at the price of one
   of the increments to come. *)
LEMMA GrowsCovered ==
    ASSUME TypeOK, TypeOK', NEW r \in Calls, Covered(User(r)),
           NEW n \in 0..MaxTokens, used'[User(r)] = used[User(r)] + n,
           Left(r)' < Left(r), \A q \in Calls : Left(q)' <= Left(q)
    PROVE  Covered(User(r))'
<1> DEFINE u == User(r)
           c == Cardinality(Pending(u))
           d == Cardinality(Pending(u)')
           all == Cardinality(Increments)
<1>1. u \in Users
  BY CallParts
<1>2. d + 1 <= c
  BY IncrementUsedUp
<1>3. c \in Nat /\ all \in Nat /\ c <= all
  BY <1>1, PendingFinite, IncrementsFinite
<1>4. d \in Nat
  <2>1. Pending(u)' \in SUBSET Increments
    BY DEF Pending
  <2> QED BY <2>1, IncrementsFinite, FS_Subset, FS_CardinalityType
<1>5. used[u] \in Nat /\ Limit \in Nat /\ MaxTokens \in Nat
  BY <1>1, ConstantTypes DEF TypeOK
<1>6. used[u] > Limit => used[u] + MaxTokens * c <= Limit + MaxTokens * all
  BY DEF Covered
<1>7. SUFFICES used[u] + n + MaxTokens * d <= Limit + MaxTokens * all
  BY DEF Covered
<1> HIDE DEF u, c, d, all
<1>8. /\ MaxTokens * (d + 1) <= MaxTokens * c
      /\ MaxTokens * c <= MaxTokens * all
      /\ MaxTokens * (d + 1) = MaxTokens * d + MaxTokens
  <2>1. MaxTokens * (d + 1) <= MaxTokens * c
    BY ONLY <1>2, <1>3, <1>4, <1>5
  <2>2. MaxTokens * c <= MaxTokens * all
    BY ONLY <1>3, <1>5
  <2>3. MaxTokens * (d + 1) = MaxTokens * d + MaxTokens
    BY ONLY <1>4, <1>5
  <2> QED BY <2>1, <2>2, <2>3
<1>9. MaxTokens * c \in Nat /\ MaxTokens * d \in Nat /\ MaxTokens * all \in Nat
  BY <1>3, <1>4, <1>5
<1>10. CASE used[u] > Limit
  BY <1>5, <1>6, <1>8, <1>9, <1>10
<1>11. CASE used[u] <= Limit
  BY <1>5, <1>8, <1>9, <1>11
<1> QED BY <1>5, <1>10, <1>11

-----------------------------------------------------------------------------
(* No step but an admission gives a call more increments, and each INCRBY
   takes one away. *)

LEMMA MovedLeft ==
    ASSUME TypeOK, NEW c \in Calls, NEW v, v # "model",
           pc' = [pc EXCEPT ![c] = v], at' = at, server' = server,
           \A d \in Calls : d # c => sent'[d] = sent[d]
    PROVE  \A d \in Calls : d # c => Left(d)' <= Left(d)
<1> SUFFICES ASSUME NEW d \in Calls, d # c PROVE Left(d)' <= Left(d)
  OBVIOUS
<1> DEFINE m == MainOf(Request(d))
<1>1. Left(d) \in Nat /\ CallMax \in Nat
  BY LeftRange, ConstantTypes
<1>2. pc'[d] = pc[d] /\ sent'[d] = sent[d]
  BY DEF TypeOK
<1>3. pc'[m] = "model" => pc[m] = "model"
  BY CallParts DEF TypeOK
<1>4. HasClient(d)' = HasClient(d)
  BY DEF HasClient
<1> HIDE DEF m
<1> QED BY <1>1, <1>2, <1>3, <1>4 DEF Left, m

LEMMA EndedLeft ==
    ASSUME TypeOK, NEW c \in Calls, pc' = Ended(c), at' = at, server' = server,
           \A d \in Calls : d # c => sent'[d] = sent[d]
    PROVE  \A d \in Calls : Left(d)' <= Left(d)
<1> SUFFICES ASSUME NEW d \in Calls PROVE Left(d)' <= Left(d)
  OBVIOUS
<1> DEFINE m == MainOf(Request(d))
<1>1. Left(d) \in Nat /\ CallMax \in Nat
  BY LeftRange, ConstantTypes
<1>2. m \in Calls /\ IsMain(m) /\ (IsMain(d) => m = d)
  BY CallParts
<1>3. pc'[m] = "model" => pc[m] = "model"
  BY <1>2, EndedCalls DEF Resting
<1>4. HasClient(d)' = HasClient(d)
  BY DEF HasClient
<1>5. CASE pc'[d] \in Resting /\ (pc'[d] = "idle" => pc'[m] # "model")
  BY <1>1, <1>5 DEF Left, Resting
<1>6. CASE pc'[d] = pc[d] /\ d # c
  BY <1>1, <1>3, <1>4, <1>6 DEF Left
<1>7. CASE d = c
  <2>1. CASE IsMain(c)
    BY <1>2, <1>5, <1>7, <2>1, EndedCalls
  <2>2. CASE ~IsMain(c)
    <3>1. /\ pc'[c] = IF pc[m] = "idle" THEN "idle" ELSE "over"
          /\ pc'[m] = pc[m]
      BY <1>2, <1>7, <2>2 DEF Ended, TypeOK
    <3> QED BY <1>5, <1>7, <3>1 DEF Resting
  <2> QED BY <2>1, <2>2
<1>8. CASE d # c /\ pc'[d] # pc[d]
  <2>1. IsMain(c) /\ Request(d) = Request(c) /\ pc'[d] = "idle"
    BY <1>8, EndedCalls
  <2>2. m = c
    BY <2>1, CallParts
  <2> QED BY <1>5, <2>1, <2>2, EndedCalls DEF Resting
<1> QED BY <1>6, <1>7, <1>8

LEMMA CountedLeft ==
    ASSUME TypeOK, NEW c \in Calls, Counted(c)
    PROVE  \A d \in Calls : Left(d)' <= Left(d)
<1>1. \A d \in Calls : d # c => sent'[d] = sent[d]
  BY DEF Counted, TypeOK
<1> QED BY <1>1, EndedLeft DEF Counted

LEMMA ProgressLeft ==
    ASSUME TypeOK, TypeOK', Placed, NEW c \in Calls,
           Progress(c) \/ CommandFails(c), ~Admit(c)
    PROVE  /\ \A d \in Calls : Left(d)' <= Left(d)
           /\ \/ used' = used
              \/ /\ Left(c)' < Left(c)
                 /\ used' = [used EXCEPT ![User(c)] = @ + tokens[c]]
<1> USE ConstantTypes
<1>0. /\ sent[c] \in 0..MaxRetries
      /\ Left(c) \in Nat /\ Left(c)' \in Nat
  BY LeftRange, LeftRangeNext DEF TypeOK
<1>1. CASE Refuse(c)
  <2>1. IsMain(c) /\ pc'[c] = "idle" /\ used' = used
    BY <1>1 DEF Refuse, Placed, TypeOK, redisVars
  <2>2. Left(c)' <= Left(c)
    BY <1>0, <2>1 DEF Left
  <2>3. \A d \in Calls : d # c => Left(d)' <= Left(d)
    BY <1>1, MovedLeft DEF Refuse
  <2> QED BY <2>1, <2>2, <2>3
<1>2. ASSUME NEW n \in 1..MaxTokens, ModelEnds(c, n)
      PROVE  used' = used /\ \A d \in Calls : Left(d)' <= Left(d)
  <2>1. /\ pc[c] = "model" /\ pc'[c] = "stats" /\ sent'[c] = sent[c]
        /\ HasClient(c)' = HasClient(c) /\ used' = used
    BY <1>2 DEF ModelEnds, TypeOK, redisVars, HasClient
  <2>2. Left(c)' <= Left(c)
    BY <1>0, <2>1 DEF Left
  <2>3. \A d \in Calls : d # c => Left(d)' <= Left(d)
    BY <1>2, MovedLeft DEF ModelEnds
  <2> QED BY <2>1, <2>2, <2>3
<1>3. CASE ModelFails(c)
  BY <1>3, EndedLeft DEF ModelFails, redisVars
<1>4. CASE CountStats(c)
  <2>1. /\ pc[c] = "stats" /\ pc'[c] = "incrby" /\ sent'[c] = sent[c]
        /\ HasClient(c)' = HasClient(c) /\ used' = used
    BY <1>4 DEF CountStats, TypeOK, redisVars, HasClient
  <2>2. Left(c)' <= Left(c)
    BY <1>0, <2>1 DEF Left
  <2>3. \A d \in Calls : d # c => Left(d)' <= Left(d)
    BY <1>4, MovedLeft DEF CountStats
  <2> QED BY <2>1, <2>2, <2>3
<1>5. CASE CountUser(c)
  <2>1. /\ pc[c] = "incrby" /\ pc'[c] = "ttl" /\ HasClient(c) /\ HasClient(c)'
        /\ \A d \in Calls : d # c => sent'[d] = sent[d]
    BY <1>5 DEF CountUser, TypeOK, HasClient
  <2>2. Left(c)' < Left(c)
    BY <1>0, <2>1 DEF Left
  <2>3. \A d \in Calls : d # c => Left(d)' <= Left(d)
    BY <1>5, <2>1, MovedLeft DEF CountUser
  <2> QED BY <1>0, <1>5, <2>2, <2>3 DEF CountUser
<1>6. CASE CountUserAgain(c)
  <2>1. /\ pc[c] = "incrby" /\ pc' = pc /\ sent'[c] = sent[c] + 1
        /\ HasClient(c) /\ HasClient(c)'
    BY <1>6 DEF CountUserAgain, TypeOK, HasClient
  <2>2. Left(c)' < Left(c)
    BY <1>0, <2>1 DEF Left
  <2>3. ASSUME NEW d \in Calls, d # c PROVE Left(d)' = Left(d)
    <3>1. /\ sent'[d] = sent[d] /\ pc' = pc
          /\ HasClient(d)' = HasClient(d)
      BY <1>6, <2>3 DEF CountUserAgain, TypeOK, HasClient
    <3> QED BY <3>1 DEF Left
  <2>4. \A d \in Calls : Left(d)' <= Left(d)
    BY <1>0, <2>2, <2>3, LeftRange
  <2> QED BY <1>6, <2>2, <2>4 DEF CountUserAgain
<1>7. CASE CountNothing(c)
  BY <1>7, CountedLeft DEF CountNothing, redisVars
<1>8. CASE ReadTtl(c)
  <2>1. CASE NeedsExpiry(User(c))
    <3>1. /\ pc[c] = "ttl" /\ pc' = [pc EXCEPT ![c] = "expire"]
          /\ used' = used /\ UNCHANGED <<at, sent, server>>
      BY <1>8, <2>1 DEF ReadTtl, redisVars
    <3>2. Left(c)' <= Left(c)
      BY <1>0, <3>1 DEF Left, TypeOK
    <3>3. \A d \in Calls : d # c => Left(d)' <= Left(d)
      BY <3>1, MovedLeft
    <3> QED BY <3>1, <3>2, <3>3
  <2>2. CASE ~NeedsExpiry(User(c))
    BY <1>8, <2>2, CountedLeft DEF ReadTtl, redisVars
  <2> QED BY <2>1, <2>2
<1>9. CASE SetExpiry(c)
  BY <1>9, CountedLeft DEF SetExpiry
<1>10. CASE CommandFails(c)
  BY <1>10, CountedLeft DEF CommandFails, redisVars
<1> QED BY <1>1, <1>2, <1>3, <1>4, <1>5, <1>6, <1>7, <1>8, <1>9, <1>10
        DEF Progress

LEMMA ProgressCovers ==
    ASSUME TypeOK, TypeOK', Placed, NEW c \in Calls,
           Progress(c) \/ CommandFails(c), NEW u \in Users, Covered(u)
    PROVE  Covered(u)'
<1>1. CASE Admit(c)
  <2>1. used' = used /\ used[User(c)] <= Limit /\ used[u] \in Nat
    BY <1>1 DEF Admit, tokenUsed, redisVars, TypeOK
  <2>2. CASE u = User(c)
    BY <2>1, <2>2, ConstantTypes DEF Covered
  <2>3. CASE u # User(c)
    <3>1. ASSUME NEW q \in Calls, User(q) = u PROVE Left(q)' <= Left(q)
      <4> DEFINE m == MainOf(Request(q))
      <4>1. q # c /\ m # c /\ m \in Calls
        <5>1. User(m) = u /\ m \in Calls
          BY <3>1, CallParts
        <5> QED BY <2>3, <3>1, <5>1
      <4>2. /\ pc'[q] = pc[q] /\ pc'[m] = pc[m] /\ sent'[q] = sent[q]
            /\ HasClient(q)' = HasClient(q)
        BY <1>1, <4>1 DEF Admit, TypeOK, HasClient
      <4>3. Left(q)' = Left(q)
        BY <4>2 DEF Left
      <4> QED BY <4>3, LeftRange, ConstantTypes
    <3> QED BY <2>1, <3>1, StaysCovered
  <2> QED BY <2>2, <2>3
<1>2. CASE ~Admit(c)
  <2>1. \A q \in Calls : Left(q)' <= Left(q)
    BY <1>2, ProgressLeft
  <2>2. used[u] \in Nat
    BY DEF TypeOK
  <2>3. CASE used'[u] = used[u]
    BY <2>1, <2>2, <2>3, StaysCovered
  <2>4. CASE used'[u] # used[u]
    <3>1. /\ Left(c)' < Left(c)
          /\ used' = [used EXCEPT ![User(c)] = @ + tokens[c]]
      BY <1>2, <2>4, ProgressLeft
    <3>2. u = User(c)
      BY <2>4, <3>1 DEF TypeOK
    <3>3. tokens[c] \in 0..MaxTokens /\ used'[User(c)] = used[User(c)] + tokens[c]
      BY <3>1, CallParts DEF TypeOK
    <3> QED BY <2>1, <3>1, <3>2, <3>3, GrowsCovered
  <2> QED BY <2>3, <2>4
<1> QED BY <1>1, <1>2

(* The steps of Redis, time and the replicas add nothing to a counter and
   give no call more increments; nor do a new request and a tool call. *)
LEMMA OtherStepsCover ==
    ASSUME TypeOK, TypeOK', Placed, NEW u \in Users, Covered(u),
           \/ \E r \in Requests, p \in Replicas : Ask(r, p)
           \/ \E c \in Calls : ProposeCode(c)
           \/ Calendar
           \/ \E v \in Users : ExpireKey(v)
           \/ \E p \in Replicas :
                 Sigterm(p) \/ Disconnect(p) \/ ProcessExits(p) \/ Restart(p)
           \/ UNCHANGED vars
    PROVE  Covered(u)'
<1>0. used[u] \in Nat /\ \A q \in Calls : Left(q) \in Nat
  BY LeftRange, ConstantTypes DEF TypeOK
<1>1. SUFFICES used'[u] <= used[u] /\ \A q \in Calls : Left(q)' <= Left(q)
  BY StaysCovered
<1>2. ASSUME NEW r \in Requests, NEW p \in Replicas, Ask(r, p)
      PROVE  used' = used /\ \A q \in Calls : Left(q)' <= Left(q)
  <2>1. used' = used
    BY <1>2 DEF Ask, redisVars
  <2>2. ASSUME NEW q \in Calls, Request(q) = r PROVE Left(q)' = 0
    <3>1. /\ MainOf(r) \in Calls /\ IsMain(MainOf(r))
          /\ MainOf(Request(q)) = MainOf(r)
          /\ q # MainOf(r) => q \in ToolsOf(r)
      <4>1. q = <<r[1], r[2], q[3]>> /\ q[3] \in {Main} \cup ToolCalls
        BY <2>2, CallParts DEF Request, Kinds
      <4> QED BY <2>2, <4>1, MainIsCall DEF MainOf, ToolsOf
    <3>2. pc'[MainOf(r)] \in {"model", "get"}
          /\ (pc'[MainOf(r)] = "model" => ~HasClient(q)')
      BY <1>2, <2>2, <3>1 DEF Ask, HasClient, TypeOK
    <3>3. q # MainOf(r) => pc'[q] \in Resting
      BY <1>2, <3>1 DEF Ask, ToolsRest, TypeOK
    <3> QED BY <2>2, <3>1, <3>2, <3>3 DEF Left, Resting
  <2>3. ASSUME NEW q \in Calls, Request(q) # r PROVE Left(q)' = Left(q)
    <3> DEFINE m == MainOf(Request(q))
    <3>1. q # MainOf(r) /\ m # MainOf(r) /\ m \in Calls
      BY <2>3, CallParts, MainIsCall
    <3>2. /\ pc'[q] = pc[q] /\ pc'[m] = pc[m] /\ sent'[q] = sent[q]
          /\ HasClient(q)' = HasClient(q)
      BY <1>2, <2>3, <3>1, CallParts DEF Ask, HasClient, TypeOK
    <3> QED BY <3>2 DEF Left
  <2> QED BY <1>0, <2>1, <2>2, <2>3
<1>3. CASE Calendar
  <2>1. used' = used /\ UNCHANGED <<pc, at, sent, server>>
    BY <1>3 DEF Calendar, LastSeconds, NewMonth, callVars, redisVars
  <2> QED BY <1>0, <2>1 DEF Left, HasClient
<1>4. ASSUME NEW v \in Users, ExpireKey(v)
      PROVE  used'[u] <= used[u] /\ \A q \in Calls : Left(q)' <= Left(q)
  <2>1. used'[u] <= used[u]
    BY <1>0, <1>4 DEF ExpireKey, TypeOK
  <2>2. UNCHANGED <<pc, at, sent, server>>
    BY <1>4 DEF ExpireKey, callVars
  <2> QED BY <1>0, <2>1, <2>2 DEF Left, HasClient
<1>5. ASSUME NEW p \in Replicas, Sigterm(p) \/ Disconnect(p) \/ Restart(p)
      PROVE  used' = used /\ \A q \in Calls : Left(q)' <= Left(q)
  <2>1. used' = used /\ UNCHANGED <<pc, at, sent>>
    BY <1>5 DEF Sigterm, Disconnect, Restart, callVars, redisVars
  <2>2. ASSUME NEW q \in Calls
        PROVE  \/ HasClient(q)' => HasClient(q)
               \/ pc[q] = "idle" /\ pc[MainOf(Request(q))] = "idle"
    <3>1. /\ Request(q) \in Requests /\ MainOf(Request(q)) \in Calls
          /\ Request(MainOf(Request(q))) = Request(q)
      BY CallParts
    <3> QED BY <1>5, <2>1, <3>1
            DEF Sigterm, Disconnect, Restart, HasClient, TypeOK, Placed
  <2>3. ASSUME NEW q \in Calls PROVE Left(q)' <= Left(q)
    BY <1>0, <2>1, <2>2, ConstantTypes DEF Left
  <2> QED BY <2>1, <2>3
<1>6. ASSUME NEW p \in Replicas, ProcessExits(p)
      PROVE  used' = used /\ \A q \in Calls : Left(q)' <= Left(q)
  <2>1. used' = used
    BY <1>6 DEF ProcessExits, redisVars
  <2>2. ASSUME NEW q \in Calls PROVE MainOf(Request(q)) \in Calls
        /\ Request(MainOf(Request(q))) = Request(q)
    BY CallParts
  <2>3. ASSUME NEW q \in Calls, at[Request(q)] = p PROVE Left(q)' = 0
    BY <1>6, <2>2, <2>3 DEF ProcessExits, Left
  <2>4. ASSUME NEW q \in Calls, at[Request(q)] # p PROVE Left(q)' = Left(q)
    <3>1. /\ pc'[q] = pc[q] /\ sent'[q] = sent[q]
          /\ pc'[MainOf(Request(q))] = pc[MainOf(Request(q))]
          /\ HasClient(q)' = HasClient(q)
      BY <1>6, <2>2, <2>4, CallParts DEF ProcessExits, TypeOK, HasClient
    <3> QED BY <3>1 DEF Left
  <2> QED BY <1>0, <2>1, <2>3, <2>4
<1>7. CASE UNCHANGED vars
  BY <1>0, <1>7 DEF vars, callVars, redisVars, Left, HasClient
<1>8. ASSUME NEW c \in Calls, ProposeCode(c)
      PROVE  used' = used /\ \A q \in Calls : Left(q)' <= Left(q)
  <2>1. used' = used /\ UNCHANGED <<at, sent, server>>
    BY <1>8 DEF ProposeCode, redisVars
  <2>2. Left(c)' = Left(c)
    BY <1>8 DEF ProposeCode, Left, HasClient, TypeOK
  <2>3. ASSUME NEW q \in Calls, q # c PROVE Left(q)' = Left(q)
    <3>1. MainOf(Request(q)) \in Calls /\ MainOf(Request(q)) # c
      BY <1>8, CallParts DEF ProposeCode
    <3>2. pc'[q] = pc[q] /\ pc'[MainOf(Request(q))] = pc[MainOf(Request(q))]
      BY <1>8, <2>3, <3>1 DEF ProposeCode, TypeOK
    <3> QED BY <2>1, <3>2 DEF Left, HasClient
  <2> QED BY <1>0, <2>1, <2>2, <2>3
<1> QED BY <1>0, <1>2, <1>3, <1>4, <1>5, <1>6, <1>7, <1>8

LEMMA QuotaInvariant == Spec => []QuotaInv
<1>1. Init => QuotaInv
  BY TypedInit, ConstantTypes DEF Init, QuotaInv, Covered
<1>2. QuotaInv /\ [Next]_vars => QuotaInv'
  <2> SUFFICES ASSUME QuotaInv, [Next]_vars PROVE QuotaInv'
    OBVIOUS
  <2>1. TypeOK /\ Placed /\ TypeOK' /\ Placed'
    BY TypedStep DEF QuotaInv
  <2>2. ASSUME NEW u \in Users PROVE Covered(u)'
    <3>1. Covered(u)
      BY DEF QuotaInv
    <3> QED BY <2>1, <3>1, ProgressCovers, OtherStepsCover
            DEF Next, Work, Faults
  <2> QED BY <2>1, <2>2 DEF QuotaInv
<1> QED BY <1>1, <1>2, PTL DEF Spec

(* However many requests come, and whatever fails, a counter exceeds the
   limit by at most what the requests in flight at one time may use, however
   many proposeCode calls each of them makes (ChatService.ts:68-80,
   CodeReviewAgent.ts:44-67). *)
THEOREM OvershootStaysBounded == Spec => []OvershootBounded
<1>1. QuotaInv => OvershootBounded
  <2> SUFFICES ASSUME QuotaInv, NEW u \in Users
               PROVE  used[u] <= Limit
                        + Cardinality(Places) * RequestMax * MaxTokens
    BY DEF OvershootBounded
  <2> DEFINE all == Cardinality(Increments)
             c == Cardinality(Pending(u))
             places == Cardinality(Places)
  <2>1. /\ all \in Nat /\ all = places * RequestMax
        /\ places \in Nat /\ RequestMax \in Nat
        /\ c \in Nat /\ used[u] \in Nat
    BY IncrementsFinite, PendingFinite DEF QuotaInv, TypeOK
  <2>2. used[u] > Limit => used[u] + MaxTokens * c <= Limit + MaxTokens * all
    BY DEF QuotaInv, Covered
  <2> HIDE DEF all, c, places
  <2>3. MaxTokens * c \in Nat /\ MaxTokens * all \in Nat
    BY <2>1, ConstantTypes
  <2>4. used[u] <= Limit + MaxTokens * all
    BY <2>1, <2>2, <2>3, ConstantTypes
  <2>5. MaxTokens * all = places * RequestMax * MaxTokens
    BY <2>1, ConstantTypes
  <2> QED BY <2>4, <2>5 DEF places
<1> QED BY <1>1, QuotaInvariant, PTL

-----------------------------------------------------------------------------
(* Expiry, as long as nothing fails. *)

(* Call c has just counted and is to look at the time to live. *)
WillLook(c) ==
    \/ pc[c] \in {"ttl", "expire"}
    \/ pc[c] = "incrby" /\ sent[c] > 0

AllUp == \A p \in Replicas : server[p] = "up"

FaultFreeInv == TypeOK /\ Placed /\ AllUp /\ CounterWillExpire

LEMMA ProgressExpires ==
    ASSUME TypeOK, AllUp, CounterWillExpire, NEW c \in Calls, Progress(c)
    PROVE  CounterWillExpire'
<1> SUFFICES ASSUME NEW u \in Users, Exists(u)', ttl'[u] = NoExpiry
             PROVE  \E q \in Calls : User(q) = u /\ WillLook(q)'
  BY DEF CounterWillExpire, WillLook
<1>0. HasClient(c) /\ User(c) \in Users /\ sent[c] \in Nat
  BY CallParts, ConstantTypes DEF AllUp, HasClient, TypeOK
<1>1. ASSUME NEW q \in Calls, q # c, WillLook(q)
      PROVE  WillLook(q)'
  <2>1. pc[q] \notin Resting /\ pc[q] # "model"
    BY <1>1 DEF WillLook, Resting
  <2>2. pc' = Ended(c) => pc'[q] = pc[q]
    BY <1>1, <2>1, EndedCalls DEF Resting
  <2>3. pc'[q] = pc[q] /\ sent'[q] = sent[q]
    BY <1>1, <2>2
       DEF TypeOK, Progress, Admit, Refuse, ModelEnds, ModelFails, CountStats,
           CountUser, CountUserAgain, CountNothing, ReadTtl, SetExpiry, Counted
  <2> QED BY <1>1, <2>3 DEF WillLook
(* The call that was to look before the step, if the key is not new. *)
<1>2. ASSUME Exists(u), ttl[u] = NoExpiry, WillLook(c) => WillLook(c)'
      PROVE  \E q \in Calls : User(q) = u /\ WillLook(q)'
  <2>1. PICK q \in Calls : User(q) = u /\ WillLook(q)
    BY <1>2 DEF CounterWillExpire, WillLook
  <2> QED BY <1>1, <1>2, <2>1
<1>3. CASE UNCHANGED redisVars /\ ~WillLook(c)
  BY <1>2, <1>3 DEF redisVars, Exists
<1>4. CASE CountUser(c) \/ CountUserAgain(c)
  <2>1. WillLook(c)' /\ ttl' = ttl
    BY <1>0, <1>4 DEF CountUser, CountUserAgain, WillLook, TypeOK
  <2>2. CASE User(c) = u
    BY <2>1, <2>2
  <2>3. CASE User(c) # u
    <3>1. used'[u] = used[u]
      BY <1>4, <2>3 DEF CountUser, CountUserAgain, TypeOK
    <3> QED BY <1>2, <2>1, <3>1 DEF Exists
  <2> QED BY <2>2, <2>3
<1>5. CASE ReadTtl(c)
  <2>1. Exists(u) /\ ttl[u] = NoExpiry
    BY <1>5 DEF ReadTtl, redisVars, Exists
  <2>2. CASE User(c) = u
    <3>1. pc'[c] = "expire"
      BY <1>5, <2>1, <2>2 DEF ReadTtl, NeedsExpiry, TypeOK
    <3> QED BY <2>2, <3>1 DEF WillLook
  <2>3. CASE User(c) # u
    <3>1. PICK q \in Calls : User(q) = u /\ WillLook(q)
      BY <2>1 DEF CounterWillExpire, WillLook
    <3> QED BY <1>1, <2>3, <3>1
  <2> QED BY <2>2, <2>3
<1>6. CASE SetExpiry(c)
  <2>1. User(c) # u
    BY <1>0, <1>6 DEF SetExpiry, Exists, TypeOK, Months, NoExpiry
  <2>2. Exists(u) /\ ttl[u] = NoExpiry
    BY <1>6, <2>1 DEF SetExpiry, Exists, TypeOK
  <2>3. PICK q \in Calls : User(q) = u /\ WillLook(q)
    BY <2>2 DEF CounterWillExpire, WillLook
  <2> QED BY <1>1, <2>1, <2>3
<1>7. CASE CountNothing(c)
  BY <1>0, <1>7 DEF CountNothing
<1>8. CASE CountStats(c)
  <2>1. UNCHANGED redisVars /\ ~WillLook(c)
    BY <1>8 DEF CountStats, WillLook
  <2> QED BY <1>3, <2>1
<1>9. CASE Admit(c) \/ Refuse(c) \/ ModelFails(c)
  <2>1. UNCHANGED redisVars /\ ~WillLook(c)
    BY <1>9 DEF Admit, Refuse, ModelFails, WillLook
  <2> QED BY <1>3, <2>1
<1>10. ASSUME NEW n \in 1..MaxTokens, ModelEnds(c, n)
       PROVE  \E q \in Calls : User(q) = u /\ WillLook(q)'
  <2>1. UNCHANGED redisVars /\ ~WillLook(c)
    BY <1>10 DEF ModelEnds, WillLook
  <2> QED BY <1>3, <2>1
<1> QED BY <1>4, <1>5, <1>6, <1>7, <1>8, <1>9, <1>10 DEF Progress

LEMMA WorkExpires ==
    ASSUME FaultFreeInv, [Work]_vars
    PROVE  FaultFreeInv'
<1>1. TypeOK' /\ Placed'
  BY TypedStep DEF FaultFreeInv, Next
<1>2. server' = server
  BY DEF Work, Ask, ProposeCode, Progress, Admit, Refuse, ModelEnds, ModelFails,
         CountStats, CountUser, CountUserAgain, CountNothing, ReadTtl, SetExpiry, Counted,
         Calendar, LastSeconds, NewMonth, ExpireKey, vars
<1>3. AllUp'
  BY <1>2 DEF FaultFreeInv, AllUp
<1>4. ASSUME NEW r \in Requests, NEW p \in Replicas, Ask(r, p)
      PROVE  CounterWillExpire'
  <2>1. \A c \in Calls : pc[c] \in {"incrby", "ttl", "expire"} => pc'[c] = pc[c]
    BY <1>4, MainIsCall DEF Ask, FaultFreeInv, TypeOK
  <2> QED BY <1>4, <2>1
          DEF Ask, FaultFreeInv, CounterWillExpire, Exists, redisVars
<1>5. ASSUME NEW c \in Calls, ProposeCode(c) PROVE CounterWillExpire'
  <2>1. \A q \in Calls : pc[q] \in {"incrby", "ttl", "expire"} => pc'[q] = pc[q]
    BY <1>5 DEF ProposeCode, FaultFreeInv, TypeOK
  <2> QED BY <1>5, <2>1
          DEF ProposeCode, FaultFreeInv, CounterWillExpire, Exists, redisVars
<1>6. ASSUME Calendar PROVE CounterWillExpire'
  <2>1. UNCHANGED <<pc, sent, used>>
    BY <1>6 DEF Calendar, LastSeconds, NewMonth, callVars, redisVars
  <2>2. \A u \in Users : ttl'[u] = NoExpiry => ttl[u] = NoExpiry
    BY <1>6 DEF Calendar, LastSeconds, NewMonth, redisVars, FaultFreeInv,
                TypeOK, NoExpiry
  <2> QED BY <2>1, <2>2 DEF FaultFreeInv, CounterWillExpire, Exists
<1>7. ASSUME NEW v \in Users, ExpireKey(v)
      PROVE  CounterWillExpire'
  <2>1. UNCHANGED <<pc, sent>> /\ used'[v] = 0
    BY <1>7 DEF ExpireKey, callVars, FaultFreeInv, TypeOK
  <2>2. \A u \in Users : u # v => used'[u] = used[u] /\ ttl'[u] = ttl[u]
    BY <1>7 DEF ExpireKey, FaultFreeInv, TypeOK
  <2> QED BY <2>1, <2>2 DEF FaultFreeInv, CounterWillExpire, Exists
<1>8. ASSUME NEW c \in Calls, Progress(c) PROVE CounterWillExpire'
  BY <1>8, ProgressExpires DEF FaultFreeInv
<1>9. ASSUME Work PROVE CounterWillExpire'
  BY <1>4, <1>5, <1>6, <1>7, <1>8, <1>9 DEF Work
<1>10. ASSUME UNCHANGED vars PROVE CounterWillExpire'
  BY <1>10 DEF vars, callVars, redisVars, FaultFreeInv, CounterWillExpire,
              Exists
<1> QED BY <1>1, <1>3, <1>9, <1>10 DEF FaultFreeInv

(* Without faults a counter that has no expiry yet has a call that is about
   to set one (RedisConnector.ts:78-85). *)
THEOREM CountersWillExpire == FaultFreeSpec => []CounterWillExpire
<1>1. Init => FaultFreeInv
  <2>1. Init => AllUp /\ CounterWillExpire
    BY DEF Init, AllUp, CounterWillExpire, Exists
  <2> QED BY <2>1, TypedInit DEF FaultFreeInv
<1>2. FaultFreeInv => CounterWillExpire
  BY DEF FaultFreeInv
<1> QED BY <1>1, <1>2, WorkExpires, PTL DEF FaultFreeSpec
=============================================================================
