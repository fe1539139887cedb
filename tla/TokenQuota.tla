----------------------------- MODULE TokenQuota -----------------------------
(***************************************************************************)
(* The monthly token quota of the AI assistant: the test in ChatService,   *)
(* the counting in the agents, and the Redis counters of RedisConnector,   *)
(* shared by the replicas of the service, which are stopped and restarted. *)
(* Requests with a key of the user's own are outside the quota.            *)
(*                                                                         *)
(* A user's request takes a place; when it has been answered and its calls *)
(* are over, the place is free for the next.  A call <<u, p, k>> asks a    *)
(* model and counts its tokens: the main call of the agent, and each       *)
(* proposeCode the model calls in it, several at once in either of its two *)
(* steps.  Each Redis command is one step, taken when Redis executes it.   *)
(***************************************************************************)
EXTENDS Integers, FiniteSets

CONSTANTS
    Users,
    Replicas,
    Limit,          \* TOKENS_LIMIT_PER_MONTH
    MaxRetries,     \* maxRetriesPerRequest of the Redis client
    MaxTokens,      \* bound: tokens of one call
    Places,         \* bound: requests of one user at a time
    ToolCalls       \* bound: proposeCode calls of one request; the model
                    \* decides on them, and nothing in the code limits them

Main == "main"

ASSUME LimitAssumption == Limit \in Nat
ASSUME TokensAssumption == MaxTokens \in Nat \ {0}
ASSUME RetriesAssumption == MaxRetries \in Nat
ASSUME BoundsAssumption ==
    IsFiniteSet(Places) /\ IsFiniteSet(ToolCalls) /\ Main \notin ToolCalls

VARIABLES
    pc,             \* the command or model each call waits for
    at,             \* the replica that serves the request of each place
    tokens,         \* the usage the model reported to a call
    sent,           \* how often INCRBY took effect without an answer
    due,            \* the month whose end ttlSeconds was computed for
    server,         \* the life of each replica, and its Redis client
    used,           \* Redis: the counter of each user, 0 if no such key
    ttl,            \* Redis: the month at whose end the key expires
    lastSeconds     \* the month is about to end

callVars == <<pc, at, tokens, sent, due>>
redisVars == <<used, ttl>>
vars == <<callVars, server, redisVars, lastSeconds>>

Requests == Users \X Places
Kinds == {Main} \cup ToolCalls
Calls == Users \X Places \X Kinds
User(c) == c[1]
Request(c) == <<c[1], c[2]>>
IsMain(c) == c[3] = Main
MainOf(r) == <<r[1], r[2], Main>>
ToolsOf(r) == {<<r[1], r[2], k>> : k \in ToolCalls}

(* "quitting" and "null": disconnect() before and after it drops the client;
   the replica goes on to accept requests until the process exits. *)
ServerStates == {"up", "quitting", "null", "down"}
HasClient(c) == server[at[Request(c)]] \in {"up", "quitting"}

Months == {"this", "past"}
NoExpiry == "none"
Exists(u) == used[u] > 0

(* The awaits that are Redis commands.  "over" is a tool call that has ended
   while the main call goes on. *)
Commands == {"get", "stats", "incrby", "ttl", "expire"}
Resting == {"idle", "over"}
ToolsRest(r) == \A c \in ToolsOf(r) : pc[c] \in Resting

-----------------------------------------------------------------------------
Init ==
    /\ pc = [c \in Calls |-> "idle"]
    /\ at \in [Requests -> Replicas]
    /\ tokens = [c \in Calls |-> 0]
    /\ sent = [c \in Calls |-> 0]
    /\ due = [c \in Calls |-> "this"]
    /\ server = [p \in Replicas |-> "up"]
    /\ used = [u \in Users |-> 0]
    /\ ttl = [u \in Users |-> NoExpiry]
    /\ lastSeconds = FALSE

(* A request comes to some replica.  Without a client getNumber() returns
   null, which passes the test. *)
Ask(r, p) ==
    /\ pc[MainOf(r)] = "idle" /\ ToolsRest(r)
    /\ server[p] # "down"
    /\ at' = [at EXCEPT ![r] = p]
    /\ pc' = [pc EXCEPT ![MainOf(r)] =
                  IF server[p] = "null" THEN "model" ELSE "get"]
    /\ UNCHANGED <<tokens, sent, due, server, redisVars, lastSeconds>>

(* CacheClient.getNumber(userId); no key counts as 0. *)
tokenUsed(c) == used[User(c)]

(* GET answers: the limit itself still passes. *)
Admit(c) ==
    /\ pc[c] = "get"
    /\ HasClient(c)
    /\ tokenUsed(c) <= Limit
    /\ pc' = [pc EXCEPT ![c] = "model"]
    /\ UNCHANGED <<at, tokens, sent, due, server, redisVars, lastSeconds>>

Refuse(c) ==
    /\ pc[c] = "get"
    /\ HasClient(c)
    /\ tokenUsed(c) > Limit
    /\ pc' = [pc EXCEPT ![c] = "idle"]
    /\ UNCHANGED <<at, tokens, sent, due, server, redisVars, lastSeconds>>

(* The agent's model calls proposeCode, whose execute asks a model of its own
   at once, beside the calls that came before. *)
ProposeCode(c) ==
    /\ ~IsMain(c)
    /\ pc[c] = "idle" /\ pc[MainOf(Request(c))] = "model"
    /\ pc' = [pc EXCEPT ![c] = "model"]
    /\ UNCHANGED <<at, tokens, sent, due, server, redisVars, lastSeconds>>

(* A model call ends and n tokens are to be counted.  The usage of the main
   call is there when its steps and the tools they called have ended. *)
ModelEnds(c, n) ==
    /\ pc[c] = "model"
    /\ IsMain(c) => ToolsRest(Request(c))
    /\ tokens' = [tokens EXCEPT ![c] = n]
    /\ pc' = [pc EXCEPT ![c] = "stats"]
    /\ UNCHANGED <<at, sent, due, server, redisVars, lastSeconds>>

(* pc when call c is over.  With the main call the request is answered, and
   what its tools are still about goes on without it. *)
Ended(c) ==
    IF IsMain(c)
    THEN [d \in Calls |->
             IF d = c \/ (Request(d) = Request(c) /\ pc[d] = "over")
             THEN "idle" ELSE pc[d]]
    ELSE [pc EXCEPT ![c] =
             IF pc[MainOf(Request(c))] = "idle" THEN "idle" ELSE "over"]

(* The model fails: the request with the main call, or its tool, which
   answers with no changes. *)
ModelFails(c) ==
    /\ pc[c] = "model"
    /\ pc' = Ended(c)
    /\ UNCHANGED <<at, tokens, sent, due, server, redisVars, lastSeconds>>

(* The counting is over, done or failed alike: a failure in the main call
   makes an error of the answer, one in a tool is caught. *)
Counted(c) ==
    /\ pc' = Ended(c)
    /\ tokens' = [tokens EXCEPT ![c] = 0]
    /\ sent' = [sent EXCEPT ![c] = 0]
    /\ due' = [due EXCEPT ![c] = "this"]
    /\ UNCHANGED <<at, server, lastSeconds>>

(* The two INCRBYs of the global statistics, then the seconds until the end
   of the month are computed. *)
CountStats(c) ==
    /\ pc[c] = "stats"
    /\ HasClient(c)
    /\ pc' = [pc EXCEPT ![c] = "incrby"]
    /\ UNCHANGED <<at, tokens, sent, due, server, redisVars, lastSeconds>>

(* Mutant: TTL is asked for only when INCRBY created the key, as the comment
   on expirationSeconds has it. *)
CountUser_FirstOnly(c) ==
    /\ pc[c] = "incrby"
    /\ HasClient(c)
    /\ used' = [used EXCEPT ![User(c)] = @ + tokens[c]]
    /\ UNCHANGED ttl
    /\ IF Exists(User(c))
       THEN Counted(c)
       ELSE /\ pc' = [pc EXCEPT ![c] = "ttl"]
            /\ tokens' = [tokens EXCEPT ![c] = 0]
            /\ sent' = [sent EXCEPT ![c] = 0]
            /\ UNCHANGED <<at, due, server, lastSeconds>>

(* INCRBY of the user's counter. *)
CountUser(c) ==
    /\ pc[c] = "incrby"
    /\ HasClient(c)
    /\ used' = [used EXCEPT ![User(c)] = @ + tokens[c]]
    /\ pc' = [pc EXCEPT ![c] = "ttl"]
    /\ tokens' = [tokens EXCEPT ![c] = 0]
    /\ sent' = [sent EXCEPT ![c] = 0]
    /\ UNCHANGED <<at, due, server, ttl, lastSeconds>>

(* Mutant: no bound on the retries. *)
CountUserAgain_Endless(c) ==
    /\ pc[c] = "incrby"
    /\ HasClient(c)
    /\ sent' = [sent EXCEPT ![c] = @ + 1]
    /\ used' = [used EXCEPT ![User(c)] = @ + tokens[c]]
    /\ UNCHANGED <<pc, at, tokens, due, server, ttl, lastSeconds>>

(* Mutant: maxRetriesPerRequest is not set, and the driver sends a command
   again for as long as it takes. *)
CountUserAgain_NoMaximum(c) ==
    /\ pc[c] = "incrby"
    /\ HasClient(c)
    /\ used' = [used EXCEPT ![User(c)] = @ + tokens[c]]
    /\ UNCHANGED <<pc, at, tokens, sent, due, server, ttl, lastSeconds>>

(* The connection breaks between INCRBY and its answer: ioredis reconnects
   and sends the command again. *)
CountUserAgain(c) ==
    /\ pc[c] = "incrby"
    /\ HasClient(c)
    /\ sent[c] < MaxRetries
    /\ sent' = [sent EXCEPT ![c] = @ + 1]
    /\ used' = [used EXCEPT ![User(c)] = @ + tokens[c]]
    /\ UNCHANGED <<pc, at, tokens, due, server, ttl, lastSeconds>>

(* Without a client incrementNumber() returns 0 and nothing is counted. *)
CountNothing(c) ==
    /\ pc[c] \in {"stats", "incrby"}
    /\ ~HasClient(c)
    /\ Counted(c)
    /\ UNCHANGED redisVars

(* Mutant: -2, the answer for a key that does not exist. *)
NeedsExpiry_NoKey(u) == ~Exists(u)

(* TTL answers -1. *)
NeedsExpiry(u) == Exists(u) /\ ttl[u] = NoExpiry

ReadTtl(c) ==
    /\ pc[c] = "ttl"
    /\ HasClient(c)
    /\ IF NeedsExpiry(User(c))
       THEN /\ pc' = [pc EXCEPT ![c] = "expire"]
            /\ UNCHANGED <<at, tokens, sent, due, server, lastSeconds>>
       ELSE Counted(c)
    /\ UNCHANGED redisVars

SetExpiry(c) ==
    /\ pc[c] = "expire"
    /\ HasClient(c)
    /\ ttl' = [ttl EXCEPT ![User(c)] = IF Exists(User(c)) THEN due[c] ELSE @]
    /\ Counted(c)
    /\ UNCHANGED used

-----------------------------------------------------------------------------
(* Time and Redis.  A key expires in the last seconds of the month its time
   to live was computed for, or as much later as EXPIRE was. *)
LastSeconds ==
    /\ ~lastSeconds
    /\ lastSeconds' = TRUE
    /\ UNCHANGED <<callVars, server, redisVars>>

NewMonth ==
    /\ lastSeconds
    /\ lastSeconds' = FALSE
    /\ ttl' = [u \in Users |-> IF ttl[u] = "this" THEN "past" ELSE ttl[u]]
    /\ due' = [c \in Calls |->
                  IF pc[c] \in {"incrby", "ttl", "expire"} THEN "past"
                  ELSE due[c]]
    /\ UNCHANGED <<pc, at, tokens, sent, server, used>>

ExpireKey(u) ==
    /\ Exists(u)
    /\ ttl[u] = "past" \/ (ttl[u] = "this" /\ lastSeconds)
    /\ used' = [used EXCEPT ![u] = 0]
    /\ ttl' = [ttl EXCEPT ![u] = NoExpiry]
    /\ UNCHANGED <<callVars, server, lastSeconds>>

-----------------------------------------------------------------------------
(* Faults. *)

(* A command is rejected: retries used up, the client quit, or, for TTL, it
   is null by now.  Redis may have executed it: see CountUserAgain. *)
CommandFails(c) ==
    /\ pc[c] \in Commands
    /\ Counted(c)
    /\ UNCHANGED redisVars

Sigterm(p) ==
    /\ server[p] = "up"
    /\ server' = [server EXCEPT ![p] = "quitting"]
    /\ UNCHANGED <<callVars, redisVars, lastSeconds>>

(* quit() settles and disconnect() sets the client to null. *)
Disconnect(p) ==
    /\ server[p] = "quitting"
    /\ server' = [server EXCEPT ![p] = "null"]
    /\ UNCHANGED <<callVars, redisVars, lastSeconds>>

(* process.exit() after the pool has ended, or a crash: the requests of the
   replica are gone wherever they stood. *)
ProcessExits(p) ==
    LET lost == {c \in Calls : at[Request(c)] = p}
        Reset(f, v) == [c \in Calls |-> IF c \in lost THEN v ELSE f[c]]
    IN  /\ server[p] # "down"
        /\ server' = [server EXCEPT ![p] = "down"]
        /\ pc' = Reset(pc, "idle")
        /\ tokens' = Reset(tokens, 0)
        /\ sent' = Reset(sent, 0)
        /\ due' = Reset(due, "this")
        /\ UNCHANGED <<at, redisVars, lastSeconds>>

Restart(p) ==
    /\ server[p] = "down"
    /\ server' = [server EXCEPT ![p] = "up"]
    /\ UNCHANGED <<callVars, redisVars, lastSeconds>>

-----------------------------------------------------------------------------
Progress(c) ==
    \/ Admit(c) \/ Refuse(c)
    \/ \E n \in 1..MaxTokens : ModelEnds(c, n)
    \/ ModelFails(c)
    \/ CountStats(c)
    \/ CountUser(c) \/ CountUserAgain(c) \/ CountNothing(c)
    \/ ReadTtl(c) \/ SetExpiry(c)

Calendar == LastSeconds \/ NewMonth

Work ==
    \/ \E r \in Requests, p \in Replicas : Ask(r, p)
    \/ \E c \in Calls : ProposeCode(c) \/ Progress(c)
    \/ Calendar
    \/ \E u \in Users : ExpireKey(u)

Faults ==
    \/ \E c \in Calls : CommandFails(c)
    \/ \E p \in Replicas :
          Sigterm(p) \/ Disconnect(p) \/ ProcessExits(p) \/ Restart(p)

Next == Work \/ Faults

Spec == Init /\ [][Next]_vars

(* The same without faults. *)
FaultFreeSpec == Init /\ [][Work]_vars

(* Commands and model calls settle, time passes, Redis drops what expired. *)
Fairness ==
    /\ \A c \in Calls : WF_vars(Progress(c))
    /\ WF_vars(Calendar)
    /\ \A u \in Users : WF_vars(ExpireKey(u))

FairFaultFreeSpec == FaultFreeSpec /\ Fairness

(* With faults that come to an end: a replica that leaves comes back, and
   users ask again. *)
FairSpec ==
    /\ Spec
    /\ Fairness
    /\ <>[][Work]_vars
    /\ \A p \in Replicas :
          WF_vars(Disconnect(p) \/ (server[p] = "null" /\ ProcessExits(p))
                  \/ Restart(p))
    /\ \A r \in Requests : WF_vars(\E p \in Replicas : Ask(r, p))
-----------------------------------------------------------------------------
TypeOK ==
    /\ pc \in [Calls -> {"model"} \cup Commands \cup Resting]
    /\ at \in [Requests -> Replicas]
    /\ tokens \in [Calls -> 0..MaxTokens]
    /\ sent \in [Calls -> 0..MaxRetries]
    /\ due \in [Calls -> Months]
    /\ server \in [Replicas -> ServerStates]
    /\ used \in [Users -> Nat]
    /\ ttl \in [Users -> Months \cup {NoExpiry}]
    /\ lastSeconds \in BOOLEAN

(* The most INCRBYs of a request: of its main call and of each proposeCode,
   each counted again when an answer is lost. *)
RequestMax == (1 + Cardinality(ToolCalls)) * (MaxRetries + 1)

(* The quota is read when a request comes and counted when its models have
   answered, so it can be passed, but not without end: however many requests
   come in the course of the month, through whichever replicas, with retries,
   failures and restarts, the counter never exceeds the limit by more than
   what the requests of the user that can be in flight at once may use, with
   all their tool calls, those included that outlive a failed request
   (ChatService.ts:68-80, CodeReviewAgent.ts:44-67, CodeIntegrationAgent.ts:
   61-65, RedisConnector.ts:41-49, 76-88). *)
OvershootBounded ==
    \A u \in Users :
        used[u] <= Limit + Cardinality(Places) * RequestMax * MaxTokens

(* Without faults every counter gets its expiry: one that has none has a
   call that has just counted and will look, also when two of them create it
   together, INCRBY is sent twice, or the key expires between two commands
   (RedisConnector.ts:78-85). *)
CounterWillExpire ==
    \A u \in Users : Exists(u) /\ ttl[u] = NoExpiry =>
        \E c \in Calls :
            /\ User(c) = u
            /\ \/ pc[c] \in {"ttl", "expire"}
               \/ pc[c] = "incrby" /\ sent[c] > 0

(* What RedisConnector.ts:91 says, a counter is incremented "hasta el final
   del mes actual": a user whose counter is over the limit is let in again
   when it has expired.  It holds as long as nothing fails. *)
LockoutEnds == \A u \in Users : used[u] > Limit ~> used[u] = 0
=============================================================================
