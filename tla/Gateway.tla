------------------------------ MODULE Gateway -------------------------------
(***************************************************************************)
(* The API gateway in front of the assistant: HAProxy asks the SPOE agent  *)
(* who the user is, waits 15 ms for the answer, then applies its           *)
(* http-request rules in the order of haproxy.cfg and forwards what is     *)
(* left (api-gateway-cm.yaml).  The rules of one request run at once; the  *)
(* requests interleave while they wait for the agent and the assistant.    *)
(*                                                                         *)
(* http_req_rate(60s) counts the requests of the current period and a part *)
(* of those of the last one that shrinks while the period goes on: any     *)
(* part, here.                                                             *)
(***************************************************************************)
EXTENDS SpoeAuth

CONSTANTS
    Slots,      \* connections, each with one request at a time
    Incoming,   \* requests: [method, origin, path, ip, claimed, headers]
    UserLimit,  \* 10
    IpLimit     \* 180

ASSUME LimitsAssumption == UserLimit \in Nat /\ IpLimit \in Nat
ASSUME IncomingAssumption ==
    /\ None \notin Incoming
    /\ \A q \in Incoming :
          /\ q.path \in {"assistant", "health", "elsewhere"}
          /\ q.claimed \in Users \cup {None}
          /\ q.headers \in AllRequests

VARIABLES
    pc,         \* "idle", "agent", "rules", "assistant" or "answered"
    request,    \* the request of each slot
    spoe,       \* the variables the agent has set for it
    user_id,    \* its X-User-ID header
    status,     \* the gateway's answer, "backend" for the assistant's
    user_rate,  \* per user, the requests of the last and current period
    ip_rate,    \* the same per address
    passed      \* history: requests of each user forwarded in this period

rates == <<user_rate, ip_rate, passed>>
vars == <<pc, request, spoe, user_id, status, rates>>

Ips == {q.ip : q \in Incoming}
NoVars == [auth_ok |-> FALSE, user_id |-> None]
Zero == [last |-> 0, current |-> 0]

Init ==
    /\ pc = [s \in Slots |-> "idle"]
    /\ request = [s \in Slots |-> None]
    /\ spoe = [s \in Slots |-> NoVars]
    /\ user_id = [s \in Slots |-> None]
    /\ status = [s \in Slots |-> None]
    /\ user_rate = [u \in Users |-> Zero]
    /\ ip_rate = [ip \in Ips |-> Zero]
    /\ passed = [u \in Users |-> 0]

-----------------------------------------------------------------------------
(* The filter sends the message verify before any rule runs, for the paths of
   the assistant but not for its health check. *)
Receive(s, q) ==
    /\ pc[s] = "idle"
    /\ pc' = [pc EXCEPT ![s] = IF q.path = "assistant" THEN "agent" ELSE "rules"]
    /\ request' = [request EXCEPT ![s] = q]
    /\ user_id' = [user_id EXCEPT ![s] = q.claimed]
    /\ UNCHANGED <<spoe, status, rates>>

AgentAnswers(s) ==
    /\ pc[s] = "agent"
    /\ spoe' = [spoe EXCEPT ![s] = handler(request[s].headers)]
    /\ pc' = [pc EXCEPT ![s] = "rules"]
    /\ UNCHANGED <<request, user_id, status, rates>>

(* Mutant: no timeout processing. *)
ProcessingTimeout_None(s) == pc[s] = "agent" /\ FALSE /\ UNCHANGED vars

(* No agent, or 15 ms are over: the rules run without its variables. *)
ProcessingTimeout(s) ==
    /\ pc[s] = "agent"
    /\ pc' = [pc EXCEPT ![s] = "rules"]
    /\ UNCHANGED <<request, spoe, user_id, status, rates>>

-----------------------------------------------------------------------------
Health(s) == request[s].path = "health"
AuthOk(s) == spoe[s].auth_ok

(* A counter stops at its limit: no test of the rules tells more from that. *)
Count(rate, key, limit) ==
    [rate EXCEPT ![key].current = IF @ < limit THEN @ + 1 ELSE @]

(* With this request and all of the last period, or none of it. *)
MayExceed(rate, limit) == rate.current + 1 + rate.last > limit
MayPass(rate, limit) == rate.current + 1 <= limit

Answer(s, code) ==
    /\ pc' = [pc EXCEPT ![s] = "answered"]
    /\ status' = [status EXCEPT ![s] = code]
    /\ UNCHANGED <<request, spoe, user_id, user_rate, passed>>

(* CORS preflight, before anything is counted. *)
Preflight(s) ==
    /\ pc[s] = "rules" /\ request[s].method = "OPTIONS"
    /\ Answer(s, IF request[s].origin THEN "200" ELSE "403")
    /\ UNCHANGED ip_rate

(* Every other request counts for its address, denied or not. *)
Tracked(s) ==
    /\ pc[s] = "rules" /\ request[s].method # "OPTIONS"
    /\ ip_rate' = Count(ip_rate, request[s].ip, IpLimit)

(* Mutant: the probes count as well. *)
IpDenied_Probes(s) ==
    /\ Tracked(s)
    /\ MayExceed(ip_rate[request[s].ip], IpLimit)
    /\ Answer(s, "429")

IpDenied(s) ==
    /\ Tracked(s)
    /\ ~Health(s) /\ MayExceed(ip_rate[request[s].ip], IpLimit)
    /\ Answer(s, "429")

IpPasses(s) ==
    /\ Tracked(s)
    /\ Health(s) \/ MayPass(ip_rate[request[s].ip], IpLimit)

PathDenied(s) ==
    /\ IpPasses(s)
    /\ request[s].path = "elsewhere"
    /\ Answer(s, "404")

Unauthorised(s) ==
    /\ IpPasses(s)
    /\ request[s].path = "assistant" /\ ~AuthOk(s)
    /\ Answer(s, "401")

Identified(s) ==
    /\ IpPasses(s)
    /\ request[s].path = "assistant" /\ AuthOk(s)

User(s) == spoe[s].user_id

UserDenied(s) ==
    /\ Identified(s) /\ User(s) # None
    /\ MayExceed(user_rate[User(s)], UserLimit)
    /\ user_rate' = Count(user_rate, User(s), UserLimit)
    /\ pc' = [pc EXCEPT ![s] = "answered"]
    /\ status' = [status EXCEPT ![s] = "429"]
    /\ UNCHANGED <<request, spoe, user_id, passed>>

(* Mutant: requests that pass are not counted. *)
CountUser_Denied(s) ==
    /\ passed' = [passed EXCEPT ![User(s)] = @ + 1]
    /\ UNCHANGED user_rate

CountUser(s) ==
    /\ user_rate' = Count(user_rate, User(s), UserLimit)
    /\ passed' = [passed EXCEPT ![User(s)] = @ + 1]

(* Mutant: the header of the client stays when it has one. *)
SetUserId_Keep(s) ==
    user_id' = [user_id EXCEPT ![s] = IF @ = None THEN User(s) ELSE @]

SetUserId(s) == user_id' = [user_id EXCEPT ![s] = User(s)]

(* The admin key comes without a user: there is nothing to track. *)
Forwarded(s) ==
    /\ Identified(s)
    /\ \/ User(s) = None /\ UNCHANGED <<user_rate, passed>>
       \/ /\ User(s) # None /\ MayPass(user_rate[User(s)], UserLimit)
          /\ CountUser(s)
    /\ SetUserId(s)
    /\ pc' = [pc EXCEPT ![s] = "assistant"]
    /\ UNCHANGED <<request, spoe, status>>

(* Health checks go through with the headers they have. *)
HealthForwarded(s) ==
    /\ IpPasses(s) /\ Health(s)
    /\ pc' = [pc EXCEPT ![s] = "assistant"]
    /\ UNCHANGED <<request, spoe, user_id, status, user_rate, passed>>

(* The answer of the assistant, or 503 and 504 without one. *)
Backend(s) ==
    /\ pc[s] = "assistant"
    /\ pc' = [pc EXCEPT ![s] = "answered"]
    /\ \E code \in {"backend", "503", "504"} : status' = [status EXCEPT ![s] = code]
    /\ UNCHANGED <<request, spoe, user_id, rates>>

(* The next request of a connection starts with no variables. *)
Done(s) ==
    /\ pc[s] = "answered"
    /\ pc' = [pc EXCEPT ![s] = "idle"]
    /\ request' = [request EXCEPT ![s] = None]
    /\ spoe' = [spoe EXCEPT ![s] = NoVars]
    /\ user_id' = [user_id EXCEPT ![s] = None]
    /\ status' = [status EXCEPT ![s] = None]
    /\ UNCHANGED rates

-----------------------------------------------------------------------------
Turn(rate, key) == [rate EXCEPT ![key] = [last |-> @.current, current |-> 0]]

UserPeriod(u) ==
    /\ user_rate[u] # Zero
    /\ user_rate' = Turn(user_rate, u)
    /\ passed' = [passed EXCEPT ![u] = 0]
    /\ UNCHANGED <<pc, request, spoe, user_id, status, ip_rate>>

IpPeriod(ip) ==
    /\ ip_rate[ip] # Zero
    /\ ip_rate' = Turn(ip_rate, ip)
    /\ UNCHANGED <<pc, request, spoe, user_id, status, user_rate, passed>>

-----------------------------------------------------------------------------
Rules(s) ==
    \/ Preflight(s) \/ IpDenied(s) \/ PathDenied(s) \/ Unauthorised(s)
    \/ UserDenied(s) \/ Forwarded(s) \/ HealthForwarded(s)

Verify(s) == AgentAnswers(s) \/ ProcessingTimeout(s)

Next ==
    \/ \E s \in Slots :
          \/ \E q \in Incoming : Receive(s, q)
          \/ Verify(s) \/ Rules(s) \/ Backend(s) \/ Done(s)
    \/ \E u \in Users : UserPeriod(u)
    \/ \E ip \in Ips : IpPeriod(ip)

Spec == Init /\ [][Next]_vars

(* HAProxy runs its rules, its timers (15 ms for the agent, 120 s for the
   assistant) and its periods.  The agent need not answer. *)
FairSpec ==
    /\ Spec
    /\ \A s \in Slots :
          WF_vars(ProcessingTimeout(s)) /\ WF_vars(Rules(s)) /\ WF_vars(Backend(s))
    /\ \A u \in Users : WF_vars(UserPeriod(u))
    /\ \A ip \in Ips : WF_vars(IpPeriod(ip))

-----------------------------------------------------------------------------
Rates(limit) == [last : 0..limit, current : 0..limit]
TypeOK ==
    /\ pc \in [Slots -> {"idle", "agent", "rules", "assistant", "answered"}]
    /\ request \in [Slots -> Incoming \cup {None}]
    /\ spoe \in [Slots -> [auth_ok : BOOLEAN, user_id : Users \cup {None}]]
    /\ user_id \in [Slots -> Users \cup {None}]
    /\ status \in [Slots -> {None, "200", "401", "403", "404", "429", "503", "504", "backend"}]
    /\ user_rate \in [Users -> Rates(UserLimit)]
    /\ ip_rate \in [Ips -> Rates(IpLimit)]
    /\ passed \in [Users -> Nat]

(* Whatever the agent, the timers and other requests do meanwhile, a request
   for the assistant arrives there with the user of its own token, or without
   one for the admin key (api-gateway-cm.yaml:160-167, 209). *)
OwnIdentity ==
    \A s \in Slots :
        pc[s] = "assistant" /\ ~Health(s)
            => LET verdict == handler(request[s].headers)
               IN  verdict.auth_ok /\ user_id[s] = verdict.user_id

(* One login serves both back ends: unless the agent is told to ignore dates,
   what it lets through to the assistant the playground-api lets through too,
   although they look for a token in other orders and ask other things of it.
   The exceptions are the requests in which the two parsers find different
   keys or tokens (main.go:76-121, 253-302, 364-387, auth.js:42-87). *)
OneLogin ==
    \A s \in Slots :
        pc[s] = "assistant" /\ ~Health(s) /\ ~IgnoreExp
            => LET req == request[s].headers
               IN  authMiddleware(req) \/ Misread(req)

(* "deny if more than 10 requests per minute per user": no more are forwarded
   in a period, over all connections (api-gateway-cm.yaml:169-174). *)
UserLimited == \A u \in Users : passed[u] <= UserLimit

(* A probe is answered by the assistant only, whatever else its address has
   sent (api-gateway-cm.yaml:153, 164). *)
ProbesReachAssistant ==
    \A s \in Slots :
        /\ request[s] # None /\ Health(s) /\ request[s].method # "OPTIONS"
        /\ pc[s] = "answered"
        => status[s] \in {"backend", "503", "504"}

(* Every request is answered, also when the agent never does. *)
EveryRequestAnswered ==
    \A s \in Slots : pc[s] # "idle" ~> pc[s] = "answered"
=============================================================================
