---------------------------- MODULE GatewayProofs ----------------------------
(***************************************************************************)
(* Proofs about Gateway, for any connections, requests, users and limits.  *)
(***************************************************************************)
EXTENDS Gateway, TLAPS

Pcs == {"idle", "agent", "rules", "assistant", "answered"}
Codes == {None, "200", "401", "403", "404", "429", "503", "504", "backend"}
SpoeVars == [auth_ok : BOOLEAN, user_id : Users \cup {None}]

(* The last of several is one of them. *)
LEMMA LastIn ==
    ASSUME NEW S, NEW q \in Seq(S), q # <<>>
    PROVE  LastOf(q) \in S
<1>1. Len(q) \in Nat /\ Len(q) # 0
    OBVIOUS
<1> QED
    BY <1>1 DEF LastOf

(* The verdict of the agent is about the request it was asked for. *)
LEMMA HandlerTyped ==
    ASSUME NEW req \in AllRequests
    PROVE  handler(req) \in SpoeVars
<1>1. ASSUME NEW token \in Tokens
      PROVE  UserOf(token) \in Users \cup {None}
    BY <1>1 DEF Tokens, UserOf
<1>2. SpoeToken(req) \in Written \cup {None}
  <2>1. /\ req.auth \in Seq([scheme : {"Bearer", "bearer", "none"},
                             written : Written])
        /\ req.portal \in Seq(Written)
    BY DEF AllRequests
  <2>2. req.auth # <<>> =>
            LastOf(req.auth) \in [scheme : {"Bearer", "bearer", "none"},
                                  written : Written]
    BY <2>1, LastIn
  <2>3. req.portal # <<>> => LastOf(req.portal) \in Written
    BY <2>1, LastIn
  <2>4. InHeader(req) => LastOf(req.auth).written \in Written
    BY <2>2 DEF InHeader
  <2> QED
    BY <2>3, <2>4 DEF SpoeToken
<1>3. Accepts(SpoeToken(req)) => SpoeToken(req).token \in Tokens
    BY <1>2 DEF Accepts, Written
<1> QED
    BY <1>1, <1>3 DEF handler, SpoeVars

(* A counter that stops at its limit stays within it. *)
LEMMA CountTyped ==
    ASSUME NEW K, NEW limit \in Nat, NEW rate \in [K -> Rates(limit)],
           NEW key \in K
    PROVE  /\ Count(rate, key, limit) \in [K -> Rates(limit)]
           /\ Turn(rate, key) \in [K -> Rates(limit)]
<1>1. rate[key] \in [last : 0..limit, current : 0..limit]
    BY DEF Rates
<1>2. rate[key].current \in 0..limit
    BY <1>1
<1>3. [rate[key] EXCEPT !.current = IF @ < limit THEN @ + 1 ELSE @]
          \in [last : 0..limit, current : 0..limit]
    BY <1>1, <1>2
<1>4. [last |-> rate[key].current, current |-> 0]
          \in [last : 0..limit, current : 0..limit]
    BY <1>2
<1> QED
    BY <1>3, <1>4 DEF Count, Turn, Rates

-----------------------------------------------------------------------------
(* A slot that is not idle has a request: the types of the agent's variables
   and of the counters' keys rest on it. *)
Busy == \A s \in Slots : pc[s] # "idle" => request[s] \in Incoming

TypeInv == TypeOK /\ Busy

LEMMA TypeInit == Init => TypeInv
<1> SUFFICES ASSUME Init PROVE TypeInv
    OBVIOUS
<1>1. NoVars \in SpoeVars
    BY DEF NoVars, SpoeVars
<1>2. Zero \in Rates(UserLimit) /\ Zero \in Rates(IpLimit)
    BY LimitsAssumption DEF Zero, Rates
<1> QED
    BY <1>1, <1>2 DEF Init, TypeInv, TypeOK, Busy, SpoeVars

(* A rule that is not a forward answers, and counts at most. *)
Answers(s) ==
    \/ Preflight(s) \/ IpDenied(s) \/ PathDenied(s) \/ Unauthorised(s)
    \/ UserDenied(s)

LEMMA AnswersEffect ==
    ASSUME TypeInv, NEW s \in Slots, Answers(s)
    PROVE  /\ pc[s] = "rules"
           /\ request' = request /\ spoe' = spoe /\ user_id' = user_id
           /\ pc' = [pc EXCEPT ![s] = "answered"]
           /\ \E code \in {"200", "401", "403", "404", "429"} :
                 status' = [status EXCEPT ![s] = code]
           /\ passed' = passed
           /\ ip_rate' \in [Ips -> Rates(IpLimit)]
           /\ user_rate' \in [Users -> Rates(UserLimit)]
<1> USE DEF TypeInv, TypeOK, Busy, Answer
<1>1. pc[s] = "rules"
    BY DEF Answers, Preflight, IpDenied, PathDenied, Unauthorised, UserDenied,
           Identified, IpPasses, Tracked
<1>2. request[s].ip \in Ips
    BY <1>1 DEF Ips
<1>3. Count(ip_rate, request[s].ip, IpLimit) \in [Ips -> Rates(IpLimit)]
    BY <1>2, CountTyped, LimitsAssumption
<1>4. CASE Preflight(s)
    BY <1>1, <1>4 DEF Preflight
<1>5. CASE IpDenied(s) \/ PathDenied(s) \/ Unauthorised(s)
    BY <1>1, <1>3, <1>5
    DEF IpDenied, PathDenied, Unauthorised, IpPasses, Tracked
<1>6. CASE UserDenied(s)
  <2>1. User(s) \in Users
    BY <1>6 DEF UserDenied, User
  <2>2. Count(user_rate, User(s), UserLimit) \in [Users -> Rates(UserLimit)]
    BY <2>1, CountTyped, LimitsAssumption
  <2> QED
    BY <1>1, <1>3, <1>6, <2>2 DEF UserDenied, Identified, IpPasses, Tracked
<1> QED
    BY <1>4, <1>5, <1>6 DEF Answers

LEMMA ForwardedEffect ==
    ASSUME TypeInv, NEW s \in Slots, Forwarded(s) \/ HealthForwarded(s)
    PROVE  /\ pc[s] = "rules"
           /\ request' = request /\ spoe' = spoe /\ status' = status
           /\ pc' = [pc EXCEPT ![s] = "assistant"]
           /\ user_id' \in [Slots -> Users \cup {None}]
           /\ \A t \in Slots \ {s} : user_id'[t] = user_id[t]
           /\ ip_rate' \in [Ips -> Rates(IpLimit)]
           /\ user_rate' \in [Users -> Rates(UserLimit)]
           /\ passed' \in [Users -> Nat]
<1> USE DEF TypeInv, TypeOK, Busy
<1>1. pc[s] = "rules"
    BY DEF Forwarded, HealthForwarded, Identified, IpPasses, Tracked
<1>2. request[s].ip \in Ips
    BY <1>1 DEF Ips
<1>3. Count(ip_rate, request[s].ip, IpLimit) \in [Ips -> Rates(IpLimit)]
    BY <1>2, CountTyped, LimitsAssumption
<1>4. CASE HealthForwarded(s)
    BY <1>1, <1>3, <1>4 DEF HealthForwarded, IpPasses, Tracked
<1>5. CASE Forwarded(s)
  <2>1. User(s) \in Users \cup {None}
    BY DEF User
  <2>2. User(s) # None =>
            Count(user_rate, User(s), UserLimit) \in [Users -> Rates(UserLimit)]
    BY <2>1, CountTyped, LimitsAssumption
  <2>3. /\ user_rate' \in [Users -> Rates(UserLimit)]
        /\ passed' \in [Users -> Nat]
    BY <1>5, <2>1, <2>2 DEF Forwarded, CountUser
  <2> QED
    BY <1>1, <1>3, <1>5, <2>1, <2>3
    DEF Forwarded, Identified, IpPasses, Tracked, SetUserId
<1> QED
    BY <1>4, <1>5

(* A period ends: only counters change. *)
LEMMA PeriodEffect ==
    ASSUME TypeInv,
           (\E u \in Users : UserPeriod(u)) \/ (\E ip \in Ips : IpPeriod(ip))
    PROVE  /\ UNCHANGED <<pc, request, spoe, user_id, status>>
           /\ ip_rate' \in [Ips -> Rates(IpLimit)]
           /\ user_rate' \in [Users -> Rates(UserLimit)]
           /\ passed' \in [Users -> Nat]
<1> USE DEF TypeInv, TypeOK
<1>1. ASSUME NEW u \in Users, UserPeriod(u)
      PROVE  user_rate' \in [Users -> Rates(UserLimit)]
    BY <1>1, CountTyped, LimitsAssumption DEF UserPeriod
<1>2. ASSUME NEW ip \in Ips, IpPeriod(ip)
      PROVE  ip_rate' \in [Ips -> Rates(IpLimit)]
    BY <1>2, CountTyped, LimitsAssumption DEF IpPeriod
<1> QED
    BY <1>1, <1>2 DEF UserPeriod, IpPeriod

(* Next, sorted by what its actions do to a slot. *)
LEMMA NextCases ==
    ASSUME [Next]_vars
    PROVE  \/ \E s \in Slots :
                 \/ \E q \in Incoming : Receive(s, q)
                 \/ AgentAnswers(s) \/ ProcessingTimeout(s)
                 \/ Answers(s)
                 \/ Forwarded(s) \/ HealthForwarded(s)
                 \/ Backend(s) \/ Done(s)
           \/ (\E u \in Users : UserPeriod(u)) \/ (\E ip \in Ips : IpPeriod(ip))
           \/ UNCHANGED vars
BY DEF Next, Rules, Verify, Answers

LEMMA TypeStep == TypeInv /\ [Next]_vars => TypeInv'
<1> SUFFICES ASSUME TypeInv, [Next]_vars PROVE TypeInv'
    OBVIOUS
<1> USE DEF TypeInv, TypeOK, Busy, rates
<1>1. ASSUME NEW s \in Slots, NEW q \in Incoming, Receive(s, q) PROVE TypeInv'
    BY <1>1, IncomingAssumption DEF Receive
<1>2. ASSUME NEW s \in Slots, AgentAnswers(s) PROVE TypeInv'
  <2>1. handler(request[s].headers) \in SpoeVars
    BY <1>2, IncomingAssumption, HandlerTyped DEF AgentAnswers
  <2> QED
    BY <1>2, <2>1 DEF AgentAnswers, SpoeVars
<1>3. ASSUME NEW s \in Slots, ProcessingTimeout(s) PROVE TypeInv'
    BY <1>3 DEF ProcessingTimeout
<1>4. ASSUME NEW s \in Slots, Answers(s) PROVE TypeInv'
    BY <1>4, AnswersEffect
<1>5. ASSUME NEW s \in Slots, Forwarded(s) \/ HealthForwarded(s) PROVE TypeInv'
    BY <1>5, ForwardedEffect
<1>6. ASSUME NEW s \in Slots, Backend(s) PROVE TypeInv'
    BY <1>6 DEF Backend
<1>7. ASSUME NEW s \in Slots, Done(s) PROVE TypeInv'
  <2>1. NoVars \in [auth_ok : BOOLEAN, user_id : Users \cup {None}]
    BY DEF NoVars
  <2> QED
    BY <1>7, <2>1 DEF Done
<1>8. CASE (\E u \in Users : UserPeriod(u)) \/ (\E ip \in Ips : IpPeriod(ip))
    BY <1>8, PeriodEffect
<1>9. CASE UNCHANGED vars
    BY <1>9 DEF vars
<1> QED
    BY <1>1, <1>2, <1>3, <1>4, <1>5, <1>6, <1>7, <1>8, <1>9, NextCases

LEMMA TypeInvariant == Spec => []TypeInv
BY TypeInit, TypeStep, PTL DEF Spec

(* Every variable keeps its type, for any requests and limits. *)
THEOREM TypeCorrect == Spec => []TypeOK
BY TypeInvariant, PTL DEF TypeInv

-----------------------------------------------------------------------------
(* What is known of the request in slot s: its variables are none until the
   agent answers, and then the verdict about this request; the header of a
   forwarded one is the user of the verdict; and a probe has no answer but
   the assistant's. *)
Verdict(s) ==
    /\ pc[s] \in {"idle", "agent"} => spoe[s] = NoVars
    /\ AuthOk(s) => spoe[s] = handler(request[s].headers)
    /\ pc[s] = "assistant" /\ ~Health(s) => AuthOk(s) /\ user_id[s] = User(s)
    /\ /\ request[s] # None /\ Health(s) /\ request[s].method # "OPTIONS"
       /\ pc[s] = "answered"
       => status[s] \in {"backend", "503", "504"}

VerdictInv == \A s \in Slots : Verdict(s)

LEMMA VerdictInit == Init => VerdictInv
BY DEF Init, VerdictInv, Verdict, AuthOk, NoVars

(* A slot keeps what is known of it while nothing of it changes. *)
LEMMA OthersKept ==
    ASSUME NEW t \in Slots, Verdict(t),
           pc'[t] = pc[t], request'[t] = request[t], spoe'[t] = spoe[t],
           user_id'[t] = user_id[t], status'[t] = status[t]
    PROVE  Verdict(t)'
BY DEF Verdict, AuthOk, Health, User

(* The rules answer a probe only when it is a preflight. *)
LEMMA ProbesNotAnswered ==
    ASSUME TypeInv, NEW s \in Slots, Answers(s), Health(s)
    PROVE  request[s].method = "OPTIONS"
BY DEF Answers, Preflight, IpDenied, PathDenied, Unauthorised, UserDenied,
       Identified, Health

LEMMA VerdictStep == TypeInv /\ VerdictInv /\ [Next]_vars => VerdictInv'
<1> SUFFICES ASSUME TypeInv, VerdictInv, [Next]_vars, NEW t \in Slots
             PROVE  Verdict(t)'
    BY DEF VerdictInv
<1>0. Verdict(t)
    BY DEF VerdictInv
<1> USE DEF TypeInv, TypeOK, Busy
<1>1. ASSUME NEW s \in Slots, NEW q \in Incoming, Receive(s, q)
      PROVE  Verdict(t)'
  <2>1. CASE t = s
    BY <1>0, <1>1, <2>1 DEF Receive, Verdict, AuthOk, NoVars
  <2>2. CASE t # s
    BY <1>0, <1>1, <2>2, OthersKept DEF Receive
  <2> QED
    BY <2>1, <2>2
<1>2. ASSUME NEW s \in Slots, AgentAnswers(s) PROVE Verdict(t)'
  <2>1. CASE t = s
    BY <1>0, <1>2, <2>1 DEF AgentAnswers, Verdict, AuthOk
  <2>2. CASE t # s
    BY <1>0, <1>2, <2>2, OthersKept DEF AgentAnswers
  <2> QED
    BY <2>1, <2>2
<1>3. ASSUME NEW s \in Slots, ProcessingTimeout(s) PROVE Verdict(t)'
  <2>1. CASE t = s
    BY <1>0, <1>3, <2>1 DEF ProcessingTimeout, Verdict, AuthOk
  <2>2. CASE t # s
    BY <1>0, <1>3, <2>2, OthersKept DEF ProcessingTimeout
  <2> QED
    BY <2>1, <2>2
<1>4. ASSUME NEW s \in Slots, Answers(s) PROVE Verdict(t)'
  <2>1. CASE t = s
    BY <1>0, <1>4, <2>1, AnswersEffect, ProbesNotAnswered
    DEF Verdict, AuthOk, Health
  <2>2. CASE t # s
    BY <1>0, <1>4, <2>2, AnswersEffect, OthersKept
  <2> QED
    BY <2>1, <2>2
<1>5. ASSUME NEW s \in Slots, Forwarded(s) PROVE Verdict(t)'
  <2>1. CASE t = s
    <3>1. AuthOk(s) /\ user_id'[s] = User(s)
      BY <1>5 DEF Forwarded, Identified, SetUserId
    <3> QED
      BY <1>0, <1>5, <2>1, <3>1, ForwardedEffect
      DEF Verdict, AuthOk, Health, User
  <2>2. CASE t # s
    BY <1>0, <1>5, <2>2, ForwardedEffect, OthersKept
  <2> QED
    BY <2>1, <2>2
<1>6. ASSUME NEW s \in Slots, HealthForwarded(s) PROVE Verdict(t)'
  <2>1. CASE t = s
    <3>1. Health(s)
      BY <1>6 DEF HealthForwarded
    <3> QED
      BY <1>0, <1>6, <2>1, <3>1, ForwardedEffect DEF Verdict, AuthOk, Health
  <2>2. CASE t # s
    BY <1>0, <1>6, <2>2, ForwardedEffect, OthersKept
  <2> QED
    BY <2>1, <2>2
<1>7. ASSUME NEW s \in Slots, Backend(s) PROVE Verdict(t)'
  <2>1. CASE t = s
    BY <1>0, <1>7, <2>1 DEF Backend, Verdict, AuthOk, Health
  <2>2. CASE t # s
    BY <1>0, <1>7, <2>2, OthersKept DEF Backend
  <2> QED
    BY <2>1, <2>2
<1>8. ASSUME NEW s \in Slots, Done(s) PROVE Verdict(t)'
  <2>1. CASE t = s
    BY <1>0, <1>8, <2>1 DEF Done, Verdict, AuthOk, NoVars
  <2>2. CASE t # s
    BY <1>0, <1>8, <2>2, OthersKept DEF Done
  <2> QED
    BY <2>1, <2>2
<1>9. CASE (\E u \in Users : UserPeriod(u)) \/ (\E ip \in Ips : IpPeriod(ip))
    BY <1>0, <1>9, PeriodEffect, OthersKept
<1>10. CASE UNCHANGED vars
    BY <1>0, <1>10, OthersKept DEF vars
<1> QED
    BY <1>1, <1>2, <1>3, <1>4, <1>5, <1>6, <1>7, <1>8, <1>9, <1>10, NextCases

LEMMA VerdictInvariant == Spec => [](TypeInv /\ VerdictInv)
BY TypeInvariant, VerdictInit, VerdictStep, PTL DEF Spec

(* The user a request has at the assistant is the one of its own token: not
   of another request's, nor the one its client wrote into the header, nor
   anybody when the agent did not answer (api-gateway-cm.yaml:160-167, 209). *)
THEOREM IdentityIsOwn == Spec => []OwnIdentity
<1>1. VerdictInv => OwnIdentity
    BY DEF VerdictInv, Verdict, OwnIdentity, AuthOk, User
<1> QED
    BY <1>1, VerdictInvariant, PTL

(* With one value where it looks, the first is the last. *)
LEMMA OneValue ==
    ASSUME NEW S, NEW q \in Seq(S), q # <<>>, ~(Len(q) > 1)
    PROVE  q = <<LastOf(q)>> /\ Head(q) = LastOf(q)
<1>1. Len(q) \in Nat /\ Len(q) # 0
    OBVIOUS
<1>2. Len(q) = 1
    BY <1>1
<1>3. q = <<q[1]>>
    BY <1>2
<1> QED
    BY <1>2, <1>3 DEF LastOf

(* What the agent accepts the middleware accepts, where it sees the same: the
   admin key, or the token of the Bearer header or, without one, of the
   cookie, with a date. *)
LEMMA AcceptedByBoth ==
    ASSUME NEW req \in AllRequests, handler(req).auth_ok, ~IgnoreExp,
           ~Misread(req)
    PROVE  authMiddleware(req)
<1>0. /\ req.api_key \in Seq(ApiKeys)
      /\ req.auth \in Seq([scheme : {"Bearer", "bearer", "none"},
                           written : Written])
      /\ req.portal \in Seq(Written)
    BY DEF AllRequests
<1>1. AdminBypass(req) \/ Accepts(SpoeToken(req))
    BY DEF handler
<1>2. CASE AdminBypass(req)
  <2>1. /\ req.api_key # <<>> /\ ~(Len(req.api_key) > 1)
        /\ LastOf(req.api_key) = AdminApiKey /\ AdminApiKey # None
    BY <1>2 DEF AdminBypass, Misread
  <2>2. req.api_key = <<AdminApiKey>>
    BY <1>0, <2>1, OneValue
  <2> QED
    BY <2>1, <2>2 DEF authMiddleware
<1>3. CASE ~AdminBypass(req)
  <2>1. /\ SpoeToken(req).form \in {"plain", "blank", "bearer"}
        /\ validateToken(SpoeToken(req).token)
        /\ SpoeToken(req) # None
    BY <1>1, <1>3, NoneAssumption DEF Accepts, verifyToken, validateToken
  <2>2. CASE InHeader(req)
    <3>1. /\ req.auth # <<>> /\ LastOf(req.auth).scheme = "Bearer"
          /\ SpoeToken(req) = LastOf(req.auth).written
          /\ ~(Len(req.auth) > 1)
          /\ SpoeToken(req).form \notin {"blank", "bearer"}
      BY <1>3, <2>2 DEF InHeader, SpoeToken, Misread
    <3>2. Head(req.auth) = LastOf(req.auth)
      BY <1>0, <3>1, OneValue
    <3> QED
      BY <2>1, <3>1, <3>2 DEF authMiddleware, HeaderValid
  <2>3. CASE ~InHeader(req)
    <3>1. /\ req.portal # <<>> /\ SpoeToken(req) = LastOf(req.portal)
      BY <2>1, <2>3 DEF SpoeToken
    <3>2. ~(Len(req.portal) > 1) /\ SpoeToken(req).form # "bearer"
      BY <1>3, <2>3 DEF Misread
    <3>3. Head(req.portal) = LastOf(req.portal)
      BY <1>0, <3>1, <3>2, OneValue
    <3> QED
      BY <2>1, <3>1, <3>2, <3>3 DEF authMiddleware, CookieValid
  <2> QED
    BY <2>2, <2>3
<1> QED
    BY <1>2, <1>3

(* Whatever tokens, cookies or keys a request came with and however they were
   written, when the agent let it through to the assistant the middleware of
   the playground-api lets it through as well, but where Misread says why not
   (main.go:76-121, 253-302, 364-387, auth.js:42-87). *)
THEOREM LoginIsOne == Spec => []OneLogin
<1>1. TypeInv /\ VerdictInv => OneLogin
  <2> SUFFICES ASSUME TypeInv, VerdictInv, NEW s \in Slots,
                      pc[s] = "assistant", ~Health(s), ~IgnoreExp,
                      ~Misread(request[s].headers)
               PROVE  authMiddleware(request[s].headers)
      BY DEF OneLogin
  <2>1. handler(request[s].headers).auth_ok
      BY DEF VerdictInv, Verdict, AuthOk
  <2>2. request[s].headers \in AllRequests
      BY IncomingAssumption DEF TypeInv, Busy
  <2> QED
      BY <2>1, <2>2, AcceptedByBoth
<1> QED
    BY <1>1, VerdictInvariant, PTL

(* A probe is never answered by a rule, whatever its address has sent
   (api-gateway-cm.yaml:153, 164). *)
THEOREM ProbesArrive == Spec => []ProbesReachAssistant
<1>1. VerdictInv => ProbesReachAssistant
    BY DEF VerdictInv, Verdict, ProbesReachAssistant
<1> QED
    BY <1>1, VerdictInvariant, PTL

-----------------------------------------------------------------------------
(* The counter of a user is at least what has been forwarded, and stays
   within the limit although it stops counting there. *)
Counted == \A u \in Users : passed[u] <= user_rate[u].current

LEMMA UserRateTyped ==
    ASSUME TypeOK, NEW u \in Users
    PROVE  user_rate[u].current \in 0..UserLimit /\ user_rate[u].last \in Nat
<1>1. user_rate[u] \in [last : 0..UserLimit, current : 0..UserLimit]
    BY DEF TypeOK, Rates
<1> QED
    BY <1>1, LimitsAssumption

LEMMA CountedStep == TypeInv /\ Counted /\ [Next]_vars => Counted'
<1> SUFFICES ASSUME TypeInv, Counted, [Next]_vars, NEW v \in Users
             PROVE  passed'[v] <= user_rate'[v].current
    BY DEF Counted
<1> USE DEF TypeInv, TypeOK
<1>0. /\ passed[v] <= user_rate[v].current /\ passed[v] \in Nat
      /\ user_rate[v].current \in 0..UserLimit /\ UserLimit \in Nat
    BY UserRateTyped, LimitsAssumption DEF Counted
<1>1. ASSUME NEW s \in Slots, Forwarded(s), User(s) # None
      PROVE  passed'[v] <= user_rate'[v].current
  <2>1. User(s) \in Users
    BY <1>1 DEF User
  <2>2. /\ user_rate[User(s)].current < UserLimit
        /\ passed' = [passed EXCEPT ![User(s)] = @ + 1]
        /\ user_rate' = [user_rate EXCEPT ![User(s)].current = @ + 1]
    <3>1. user_rate[User(s)].current + 1 <= UserLimit
      BY <1>1 DEF Forwarded, MayPass
    <3>2. user_rate[User(s)].current < UserLimit
      BY <3>1, <2>1, UserRateTyped, LimitsAssumption
    <3> QED
      BY <1>1, <3>2 DEF Forwarded, CountUser, Count
  <2>3. CASE v = User(s)
    BY <1>0, <2>1, <2>2, <2>3 DEF Rates
  <2>4. CASE v # User(s)
    BY <1>0, <2>1, <2>2, <2>4
  <2> QED
    BY <2>3, <2>4
<1>2. ASSUME NEW s \in Slots, UserDenied(s)
      PROVE  passed'[v] <= user_rate'[v].current
  <2>1. passed' = passed /\ User(s) \in Users
    BY <1>2 DEF UserDenied, User
  <2>2. user_rate' = Count(user_rate, User(s), UserLimit)
    BY <1>2 DEF UserDenied
  <2>3. user_rate'[v].current >= user_rate[v].current
    BY <1>0, <2>1, <2>2 DEF Count, Rates
  <2>4. user_rate'[v].current \in Nat
    BY <1>0, <2>1, <2>2 DEF Count, Rates
  <2> QED
    BY <1>0, <2>1, <2>3, <2>4
<1>3. ASSUME NEW u \in Users, UserPeriod(u)
      PROVE  passed'[v] <= user_rate'[v].current
    BY <1>0, <1>3 DEF UserPeriod, Turn
<1>4. ASSUME UNCHANGED <<user_rate, passed>>
      PROVE  passed'[v] <= user_rate'[v].current
    BY <1>0, <1>4
<1>5. \/ \E s \in Slots : Forwarded(s) /\ User(s) # None
      \/ \E s \in Slots : UserDenied(s)
      \/ \E u \in Users : UserPeriod(u)
      \/ UNCHANGED <<user_rate, passed>>
    BY DEF Next, vars, rates, Receive, Verify, AgentAnswers, ProcessingTimeout,
           Rules, Preflight, IpDenied, PathDenied, Unauthorised, Answer,
           Forwarded, HealthForwarded, Backend, Done, IpPeriod
<1> QED
    BY <1>1, <1>2, <1>3, <1>4, <1>5

(* However the requests of a user interleave over the connections, no more
   than the limit is forwarded in a period (api-gateway-cm.yaml:169-174). *)
THEOREM UsersAreLimited == Spec => []UserLimited
<1>1. Init => Counted
  <2> SUFFICES ASSUME Init, NEW u \in Users
               PROVE  passed[u] <= user_rate[u].current
    BY DEF Counted
  <2>1. passed[u] = 0 /\ user_rate[u] = Zero
    BY DEF Init
  <2>2. Zero.current = 0
    BY DEF Zero
  <2> QED
    BY <2>1, <2>2
<1>2. Spec => []Counted
    BY <1>1, TypeInvariant, CountedStep, PTL DEF Spec
<1>3. TypeInv /\ Counted => UserLimited
  <2> SUFFICES ASSUME TypeInv, Counted, NEW u \in Users
               PROVE  passed[u] <= UserLimit
    BY DEF UserLimited
  <2> QED
    BY UserRateTyped, LimitsAssumption DEF TypeInv, TypeOK, Counted
<1> QED
    BY <1>2, <1>3, TypeInvariant, PTL
=============================================================================
