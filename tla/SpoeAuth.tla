------------------------------ MODULE SpoeAuth ------------------------------
(***************************************************************************)
(* Who may pass: what makes a token valid and where it is looked for, in   *)
(* the SPOE agent in front of the assistant (main.go) and in the           *)
(* middleware of the playground-api (auth.js).  Both are given the same    *)
(* public key and ADMIN_API_KEY.                                           *)
(*                                                                         *)
(* A token is what its claims say and whether its signature is good.  A    *)
(* request may have each header and cookie several times: HAProxy hands    *)
(* the last header of a name to the agent, whose parseCookies keeps the    *)
(* last cookie of a name; Node keeps the first Authorization header and    *)
(* joins the keys, and cookie-parser keeps the first cookie.               *)
(***************************************************************************)
EXTENDS Integers, Sequences

CONSTANTS
    Users,
    None,           \* no API key of the services, no claim, no token
    AdminApiKey,    \* ADMIN_API_KEY of both services, or None
    IgnoreExp,      \* IGNORE_EXP of the agent
    PublicKeySet    \* whether PUBLIC_KEY of the playground-api is set

ApiKeys == {"admin", "other"}

ASSUME AdminAssumption == AdminApiKey \in {"admin", None} /\ None \notin ApiKeys
ASSUME NoneAssumption == None \notin Users /\ None \notin {"past", "future"}

(* signed: the signature is good; addressed: so are the audience and issuer;
   exp: when it expires, being valid until then; field: the claim USER_FIELD
   names; "sub" is the other claim for the user. *)
Tokens ==
    [signed : BOOLEAN, addressed : BOOLEAN, exp : {None, "past", "future"},
     field : Users \cup {None}, sub : Users \cup {None}]

(* How a token stands in its place, after "Bearer " or after the name of the
   cookie: alone, after one more blank, after one more "bearer ", before some
   other word, or in quotes. *)
Forms == {"plain", "blank", "bearer", "tail", "quoted"}
Written == [form : Forms, token : Tokens]

(* portal is the cookie hedera-portal-session, session one of another name. *)
AllRequests ==
    [api_key : Seq(ApiKeys),
     auth : Seq([scheme : {"Bearer", "bearer", "none"}, written : Written]),
     portal : Seq(Written), session : Seq(Written)]

LastOf(s) == s[Len(s)]

-----------------------------------------------------------------------------
UserOf(token) == IF token.field # None THEN token.field ELSE token.sub

(* Spaces and one "bearer " are cut off, from a cookie as well; then
   ParseV4Public with the rules that are set, and a user in the claims. *)
verifyToken(written) ==
    /\ written.form \in {"plain", "blank", "bearer"}
    /\ written.token.signed /\ written.token.addressed
    /\ IgnoreExp \/ written.token.exp = "future"
    /\ UserOf(written.token) # None

AdminBypass(req) ==
    /\ AdminApiKey # None
    /\ req.api_key # <<>> /\ LastOf(req.api_key) = AdminApiKey

InHeader(req) == req.auth # <<>> /\ LastOf(req.auth).scheme = "Bearer"

(* Mutant: the cookie has another name. *)
SpoeToken_Session(req) ==
    CASE InHeader(req) -> LastOf(req.auth).written
      [] ~InHeader(req) /\ req.session # <<>> -> LastOf(req.session)
      [] OTHER -> None

(* The Bearer token; the portal's cookie when there is none. *)
SpoeToken(req) ==
    CASE InHeader(req) -> LastOf(req.auth).written
      [] ~InHeader(req) /\ req.portal # <<>> -> LastOf(req.portal)
      [] OTHER -> None

Accepts(written) == written # None /\ verifyToken(written)

(* The variables the agent sets. *)
handler(req) ==
    IF AdminBypass(req) THEN [auth_ok |-> TRUE, user_id |-> None]
    ELSE IF Accepts(SpoeToken(req))
    THEN [auth_ok |-> TRUE, user_id |-> UserOf(SpoeToken(req).token)]
    ELSE [auth_ok |-> FALSE, user_id |-> None]

-----------------------------------------------------------------------------
(* The playground-api does not compare the date, a token only needs one, and
   asks for no audience, issuer or user. *)
validateToken(token) == token.signed /\ token.exp # None

(* The second piece of authorization.split(' ') is the token when it comes
   right after one blank; cookie-parser trims and unquotes a cookie. *)
HeaderValid(written) ==
    written.form \in {"plain", "tail"} /\ validateToken(written.token)
CookieValid(written) ==
    written.form \in {"plain", "blank", "quoted"} /\ validateToken(written.token)

(* authMiddleware, for every request but the API's GET /health: next() is
   called without a public key, with the admin key, or with a valid token in
   the Bearer header or, also when the one there is not valid, in the cookie. *)
authMiddleware(req) ==
    \/ ~PublicKeySet
    \/ AdminApiKey # None /\ req.api_key = <<AdminApiKey>>
    \/ /\ req.auth # <<>> /\ Head(req.auth).scheme = "Bearer"
       /\ HeaderValid(Head(req.auth).written)
    \/ req.portal # <<>> /\ CookieValid(Head(req.portal))

(* What the agent goes by is not what the playground-api sees there: one of
   several keys, headers or cookies, a token after a second blank in the
   header, or one after a "bearer " of its own. *)
Misread(req) ==
    IF AdminBypass(req) THEN Len(req.api_key) > 1
    ELSE IF InHeader(req)
    THEN Len(req.auth) > 1 \/ SpoeToken(req).form \in {"blank", "bearer"}
    ELSE Len(req.portal) > 1 \/ SpoeToken(req).form = "bearer"
=============================================================================
