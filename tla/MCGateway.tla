----------------------------- MODULE MCGateway ------------------------------
(***************************************************************************)
(* A small instance of Gateway for TLC.                                    *)
(***************************************************************************)
EXTENDS Gateway

CONSTANTS u1, u2

Token(u) ==
    [signed |-> TRUE, addressed |-> TRUE, exp |-> "future", field |-> u,
     sub |-> None]
Expired(u) == [Token(u) EXCEPT !.exp = "past"]
Forged(u) == [Token(u) EXCEPT !.signed = FALSE]

As(form, token) == [form |-> form, token |-> token]
Plain(token) == As("plain", token)
Bearer(written) == [scheme |-> "Bearer", written |-> written]

NoHeaders == [api_key |-> <<>>, auth |-> <<>>, portal |-> <<>>, session |-> <<>>]
Authorization(written) == [NoHeaders EXCEPT !.auth = <<Bearer(written)>>]
Cookies(portal) == [NoHeaders EXCEPT !.portal = portal]

Ask(path, claimed, headers) ==
    [method |-> "POST", origin |-> TRUE, path |-> path, ip |-> "a",
     claimed |-> claimed, headers |-> headers]

(* A user with a token; one with the portal's cookie, who names another user;
   the admin key; a bad cookie and a good token in one of another name; the
   cookie of two users, the first with a forged token; a probe, a preflight
   and a path of nobody's. *)
MCIncoming ==
    {Ask("assistant", None, Authorization(Plain(Token(u1)))),
     Ask("assistant", u1, Cookies(<<Plain(Token(u2))>>)),
     Ask("assistant", u1, [NoHeaders EXCEPT !.api_key = <<"admin">>]),
     Ask("assistant", u1,
         [Cookies(<<Plain(Forged(u1))>>) EXCEPT
              !.session = <<Plain(Token(u1))>>]),
     Ask("assistant", None, Cookies(<<Plain(Forged(u1)), Plain(Token(u2))>>)),
     [Ask("health", None, NoHeaders) EXCEPT !.method = "GET"],
     [Ask("assistant", None, NoHeaders) EXCEPT
          !.method = "OPTIONS", !.origin = FALSE],
     Ask("elsewhere", None, NoHeaders)}

(* The two parsers on every way of writing one or two tokens: what Misread
   leaves out is needed, and is all there is. *)
Samples ==
    {As(form, token) : form \in Forms, token \in {Token(u1), Expired(u1), Forged(u1)}}
Upto2(S) == {<<>>} \cup {<<a>> : a \in S} \cup {<<a, b>> : a, b \in S}
SampleRequests ==
    {[NoHeaders EXCEPT !.auth = auth, !.portal = portal] :
         auth \in Upto2({Bearer(w) : w \in Samples}),
         portal \in {<<>>} \cup {<<w>> : w \in Samples}}
    \cup {Cookies(portal) : portal \in Upto2(Samples)}
    \cup {[NoHeaders EXCEPT !.api_key = keys] : keys \in Upto2(ApiKeys)}
ASSUME ParsersAssumption ==
    /\ \A req \in SampleRequests :
          handler(req).auth_ok /\ ~IgnoreExp /\ ~authMiddleware(req)
              => Misread(req)
    /\ \A form \in {"blank", "bearer"} :
          LET req == Authorization(As(form, Token(u1)))
          IN  handler(req).auth_ok /\ ~authMiddleware(req)
=============================================================================
