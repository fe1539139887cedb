---------------------------- MODULE MCUserAIKey -----------------------------
(***************************************************************************)
(* A small instance of UserAIKey for TLC.                                  *)
(***************************************************************************)
EXTENDS UserAIKey, Integers, FiniteSets, TLC

CONSTANTS u1, u2, k1, k2, MaxInFlight

Request(kind, user, key) == [kind |-> kind, user |-> user, key |-> key, i |-> 1]

(* A user whose two keys are stored while one is deleted and used, and another
   one whose key must stay apart. *)
MCRequests ==
    {Request("store", u1, k1), Request("store", u1, k2),
     Request("delete", u1, k1), Request("chat", u1, k1),
     Request("store", u2, k2), Request("info", u2, k2)}

(* Bound: requests in flight at one time. *)
InFlightBound == Cardinality({r \in Requests : pc[r] # "idle"}) <= MaxInFlight
=============================================================================
