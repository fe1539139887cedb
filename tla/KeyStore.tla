------------------------------ MODULE KeyStore ------------------------------
(***************************************************************************)
(* What the user key routes promise: a store that holds at most one key of *)
(* each user.  Every request takes effect at one moment between its call   *)
(* and its answer, and its answer tells what was there at that moment.     *)
(* Only a request that failed leaves open whether it took effect, and it   *)
(* may still do so after the failure was reported.                         *)
(***************************************************************************)
CONSTANTS
    Users,
    Keys,
    None,       \* no key
    Requests    \* records with kind, user and key

VARIABLES
    keys,       \* the key each user has
    phase,      \* how far each request is
    result      \* what it will answer

storeVars == <<keys, phase, result>>

Init ==
    /\ keys \in [Users -> Keys \cup {None}]
    /\ phase = [r \in Requests |-> "idle"]
    /\ result = [r \in Requests |-> None]

Has(u) == keys[u] # None

(* What request r does to the store, and what it finds out. *)
Effect(r, outcome) ==
    \/ /\ r.kind = "store" /\ ~Has(r.user)
       /\ outcome = "ok"
       /\ keys' = [keys EXCEPT ![r.user] = r.key]
    \/ /\ r.kind = "store" /\ Has(r.user)
       /\ outcome = "present"
       /\ UNCHANGED keys
    \/ /\ r.kind = "delete" /\ Has(r.user)
       /\ outcome = "ok"
       /\ keys' = [keys EXCEPT ![r.user] = None]
    \/ /\ r.kind \in {"delete", "info", "chat"} /\ ~Has(r.user)
       /\ outcome = "absent"
       /\ UNCHANGED keys
    \/ /\ r.kind = "info" /\ Has(r.user)
       /\ outcome = "ok"
       /\ UNCHANGED keys
    \/ /\ r.kind = "chat" /\ Has(r.user)
       /\ outcome = keys[r.user]
       /\ UNCHANGED keys

Become(r, p) == phase' = [phase EXCEPT ![r] = p]

Call(r) ==
    /\ phase[r] = "idle"
    /\ Become(r, "called")
    /\ UNCHANGED <<keys, result>>

TakeEffect(r) ==
    /\ phase[r] = "called"
    /\ \E p \in {"decided", "answered"} : Become(r, p)
    /\ \E outcome \in {"ok", "present", "absent"} \cup Keys :
          /\ Effect(r, outcome)
          /\ result' = [result EXCEPT ![r] = outcome]

(* A failure may hide that the request took effect, or come before it. *)
Fail(r) ==
    /\ \/ phase[r] = "called" /\ (Become(r, "answered") \/ Become(r, "late"))
       \/ phase[r] = "decided" /\ Become(r, "answered")
    /\ result' = [result EXCEPT ![r] = "failed"]
    /\ UNCHANGED keys

Answer(r) ==
    /\ phase[r] = "decided"
    /\ Become(r, "answered")
    /\ UNCHANGED <<keys, result>>

(* A failed request takes effect after all, or never will. *)
SettleLate(r) ==
    /\ phase[r] = "late"
    /\ Become(r, "answered")
    /\ \/ \E outcome \in {"ok", "present", "absent"} \cup Keys : Effect(r, outcome)
       \/ UNCHANGED keys
    /\ UNCHANGED result

Finish(r) ==
    /\ phase[r] = "answered"
    /\ Become(r, "idle")
    /\ result' = [result EXCEPT ![r] = None]
    /\ UNCHANGED keys

Next ==
    \E r \in Requests :
        \/ Call(r)
        \/ TakeEffect(r)
        \/ Fail(r)
        \/ Answer(r)
        \/ SettleLate(r)
        \/ Finish(r)

Spec == Init /\ [][Next]_storeVars
=============================================================================
