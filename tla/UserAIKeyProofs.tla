-------------------------- MODULE UserAIKeyProofs ---------------------------
(***************************************************************************)
(* For any users, keys and requests, UserAIKey is well typed and           *)
(* implements KeyStore.  TypeOK alone is not inductive enough for the      *)
(* second: that an INSERT writes the key of its own request, and that a    *)
(* request which has been decided carries the matching answer, is Carried. *)
(***************************************************************************)
EXTENDS UserAIKey, TLAPS

Carried ==
    \A r \in Requests :
        /\ pc[r] \in {"insert", "inserted"} => held[r] = Ciphertext(r.key)
        /\ pc[r] = "late" /\ r.kind = "store" => held[r] = Ciphertext(r.key)
        /\ pc[r] = "late" => Meaning(answer[r]) = "failed"
        /\ pc[r] = "decrypt" => held[r] \in Ciphertexts
        /\ pc[r] = "inserted" => answer[r] = "201"
        /\ pc[r] = "deleted" => answer[r] \in {"204", "404"}

IInv == TypeOK /\ Carried

AllPcs == {"idle", "start", "answered"} \cup UNION {Awaits(k) : k \in Kinds}

-----------------------------------------------------------------------------
LEMMA KeysDistinct ==
    ASSUME NEW k \in Keys
    PROVE  /\ Ciphertext(k) \in Ciphertexts
           /\ Plaintext(Ciphertext(k)) = k
           /\ Ciphertext(k) # None
           /\ k # None
           /\ k \notin Statuses
BY NoneAssumption DEF Ciphertext, Ciphertexts, Plaintext

LEMMA CiphertextOpens ==
    ASSUME NEW c \in Ciphertexts
    PROVE  Plaintext(c) \in Keys /\ c # None /\ Plaintext(c) # None
BY NoneAssumption DEF Ciphertext, Ciphertexts, Plaintext

LEMMA AwaitsOfKind ==
    ASSUME NEW r \in Requests
    PROVE  /\ r.kind \in Kinds /\ r.user \in Users /\ r.key \in Keys
           /\ Awaits(r.kind) \subseteq AllPcs
           /\ r.kind = "store" => Awaits(r.kind) = {"validate", "find", "encrypt", "insert", "inserted", "late"}
           /\ r.kind = "info" => Awaits(r.kind) = {"find"}
           /\ r.kind = "delete" => Awaits(r.kind) = {"delete", "deleted", "late"}
           /\ r.kind = "chat" => Awaits(r.kind) = {"exists", "find", "decrypt"}
BY RequestsAssumption DEF Awaits, Kinds, AllPcs

(* What TypeOK asks of pc when one request moves on. *)
LEMMA PcMoves ==
    ASSUME TypeOK, NEW r \in Requests,
           NEW p \in {"idle", "start", "answered"} \cup Awaits(r.kind),
           Goto(r, p)
    PROVE  /\ pc' \in [Requests -> AllPcs]
           /\ \A q \in Requests : pc'[q] \in {"idle", "start", "answered"} \cup Awaits(q.kind)
           /\ pc'[r] = p
           /\ \A q \in Requests \ {r} : pc'[q] = pc[q]
<1>1. p \in AllPcs
  BY AwaitsOfKind DEF AllPcs
<1> QED
  BY <1>1 DEF TypeOK, Goto, AllPcs

LEMMA MeaningOf ==
    /\ \A a \in {"200", "201", "204"} : Meaning(a) = "ok"
    /\ Meaning("409") = "present"
    /\ Meaning("404") = "absent"
    /\ \A a \in {"400", "401", "403", "502", "503", "lost"} : Meaning(a) = "failed"
    /\ \A k \in Keys : Meaning(k) = k
    /\ Meaning(None) = None
BY NoneAssumption DEF Meaning, Statuses

LEMMA RefusalsFail ==
    ASSUME NEW r \in Requests, NEW a \in Refusals(r) \cup {"lost"}
    PROVE  a \in Statuses /\ Meaning(a) = "failed"
<1>1. a \in {"400", "401", "403", "502", "503", "lost"}
  BY DEF Refusals
<1> QED
  BY <1>1, MeaningOf DEF Statuses

-----------------------------------------------------------------------------
LEMMA InitIInv == Init => IInv
<1> SUFFICES ASSUME Init PROVE IInv
  OBVIOUS
<1>1. AllPcs = {"idle", "start", "answered"} \cup UNION {Awaits(k) : k \in Kinds}
  BY DEF AllPcs
<1>2. pc \in [Requests -> AllPcs]
  BY <1>1 DEF Init
<1> QED
  BY <1>1, <1>2 DEF Init, IInv, TypeOK, Carried

(* The types are kept by each action. *)
LEMMA TypeStep == TypeOK /\ Carried /\ [Next]_vars => TypeOK'
<1> SUFFICES ASSUME TypeOK, Carried, [Next]_vars PROVE TypeOK'
  OBVIOUS
<1> USE DEF AllPcs
<1>1. CASE UNCHANGED vars
  BY <1>1 DEF vars, TypeOK
<1>2. ASSUME NEW r \in Requests,
             \/ Call(r) \/ Enter(r)
             \/ StoreStep(r) \/ InfoFinds(r) \/ DeleteExecutes(r) \/ ChatStep(r)
             \/ Acknowledged(r) \/ Fails(r) \/ LateSettles(r) \/ Finish(r)
      PROVE  TypeOK'
  <2> DEFINE Common == {"idle", "start", "answered"}
  <2>0. /\ pc[r] \in Common \cup Awaits(r.kind)
        /\ rows[r.user] \in Ciphertexts \cup {None}
        /\ held[r] \in Ciphertexts \cup {None}
        /\ Ciphertext(r.key) \in Ciphertexts
    BY AwaitsOfKind, KeysDistinct DEF TypeOK
  <2>1. \E p \in Common \cup Awaits(r.kind) : Goto(r, p)
    <3>1. CASE Call(r)
      BY <3>1 DEF Call
    <3>2. CASE Enter(r)
      BY <3>2, AwaitsOfKind DEF Enter, FirstAwait, Kinds
    <3>3. CASE StoreStep(r)
      BY <3>3, <2>0, AwaitsOfKind
         DEF StoreStep, Validated, StoreFinds, Encrypted, InsertExecutes, Insert, Respond, Kinds
    <3>4. CASE InfoFinds(r) \/ DeleteExecutes(r)
      BY <3>4, <2>0, AwaitsOfKind DEF InfoFinds, DeleteExecutes, Respond, Kinds
    <3>5. CASE ChatStep(r)
      BY <3>5, <2>0, AwaitsOfKind DEF ChatStep, ChatChecks, ChatFinds, Decrypted, Respond, Kinds
    <3>6. CASE Acknowledged(r) \/ LateSettles(r) \/ Finish(r)
      BY <3>6 DEF Acknowledged, LateSettles, Finish
    <3>7. CASE Fails(r)
      BY <3>7, <2>0, AwaitsOfKind DEF Fails, Kinds
    <3> QED
      BY <1>2, <3>1, <3>2, <3>3, <3>4, <3>5, <3>6, <3>7
  <2>2. /\ pc' \in [Requests -> AllPcs]
        /\ \A q \in Requests : pc'[q] \in Common \cup Awaits(q.kind)
    BY <2>1, PcMoves
  <2>3. rows' \in [Users -> Ciphertexts \cup {None}]
    <3>1. \/ UNCHANGED rows
          \/ rows' = [rows EXCEPT ![r.user] = None]
          \/ rows' = [rows EXCEPT ![r.user] = held[r]]
      BY <1>2 DEF Call, Enter, StoreStep, Validated, StoreFinds, Encrypted, InsertExecutes,
                  Insert, InfoFinds, DeleteExecutes, ChatStep, ChatChecks, ChatFinds,
                  Decrypted, Acknowledged, Fails, LateSettles, Finish
    <3> QED
      BY <3>1, <2>0 DEF TypeOK
  <2>4. held' \in [Requests -> Ciphertexts \cup {None}]
    <3>1. \/ UNCHANGED held
          \/ \E c \in Ciphertexts \cup {None} : Hold(r, c)
      BY <1>2, <2>0 DEF Call, Enter, StoreStep, Validated, StoreFinds, Encrypted, InsertExecutes,
                  Insert, InfoFinds, DeleteExecutes, ChatStep, ChatChecks, ChatFinds,
                  Decrypted, Acknowledged, Fails, LateSettles, Finish
    <3> QED
      BY <3>1 DEF Hold, TypeOK
  <2>5. answer' \in [Requests -> Keys \cup Statuses \cup {None}]
    <3>1. \/ UNCHANGED answer
          \/ \E a \in Keys \cup Statuses \cup {None} : Set(r, a)
      <4>1. CASE Fails(r)
        BY <4>1, RefusalsFail DEF Fails
      <4>2. CASE Decrypted(r)
        BY <4>2, CiphertextOpens DEF Decrypted, Respond, Carried
      <4>3. CASE StoreStep(r) \/ InfoFinds(r) \/ DeleteExecutes(r) \/ ChatChecks(r) \/ ChatFinds(r)
        BY <4>3 DEF StoreStep, Validated, StoreFinds, Encrypted, InsertExecutes, Insert,
                    InfoFinds, DeleteExecutes, ChatChecks, ChatFinds, Respond, Statuses
      <4>4. CASE Call(r) \/ Enter(r) \/ Acknowledged(r) \/ LateSettles(r) \/ Finish(r)
        BY <4>4 DEF Call, Enter, Acknowledged, LateSettles, Finish
      <4> QED
        BY <1>2, <4>1, <4>2, <4>3, <4>4 DEF ChatStep
    <3> QED
      BY <3>1 DEF Set, TypeOK
  <2> QED
    BY <2>2, <2>3, <2>4, <2>5 DEF TypeOK
<1> QED
  BY <1>1, <1>2 DEF Next


(* Each action leaves the other requests alone and gives r what it carries. *)
LEMMA CarriedStep == IInv /\ TypeOK' /\ [Next]_vars => Carried'
<1> SUFFICES ASSUME IInv, TypeOK', [Next]_vars PROVE Carried'
  OBVIOUS
<1> USE DEF IInv
<1> DEFINE Good(q, p, h, a) ==
        /\ p \in {"insert", "inserted"} => h = Ciphertext(q.key)
        /\ p = "late" /\ q.kind = "store" => h = Ciphertext(q.key)
        /\ p = "late" => Meaning(a) = "failed"
        /\ p = "decrypt" => h \in Ciphertexts
        /\ p = "inserted" => a = "201"
        /\ p = "deleted" => a \in {"204", "404"}
<1>1. CASE UNCHANGED vars
  BY <1>1 DEF vars, Carried
<1>2. ASSUME NEW r \in Requests,
             \/ Call(r) \/ Enter(r)
             \/ StoreStep(r) \/ InfoFinds(r) \/ DeleteExecutes(r) \/ ChatStep(r)
             \/ Acknowledged(r) \/ Fails(r) \/ LateSettles(r) \/ Finish(r)
      PROVE  Carried'
  <2>1. \A q \in Requests \ {r} : pc'[q] = pc[q] /\ held'[q] = held[q] /\ answer'[q] = answer[q]
    BY <1>2 DEF TypeOK, Call, Enter, StoreStep, Validated, StoreFinds, Encrypted, InsertExecutes,
                Insert, InfoFinds, DeleteExecutes, ChatStep, ChatChecks, ChatFinds, Decrypted,
                Acknowledged, Fails, LateSettles, Finish, Goto, Set, Hold, Respond
  <2>2. Good(r, pc[r], held[r], answer[r])
    BY DEF Carried
  <2>3. Good(r, pc'[r], held'[r], answer'[r])
    <3>1. CASE Call(r) \/ Acknowledged(r) \/ LateSettles(r) \/ Finish(r)
      BY <3>1 DEF Call, Acknowledged, LateSettles, Finish, Goto, TypeOK
    <3>2. CASE Enter(r)
      BY <3>2, AwaitsOfKind DEF Enter, FirstAwait, Kinds, Goto, TypeOK
    <3>3. CASE StoreStep(r)
      BY <3>3, <2>2, AwaitsOfKind DEF StoreStep, Validated, StoreFinds, Encrypted, InsertExecutes,
                Insert, Goto, Set, Hold, Respond, TypeOK
    <3>4. CASE InfoFinds(r) \/ DeleteExecutes(r)
      BY <3>4 DEF InfoFinds, DeleteExecutes, Goto, Set, Respond, TypeOK
    <3>5. CASE ChatStep(r)
      BY <3>5 DEF ChatStep, ChatChecks, ChatFinds, Decrypted, Goto, Hold, Respond, TypeOK
    <3>6. CASE Fails(r)
      <4>1. Meaning(answer'[r]) = "failed"
        BY <3>6, RefusalsFail DEF Fails, Set, TypeOK
      <4>2. pc'[r] = "answered" \/ (pc'[r] = "late" /\ pc[r] \in {"insert", "delete"})
        BY <3>6 DEF Fails, Goto, TypeOK
      <4>3. held'[r] = held[r]
        BY <3>6 DEF Fails
      <4>4. r.kind = "store" => pc[r] # "delete"
        BY AwaitsOfKind DEF TypeOK
      <4> QED
        BY <4>1, <4>2, <4>3, <4>4, <2>2
    <3> QED
      BY <1>2, <3>1, <3>2, <3>3, <3>4, <3>5, <3>6
  <2> QED
    BY <2>1, <2>3 DEF Carried
<1> QED
  BY <1>1, <1>2 DEF Next

THEOREM TypeAndCarried == Spec => []IInv
<1>1. Init => IInv
  BY InitIInv
<1>2. IInv /\ [Next]_vars => IInv'
  BY TypeStep, CarriedStep DEF IInv
<1> QED
  BY <1>1, <1>2, PTL DEF Spec

(* TypeOK: every request only ever waits for what its handler awaits, and the
   table holds ciphertexts only (UserAIKeyService.ts:35-129). *)
THEOREM TypeCorrect == Spec => []TypeOK
<1>1. IInv => TypeOK
  BY DEF IInv
<1> QED
  BY <1>1, TypeAndCarried, PTL

-----------------------------------------------------------------------------
(* The refinement, first what a step of one request is above. *)
LEMMA OneRequestMoves ==
    ASSUME NEW r \in Requests, IInv, IInv',
           \A q \in Requests \ {r} : pc'[q] = pc[q] /\ held'[q] = held[q] /\ answer'[q] = answer[q]
    PROVE  /\ requestPhase' = [requestPhase EXCEPT ![r] = Phase(pc'[r])]
           /\ requestResult' = [requestResult EXCEPT ![r] =
                                   IF pc'[r] = "decrypt" THEN Plaintext(held'[r])
                                   ELSE Meaning(answer'[r])]
<1>1. \A q \in Requests \ {r} : Phase(pc'[q]) = Phase(pc[q])
  OBVIOUS
<1>2. \A q \in Requests \ {r} :
         (IF pc'[q] = "decrypt" THEN Plaintext(held'[q]) ELSE Meaning(answer'[q]))
       = (IF pc[q] = "decrypt" THEN Plaintext(held[q]) ELSE Meaning(answer[q]))
  OBVIOUS
<1> QED
  BY <1>1, <1>2 DEF requestPhase, requestResult

LEMMA OneRowChanges ==
    ASSUME NEW u \in Users, NEW c \in Ciphertexts \cup {None}, TypeOK,
           rows' = [rows EXCEPT ![u] = c]
    PROVE  storedKeys' = [storedKeys EXCEPT ![u] = IF c = None THEN None ELSE Plaintext(c)]
BY DEF TypeOK, storedKeys

LEMMA RowsSeen ==
    ASSUME NEW u \in Users, TypeOK
    PROVE  /\ rows[u] = None <=> storedKeys[u] = None
           /\ rows[u] # None => storedKeys[u] = Plaintext(rows[u])
           /\ rows[u] # None => rows[u] \in Ciphertexts /\ Plaintext(rows[u]) \in Keys
BY CiphertextOpens DEF TypeOK, storedKeys

LEMMA RowsSame == rows' = rows => storedKeys' = storedKeys
BY DEF storedKeys


LEMMA OneStep ==
    ASSUME NEW r \in Requests,
           \/ Call(r) \/ Enter(r)
           \/ StoreStep(r) \/ InfoFinds(r) \/ DeleteExecutes(r) \/ ChatStep(r)
           \/ Acknowledged(r) \/ Fails(r) \/ LateSettles(r) \/ Finish(r),
           IInv, IInv'
    PROVE  Store!Next \/ UNCHANGED Store!storeVars
<1> DEFINE Result(p, h, a) == IF p = "decrypt" THEN Plaintext(h) ELSE Meaning(a)
<1> USE DEF IInv
<1>0. /\ r.kind \in Kinds /\ r.user \in Users /\ r.key \in Keys
      /\ pc[r] \in {"idle", "start", "answered"} \cup Awaits(r.kind)
      /\ r.kind = "store" => Awaits(r.kind) = {"validate", "find", "encrypt", "insert", "inserted", "late"}
      /\ r.kind = "info" => Awaits(r.kind) = {"find"}
      /\ r.kind = "delete" => Awaits(r.kind) = {"delete", "deleted", "late"}
      /\ r.kind = "chat" => Awaits(r.kind) = {"exists", "find", "decrypt"}
  BY AwaitsOfKind DEF TypeOK
<1>1. /\ requestPhase' = [requestPhase EXCEPT ![r] = Phase(pc'[r])]
      /\ requestResult' = [requestResult EXCEPT ![r] = Result(pc'[r], held'[r], answer'[r])]
  <2>1. \A q \in Requests \ {r} : pc'[q] = pc[q] /\ held'[q] = held[q] /\ answer'[q] = answer[q]
    BY DEF TypeOK, Call, Enter, StoreStep, Validated, StoreFinds, Encrypted, InsertExecutes,
           Insert, InfoFinds, DeleteExecutes, ChatStep, ChatChecks, ChatFinds, Decrypted,
           Acknowledged, Fails, LateSettles, Finish, Goto, Set, Hold, Respond
  <2> QED
    BY <2>1, OneRequestMoves
<1>2. /\ requestPhase[r] = Phase(pc[r])
      /\ requestResult[r] = Result(pc[r], held[r], answer[r])
      /\ Phase(pc'[r]) = Phase(pc[r]) => requestPhase' = requestPhase
      /\ Result(pc'[r], held'[r], answer'[r]) = requestResult[r] => requestResult' = requestResult
  BY <1>1 DEF requestPhase, requestResult
<1>3. /\ \A p \in {"start", "validate", "find", "encrypt", "insert", "delete", "exists"} :
            Phase(p) = "called"
      /\ \A p \in {"inserted", "deleted", "decrypt"} : Phase(p) = "decided"
      /\ \A p \in {"idle", "answered", "late"} : Phase(p) = p
  BY DEF Phase
<1>4. /\ storedKeys[r.user] = None <=> rows[r.user] = None
      /\ rows[r.user] # None => /\ storedKeys[r.user] = Plaintext(rows[r.user])
                                /\ rows[r.user] \in Ciphertexts
                                /\ Plaintext(rows[r.user]) \in Keys
  BY <1>0, RowsSeen
<1>5. rows' = rows => storedKeys' = storedKeys
  BY RowsSame
<1> USE DEF Store!Next, Store!Become
(* Steps nobody outside can see. *)
<1>6. ASSUME pc[r] # "decrypt", pc'[r] # "decrypt", answer'[r] = answer[r], rows' = rows,
             Phase(pc'[r]) = Phase(pc[r])
      PROVE  UNCHANGED Store!storeVars
  BY <1>6, <1>2, <1>5 DEF Store!storeVars
<1>7. ASSUME Phase(pc[r]) = "called", Phase(pc'[r]) \in {"decided", "answered"},
             NEW outcome \in {"ok", "present", "absent"} \cup Keys,
             Result(pc'[r], held'[r], answer'[r]) = outcome,
             Store!Effect(r, outcome)
      PROVE  Store!Next
  <2>1. Store!TakeEffect(r)
    BY <1>7, <1>1, <1>2 DEF Store!TakeEffect
  <2> QED
    BY <2>1
<1>8. CASE Call(r)
  <2>1. Store!Call(r)
    BY <1>8, <1>1, <1>2, <1>3, <1>5 DEF Call, Goto, TypeOK, Store!Call
  <2> QED
    BY <2>1
<1>9. CASE Enter(r)
  BY <1>9, <1>6, <1>3, <1>0 DEF Enter, FirstAwait, Goto, Kinds, TypeOK
<1>10. CASE Validated(r) \/ Encrypted(r)
  BY <1>10, <1>6, <1>3 DEF Validated, Encrypted, Goto, TypeOK
<1>11. CASE StoreFinds(r)
  <2>1. CASE rows[r.user] = None
    BY <2>1, <1>11, <1>6, <1>3 DEF StoreFinds, Goto, TypeOK
  <2>2. CASE rows[r.user] # None
    <3>1. pc'[r] = "answered" /\ answer'[r] = "409" /\ rows' = rows /\ pc[r] = "find"
      BY <2>2, <1>11 DEF StoreFinds, Goto, Set, Respond, TypeOK
    <3>2. Store!Effect(r, "present")
      BY <2>2, <3>1, <1>11, <1>4, <1>5 DEF StoreFinds, Store!Effect, Store!Has
    <3> QED
      BY <3>1, <3>2, <1>7, <1>3, MeaningOf
  <2> QED
    BY <2>1, <2>2
<1>12. CASE InsertExecutes(r)
  <2>0. r.kind = "store" /\ held[r] = Ciphertext(r.key) /\ pc[r] = "insert"
    BY <1>12, <1>0 DEF InsertExecutes, Carried, Kinds
  <2>1. CASE rows[r.user] = None
    <3>1. pc'[r] = "inserted" /\ answer'[r] = "201" /\ rows' = [rows EXCEPT ![r.user] = held[r]]
      BY <2>1, <1>12 DEF InsertExecutes, Insert, Goto, Set, TypeOK
    <3>2. storedKeys' = [storedKeys EXCEPT ![r.user] = r.key]
      BY <3>1, <2>0, <1>0, OneRowChanges, KeysDistinct
    <3>3. Store!Effect(r, "ok")
      BY <2>1, <3>2, <2>0, <1>4 DEF Store!Effect, Store!Has
    <3> QED
      BY <3>1, <3>3, <2>0, <1>7, <1>3, MeaningOf
  <2>2. CASE rows[r.user] # None
    <3>1. pc'[r] = "answered" /\ answer'[r] = "503" /\ rows' = rows
      BY <2>2, <1>12 DEF InsertExecutes, Insert, Goto, Set, Respond, TypeOK
    <3>2. Store!Fail(r)
      BY <3>1, <2>0, <1>1, <1>2, <1>3, <1>5, MeaningOf DEF Store!Fail
    <3> QED
      BY <3>2
  <2> QED
    BY <2>1, <2>2
<1>13. CASE InfoFinds(r)
  <2>1. /\ r.kind = "info" /\ pc[r] = "find" /\ pc'[r] = "answered" /\ rows' = rows
        /\ answer'[r] = IF rows[r.user] = None THEN "404" ELSE "200"
    BY <1>13 DEF InfoFinds, Goto, Set, Respond, TypeOK
  <2>2. Store!Effect(r, IF rows[r.user] = None THEN "absent" ELSE "ok")
    BY <2>1, <1>4, <1>5 DEF Store!Effect, Store!Has
  <2> QED
    BY <2>1, <2>2, <1>7, <1>3, MeaningOf
<1>14. CASE DeleteExecutes(r)
  <2>1. /\ r.kind = "delete" /\ pc[r] = "delete" /\ pc'[r] = "deleted"
        /\ rows' = [rows EXCEPT ![r.user] = None]
        /\ answer'[r] = IF rows[r.user] = None THEN "404" ELSE "204"
    BY <1>14, <1>0 DEF DeleteExecutes, Goto, Set, TypeOK, Kinds
  <2>2. storedKeys' = [storedKeys EXCEPT ![r.user] = None]
    BY <2>1, <1>0, OneRowChanges
  <2>3. rows[r.user] = None => storedKeys' = storedKeys
    BY <2>2, <1>4, <1>0 DEF storedKeys
  <2>4. Store!Effect(r, IF rows[r.user] = None THEN "absent" ELSE "ok")
    BY <2>1, <2>2, <2>3, <1>4 DEF Store!Effect, Store!Has
  <2> QED
    BY <2>1, <2>4, <1>7, <1>3, MeaningOf
<1>15. CASE ChatChecks(r)
  <2>0. r.kind = "chat" /\ pc[r] = "exists" /\ rows' = rows
    BY <1>15, <1>0 DEF ChatChecks, Kinds
  <2>1. CASE rows[r.user] = None
    <3>1. pc'[r] = "answered" /\ answer'[r] = "401"
      BY <2>1, <1>15 DEF ChatChecks, Goto, Set, Respond, TypeOK
    <3>2. Store!Fail(r)
      BY <3>1, <2>0, <1>1, <1>2, <1>3, <1>5, MeaningOf DEF Store!Fail
    <3> QED
      BY <3>2
  <2>2. CASE rows[r.user] # None
    BY <2>2, <2>0, <1>15, <1>6, <1>3 DEF ChatChecks, Goto, TypeOK
  <2> QED
    BY <2>1, <2>2
<1>16. CASE ChatFinds(r)
  <2>0. r.kind = "chat" /\ pc[r] = "find" /\ rows' = rows
    BY <1>16 DEF ChatFinds
  <2>1. CASE rows[r.user] = None
    <3>1. pc'[r] = "answered" /\ answer'[r] = "401"
      BY <2>1, <1>16 DEF ChatFinds, Goto, Set, Respond, TypeOK
    <3>2. Store!Fail(r)
      BY <3>1, <2>0, <1>1, <1>2, <1>3, <1>5, MeaningOf DEF Store!Fail
    <3> QED
      BY <3>2
  <2>2. CASE rows[r.user] # None
    <3>1. pc'[r] = "decrypt" /\ held'[r] = rows[r.user]
      BY <2>2, <1>16 DEF ChatFinds, Goto, Hold, TypeOK
    <3>2. Store!Effect(r, Plaintext(rows[r.user]))
      BY <2>2, <2>0, <1>4, <1>5 DEF Store!Effect, Store!Has
    <3> QED
      BY <2>2, <3>1, <3>2, <2>0, <1>4, <1>7, <1>3
  <2> QED
    BY <2>1, <2>2
<1>17. CASE Decrypted(r)
  <2>1. /\ pc[r] = "decrypt" /\ pc'[r] = "answered" /\ rows' = rows
        /\ answer'[r] = Plaintext(held[r])
        /\ Plaintext(held[r]) \in Keys
    BY <1>17, CiphertextOpens DEF Decrypted, Goto, Set, Respond, TypeOK, Carried
  <2>2. requestResult' = requestResult
    BY <2>1, <1>2, MeaningOf
  <2>3. Store!Answer(r)
    BY <2>1, <2>2, <1>1, <1>2, <1>3, <1>5 DEF Store!Answer
  <2> QED
    BY <2>3
<1>18. CASE Acknowledged(r)
  <2>1. /\ pc[r] \in {"inserted", "deleted"} /\ pc'[r] = "answered" /\ rows' = rows
        /\ answer'[r] = answer[r]
    BY <1>18 DEF Acknowledged, Goto, TypeOK
  <2>2. requestResult' = requestResult
    BY <2>1, <1>2
  <2>3. Store!Answer(r)
    BY <2>1, <2>2, <1>1, <1>2, <1>3, <1>5 DEF Store!Answer
  <2> QED
    BY <2>3
<1>19. CASE Fails(r)
  <2>1. rows' = rows /\ Meaning(answer'[r]) = "failed"
    BY <1>19, RefusalsFail DEF Fails, Set, TypeOK
  <2>2. \/ pc'[r] = "answered"
        \/ pc'[r] = "late" /\ pc[r] \in {"insert", "delete"}
    BY <1>19 DEF Fails, Goto, TypeOK
  <2>3. Phase(pc[r]) \in {"called", "decided"}
    BY <1>19, <1>0, <1>3 DEF Fails, Kinds
  <2>4. Store!Fail(r)
    BY <2>1, <2>2, <2>3, <1>1, <1>2, <1>3, <1>5 DEF Store!Fail
  <2> QED
    BY <2>4
<1>20. CASE LateSettles(r)
  <2>0. /\ pc[r] = "late" /\ pc'[r] = "answered"
        /\ answer'[r] = answer[r]
    BY <1>20 DEF LateSettles, Goto, TypeOK
  <2>1. requestResult' = requestResult
    BY <2>0, <1>2
  <2>2. \/ storedKeys' = storedKeys
        \/ Store!Effect(r, "ok")
        \/ Store!Effect(r, "absent")
    <3>1. CASE rows' = rows
      BY <3>1, <1>5
    <3>2. CASE r.kind = "store" /\ rows[r.user] = None /\ rows' = [rows EXCEPT ![r.user] = held[r]]
      <4>1. held[r] = Ciphertext(r.key)
        BY <3>2, <2>0 DEF Carried
      <4>2. storedKeys' = [storedKeys EXCEPT ![r.user] = r.key]
        BY <3>2, <4>1, <1>0, OneRowChanges, KeysDistinct
      <4> QED
        BY <3>2, <4>2, <1>4 DEF Store!Effect, Store!Has
    <3>3. CASE r.kind = "delete" /\ rows' = [rows EXCEPT ![r.user] = None]
      <4>1. storedKeys' = [storedKeys EXCEPT ![r.user] = None]
        BY <3>3, <1>0, OneRowChanges
      <4>2. rows[r.user] = None => storedKeys' = storedKeys
        BY <4>1, <1>4, <1>0 DEF storedKeys
      <4> QED
        BY <3>3, <4>1, <4>2, <1>4 DEF Store!Effect, Store!Has
    <3> QED
      BY <1>20, <3>1, <3>2, <3>3 DEF LateSettles
  <2>3. Store!SettleLate(r)
    BY <2>0, <2>1, <2>2, <1>1, <1>2, <1>3 DEF Store!SettleLate
  <2> QED
    BY <2>3
<1>21. CASE Finish(r)
  <2>1. /\ pc[r] = "answered" /\ pc'[r] = "idle" /\ rows' = rows /\ answer'[r] = None
    BY <1>21 DEF Finish, Goto, Set, TypeOK
  <2>2. Store!Finish(r)
    BY <2>1, <1>1, <1>2, <1>3, <1>5, MeaningOf DEF Store!Finish
  <2> QED
    BY <2>2
<1> QED
  BY <1>8, <1>9, <1>10, <1>11, <1>12, <1>13, <1>14, <1>15, <1>16, <1>17, <1>18, <1>19, <1>20, <1>21
     DEF StoreStep, ChatStep

LEMMA InitStore == Init => Store!Init
<1> SUFFICES ASSUME Init PROVE Store!Init
  OBVIOUS
<1>1. storedKeys \in [Users -> Keys \cup {None}]
  BY CiphertextOpens DEF Init, storedKeys
<1>2. requestPhase = [r \in Requests |-> "idle"]
  BY DEF Init, requestPhase, Phase
<1>3. requestResult = [r \in Requests |-> None]
  BY MeaningOf DEF Init, requestResult
<1> QED
  BY <1>1, <1>2, <1>3 DEF Store!Init

(* RoutesAreAKeyStore: the interleaved handlers, with all their failures,
   implement the atomic store of KeyStore, for any number of users and
   requests (UserAIKeyService.ts:35-129). *)
THEOREM KeyStoreImplemented == Spec => RoutesAreAKeyStore
<1>1. Init => Store!Init
  BY InitStore
<1>2. IInv /\ IInv' /\ [Next]_vars => [Store!Next]_Store!storeVars
  <2> SUFFICES ASSUME IInv, IInv', [Next]_vars
               PROVE  Store!Next \/ UNCHANGED Store!storeVars
    OBVIOUS
  <2>1. CASE UNCHANGED vars
    BY <2>1 DEF vars, Store!storeVars, storedKeys, requestPhase, requestResult
  <2>2. CASE Next
    BY <2>2, OneStep DEF Next
  <2> QED
    BY <2>1, <2>2
<1> QED
  BY <1>1, <1>2, TypeAndCarried, PTL DEF Spec, RoutesAreAKeyStore, Store!Spec
=============================================================================
