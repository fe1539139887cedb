----------------------------- MODULE UserAIKey ------------------------------
(***************************************************************************)
(* The users' own OpenAI keys: the routes of UserAIKeyControllerImpl, the  *)
(* service and repository behind them, and the look-up of a chat with      *)
(* useCustomKey.  Requests interleave at every await; replicas share the   *)
(* table, so it makes no difference which of them serves a request.        *)
(*                                                                         *)
(* A statement and its answer are two steps where the statement writes:    *)
(* when the connection breaks in between, the caller gets an error although*)
(* the statement was, or still will be, executed.  The table's definition  *)
(* is not in the repository: user_id is taken to be its primary key.       *)
(***************************************************************************)
CONSTANTS
    Users,
    Keys,       \* plain text keys
    None,       \* no row, or nothing read
    Requests    \* the requests that can be in flight: [kind, user, key, i]

Kinds == {"store", "info", "delete", "chat"}
Ciphertext(k) == <<"encrypted", k>>
Ciphertexts == {Ciphertext(k) : k \in Keys}
Plaintext(c) == c[2]

Statuses == {"200", "201", "204", "400", "401", "403", "404", "409", "502",
             "503", "lost"}

ASSUME RequestsAssumption ==
    \A r \in Requests : r.kind \in Kinds /\ r.user \in Users /\ r.key \in Keys
ASSUME NoneAssumption ==
    /\ None \notin Keys \cup Ciphertexts \cup Statuses
    /\ Keys \cap Statuses = {}

VARIABLES
    rows,       \* user_ai_key: the encrypted_api_key of each user
    pc,         \* what each request waits for
    held,       \* the ciphertext it carries
    answer      \* the status it answers, for a chat the key it uses

vars == <<rows, pc, held, answer>>

-----------------------------------------------------------------------------
Init ==
    /\ rows \in [Users -> Ciphertexts \cup {None}]
    /\ pc = [r \in Requests |-> "idle"]
    /\ held = [r \in Requests |-> None]
    /\ answer = [r \in Requests |-> None]

Goto(r, p) == pc' = [pc EXCEPT ![r] = p]
Set(r, a) == answer' = [answer EXCEPT ![r] = a]
Respond(r, a) == Goto(r, "answered") /\ Set(r, a)
Hold(r, c) == held' = [held EXCEPT ![r] = c]

(* The handler is entered. *)
Call(r) ==
    /\ pc[r] = "idle"
    /\ Goto(r, "start")
    /\ UNCHANGED <<rows, held, answer>>

(* The first await of each handler, once the header and body are accepted. *)
FirstAwait == [store |-> "validate", info |-> "find", delete |-> "delete",
               chat |-> "exists"]
Enter(r) ==
    /\ pc[r] = "start"
    /\ Goto(r, FirstAwait[r.kind])
    /\ UNCHANGED <<rows, held, answer>>

(* OpenAI lists its models for the key. *)
Validated(r) ==
    /\ pc[r] = "validate"
    /\ Goto(r, "find")
    /\ UNCHANGED <<rows, held, answer>>

(* findByUserId: another store may insert between this and its own INSERT. *)
StoreFinds(r) ==
    /\ r.kind = "store" /\ pc[r] = "find"
    /\ IF rows[r.user] = None
       THEN Goto(r, "encrypt") /\ UNCHANGED answer
       ELSE Respond(r, "409")
    /\ UNCHANGED <<rows, held>>

(* Mutant: the plain text goes into the record. *)
Encrypted_Plain(r) ==
    /\ pc[r] = "encrypt"
    /\ Goto(r, "insert")
    /\ Hold(r, r.key)
    /\ UNCHANGED <<rows, answer>>

Encrypted(r) ==
    /\ pc[r] = "encrypt"
    /\ Goto(r, "insert")
    /\ Hold(r, Ciphertext(r.key))
    /\ UNCHANGED <<rows, answer>>

(* Mutant: ON CONFLICT (user_id) DO UPDATE. *)
Insert_Upsert(r) ==
    /\ rows' = [rows EXCEPT ![r.user] = held[r]]
    /\ Goto(r, "inserted") /\ Set(r, "201")

(* A second row of the user is refused by the table: a database error. *)
Insert(r) ==
    IF rows[r.user] = None
    THEN /\ rows' = [rows EXCEPT ![r.user] = held[r]]
         /\ Goto(r, "inserted") /\ Set(r, "201")
    ELSE UNCHANGED rows /\ Respond(r, "503")

InsertExecutes(r) ==
    /\ pc[r] = "insert"
    /\ Insert(r)
    /\ UNCHANGED held

(* rowCount tells whether there was a row. *)
DeleteExecutes(r) ==
    /\ pc[r] = "delete"
    /\ rows' = [rows EXCEPT ![r.user] = None]
    /\ Goto(r, "deleted")
    /\ Set(r, IF rows[r.user] = None THEN "404" ELSE "204")
    /\ UNCHANGED held

(* The result of a statement that wrote arrives. *)
Acknowledged(r) ==
    /\ pc[r] \in {"inserted", "deleted"}
    /\ Goto(r, "answered")
    /\ UNCHANGED <<rows, held, answer>>

InfoFinds(r) ==
    /\ r.kind = "info" /\ pc[r] = "find"
    /\ Respond(r, IF rows[r.user] = None THEN "404" ELSE "200")
    /\ UNCHANGED <<rows, held>>

(* getCustomApiKey: hasKey, then retrieveKey.  Without a key, whatever the
   reason, streamChat throws CUSTOM_KEY_NOT_FOUND. *)
ChatChecks(r) ==
    /\ pc[r] = "exists"
    /\ IF rows[r.user] = None
       THEN Respond(r, "401")
       ELSE Goto(r, "find") /\ UNCHANGED answer
    /\ UNCHANGED <<rows, held>>

(* Mutant: the query lost its WHERE clause. *)
ChatFinds_Anyone(r) ==
    /\ r.kind = "chat" /\ pc[r] = "find"
    /\ \E u \in Users :
          /\ rows[u] # None
          /\ Hold(r, rows[u])
    /\ Goto(r, "decrypt")
    /\ UNCHANGED <<rows, answer>>

ChatFinds(r) ==
    /\ r.kind = "chat" /\ pc[r] = "find"
    /\ IF rows[r.user] = None
       THEN Respond(r, "401") /\ UNCHANGED held
       ELSE Goto(r, "decrypt") /\ Hold(r, rows[r.user]) /\ UNCHANGED answer
    /\ UNCHANGED rows

Decrypted(r) ==
    /\ pc[r] = "decrypt"
    /\ Respond(r, Plaintext(held[r]))
    /\ UNCHANGED <<rows, held>>

(* What the handler answers when the call it waits for rejects; "start": the
   header or the body is refused, or a chat has no metadata. *)
Refusals(r) ==
    CASE r.kind = "chat"      -> IF pc[r] = "start" THEN {"400"} ELSE {"401"}
      [] pc[r] = "start"      -> IF r.kind = "store" THEN {"403", "400"} ELSE {"403"}
      [] pc[r] = "validate"   -> {"400"}
      [] pc[r] = "encrypt"    -> {"502"}
      [] OTHER                -> {"503"}

(* A call rejects, or the replica stops and the connection of the client is
   lost.  A statement under way may still be executed. *)
Fails(r) ==
    /\ pc[r] \notin {"idle", "answered", "late"}
    /\ \E a \in Refusals(r) \cup {"lost"} : Set(r, a)
    /\ \/ Goto(r, "answered")
       \/ pc[r] \in {"insert", "delete"} /\ Goto(r, "late")
    /\ UNCHANGED <<rows, held>>

(* Such a statement is executed after all, or the server dropped it. *)
LateSettles(r) ==
    /\ pc[r] = "late"
    /\ \/ /\ r.kind = "store" /\ rows[r.user] = None
          /\ rows' = [rows EXCEPT ![r.user] = held[r]]
       \/ /\ r.kind = "delete"
          /\ rows' = [rows EXCEPT ![r.user] = None]
       \/ UNCHANGED rows
    /\ Goto(r, "answered")
    /\ UNCHANGED <<held, answer>>

Finish(r) ==
    /\ pc[r] = "answered"
    /\ Goto(r, "idle") /\ Set(r, None) /\ Hold(r, None)
    /\ UNCHANGED rows

-----------------------------------------------------------------------------
StoreStep(r) ==
    Validated(r) \/ StoreFinds(r) \/ Encrypted(r) \/ InsertExecutes(r)

ChatStep(r) == ChatChecks(r) \/ ChatFinds(r) \/ Decrypted(r)

Next ==
    \E r \in Requests :
        \/ Call(r) \/ Enter(r)
        \/ StoreStep(r) \/ InfoFinds(r) \/ DeleteExecutes(r) \/ ChatStep(r)
        \/ Acknowledged(r) \/ Fails(r) \/ LateSettles(r) \/ Finish(r)

Spec == Init /\ [][Next]_vars

-----------------------------------------------------------------------------
Awaits(k) ==
    CASE k = "store"  -> {"validate", "find", "encrypt", "insert", "inserted", "late"}
      [] k = "info"   -> {"find"}
      [] k = "delete" -> {"delete", "deleted", "late"}
      [] k = "chat"   -> {"exists", "find", "decrypt"}

TypeOK ==
    /\ rows \in [Users -> Ciphertexts \cup {None}]
    /\ pc \in [Requests -> {"idle", "start", "answered"} \cup UNION {Awaits(k) : k \in Kinds}]
    /\ \A r \in Requests : pc[r] \in {"idle", "start", "answered"} \cup Awaits(r.kind)
    /\ held \in [Requests -> Ciphertexts \cup {None}]
    /\ answer \in [Requests -> Keys \cup Statuses \cup {None}]

(* The key the table holds of each user, in plain text. *)
storedKeys == [u \in Users |-> IF rows[u] = None THEN None ELSE Plaintext(rows[u])]

Phase(p) ==
    CASE p = "idle"                               -> "idle"
      [] p \in {"inserted", "deleted", "decrypt"} -> "decided"
      [] p = "answered"                           -> "answered"
      [] p = "late"                               -> "late"
      [] OTHER                                    -> "called"
Meaning(a) ==
    CASE a = None                    -> None
      [] a \in {"200", "201", "204"} -> "ok"
      [] a = "409"                   -> "present"
      [] a = "404"                   -> "absent"
      [] a \in Keys                  -> a
      [] OTHER                       -> "failed"

requestPhase == [r \in Requests |-> Phase(pc[r])]
requestResult ==
    [r \in Requests |-> IF pc[r] = "decrypt" THEN Plaintext(held[r])
                        ELSE Meaning(answer[r])]

Store == INSTANCE KeyStore WITH keys <- storedKeys, phase <- requestPhase,
                                result <- requestResult

(* However requests interleave between findByUserId and INSERT, hasKey and
   retrieveKey, and wherever a connection breaks, the routes are a store with
   one key per user in which each request happens at one moment
   (UserAIKeyService.ts:35-129, UserAIKeyRepositoryImpl.ts): 201 and 204 mean
   that this request stored or removed the key, 404 and 409 that there was
   none or one, and a chat runs with the key the user had while it was served. *)
RoutesAreAKeyStore == Store!Spec
=============================================================================
