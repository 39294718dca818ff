--------------------------- MODULE StorageContract ---------------------------
(***************************************************************************)
(* What the Storage trait promises its callers: a call takes effect in one *)
(* step between its invocation and its answer, or it fails, and a failure  *)
(* may or may not have left the effect.                                    *)
(***************************************************************************)
EXTENDS StorageRows

CONSTANTS Clients       \* handlers that may be inside a storage call

VARIABLES
    db,             \* the rows of each table
    pc,             \* of each client: "idle", "asked" or "done"
    call,           \* what it asked for
    reply           \* the answer it gets when the call ends

vars == <<db, pc, call, reply>>

Init ==
    /\ db = [t \in Tables |-> {}]
    /\ pc = [c \in Clients |-> "idle"]
    /\ call = [c \in Clients |-> None]
    /\ reply = [c \in Clients |-> NoReply]

Ask(c) ==
    /\ pc[c] = "idle"
    /\ \E m \in Methods : \E q \in Requests(m) : call' = [call EXCEPT ![c] = q]
    /\ pc' = [pc EXCEPT ![c] = "asked"]
    /\ UNCHANGED <<db, reply>>

Found(c) == {r \in db[TableOf(call[c].method)] : Wanted(call[c], r)}

\* The effect of the call of c is that its table becomes `rows`.
Takes(c, rows, answer) ==
    /\ pc[c] = "asked"
    /\ pc' = [pc EXCEPT ![c] = "done"]
    /\ db' = [db EXCEPT ![TableOf(call[c].method)] = rows]
    /\ reply' = [reply EXCEPT ![c] = answer]
    /\ UNCHANGED call

Taken(c) == db[TableOf(call[c].method)]

\* A new row is added and changes no other row; a user is refused, with a
\* conflict, exactly when the organization has a user of that email.
Create(c) ==
    LET q == call[c]
        SameName == {r \in Taken(c) : r.name = q.name /\ r.owner = q.owner}
    IN  /\ q.method \in Creates
        /\ IF q.method = "create_user" /\ SameName # {}
           THEN Takes(c, Taken(c), Refused("conflict"))
           ELSE Takes(c, Taken(c) \cup {NewRow(q)}, Ok({NewRow(q)}))

\* Only a key whose prefix another key has may be refused, and need not be.
RefusePrefix(c) ==
    /\ call[c].method = "create_api_key"
    /\ \E r \in Taken(c) : r.name = call[c].name
    /\ Takes(c, Taken(c), Refused("storage"))

Find(c) ==
    /\ call[c].method \in Finds
    /\ \/ \E r \in Found(c) : Takes(c, Taken(c), Ok({r}))
       \/ Found(c) = {} /\ Takes(c, Taken(c), Refused("not_found"))

List(c) ==
    /\ call[c].method \in Lists
    /\ Takes(c, Taken(c), Ok(Found(c)))

Revoke(c) ==
    LET revoked == {[r EXCEPT !.revoked = TRUE] : r \in Found(c)}
    IN  /\ call[c].method \in Revokes
        /\ Takes(c, (Taken(c) \ Found(c)) \cup revoked,
                 IF Found(c) = {} THEN Refused("not_found") ELSE Ok(revoked))

Touch(c) ==
    LET touched == {[r EXCEPT !.used = TRUE] : r \in Found(c)}
    IN  /\ call[c].method = "touch_api_key_last_used"
        /\ Takes(c, (Taken(c) \ Found(c)) \cup touched, Ok({}))

Delete(c) ==
    /\ call[c].method = "delete_activation"
    /\ Takes(c, Taken(c) \ Found(c), Ok({}))

\* The row a revoke answers with may be read after the revocation.
Reread(c) ==
    /\ pc[c] = "done"
    /\ call[c].method \in Revokes
    /\ Found(c) # {}
    /\ reply' = [reply EXCEPT ![c] = Ok(Found(c))]
    /\ UNCHANGED <<db, pc, call>>

\* The call ends, with the answer it has; before that it may fail instead.
End(c) ==
    /\ pc[c] # "idle"
    /\ pc' = [pc EXCEPT ![c] = "idle"]
    /\ call' = [call EXCEPT ![c] = None]
    /\ reply' = [reply EXCEPT ![c] = NoReply]
    /\ UNCHANGED db

Next ==
    \E c \in Clients :
        \/ Ask(c) \/ Reread(c) \/ End(c)
        \/ /\ pc[c] = "asked"
           /\ \/ Create(c) \/ RefusePrefix(c) \/ Find(c) \/ List(c)
              \/ Revoke(c) \/ Touch(c) \/ Delete(c)

Spec == Init /\ [][Next]_vars
=============================================================================
