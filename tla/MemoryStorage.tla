---------------------------- MODULE MemoryStorage ----------------------------
(***************************************************************************)
(* The methods of the in-memory backend (thaumiel-storage, memory.rs).     *)
(* Each takes the lock of all tables and does not wait again until it      *)
(* answers, so it is one step: operators give its outcomes for the request *)
(* q and the rows T of its table, as in module SqlStorage.                 *)
(***************************************************************************)
EXTENDS StorageRows

Answers(T, answer) == {[rows |-> T, answer |-> answer]}

\* HashMap::insert under the row's id.
Insert(T, q) ==
    {[rows |-> {r \in T : r.id # q.id} \cup {NewRow(q)},
      answer |-> Ok({NewRow(q)})]}

\* HashMap::get, or the first match in an order that is not defined.
Get(T, q) ==
    LET hits == {r \in T : Wanted(q, r)}
    IN  IF hits = {} THEN Answers(T, Refused("not_found"))
        ELSE UNION {Answers(T, Ok({r})) : r \in hits}

Filter(T, q) == Answers(T, Ok({r \in T : Wanted(q, r)}))

\* HashMap::get_mut, then the change, then a clone of the row: new[r] is what
\* becomes of row r.
Modify(T, q, new) ==
    LET hits == {r \in T : Wanted(q, r)}
        changed == {new[r] : r \in hits}
    IN  IF hits = {} THEN Answers(T, Refused("not_found"))
        ELSE {[rows |-> (T \ hits) \cup changed, answer |-> Ok(changed)]}

-----------------------------------------------------------------------------

CreateOrganization(T, q) == Insert(T, q)

GetOrganization(T, q) == Get(T, q)

CreateProduct(T, q) == Insert(T, q)

GetProduct(T, q) == Get(T, q)

CreateLicense(T, q) == Insert(T, q)

GetLicense(T, q) == Get(T, q)

GetLicenseByKey(T, q) == Get(T, q)

SetLicenseStatus(T, q) ==
    Modify(T, q, [r \in T |-> [r EXCEPT !.revoked = TRUE]])

CreateActivation(T, q) == Insert(T, q)

CountActivations(T, q) == Filter(T, q)

ListActivations(T, q) == Filter(T, q)

\* Removed only if it is an activation of the license named.
DeleteActivation(T, q) == Answers({r \in T : ~Wanted(q, r)}, Ok({}))

CreateApiKey(T, q) == Insert(T, q)

GetApiKeyByPrefix(T, q) == Get(T, q)

RevokeApiKey(T, q) ==
    Modify(T, q, [r \in T |-> [r EXCEPT !.revoked = TRUE]])

\* Not an error for a key that does not exist.
TouchApiKeyLastUsed(T, q) ==
    LET touched == {IF Wanted(q, r) THEN [r EXCEPT !.used = TRUE] ELSE r : r \in T}
    IN  Answers(touched, Ok({}))

CreateUser(T, q) ==
    IF \E r \in T : r.owner = q.owner /\ r.name = q.name
    THEN Answers(T, Refused("conflict"))
    ELSE Insert(T, q)

GetUserByEmail(T, q) == Get(T, q)

GetUser(T, q) == Get(T, q)

AppendAuditLog(T, q) == Insert(T, q)

\* The method a request names.
Method(T, q) ==
    CASE q.method = "create_organization" -> CreateOrganization(T, q)
      [] q.method = "get_organization" -> GetOrganization(T, q)
      [] q.method = "create_product" -> CreateProduct(T, q)
      [] q.method = "get_product" -> GetProduct(T, q)
      [] q.method = "create_license" -> CreateLicense(T, q)
      [] q.method = "get_license" -> GetLicense(T, q)
      [] q.method = "get_license_by_key" -> GetLicenseByKey(T, q)
      [] q.method = "set_license_status" -> SetLicenseStatus(T, q)
      [] q.method = "create_activation" -> CreateActivation(T, q)
      [] q.method = "count_activations" -> CountActivations(T, q)
      [] q.method = "list_activations" -> ListActivations(T, q)
      [] q.method = "delete_activation" -> DeleteActivation(T, q)
      [] q.method = "create_api_key" -> CreateApiKey(T, q)
      [] q.method = "get_api_key_by_prefix" -> GetApiKeyByPrefix(T, q)
      [] q.method = "revoke_api_key" -> RevokeApiKey(T, q)
      [] q.method = "touch_api_key_last_used" -> TouchApiKeyLastUsed(T, q)
      [] q.method = "create_user" -> CreateUser(T, q)
      [] q.method = "get_user_by_email" -> GetUserByEmail(T, q)
      [] q.method = "get_user" -> GetUser(T, q)
      [] OTHER -> AppendAuditLog(T, q)
=============================================================================
