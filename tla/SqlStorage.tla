------------------------------ MODULE SqlStorage ------------------------------
(***************************************************************************)
(* The statements of the SQL backends, as the mssql one writes them        *)
(* (thaumiel-storage, mssql.rs): each operator gives, for the request q    *)
(* and the rows T of its table, the outcomes of one statement: the rows it *)
(* leaves and the answer.  A statement is atomic in the database.          *)
(*                                                                         *)
(* A primary key is never violated, the ids being fresh UUIDs.  A foreign  *)
(* key is violated only by the user of an organization that an external    *)
(* provider made up, rows that others refer to being never deleted: its    *)
(* caller sees one more failing call, and those may fail anyway.           *)
(***************************************************************************)
EXTENDS StorageRows

Answers(T, answer) == {[rows |-> T, answer |-> answer]}

InsertInto(T, q) == {[rows |-> T \cup {NewRow(q)}, answer |-> Ok({NewRow(q)})]}

\* A failed constraint leaves the table as it was.
Unique(T, q, clash, status) ==
    IF clash THEN Answers(T, Refused(status)) ELSE InsertInto(T, q)

\* A query for one row: its first row, or a not_found error.
SelectOne(T, q) ==
    LET hits == {r \in T : Wanted(q, r)}
    IN  IF hits = {} THEN Answers(T, Refused("not_found"))
        ELSE UNION {Answers(T, Ok({r})) : r \in hits}

SelectAll(T, q) == Answers(T, Ok({r \in T : Wanted(q, r)}))

\* An UPDATE changes the rows its WHERE names, and does not mind if there are
\* none.  The answer is the one a query for the row would give at this moment.
\* new[r] is what becomes of row r.
Update(T, q, new) ==
    LET hits == {r \in T : Wanted(q, r)}
        changed == {new[r] : r \in hits}
    IN  {[rows |-> (T \ hits) \cup changed,
          answer |-> IF hits = {} THEN Refused("not_found") ELSE Ok(changed)]}

-----------------------------------------------------------------------------

CreateOrganization(T, q) == InsertInto(T, q)

GetOrganization(T, q) == SelectOne(T, q)

CreateProduct(T, q) == InsertInto(T, q)

GetProduct(T, q) == SelectOne(T, q)

CreateLicense(T, q) == InsertInto(T, q)

GetLicense(T, q) == SelectOne(T, q)

GetLicenseByKey(T, q) == SelectOne(T, q)

\* The only status the program sets is revoked.  Mutant: no WHERE clause.
SetEveryLicenseStatus(T, q) ==
    LET changed == {[r EXCEPT !.revoked = TRUE] : r \in T}
    IN  {[rows |-> changed, answer |-> Ok(changed)]}

SetLicenseStatus(T, q) ==
    Update(T, q, [r \in T |-> [r EXCEPT !.revoked = TRUE]])

CreateActivation(T, q) == InsertInto(T, q)

CountActivations(T, q) == SelectAll(T, q)

ListActivations(T, q) == SelectAll(T, q)

DeleteActivation(T, q) == Answers({r \in T : ~Wanted(q, r)}, Ok({}))

\* key_prefix is UNIQUE; a violation is an error like any other.
CreateApiKey(T, q) ==
    Unique(T, q, \E r \in T : r.name = q.name, "storage")

GetApiKeyByPrefix(T, q) == SelectOne(T, q)

\* Mutant of RevokeApiKey: the key is deleted.
DropApiKey(T, q) ==
    LET hits == {r \in T : Wanted(q, r)}
    IN  {[rows |-> T \ hits,
          answer |-> IF hits = {} THEN Refused("not_found") ELSE Ok(hits)]}

RevokeApiKey(T, q) ==
    Update(T, q, [r \in T |-> [r EXCEPT !.revoked = TRUE]])

TouchApiKeyLastUsed(T, q) ==
    {[o EXCEPT !.answer = Ok({})] :
        o \in Update(T, q, [r \in T |-> [r EXCEPT !.used = TRUE]])}

\* UNIQUE (org_id, email) is the one violation told from other errors.
CreateUser(T, q) ==
    Unique(T, q, \E r \in T : r.owner = q.owner /\ r.name = q.name, "conflict")

GetUserByEmail(T, q) == SelectOne(T, q)

GetUser(T, q) == SelectOne(T, q)

AppendAuditLog(T, q) == InsertInto(T, q)

\* The first statement of the method a request names.
Statement(T, q) ==
    CASE q.method = "create_organization" -> CreateOrganization(T, q)
      [] q.method = "get_organization" -> GetOrganization(T, q)
      [] q.method = "create_product" -> CreateProduct(T, q)
      [] q.method = "get_product" -> GetProduct(T, q)
      [] q.method = "create_license" -> CreateLicense(T, q)
      [] q.method = "get_license" -> GetLicense(T, q)
      [] q.method = "get_license_by_key" -> GetLicenseByKey(T, q)
      [] q.method = "set_license_status" -> SetLicenseStatus(T, q)
      [] q.method = "create_activation" -> CreateActivation(T, q)
      [] q.method = "count_activations" -> CountActivations(T, q)
      [] q.method = "list_activations" -> ListActivations(T, q)
      [] q.method = "delete_activation" -> DeleteActivation(T, q)
      [] q.method = "create_api_key" -> CreateApiKey(T, q)
      [] q.method = "get_api_key_by_prefix" -> GetApiKeyByPrefix(T, q)
      [] q.method = "revoke_api_key" -> RevokeApiKey(T, q)
      [] q.method = "touch_api_key_last_used" -> TouchApiKeyLastUsed(T, q)
      [] q.method = "create_user" -> CreateUser(T, q)
      [] q.method = "get_user_by_email" -> GetUserByEmail(T, q)
      [] q.method = "get_user" -> GetUser(T, q)
      [] OTHER -> AppendAuditLog(T, q)
=============================================================================
