----------------------------- MODULE StorageRows -----------------------------
(***************************************************************************)
(* The tables, rows, requests and replies of the Storage trait             *)
(* (thaumiel-core, traits/storage.rs), shared by its contract and by the   *)
(* backends.  The list_* methods that take a page are in module Listing.   *)
(*                                                                         *)
(* Abstracted: a row keeps the columns that a method looks at or updates.  *)
(* owner is the column that refers to another table, name the API key's    *)
(* prefix or the user's email.  The key of a license is as fresh as its id *)
(* and stands for it; a timestamp that is only set or refreshed is a flag. *)
(***************************************************************************)
EXTENDS FiniteSets

CONSTANTS
    Ids,            \* the ids the program may draw, a UUID each (bounds create)
    Owners,         \* the ids a row may refer to
    Prefixes,       \* key prefixes: 32 random bits, so two keys may share one
    Emails,
    None

Names == Prefixes \cup Emails \cup {None}

ASSUME NoneAssumption == None \notin Ids \cup Owners \cup Prefixes \cup Emails

Creates == {"create_organization", "create_product", "create_license",
            "create_activation", "create_api_key", "create_user",
            "append_audit_log"}

Finds == {"get_organization", "get_product", "get_license",
          "get_license_by_key", "get_api_key_by_prefix", "get_user",
          "get_user_by_email"}

Revokes == {"set_license_status", "revoke_api_key"}

Lists == {"list_activations", "count_activations"}

Methods == Creates \cup Finds \cup Revokes \cup Lists \cup
           {"delete_activation", "touch_api_key_last_used"}

\* The table each method works on.
TableOf(m) ==
    CASE m \in {"create_organization", "get_organization"} -> "organizations"
      [] m \in {"create_product", "get_product"} -> "products"
      [] m \in {"create_license", "get_license", "get_license_by_key",
                "set_license_status"} -> "license_keys"
      [] m \in {"create_activation", "delete_activation"} \cup Lists
             -> "activations"
      [] m \in {"create_user", "get_user", "get_user_by_email"} -> "users"
      [] m = "append_audit_log" -> "audit_log"
      [] OTHER -> "api_keys"

Tables == {TableOf(m) : m \in Methods}

Row == [id : Ids, owner : Owners \cup {None}, name : Names,
        used : BOOLEAN, revoked : BOOLEAN]

\* The arguments of a call: the columns of the row to insert or to look for.
Request == [method : Methods, id : Ids \cup {None},
            owner : Owners \cup {None}, name : Names]

\* An answer; "none" before there is one.
Reply == [status : {"ok", "not_found", "conflict", "storage", "none"},
          rows : SUBSET Row]

Ok(rows) == [status |-> "ok", rows |-> rows]
Refused(status) == [status |-> status, rows |-> {}]
NoReply == Refused("none")

\* The row a create method inserts.
NewRow(q) == [id |-> q.id, owner |-> q.owner, name |-> q.name,
              used |-> FALSE, revoked |-> FALSE]

\* What a method looks for: rows that agree with every column it is given.
Wanted(q, r) ==
    /\ q.id # None => r.id = q.id
    /\ q.owner # None => r.owner = q.owner
    /\ q.name # None => r.name = q.name

\* The requests the handlers make of a method.
Requests(m) ==
    [method : {m},
     id : IF m \in Lists \cup {"get_api_key_by_prefix", "get_user_by_email"}
          THEN {None} ELSE Ids,
     owner : IF m \in Lists \cup {"create_activation", "delete_activation",
                                  "create_user", "get_user_by_email"}
             THEN Owners ELSE {None},
     name : CASE m \in {"create_user", "get_user_by_email"} -> Emails
              [] m \in {"create_api_key", "get_api_key_by_prefix"} -> Prefixes
              [] OTHER -> {None}]
=============================================================================
