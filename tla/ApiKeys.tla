------------------------------- MODULE ApiKeys -------------------------------
(***************************************************************************)
(* The life of an API key: the key routes (routes/api_keys.rs) and the     *)
(* extractors that authenticate with a key (extractors.rs), as requests    *)
(* interleaved at their awaits over the api_keys table.                    *)
(*                                                                         *)
(* Abstracted: the secret of a request either hashes to the stored hash or *)
(* only shares its prefix; created_at follows the order of insertion; the  *)
(* session that creates or revokes has been verified, so only its          *)
(* organization is left.                                                   *)
(***************************************************************************)
EXTENDS Naturals, Sequences, FiniteSets

CONSTANTS
    Requests,
    Orgs,
    Keys,           \* ids the program may give to API keys (bounds create)
    TagOf,          \* the environment tag each of them is created with
    Secret, PrefixLen, NoPrefix,    \* of module KeyPrefix
    PageLimit,      \* how many keys the revoke route looks through
    Granted,        \* the scopes that new keys are asked for with
    None

INSTANCE KeyPrefix

Scopes == {"admin", "license_manager", "validate_only"}

Row == [org : Orgs, scope : Scopes, created_at : Nat,
        last_used : BOOLEAN, revoked : BOOLEAN]

Call == [org : Orgs \cup {None}, key : Keys \cup {None},
         op : {"create", "revoke", "validate", "manage"},
         scope : Scopes \cup {None}, genuine : BOOLEAN,
         dead : BOOLEAN]    \* history: was the key revoked on arrival?

Entry == [org : Orgs, key : Keys, action : {"create", "revoke"}]

ASSUME KeysAssumption ==
    /\ IsFiniteSet(Keys)
    /\ PageLimit \in Nat
    /\ Granted \subseteq Scopes

ASSUME TextAssumption ==
    /\ Secret \in Seq(STRING)
    /\ \A i \in DOMAIN Secret : Secret[i] # Underscore
    /\ PrefixLen \in 1 .. Len(Secret)

ASSUME AbsentAssumption == None \notin Keys \cup Row

VARIABLES
    keys,           \* the api_keys table: a row, or None, per id
    audit_log,
    pc,             \* the next step of each request
    call,           \* its arguments
    seen,           \* the record an authenticating request read
    reply           \* its answer

vars == <<keys, audit_log, pc, call, seen, reply>>

Revoked(k) == keys[k] # None /\ keys[k].revoked

Existing == {k \in Keys : keys[k] # None}

Init ==
    /\ keys = [k \in Keys |-> None]
    /\ audit_log = {}
    /\ pc = [r \in Requests |-> "idle"]
    /\ call = [r \in Requests |-> None]
    /\ seen = [r \in Requests |-> None]
    /\ reply = [r \in Requests |-> "none"]

Goto(r, step) ==
    /\ pc' = [pc EXCEPT ![r] = step]
    /\ UNCHANGED <<seen, reply>>

Answer(r, answer) ==
    /\ pc' = [pc EXCEPT ![r] = "idle"]
    /\ call' = [call EXCEPT ![r] = None]
    /\ seen' = [seen EXCEPT ![r] = None]
    /\ reply' = [reply EXCEPT ![r] = answer]

Begin(r, c, step) ==
    /\ pc[r] = "idle"
    /\ pc' = [pc EXCEPT ![r] = step]
    /\ call' = [call EXCEPT ![r] = c]
    /\ reply' = [reply EXCEPT ![r] = "none"]
    /\ UNCHANGED <<keys, audit_log, seen>>

-----------------------------------------------------------------------------
(* Creating and revoking a key.                                            *)

BeginCreate(r) ==
    \E o \in Orgs, s \in Granted :
        Begin(r, [org |-> o, scope |-> s, key |-> None, op |-> "create",
                  genuine |-> FALSE, dead |-> FALSE], "insert")

BeginRevoke(r) ==
    \E o \in Orgs, k \in Keys :
        Begin(r, [org |-> o, scope |-> None, key |-> k, op |-> "revoke",
                  genuine |-> FALSE, dead |-> FALSE], "list")

Insert(r) ==
    /\ pc[r] = "insert"
    /\ \E k \in Keys \ Existing :
        /\ keys' = [keys EXCEPT ![k] =
               [org |-> call[r].org, scope |-> call[r].scope,
                created_at |-> Cardinality(Existing),
                last_used |-> FALSE, revoked |-> FALSE]]
        /\ call' = [call EXCEPT ![r].key = k]
    /\ Goto(r, "audit")
    /\ UNCHANGED audit_log

\* Mutant of Page: the keys of all organizations.
PageOfAll(o) ==
    {k \in Existing :
        Cardinality({j \in Existing : keys[j].created_at > keys[k].created_at})
            < PageLimit}

\* The younger keys of k's organization, which the list puts before it.
Newer(k) == {j \in Existing : /\ keys[j].org = keys[k].org
                              /\ keys[j].created_at > keys[k].created_at}

\* Mutant of Page: revoked keys take no place on it.
PageOfLive(o) ==
    {k \in Existing :
        /\ keys[k].org = o
        /\ Cardinality({j \in Newer(k) : ~keys[j].revoked}) < PageLimit}

\* The keys list_api_keys returns: the newest of the organization.
Page(o) ==
    {k \in Existing : keys[k].org = o /\ Cardinality(Newer(k)) < PageLimit}

ListKeys(r) ==
    /\ pc[r] = "list"
    /\ IF call[r].key \in Page(call[r].org)
       THEN Goto(r, "set") /\ UNCHANGED call
       ELSE Answer(r, "not_found")
    /\ UNCHANGED <<keys, audit_log>>

\* Mutant of RevokeKey: the entry is written first, the key revoked after it.
RevokeAfterAudit(r) ==
    /\ pc[r] = "set"
    /\ audit_log' = audit_log \cup
           {[action |-> "revoke", org |-> call[r].org, key |-> call[r].key]}
    /\ \/ /\ keys' = [keys EXCEPT ![call[r].key].revoked = TRUE]
          /\ Goto(r, "audit")
          /\ UNCHANGED call
       \/ Answer(r, "error") /\ UNCHANGED keys

RevokeKey(r) ==
    /\ pc[r] = "set"
    /\ keys' = [keys EXCEPT ![call[r].key].revoked = TRUE]
    /\ Goto(r, "audit")
    /\ UNCHANGED <<call, audit_log>>

\* Best effort, like every audit entry.
Audit(r) ==
    /\ pc[r] = "audit"
    /\ \/ audit_log' = audit_log \cup
              {[action |-> call[r].op, org |-> call[r].org, key |-> call[r].key]}
       \/ UNCHANGED audit_log
    /\ Answer(r, "ok")
    /\ UNCHANGED keys

-----------------------------------------------------------------------------
(* Authenticating with a key: ApiKeyAuth for validate, LicenseManagerAuth  *)
(* for the routes that manage licenses.                                    *)

BeginUse(r) ==
    \E k \in Keys, need \in {"validate", "manage"}, genuine \in BOOLEAN :
        Begin(r, [org |-> None, scope |-> None, key |-> k, op |-> need,
                  genuine |-> genuine, dead |-> Revoked(k)], "find")

\* Mutant of FindByPrefix: the hash is not verified.
FindUnverified(r) ==
    /\ pc[r] = "find"
    /\ \/ /\ keys[call[r].key] # None
          /\ FindsItself(TagOf[call[r].key])
          /\ ~keys[call[r].key].revoked
          /\ seen' = [seen EXCEPT ![r] = keys[call[r].key]]
          /\ pc' = [pc EXCEPT ![r] = "touch"]
          /\ UNCHANGED <<call, reply>>
       \/ Answer(r, "unauthenticated")
    /\ UNCHANGED <<keys, audit_log>>

\* A failing lookup is answered like a missing key.
FindByPrefix(r) ==
    /\ pc[r] = "find"
    /\ \/ /\ keys[call[r].key] # None
          /\ FindsItself(TagOf[call[r].key])
          /\ ~keys[call[r].key].revoked
          /\ call[r].genuine
          /\ seen' = [seen EXCEPT ![r] = keys[call[r].key]]
          /\ pc' = [pc EXCEPT ![r] = "touch"]
          /\ UNCHANGED <<call, reply>>
       \/ Answer(r, "unauthenticated")
    /\ UNCHANGED <<keys, audit_log>>

MayManage(row) == row.scope \in {"admin", "license_manager"}

\* What the extractor decides on the record it read.
Conclude(r) ==
    Answer(r, IF call[r].op = "manage" /\ ~MayManage(seen[r])
              THEN "forbidden" ELSE "accepted")

\* Mutant of TouchLastUsed: the whole record is written back.
TouchWritesRecord(r) ==
    /\ pc[r] = "touch"
    /\ keys' = [keys EXCEPT ![call[r].key] = [seen[r] EXCEPT !.last_used = TRUE]]
    /\ Conclude(r)
    /\ UNCHANGED audit_log

\* Only last_used_at is written, and a failure to write it is ignored.
TouchLastUsed(r) ==
    /\ pc[r] = "touch"
    /\ \/ keys' = [keys EXCEPT ![call[r].key].last_used = TRUE]
       \/ UNCHANGED keys
    /\ Conclude(r)
    /\ UNCHANGED audit_log

-----------------------------------------------------------------------------
\* A storage call fails, or the request times out.
Fail(r) ==
    /\ pc[r] # "idle"
    /\ Answer(r, "error")
    /\ UNCHANGED <<keys, audit_log>>

Handle(r) ==
    \/ BeginCreate(r) \/ Insert(r)
    \/ BeginRevoke(r) \/ ListKeys(r) \/ RevokeKey(r)
    \/ Audit(r)
    \/ BeginUse(r) \/ FindByPrefix(r) \/ TouchLastUsed(r)
    \/ Fail(r)

Next == \E r \in Requests : Handle(r)

Spec == Init /\ [][Next]_vars

-----------------------------------------------------------------------------
(* Type correctness.                                                       *)
TypeOK ==
    /\ keys \in [Keys -> Row \cup {None}]
    /\ audit_log \subseteq Entry
    /\ pc \in [Requests -> {"idle", "insert", "list", "set", "audit",
                            "find", "touch"}]
    /\ call \in [Requests -> Call \cup {None}]
    /\ seen \in [Requests -> Row \cup {None}]
    /\ reply \in [Requests -> {"none", "ok", "not_found", "unauthenticated",
                               "forbidden", "accepted", "error"}]

Accepted(r) == pc[r] # "idle" /\ pc'[r] = "idle" /\ reply'[r] = "accepted"

\* Revocation is immediate and final: a use of the key that arrives after it
\* is never accepted, even while uses that began before are still writing the
\* time they were made to the same row.
RevokedKeyRefused == [][\A r \in Requests : Accepted(r) => ~call[r].dead]_vars

\* Whoever is let in by a key holds its secret, and manages licenses only with
\* a key whose scope, as it is stored at that moment, allows it.
AcceptedIsEntitled ==
    [][\A r \in Requests : Accepted(r) =>
          /\ call[r].genuine
          /\ keys[call[r].key] # None
          /\ call[r].op = "manage" =>
                keys[call[r].key].scope \in {"admin", "license_manager"}]_vars

\* Tenants are apart: a key is revoked only by a request of its organization.
OwnerRevokesOnly ==
    [][\A k \in Keys : ~Revoked(k) /\ Revoked(k)' =>
          \E r \in Requests : /\ pc[r] = "set" /\ pc'[r] # "set"
                              /\ call[r].key = k
                              /\ call[r].org = keys[k].org]_vars

\* The revoke route looks for the key among the newest of the organization
\* only.  A live key that has slipped off that page, and that no revocation
\* under way has found before, can never be revoked: keys are not deleted, and
\* revoked ones keep their place.
Unreachable(k) ==
    /\ keys[k] # None /\ ~keys[k].revoked
    /\ k \notin Page(keys[k].org)
    /\ \A r \in Requests : ~(pc[r] = "set" /\ call[r].key = k)

IrrevocableForever == [][\A k \in Keys : Unreachable(k) => Unreachable(k)']_vars

\* The audit trail is truthful: an entry names a key of the organization it is
\* filed under, and a "revoke" entry a key that is revoked.
AuditTruthful ==
    \A e \in audit_log :
        /\ keys[e.key] # None
        /\ keys[e.key].org = e.org
        /\ e.action = "revoke" => keys[e.key].revoked

-----------------------------------------------------------------------------
(* The invariant behind these properties.                                  *)

\* What a step of a key route says of its arguments and of the table.
RouteOK(r) ==
    /\ pc[r] # "idle" => call[r] \in Call
    /\ pc[r] = "insert" => call[r].op = "create" /\ call[r].org \in Orgs
                           /\ call[r].scope \in Scopes
    /\ pc[r] = "list" => call[r].op = "revoke" /\ call[r].org \in Orgs
    /\ pc[r] = "set" => call[r].op = "revoke"
    /\ pc[r] \in {"set", "audit"} =>
          /\ call[r].op \in {"create", "revoke"}
          /\ call[r].key \in Keys /\ call[r].org \in Orgs
          /\ keys[call[r].key] # None
          /\ keys[call[r].key].org = call[r].org
    /\ pc[r] = "audit" /\ call[r].op = "revoke" => keys[call[r].key].revoked

\* A key dead on arrival is revoked now; past the lookup the key was alive,
\* the secret genuine, and the scope that was read is the stored one.
UseOK(r) ==
    /\ pc[r] \in {"find", "touch"} => call[r].key \in Keys
    /\ pc[r] = "find" /\ call[r].dead => Revoked(call[r].key)
    /\ pc[r] = "touch" =>
          /\ ~call[r].dead /\ call[r].genuine
          /\ keys[call[r].key] # None
          /\ seen[r] \in Row
          /\ seen[r].scope = keys[call[r].key].scope

IInv == TypeOK /\ \A r \in Requests : RouteOK(r) /\ UseOK(r)
=============================================================================
