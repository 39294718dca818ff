------------------------------- MODULE Accounts -------------------------------
(***************************************************************************)
(* Organizations, their users and the sessions they log in to: register    *)
(* and the login routes (routes/auth.rs), the creation of users            *)
(* (routes/users.rs) and the identity providers (thaumiel-auth), as        *)
(* requests interleaved at their awaits over the users table.              *)
(*                                                                         *)
(* Abstracted: what an identity provider checks outside this server (the   *)
(* LDAP bind, the OIDC token, the SAML response) precedes the first step   *)
(* of an external login, and only a login that passed it is modelled; a    *)
(* password may be right or wrong; a session token may be used at any time,*)
(* its expiry only ends that.  A password that is too short is refused     *)
(* before anything is read.                                                *)
(***************************************************************************)
EXTENDS Naturals

CONSTANTS
    Requests,
    Orgs,           \* ids the program may give to organizations
    UserIds,        \* ids it may give to users
    Emails,
    None

Roles == {"owner", "admin", "member"}

User == [org : Orgs, email : Emails, role : Roles, has_password : BOOLEAN]

Identity == [user : UserIds, org : Orgs, role : Roles]

Ops == {"register", "create", "password_login", "external_login"}

Call == [op : Ops, org : Orgs \cup {None}, email : Emails, role : Roles,
         by : UserIds \cup {None}]

Entry == [action : Ops, org : Orgs, user : UserIds]

ASSUME AbsentAssumption == None \notin Orgs \cup UserIds \cup User \cup Identity \cup Call

VARIABLES
    orgs,           \* the organizations table
    users,          \* the users table: a row, or None, per id
    audit_log,
    sessions,       \* the identities session tokens were issued for
    pc,             \* the next step of each request
    call,           \* its arguments
    who,            \* the identity it has established
    reply           \* its answer

tables == <<orgs, users, audit_log>>
vars == <<orgs, users, audit_log, sessions, pc, call, who, reply>>

Matching(o, e) == {u \in UserIds : users[u] # None /\ users[u].org = o
                                                  /\ users[u].email = e}

Privileged(role) == role \in {"owner", "admin"}

\* Ids are random: a new one is carried by no row and named by no request.
FreshOrg(o) ==
    /\ o \notin orgs
    /\ \A u \in UserIds : users[u] # None => users[u].org # o
    /\ \A r \in Requests : call[r] # None => call[r].org # o

Init ==
    /\ orgs = {}
    /\ users = [u \in UserIds |-> None]
    /\ audit_log = {}
    /\ sessions = {}
    /\ pc = [r \in Requests |-> "idle"]
    /\ call = [r \in Requests |-> None]
    /\ who = [r \in Requests |-> None]
    /\ reply = [r \in Requests |-> "none"]

Begin(r, c, step) ==
    /\ pc' = [pc EXCEPT ![r] = step]
    /\ call' = [call EXCEPT ![r] = c]
    /\ reply' = [reply EXCEPT ![r] = "none"]
    /\ UNCHANGED who

Answer(r, answer) ==
    /\ pc' = [pc EXCEPT ![r] = "idle"]
    /\ call' = [call EXCEPT ![r] = None]
    /\ who' = [who EXCEPT ![r] = None]
    /\ reply' = [reply EXCEPT ![r] = answer]

\* The request has the row of u, whose organization and role are these.
Identify(r, u, o, role) ==
    /\ who' = [who EXCEPT ![r] = [user |-> u, org |-> o, role |-> role]]
    /\ pc' = [pc EXCEPT ![r] = "audit"]
    /\ UNCHANGED <<call, reply>>

-----------------------------------------------------------------------------
(* Arrival of a request.                                                   *)

BeginRegister(r) ==
    /\ pc[r] = "idle"
    /\ \E e \in Emails :
        Begin(r, [op |-> "register", org |-> None, email |-> e,
                  role |-> "owner", by |-> None], "insert_org")
    /\ UNCHANGED <<tables, sessions>>

\* Mutant of MayAddUsers: any session will do.
AnyoneMayAddUsers(identity) == identity \in sessions

MayAddUsers(identity) == Privileged(identity.role)

\* The caller is whoever the session token says.
BeginCreate(r) ==
    /\ pc[r] = "idle"
    /\ \E s \in sessions, e \in Emails, role \in Roles :
        \/ /\ MayAddUsers(s)
           /\ Begin(r, [op |-> "create", org |-> s.org, email |-> e,
                        role |-> role, by |-> s.user], "insert_user")
        \/ ~MayAddUsers(s) /\ Answer(r, "forbidden")
    /\ UNCHANGED <<tables, sessions>>

\* Mutant of ProvisionedRole: the first to come owns the place.
ProvisionedOwner == "owner"

\* The role of a user created on the first external login.
ProvisionedRole == "member"

\* A login names an organization, which need not exist.
BeginLogin(r) ==
    /\ pc[r] = "idle"
    /\ \E op \in {"password_login", "external_login"}, o \in Orgs, e \in Emails :
        Begin(r, [op |-> op, org |-> o, email |-> e,
                  role |-> ProvisionedRole, by |-> None], "find")
    /\ UNCHANGED <<tables, sessions>>

-----------------------------------------------------------------------------
(* The steps of a request.                                                 *)

InsertOrg(r) ==
    /\ pc[r] = "insert_org"
    /\ \E o \in Orgs :
        /\ FreshOrg(o)
        /\ orgs' = orgs \cup {o}
        /\ call' = [call EXCEPT ![r].org = o]
    /\ pc' = [pc EXCEPT ![r] = "insert_user"]
    /\ UNCHANGED <<users, audit_log, sessions, who, reply>>

\* Mutant of FindUser: the organization is not part of the query.
FindByEmailOnly(r) ==
    /\ pc[r] = "find"
    /\ \/ \E u \in UserIds :
           /\ users[u] # None /\ users[u].email = call[r].email
           /\ call[r].op = "password_login" => users[u].has_password
           /\ Identify(r, u, users[u].org, users[u].role)
       \/ /\ call[r].op = "external_login"
          /\ pc' = [pc EXCEPT ![r] = "insert_user"]
          /\ UNCHANGED <<call, who, reply>>
       \/ call[r].op = "password_login" /\ Answer(r, "unauthenticated")
    /\ UNCHANGED <<tables, sessions>>

\* A password login needs a stored hash, and the right password.  An external
\* login takes any failure to find the user for a first login.
FindUser(r) ==
    /\ pc[r] = "find"
    /\ \/ \E u \in Matching(call[r].org, call[r].email) :
           /\ call[r].op = "password_login" => users[u].has_password
           /\ Identify(r, u, users[u].org, users[u].role)
       \/ /\ call[r].op = "external_login"
          /\ pc' = [pc EXCEPT ![r] = "insert_user"]
          /\ UNCHANGED <<call, who, reply>>
       \/ call[r].op = "password_login" /\ Answer(r, "unauthenticated")
    /\ UNCHANGED <<tables, sessions>>

NewUser(c) == [org |-> c.org, email |-> c.email, role |-> c.role,
               has_password |-> c.op # "external_login"]

\* Mutant of InsertUser: the table has no unique (org, email).
InsertUnchecked(r) ==
    /\ pc[r] = "insert_user"
    /\ \E u \in UserIds :
        /\ users[u] = None
        /\ users' = [users EXCEPT ![u] = NewUser(call[r])]
        /\ Identify(r, u, call[r].org, call[r].role)
    /\ UNCHANGED <<orgs, audit_log, sessions>>

\* Mutant of InsertUser: a conflict takes the stored user and the new role.
InsertOrAdopt(r) ==
    /\ pc[r] = "insert_user"
    /\ \/ \E u \in Matching(call[r].org, call[r].email) :
           Identify(r, u, call[r].org, call[r].role) /\ UNCHANGED users
       \/ /\ Matching(call[r].org, call[r].email) = {}
          /\ \E u \in UserIds :
              /\ users[u] = None
              /\ users' = [users EXCEPT ![u] = NewUser(call[r])]
              /\ Identify(r, u, call[r].org, call[r].role)
    /\ UNCHANGED <<orgs, audit_log, sessions>>

\* Mutant of InsertUser: every new user is stored as a member.
InsertMember(r) ==
    /\ pc[r] = "insert_user"
    /\ Matching(call[r].org, call[r].email) = {}
    /\ \E u \in UserIds :
        /\ users[u] = None
        /\ users' = [users EXCEPT ![u] = [NewUser(call[r]) EXCEPT !.role = "member"]]
        /\ Identify(r, u, call[r].org, call[r].role)
    /\ UNCHANGED <<orgs, audit_log, sessions>>

\* A user of a missing organization is refused by the foreign keys of the SQL
\* schemas (Fail) and accepted by the in-memory storage.
InsertUser(r) ==
    /\ pc[r] = "insert_user"
    /\ \/ /\ Matching(call[r].org, call[r].email) # {}
          /\ Answer(r, "conflict")
          /\ UNCHANGED users
       \/ /\ Matching(call[r].org, call[r].email) = {}
          /\ \E u \in UserIds :
              /\ users[u] = None
              /\ users' = [users EXCEPT ![u] = NewUser(call[r])]
              /\ Identify(r, u, call[r].org, call[r].role)
    /\ UNCHANGED <<orgs, audit_log, sessions>>

\* The best-effort entry, then the session token (none for a created user).
Audit(r) ==
    /\ pc[r] = "audit"
    /\ \/ audit_log' = audit_log \cup
              {[action |-> call[r].op, org |-> who[r].org, user |-> who[r].user]}
       \/ UNCHANGED audit_log
    /\ sessions' = IF call[r].op = "create" THEN sessions ELSE sessions \cup {who[r]}
    /\ Answer(r, "ok")
    /\ UNCHANGED <<orgs, users>>

\* A storage call fails, or the request times out: what is written stays.
Fail(r) ==
    /\ pc[r] # "idle"
    /\ Answer(r, "error")
    /\ UNCHANGED <<tables, sessions>>

Handle(r) ==
    \/ BeginRegister(r) \/ BeginCreate(r) \/ BeginLogin(r)
    \/ InsertOrg(r) \/ FindUser(r) \/ InsertUser(r) \/ Audit(r)
    \/ Fail(r)

Next == \E r \in Requests : Handle(r)

Spec == Init /\ [][Next]_vars

-----------------------------------------------------------------------------
(* Type correctness.                                                       *)
TypeOK ==
    /\ orgs \subseteq Orgs
    /\ users \in [UserIds -> User \cup {None}]
    /\ audit_log \subseteq Entry
    /\ sessions \subseteq Identity
    /\ pc \in [Requests -> {"idle", "insert_org", "insert_user", "find", "audit"}]
    /\ call \in [Requests -> Call \cup {None}]
    /\ who \in [Requests -> Identity \cup {None}]
    /\ reply \in [Requests -> {"none", "ok", "forbidden", "unauthenticated",
                               "conflict", "error"}]

\* However many first logins and creations race, an address is one user of an
\* organization, so a login finds the same user every time.
UniqueUsers ==
    \A u, v \in UserIds :
        /\ users[u] # None /\ users[v] # None
        /\ users[u].org = users[v].org /\ users[u].email = users[v].email
        => u = v

\* What an identity says is what the table says of its user.
Truthful(identity) ==
    /\ identity \in Identity
    /\ users[identity.user] # None
    /\ users[identity.user].org = identity.org
    /\ users[identity.user].role = identity.role

\* A session token is believed without another look at the table: the
\* organization and the role in it are those of its user.
SessionsTruthful == \A s \in sessions : Truthful(s)

\* The audit trail is truthful: an entry names a user of the organization it
\* is filed under, and a "register" entry an owner.
AuditTruthful ==
    \A e \in audit_log :
        /\ users[e.user] # None
        /\ users[e.user].org = e.org
        /\ e.action = "register" => users[e.user].role = "owner"

Appears(u) == users[u] = None /\ users'[u] # None

\* Nobody hands out more than a member's role but the registration of the
\* organization and those who have more themselves, there and at that moment:
\* though a session is all they show.
PrivilegeGranted ==
    [][\A u \in UserIds : Appears(u) /\ Privileged(users'[u].role) =>
          \E r \in Requests :
              /\ pc[r] = "insert_user" /\ pc'[r] # "insert_user"
              /\ call[r].org = users'[u].org
              /\ \/ call[r].op = "register"
                 \/ \E v \in UserIds : /\ call[r].by = v /\ users[v] # None
                                       /\ users[v].org = users'[u].org
                                       /\ Privileged(users[v].role)]_vars

\* An organization without owner or admin, whose registration is not running.
Headless(o) ==
    /\ o \in orgs
    /\ \A r \in Requests : ~(pc[r] = "insert_user" /\ call[r].op = "register"
                                                   /\ call[r].org = o)
    /\ \A u \in UserIds : users[u] # None /\ users[u].org = o =>
          ~Privileged(users[u].role)

\* An organization whose registration broke off stays without anyone to manage
\* it: no later login or creation, and no session, gets an owner into it.
HeadlessForever == [][\A o \in Orgs : Headless(o) => Headless(o)']_vars

-----------------------------------------------------------------------------
(* The invariant behind these properties.                                  *)

RequestOK(r) ==
    /\ pc[r] = "idle" => call[r] = None
    /\ pc[r] # "idle" => call[r] \in Call
    /\ pc[r] = "insert_org" => call[r].op = "register" /\ call[r].org = None
    /\ call[r] # None /\ call[r].op = "register" => call[r].role = "owner"
    /\ call[r] # None /\ call[r].op \in {"password_login", "external_login"} =>
          call[r].role = "member"
    /\ pc[r] \in {"find", "insert_user"} => call[r].org \in Orgs
    /\ pc[r] = "find" => call[r].op \in {"password_login", "external_login"}
    /\ pc[r] = "insert_user" /\ call[r].op = "create" =>
          \E v \in UserIds : /\ call[r].by = v /\ users[v] # None
                             /\ users[v].org = call[r].org
                             /\ Privileged(users[v].role)
    /\ pc[r] = "audit" =>
          /\ Truthful(who[r]) /\ who[r].org = call[r].org
          /\ call[r].op = "register" => who[r].role = "owner"

IInv == /\ TypeOK /\ UniqueUsers /\ SessionsTruthful /\ AuditTruthful
        /\ \A r \in Requests : RequestOK(r)
=============================================================================
