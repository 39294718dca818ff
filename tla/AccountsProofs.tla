---------------------------- MODULE AccountsProofs ----------------------------
(***************************************************************************)
(* Theorems about Accounts for every number of requests, organizations,    *)
(* users and addresses.                                                    *)
(***************************************************************************)
EXTENDS Accounts, TLAPS

USE DEF Roles, Ops

RequestsOK == \A r \in Requests : RequestOK(r)

\* The invariant holds before the first request.
LEMMA InvInit == Init => IInv
  BY DEF Init, IInv, TypeOK, UniqueUsers, SessionsTruthful, AuditTruthful, RequestOK

-----------------------------------------------------------------------------
(* What a step leaves alone.                                               *)

\* Users are never changed or removed.
UsersKept == \A u \in UserIds : users[u] # None => users'[u] = users[u]

OthersKept(r) ==
    \A q \in Requests \ {r} :
        pc'[q] = pc[q] /\ call'[q] = call[q] /\ who'[q] = who[q]

\* A user is inserted by the call of request r.
Inserted(r, u) ==
    /\ pc[r] = "insert_user"
    /\ Matching(call[r].org, call[r].email) = {}
    /\ users[u] = None
    /\ users' = [users EXCEPT ![u] = NewUser(call[r])]
    /\ Identify(r, u, call[r].org, call[r].role)

\* The call of BeginCreate, for the proofs: it comes from a session.
LEMMA CreateForm ==
  ASSUME TypeOK, NEW r \in Requests, BeginCreate(r)
  PROVE  \/ Answer(r, "forbidden")
         \/ \E s \in sessions, c \in Call :
               /\ Privileged(s.role) /\ c.op = "create"
               /\ c.org = s.org /\ c.by = s.user /\ c.org \in Orgs
               /\ Begin(r, c, "insert_user")
  <1>1. CASE Answer(r, "forbidden")
    BY <1>1
  <1>2. ASSUME NEW s \in sessions, NEW e \in Emails, NEW role \in Roles, MayAddUsers(s),
               Begin(r, [op |-> "create", org |-> s.org, email |-> e,
                         role |-> role, by |-> s.user], "insert_user")
        PROVE  \E c \in Call :
                  /\ Privileged(s.role) /\ c.op = "create"
                  /\ c.org = s.org /\ c.by = s.user /\ c.org \in Orgs
                  /\ Begin(r, c, "insert_user")
    <2>1. s \in Identity
      BY DEF TypeOK
    <2>2. [op |-> "create", org |-> s.org, email |-> e,
           role |-> role, by |-> s.user] \in Call
      BY <2>1 DEF Identity, Call
    <2> QED
      BY <1>2, <2>1, <2>2 DEF MayAddUsers, Identity
  <1> QED
    BY <1>1, <1>2 DEF BeginCreate

\* A request's locals are its own.
LEMMA LocalsFrame ==
  ASSUME TypeOK, NEW r \in Requests, Handle(r)
  PROVE  OthersKept(r)
  <1> USE DEF TypeOK, OthersKept, Answer, Begin, Identify
  <1>1. CASE BeginRegister(r) \/ BeginLogin(r)
    BY <1>1 DEF BeginRegister, BeginLogin
  <1>2. CASE BeginCreate(r)
    BY <1>2, CreateForm
  <1>3. CASE InsertOrg(r) \/ FindUser(r) \/ InsertUser(r)
    BY <1>3 DEF InsertOrg, FindUser, InsertUser
  <1>4. CASE Audit(r) \/ Fail(r)
    BY <1>4 DEF Audit, Fail
  <1> QED
    BY <1>1, <1>2, <1>3, <1>4 DEF Handle

\* The users table changes by an insert only.
LEMMA UsersChange ==
  ASSUME NEW r \in Requests, Handle(r)
  PROVE  UNCHANGED users \/ \E u \in UserIds : Inserted(r, u)
  <1>1. CASE InsertUser(r)
    BY <1>1 DEF InsertUser, Inserted
  <1> QED
    BY <1>1 DEF Handle, BeginRegister, BeginCreate, BeginLogin, InsertOrg, FindUser,
       Audit, Fail, tables

\* A user that is inserted has the form of a row, and the others stay.
LEMMA InsertedRow ==
  ASSUME TypeOK, NEW r \in Requests, RequestOK(r), NEW u \in UserIds, Inserted(r, u)
  PROVE  /\ NewUser(call[r]) \in User
         /\ users' \in [UserIds -> User \cup {None}]
         /\ users'[u] = NewUser(call[r]) /\ users'[u] # None
         /\ users'[u].org = call[r].org /\ users'[u].email = call[r].email
         /\ users'[u].role = call[r].role
         /\ \A v \in UserIds \ {u} : users'[v] = users[v]
         /\ call[r] \in Call /\ call[r].org \in Orgs
         /\ who'[r] = [user |-> u, org |-> call[r].org, role |-> call[r].role]
         /\ pc'[r] = "audit" /\ call'[r] = call[r]
  <1>1. call[r] \in Call /\ call[r].org \in Orgs
    BY DEF Inserted, RequestOK
  <1>2. NewUser(call[r]) \in User
    BY <1>1 DEF NewUser, User, Call
  <1>3. /\ users'[u] = NewUser(call[r])
        /\ \A v \in UserIds \ {u} : users'[v] = users[v]
        /\ users' \in [UserIds -> User \cup {None}]
    BY <1>2 DEF Inserted, TypeOK
  <1>4. users'[u] # None
    BY <1>2, <1>3, AbsentAssumption
  <1>5. /\ who'[r] = [user |-> u, org |-> call[r].org, role |-> call[r].role]
        /\ pc'[r] = "audit" /\ call'[r] = call[r]
    BY DEF Inserted, Identify, TypeOK
  <1> QED
    BY <1>1, <1>2, <1>3, <1>4, <1>5 DEF NewUser

\* So users are kept, and an address stays one user.
LEMMA UsersStep ==
  ASSUME TypeOK, RequestsOK, UniqueUsers, [Next]_vars
  PROVE  /\ users' \in [UserIds -> User \cup {None}]
         /\ UsersKept
         /\ UniqueUsers'
  <1>1. CASE UNCHANGED users
    BY <1>1 DEF TypeOK, UsersKept, UniqueUsers
  <1>2. ASSUME NEW r \in Requests, NEW u \in UserIds, Inserted(r, u)
        PROVE  /\ users' \in [UserIds -> User \cup {None}]
               /\ UsersKept
               /\ UniqueUsers'
    <2>1. RequestOK(r)
      BY DEF RequestsOK
    <2>2. /\ users' \in [UserIds -> User \cup {None}]
          /\ users'[u].org = call[r].org /\ users'[u].email = call[r].email
          /\ \A v \in UserIds \ {u} : users'[v] = users[v]
      BY <1>2, <2>1, InsertedRow
    <2>3. \A v \in UserIds : users[v] # None =>
             ~(users[v].org = call[r].org /\ users[v].email = call[r].email)
      BY <1>2 DEF Inserted, Matching
    <2>4. UniqueUsers'
      BY <2>2, <2>3 DEF UniqueUsers
    <2>5. UsersKept
      BY <1>2, <2>2 DEF UsersKept, Inserted
    <2> QED
      BY <2>2, <2>4, <2>5
  <1> QED
    BY <1>1, <1>2, UsersChange DEF Next, vars

\* An identity that is true of the table stays true.
LEMMA TruthKept ==
  ASSUME UsersKept, NEW i, Truthful(i)
  PROVE  Truthful(i)'
  BY DEF UsersKept, Truthful, Identity

-----------------------------------------------------------------------------
(* The invariant.                                                          *)

\* Every step keeps the types.
LEMMA TypeStep == IInv /\ [Next]_vars => TypeOK'
  <1> SUFFICES ASSUME IInv, [Next]_vars PROVE TypeOK'
    OBVIOUS
  <1>1. /\ TypeOK /\ RequestsOK /\ UniqueUsers
    BY DEF IInv, RequestsOK
  <1>2. users' \in [UserIds -> User \cup {None}]
    BY <1>1, UsersStep
  <1>3. CASE UNCHANGED vars
    BY <1>1, <1>3 DEF vars, TypeOK
  <1>4. ASSUME NEW r \in Requests, Handle(r)
        PROVE  TypeOK'
    <2> USE <1>1, <1>2 DEF TypeOK
    <2>1. CASE BeginRegister(r)
      <3>1. PICK e \in Emails :
               Begin(r, [op |-> "register", org |-> None, email |-> e,
                         role |-> "owner", by |-> None], "insert_org")
        BY <2>1 DEF BeginRegister
      <3>2. [op |-> "register", org |-> None, email |-> e,
             role |-> "owner", by |-> None] \in Call
        BY DEF Call
      <3> QED
        BY <2>1, <3>1, <3>2 DEF BeginRegister, Begin, tables
    <2>2. CASE BeginLogin(r)
      <3>1. PICK op \in {"password_login", "external_login"}, o \in Orgs, e \in Emails :
               Begin(r, [op |-> op, org |-> o, email |-> e,
                         role |-> ProvisionedRole, by |-> None], "find")
        BY <2>2 DEF BeginLogin
      <3>2. [op |-> op, org |-> o, email |-> e,
             role |-> ProvisionedRole, by |-> None] \in Call
        BY DEF Call, ProvisionedRole
      <3> QED
        BY <2>2, <3>1, <3>2 DEF BeginLogin, Begin, tables
    <2>3. CASE BeginCreate(r)
      BY <2>3, CreateForm DEF BeginCreate, Begin, Answer, tables
    <2>4. CASE InsertOrg(r)
      <3>1. PICK o \in Orgs : call' = [call EXCEPT ![r].org = o] /\ orgs' = orgs \cup {o}
        BY <2>4 DEF InsertOrg
      <3>2. call[r] \in Call
        BY <2>4 DEF InsertOrg, RequestsOK, RequestOK
      <3>3. [call[r] EXCEPT !.org = o] \in Call
        BY <3>2 DEF Call
      <3> QED
        BY <2>4, <3>1, <3>3 DEF InsertOrg
    <2>5. CASE FindUser(r)
      <3>1. ASSUME NEW u \in UserIds, users[u] # None
            PROVE  [user |-> u, org |-> users[u].org, role |-> users[u].role] \in Identity
        BY <3>1 DEF User, Identity
      <3> QED
        BY <2>5, <3>1 DEF FindUser, Matching, Identify, Answer, tables
    <2>6. CASE InsertUser(r)
      <3>1. ASSUME NEW u \in UserIds, Inserted(r, u)
            PROVE  who'[r] \in Identity
        <4>1. /\ call[r] \in Call /\ call[r].org \in Orgs
              /\ who'[r] = [user |-> u, org |-> call[r].org, role |-> call[r].role]
          BY <3>1, InsertedRow DEF RequestsOK
        <4> QED
          BY <4>1 DEF Identity, Call
      <3>2. CASE Answer(r, "conflict")
        BY <2>6, <3>2 DEF InsertUser, Answer
      <3>3. ASSUME NEW u \in UserIds, Inserted(r, u)
            PROVE  TypeOK'
        <4>1. /\ who' = [who EXCEPT ![r] = who'[r]]
              /\ pc' = [pc EXCEPT ![r] = "audit"] /\ UNCHANGED <<call, reply>>
          BY <3>3 DEF Inserted, Identify
        <4> QED
          BY <2>6, <3>1, <3>3, <4>1 DEF InsertUser
      <3> QED
        BY <2>6, <3>2, <3>3 DEF InsertUser, Inserted
    <2>7. CASE Audit(r)
      <3>1. /\ who[r] \in Identity /\ call[r] \in Call
        BY <2>7 DEF Audit, RequestsOK, RequestOK, Truthful
      <3>2. [action |-> call[r].op, org |-> who[r].org, user |-> who[r].user] \in Entry
        BY <3>1 DEF Entry, Identity, Call
      <3> QED
        BY <2>7, <3>1, <3>2 DEF Audit, Answer
    <2>8. CASE Fail(r)
      BY <2>8 DEF Fail, Answer, tables
    <2> QED
      BY <1>4, <2>1, <2>2, <2>3, <2>4, <2>5, <2>6, <2>7, <2>8 DEF Handle
  <1> QED
    BY <1>3, <1>4 DEF Next

\* Every step keeps what the requests know.
LEMMA RequestStep == IInv /\ [Next]_vars => RequestsOK'
  <1> SUFFICES ASSUME IInv, [Next]_vars PROVE RequestsOK'
    OBVIOUS
  <1>1. TypeOK /\ RequestsOK /\ UniqueUsers /\ SessionsTruthful
    BY DEF IInv, RequestsOK
  <1>2. UsersKept
    BY <1>1, UsersStep
  <1>3. ASSUME NEW q \in Requests, pc'[q] = pc[q], call'[q] = call[q], who'[q] = who[q]
        PROVE  RequestOK(q)'
    <2>1. Truthful(who[q]) => Truthful(who[q])'
      BY <1>2, <1>3 DEF UsersKept, Truthful, Identity
    <2> QED
      BY <1>1, <1>2, <1>3, <2>1 DEF RequestsOK, RequestOK, UsersKept, Truthful
  <1>4. CASE UNCHANGED vars
    BY <1>3, <1>4 DEF vars, RequestsOK
  <1>5. ASSUME NEW r \in Requests, Handle(r)
        PROVE  RequestsOK'
    <2>1. \A q \in Requests \ {r} : RequestOK(q)'
      BY <1>1, <1>3, <1>5, LocalsFrame DEF OthersKept
    <2>2. RequestOK(r)
      BY <1>1 DEF RequestsOK
    <2>3. RequestOK(r)'
      <3>1. ASSUME \E answer : Answer(r, answer)
            PROVE  RequestOK(r)'
        BY <1>1, <3>1, AbsentAssumption DEF Answer, TypeOK, RequestOK
      <3>2. CASE BeginRegister(r)
        <4>1. PICK e \in Emails :
                 Begin(r, [op |-> "register", org |-> None, email |-> e,
                           role |-> "owner", by |-> None], "insert_org")
          BY <3>2 DEF BeginRegister
        <4>2. [op |-> "register", org |-> None, email |-> e,
               role |-> "owner", by |-> None] \in Call
          BY DEF Call
        <4> QED
          BY <1>1, <4>1, <4>2 DEF Begin, TypeOK, RequestOK
      <3>3. CASE BeginLogin(r)
        <4>1. PICK op \in {"password_login", "external_login"}, o \in Orgs, e \in Emails :
                 Begin(r, [op |-> op, org |-> o, email |-> e,
                           role |-> ProvisionedRole, by |-> None], "find")
          BY <3>3 DEF BeginLogin
        <4>2. [op |-> op, org |-> o, email |-> e,
               role |-> ProvisionedRole, by |-> None] \in Call
          BY DEF Call, ProvisionedRole
        <4> QED
          BY <1>1, <4>1, <4>2 DEF Begin, TypeOK, RequestOK, ProvisionedRole
      <3>4. CASE BeginCreate(r)
        <4>1. ASSUME NEW s \in sessions, NEW c \in Call, Privileged(s.role),
                     c.op = "create", c.org = s.org, c.by = s.user, c.org \in Orgs,
                     Begin(r, c, "insert_user")
              PROVE  RequestOK(r)'
          <5>1. /\ Truthful(s) /\ s.user \in UserIds
            BY <1>1 DEF SessionsTruthful, Truthful, Identity
          <5>2. /\ users'[s.user] = users[s.user] /\ users[s.user] # None
                /\ users[s.user].org = c.org /\ Privileged(users[s.user].role)
            BY <1>2, <4>1, <5>1 DEF Truthful, UsersKept
          <5>3. pc'[r] = "insert_user" /\ call'[r] = c
            BY <1>1, <4>1 DEF Begin, TypeOK
          <5> QED
            BY <4>1, <5>1, <5>2, <5>3 DEF RequestOK
        <4> QED
          BY <1>1, <3>1, <3>4, <4>1, CreateForm
      <3>5. CASE InsertOrg(r)
        <4>1. PICK o \in Orgs : call' = [call EXCEPT ![r].org = o]
          BY <3>5 DEF InsertOrg
        <4>2. pc[r] = "insert_org" /\ pc'[r] = "insert_user"
          BY <1>1, <3>5 DEF InsertOrg, TypeOK
        <4>3. call[r] \in Call /\ call[r].op = "register" /\ call[r].role = "owner"
          BY <2>2, <4>2, AbsentAssumption DEF RequestOK
        <4>4. call'[r] = [call[r] EXCEPT !.org = o]
          BY <1>1, <4>1 DEF TypeOK
        <4>5. /\ call'[r] \in Call /\ call'[r].op = "register"
              /\ call'[r].role = "owner" /\ call'[r].org = o
          BY <4>3, <4>4 DEF Call
        <4> QED
          BY <4>2, <4>5 DEF RequestOK
      <3>6. CASE FindUser(r)
        <4>1. ASSUME NEW u \in Matching(call[r].org, call[r].email),
                     Identify(r, u, users[u].org, users[u].role)
              PROVE  RequestOK(r)'
          <5>1. users[u] \in User /\ u \in UserIds /\ users[u].org = call[r].org
            BY <1>1 DEF Matching, TypeOK
          <5>2. /\ pc'[r] = "audit" /\ call'[r] = call[r]
                /\ who'[r] = [user |-> u, org |-> users[u].org, role |-> users[u].role]
            BY <1>1, <4>1 DEF Identify, TypeOK
          <5>3. users'[u] = users[u]
            BY <1>2, <5>1, AbsentAssumption DEF UsersKept
          <5>4. Truthful(who[r])'
            BY <5>1, <5>2, <5>3, AbsentAssumption DEF Truthful, Identity, User
          <5>5. call[r] \in Call /\ call[r].op \in {"password_login", "external_login"}
            BY <2>2, <3>6 DEF RequestOK, FindUser
          <5> QED
            BY <2>2, <5>1, <5>2, <5>4, <5>5 DEF RequestOK
        <4>2. CASE /\ call[r].op = "external_login" /\ pc[r] = "find"
                   /\ pc' = [pc EXCEPT ![r] = "insert_user"]
                   /\ UNCHANGED <<call, who, reply>>
          BY <1>1, <2>2, <4>2 DEF RequestOK, TypeOK
        <4> QED
          BY <3>1, <3>6, <4>1, <4>2 DEF FindUser
      <3>7. CASE InsertUser(r)
        <4>1. ASSUME NEW u \in UserIds, Inserted(r, u)
              PROVE  RequestOK(r)'
          <5>1. /\ users'[u] # None /\ users'[u].org = call[r].org
                /\ users'[u].role = call[r].role
                /\ call[r] \in Call /\ call[r].org \in Orgs
                /\ who'[r] = [user |-> u, org |-> call[r].org, role |-> call[r].role]
                /\ pc'[r] = "audit" /\ call'[r] = call[r]
            BY <1>1, <2>2, <4>1, InsertedRow
          <5>2. Truthful(who[r])'
            BY <5>1 DEF Truthful, Identity, Call
          <5>3. /\ pc[r] = "insert_user" /\ call[r] # None
                /\ call[r].op = "register" => call[r].role = "owner"
                /\ call[r].op \in {"password_login", "external_login"} =>
                      call[r].role = "member"
            BY <2>2, <4>1, <5>1, AbsentAssumption DEF RequestOK, Inserted
          <5>4. who'[r].org = call'[r].org /\ who'[r].role = call'[r].role
            BY <5>1
          <5> QED
            BY <5>1, <5>2, <5>3, <5>4 DEF RequestOK
        <4> QED
          BY <3>1, <3>7, <4>1 DEF InsertUser, Inserted
      <3>8. CASE Audit(r) \/ Fail(r)
        BY <3>1, <3>8 DEF Audit, Fail
      <3> QED
        BY <1>5, <3>2, <3>3, <3>4, <3>5, <3>6, <3>7, <3>8 DEF Handle
    <2> QED
      BY <2>1, <2>3 DEF RequestsOK
  <1> QED
    BY <1>4, <1>5 DEF Next

\* Sessions and entries are made from the identity a request has established.
LEMMA IssueStep == IInv /\ [Next]_vars => SessionsTruthful' /\ AuditTruthful'
  <1> SUFFICES ASSUME IInv, [Next]_vars PROVE SessionsTruthful' /\ AuditTruthful'
    OBVIOUS
  <1>1. TypeOK /\ RequestsOK /\ UniqueUsers /\ SessionsTruthful /\ AuditTruthful
    BY DEF IInv, RequestsOK
  <1>2. UsersKept
    BY <1>1, UsersStep
  <1>3. CASE UNCHANGED <<sessions, audit_log>>
    <2>1. SessionsTruthful'
      BY <1>1, <1>2, <1>3, TruthKept DEF SessionsTruthful
    <2>2. \A e \in audit_log : e.user \in UserIds
      BY <1>1 DEF TypeOK, Entry
    <2>3. AuditTruthful'
      BY <1>1, <1>2, <1>3, <2>2 DEF AuditTruthful, UsersKept
    <2> QED
      BY <2>1, <2>3
  <1>4. ASSUME NEW r \in Requests, Audit(r)
        PROVE  SessionsTruthful' /\ AuditTruthful'
    <2>1. /\ users' = users /\ sessions' \subseteq sessions \cup {who[r]}
          /\ audit_log' \subseteq audit_log \cup
                {[action |-> call[r].op, org |-> who[r].org, user |-> who[r].user]}
          /\ Truthful(who[r])
          /\ call[r].op = "register" => who[r].role = "owner"
      BY <1>1, <1>4 DEF Audit, RequestsOK, RequestOK
    <2>2. SessionsTruthful'
      BY <1>1, <2>1 DEF SessionsTruthful, Truthful
    <2>3. AuditTruthful'
      BY <1>1, <2>1 DEF AuditTruthful, Truthful
    <2> QED
      BY <2>2, <2>3
  <1>5. ASSUME NEW r \in Requests, Handle(r), ~Audit(r)
        PROVE  UNCHANGED <<sessions, audit_log>>
    BY <1>5 DEF Handle, BeginRegister, BeginCreate, BeginLogin, InsertOrg, FindUser,
       InsertUser, Fail, tables
  <1> QED
    BY <1>3, <1>4, <1>5 DEF Next, vars

\* The invariant holds of every behavior.
THEOREM Invariance == Spec => []IInv
  <1>1. IInv /\ [Next]_vars => IInv'
    <2> SUFFICES ASSUME IInv, [Next]_vars PROVE IInv'
      OBVIOUS
    <2>1. TypeOK' /\ RequestsOK' /\ SessionsTruthful' /\ AuditTruthful'
      BY TypeStep, RequestStep, IssueStep
    <2>2. UniqueUsers'
      BY UsersStep DEF IInv, RequestsOK
    <2> QED
      BY <2>1, <2>2 DEF IInv, RequestsOK
  <1> QED
    BY <1>1, InvInit, PTL DEF Spec

\* Every variable keeps its type.
THEOREM TypeCorrect == Spec => []TypeOK
  <1>1. IInv => TypeOK
    BY DEF IInv
  <1> QED
    BY <1>1, Invariance, PTL

\* An address is one user of an organization, whatever inserts race.
THEOREM Uniqueness == Spec => []UniqueUsers
  <1>1. IInv => UniqueUsers
    BY DEF IInv
  <1> QED
    BY <1>1, Invariance, PTL

\* What a session token says of its user is what the table says.
THEOREM TruthfulSessions == Spec => []SessionsTruthful
  <1>1. IInv => SessionsTruthful
    BY DEF IInv
  <1> QED
    BY <1>1, Invariance, PTL

\* An entry names a user of its organization, a "register" entry an owner.
THEOREM AuditTruth == Spec => []AuditTruthful
  <1>1. IInv => AuditTruthful
    BY DEF IInv
  <1> QED
    BY <1>1, Invariance, PTL

\* Where a user with more than a member's role comes from.
LEMMA PrivilegeStep ==
  ASSUME IInv, [Next]_vars, NEW u \in UserIds, Appears(u), Privileged(users'[u].role)
  PROVE  \E r \in Requests :
            /\ pc[r] = "insert_user" /\ pc'[r] # "insert_user"
            /\ call[r].org = users'[u].org
            /\ \/ call[r].op = "register"
               \/ \E v \in UserIds : /\ call[r].by = v /\ users[v] # None
                                     /\ users[v].org = users'[u].org
                                     /\ Privileged(users[v].role)
  <1>1. PICK r \in Requests : Handle(r)
    BY DEF Next, vars, Appears
  <1>2. TypeOK /\ RequestOK(r)
    BY DEF IInv
  <1>3. PICK w \in UserIds : Inserted(r, w)
    BY <1>1, UsersChange DEF Appears
  <1>4. /\ users'[w].org = call[r].org /\ users'[w].role = call[r].role
        /\ \A v \in UserIds \ {w} : users'[v] = users[v]
        /\ call[r] \in Call /\ pc'[r] = "audit" /\ pc[r] = "insert_user"
    BY <1>2, <1>3, InsertedRow DEF Inserted
  <1>5. u = w
    BY <1>4 DEF Appears
  <1>6. call[r].op \in {"register", "create"}
    BY <1>2, <1>4, <1>5, AbsentAssumption DEF RequestOK, Privileged, Call
  <1>7. call[r].op = "create" =>
          \E v \in UserIds : /\ call[r].by = v /\ users[v] # None
                             /\ users[v].org = call[r].org
                             /\ Privileged(users[v].role)
    BY <1>2, <1>4 DEF RequestOK
  <1> QED
    BY <1>4, <1>5, <1>6, <1>7

\* More than a member's role comes from a registration, or from a user of the
\* same organization that has more.
THEOREM Privilege == Spec => PrivilegeGranted
  <1>1. IInv /\ [Next]_vars =>
          \A u \in UserIds : Appears(u) /\ Privileged(users'[u].role) =>
             \E r \in Requests :
                /\ pc[r] = "insert_user" /\ pc'[r] # "insert_user"
                /\ call[r].org = users'[u].org
                /\ \/ call[r].op = "register"
                   \/ \E v \in UserIds : /\ call[r].by = v /\ users[v] # None
                                         /\ users[v].org = users'[u].org
                                         /\ Privileged(users[v].role)
    BY PrivilegeStep
  <1> QED
    BY <1>1, Invariance, PTL DEF Spec, PrivilegeGranted

\* An organization left without owner and admin stays so.
THEOREM Headlessness == Spec => HeadlessForever
  <1>1. ASSUME IInv, [Next]_vars, NEW o \in Orgs, Headless(o)
        PROVE  Headless(o)'
    <2>1. o \in orgs'
      BY <1>1 DEF Headless, Next, vars, Handle, BeginRegister, BeginCreate, BeginLogin,
         InsertOrg, FindUser, InsertUser, Audit, Fail, tables
    <2>2. ASSUME NEW u \in UserIds, users'[u] # None, users'[u].org = o,
                 Privileged(users'[u].role)
          PROVE  FALSE
      <3>1. UsersKept
        BY <1>1, UsersStep DEF IInv, RequestsOK
      <3>2. users[u] = None
        BY <1>1, <2>2, <3>1 DEF UsersKept, Headless
      <3> QED
        BY <1>1, <2>2, <3>2, PrivilegeStep DEF Appears, Headless
    <2>3. ASSUME NEW r \in Requests, pc'[r] = "insert_user", call'[r].op = "register",
                 call'[r].org = o
          PROVE  FALSE
      <3>1. TypeOK /\ RequestOK(r)
        BY <1>1 DEF IInv
      <3>2. ~(pc'[r] = pc[r] /\ call'[r] = call[r])
        BY <1>1, <2>3 DEF Headless
      <3>3. Handle(r)
        BY <1>1, <3>1, <3>2, LocalsFrame DEF Next, vars, OthersKept
      <3>4. ~InsertOrg(r)
        BY <1>1, <2>3, <3>1 DEF InsertOrg, FreshOrg, Headless, TypeOK, RequestOK, Call
      <3>5. ~FindUser(r)
        BY <2>3, <3>1 DEF FindUser, Identify, Answer, TypeOK, RequestOK
      <3>6. ~BeginCreate(r)
        BY <2>3, <3>1, CreateForm DEF Begin, Answer, TypeOK
      <3>7. ~(BeginRegister(r) \/ BeginLogin(r))
        BY <2>3, <3>1 DEF BeginRegister, BeginLogin, Begin, TypeOK
      <3>8. ~(InsertUser(r) \/ Audit(r) \/ Fail(r))
        BY <2>3, <3>1 DEF InsertUser, Audit, Fail, Identify, Answer, TypeOK
      <3> QED
        BY <3>3, <3>4, <3>5, <3>6, <3>7, <3>8 DEF Handle
    <2> QED
      BY <2>1, <2>2, <2>3 DEF Headless
  <1>2. IInv /\ [Next]_vars => \A o \in Orgs : Headless(o) => Headless(o)'
    BY <1>1
  <1> QED
    BY <1>2, Invariance, PTL DEF Spec, HeadlessForever
=============================================================================
