---------------------------- MODULE ApiKeysProofs ----------------------------
(***************************************************************************)
(* Theorems about ApiKeys for every number of requests, organizations and  *)
(* keys, and every page limit.                                             *)
(***************************************************************************)
EXTENDS ApiKeys, FiniteSetTheorems, SequenceTheorems, WellFoundedInduction, TLAPS

USE DEF Scopes

\* The invariant holds before the first request.
LEMMA InvInit == Init => IInv
  BY DEF Init, IInv, TypeOK, RouteOK, UseOK

-----------------------------------------------------------------------------
(* What a step leaves alone.                                               *)

\* No row disappears, changes organization, scope or age, or is un-revoked.
KeysKept ==
    \A k \in Keys : keys[k] # None =>
        /\ keys'[k] # None
        /\ keys'[k].org = keys[k].org
        /\ keys'[k].scope = keys[k].scope
        /\ keys'[k].created_at = keys[k].created_at
        /\ keys[k].revoked => keys'[k].revoked

OthersKept(r) ==
    \A q \in Requests \ {r} :
        pc'[q] = pc[q] /\ call'[q] = call[q] /\ seen'[q] = seen[q]

\* Begin in one form, for the proofs: what it stores and where it goes.
Began(r) == \E c \in Call, step \in {"insert", "list", "find"} : Begin(r, c, step)

\* Every arriving request stores a well-formed call.
LEMMA BeginForm ==
  ASSUME NEW r \in Requests, BeginCreate(r) \/ BeginRevoke(r) \/ BeginUse(r)
  PROVE  Began(r)
  <1>1. CASE BeginCreate(r)
    BY <1>1, KeysAssumption DEF BeginCreate, Began, Call
  <1>2. CASE BeginRevoke(r)
    BY <1>2 DEF BeginRevoke, Began, Call
  <1>3. CASE BeginUse(r)
    <2>1. PICK k \in Keys, need \in {"validate", "manage"}, genuine \in BOOLEAN :
             Begin(r, [org |-> None, scope |-> None, key |-> k, op |-> need,
                       genuine |-> genuine, dead |-> Revoked(k)], "find")
      BY <1>3 DEF BeginUse
    <2>2. Revoked(k) \in BOOLEAN
      BY DEF Revoked
    <2>3. [org |-> None, scope |-> None, key |-> k, op |-> need,
           genuine |-> genuine, dead |-> Revoked(k)] \in Call
      BY <2>2 DEF Call
    <2> QED
      BY <2>1, <2>3 DEF Began
  <1> QED
    BY <1>1, <1>2, <1>3

\* A request's locals are its own.
LEMMA LocalsFrame ==
  ASSUME TypeOK, NEW r \in Requests, Handle(r)
  PROVE  OthersKept(r)
  <1> USE DEF TypeOK, OthersKept, Answer, Goto
  <1>1. CASE Began(r)
    BY <1>1 DEF Began, Begin
  <1>2. CASE Insert(r) \/ ListKeys(r) \/ RevokeKey(r) \/ Audit(r)
    BY <1>2 DEF Insert, ListKeys, RevokeKey, Audit
  <1>3. CASE FindByPrefix(r) \/ TouchLastUsed(r) \/ Fail(r)
    BY <1>3 DEF FindByPrefix, TouchLastUsed, Conclude, Fail
  <1> QED
    BY <1>1, <1>2, <1>3, BeginForm DEF Handle

\* Three calls write the table.
LEMMA KeysFrame ==
  ASSUME NEW r \in Requests, Handle(r)
  PROVE  Insert(r) \/ RevokeKey(r) \/ TouchLastUsed(r) \/ UNCHANGED keys
  BY BeginForm DEF Handle, Began, Begin, ListKeys, Audit, FindByPrefix, Fail

\* Keys are finitely many, so their number is a time stamp for the next.
LEMMA ExistingCount == Cardinality(Existing) \in Nat
  BY KeysAssumption, FS_Subset, FS_CardinalityType DEF Existing

\* What each of them may do to a row.
LEMMA RowsFrame ==
  ASSUME IInv, [Next]_vars
  PROVE  /\ keys' \in [Keys -> Row \cup {None}]
         /\ KeysKept
  <1> USE DEF IInv
  <1>1. ASSUME NEW r \in Requests, Insert(r)
        PROVE  keys' \in [Keys -> Row \cup {None}] /\ KeysKept
    <2>1. PICK k \in Keys \ Existing :
             keys' = [keys EXCEPT ![k] =
                 [org |-> call[r].org, scope |-> call[r].scope,
                  created_at |-> Cardinality(Existing),
                  last_used |-> FALSE, revoked |-> FALSE]]
      BY <1>1 DEF Insert
    <2>2. Cardinality(Existing) \in Nat
      BY ExistingCount
    <2>3. [org |-> call[r].org, scope |-> call[r].scope,
           created_at |-> Cardinality(Existing),
           last_used |-> FALSE, revoked |-> FALSE] \in Row
      BY <1>1, <2>2 DEF Insert, RouteOK, Row
    <2>4. keys[k] = None
      BY <2>1 DEF Existing
    <2> QED
      BY <2>1, <2>3, <2>4 DEF TypeOK, KeysKept
  \* Both other calls write one field of an existing row.
  <1>2. ASSUME NEW r \in Requests, RevokeKey(r) \/ TouchLastUsed(r)
        PROVE  keys' \in [Keys -> Row \cup {None}] /\ KeysKept
    <2> DEFINE k == call[r].key
    <2>1. k \in Keys /\ keys[k] # None
      BY <1>2 DEF RevokeKey, TouchLastUsed, RouteOK, UseOK
    <2>2. keys[k] \in Row
      BY <2>1 DEF TypeOK
    <2>3. \/ keys' = keys
          \/ keys' = [keys EXCEPT ![k] = [keys[k] EXCEPT !.revoked = TRUE]]
          \/ keys' = [keys EXCEPT ![k] = [keys[k] EXCEPT !.last_used = TRUE]]
      BY <1>2 DEF RevokeKey, TouchLastUsed
    <2> HIDE DEF k
    <2>4. /\ [keys[k] EXCEPT !.revoked = TRUE] \in Row
          /\ [keys[k] EXCEPT !.last_used = TRUE] \in Row
      BY <2>2 DEF Row
    <2>5. keys' \in [Keys -> Row \cup {None}]
      BY <2>1, <2>3, <2>4 DEF TypeOK
    <2>6. \A j \in Keys \ {k} : keys'[j] = keys[j]
      BY <2>1, <2>3 DEF TypeOK
    <2>7. \/ keys'[k] = keys[k]
          \/ keys'[k] = [keys[k] EXCEPT !.revoked = TRUE]
          \/ keys'[k] = [keys[k] EXCEPT !.last_used = TRUE]
      BY <2>1, <2>3 DEF TypeOK
    <2>8. /\ keys'[k] \in Row
          /\ keys'[k].org = keys[k].org
          /\ keys'[k].scope = keys[k].scope
          /\ keys'[k].created_at = keys[k].created_at
          /\ keys[k].revoked => keys'[k].revoked
      BY <2>2, <2>4, <2>7 DEF Row
    <2> QED
      BY <2>5, <2>6, <2>8, AbsentAssumption DEF KeysKept
  <1>3. CASE UNCHANGED keys
    BY <1>3 DEF TypeOK, KeysKept
  <1> QED
    BY <1>1, <1>2, <1>3, KeysFrame DEF Next, vars

-----------------------------------------------------------------------------
(* The invariant.                                                          *)

\* Every step keeps the types.
LEMMA TypeStep == IInv /\ [Next]_vars => TypeOK'
  <1> SUFFICES ASSUME IInv, [Next]_vars PROVE TypeOK'
    OBVIOUS
  <1> USE DEF IInv
  <1>1. keys' \in [Keys -> Row \cup {None}]
    BY RowsFrame
  <1>2. CASE UNCHANGED vars
    BY <1>2 DEF vars, TypeOK
  <1>3. ASSUME NEW r \in Requests, Handle(r)
        PROVE  TypeOK'
    <2> USE DEF TypeOK
    <2>1. CASE Began(r)
      BY <2>1 DEF Began, Begin
    <2>2. CASE Insert(r)
      <3>1. PICK k \in Keys : call' = [call EXCEPT ![r].key = k]
        BY <2>2 DEF Insert
      <3>2. call[r] \in Call
        BY <2>2 DEF Insert, RouteOK
      <3>3. [call[r] EXCEPT !.key = k] \in Call
        BY <3>2 DEF Call
      <3> QED
        BY <1>1, <2>2, <3>1, <3>3 DEF Insert, Goto
    <2>3. CASE ListKeys(r) \/ RevokeKey(r) \/ Fail(r)
      BY <1>1, <2>3 DEF ListKeys, RevokeKey, Fail, Answer, Goto
    <2>4. CASE Audit(r)
      <3>1. audit_log' \subseteq Entry
        BY <2>4 DEF Audit, Entry, RouteOK
      <3> QED
        BY <1>1, <2>4, <3>1 DEF Audit, Answer
    <2>5. CASE FindByPrefix(r)
      BY <1>1, <2>5 DEF FindByPrefix, Answer, UseOK
    <2>6. CASE TouchLastUsed(r)
      BY <1>1, <2>6 DEF TouchLastUsed, Conclude, Answer
    <2> QED
      BY <1>3, <2>1, <2>2, <2>3, <2>4, <2>5, <2>6, BeginForm DEF Handle
  <1> QED
    BY <1>2, <1>3 DEF Next

\* Every step keeps what the requests know of the table.
LEMMA RequestStep ==
  IInv /\ [Next]_vars => \A r \in Requests : (RouteOK(r) /\ UseOK(r))'
  <1> SUFFICES ASSUME IInv, [Next]_vars
               PROVE  \A r \in Requests : (RouteOK(r) /\ UseOK(r))'
    OBVIOUS
  <1> USE DEF IInv, RouteOK, UseOK
  <1>1. KeysKept
    BY RowsFrame
  <1>2. ASSUME NEW q \in Requests, pc'[q] = pc[q], call'[q] = call[q], seen'[q] = seen[q]
        PROVE  (RouteOK(q) /\ UseOK(q))'
    BY <1>1, <1>2 DEF KeysKept, Revoked
  <1>3. CASE UNCHANGED vars
    BY <1>2, <1>3 DEF vars
  <1>4. ASSUME NEW r \in Requests, Handle(r)
        PROVE  \A q \in Requests : (RouteOK(q) /\ UseOK(q))'
    <2>1. \A q \in Requests \ {r} : (RouteOK(q) /\ UseOK(q))'
      BY <1>2, <1>4, LocalsFrame DEF OthersKept, IInv
    <2>2. (RouteOK(r) /\ UseOK(r))'
      <3> USE DEF TypeOK
      <3>1. CASE BeginCreate(r) \/ BeginRevoke(r)
        <4>1. Began(r)
          BY <3>1, BeginForm
        <4>2. call'[r] \in Call
          BY <4>1 DEF Began, Begin
        <4>3. CASE BeginCreate(r)
          BY <4>2, <4>3, KeysAssumption DEF BeginCreate, Begin
        <4>4. CASE BeginRevoke(r)
          BY <4>2, <4>4 DEF BeginRevoke, Begin
        <4> QED
          BY <3>1, <4>3, <4>4
      <3>2. CASE BeginUse(r)
        <4>1. Began(r)
          BY <3>2, BeginForm
        <4>2. call'[r] \in Call /\ keys' = keys
          BY <4>1 DEF Began, Begin
        <4>3. /\ pc'[r] = "find" /\ call'[r].key \in Keys
              /\ call'[r].dead => Revoked(call'[r].key)
          BY <3>2 DEF BeginUse, Begin
        <4> QED
          BY <4>2, <4>3 DEF Revoked
      <3>3. CASE Insert(r)
        <4>1. PICK k \in Keys :
                 /\ keys' = [keys EXCEPT ![k] =
                       [org |-> call[r].org, scope |-> call[r].scope,
                        created_at |-> Cardinality(Existing),
                        last_used |-> FALSE, revoked |-> FALSE]]
                 /\ call' = [call EXCEPT ![r].key = k]
          BY <3>3 DEF Insert
        <4>2. call[r] \in Call /\ call[r].op = "create" /\ call[r].org \in Orgs
          BY <3>3 DEF Insert
        <4>3. call'[r] = [call[r] EXCEPT !.key = k]
          BY <4>1, <4>2
        <4>4. /\ call'[r] \in Call /\ call'[r].key = k /\ call'[r].op = "create"
              /\ call'[r].org = call[r].org
          BY <4>2, <4>3 DEF Call
        <4>5. keys'[k] # None /\ keys'[k].org = call[r].org
          <5>1. /\ keys'[k] = [org |-> call[r].org, scope |-> call[r].scope,
                               created_at |-> Cardinality(Existing),
                               last_used |-> FALSE, revoked |-> FALSE]
                /\ call[r].scope \in Scopes
            BY <3>3, <4>1 DEF Insert
          <5>2. Cardinality(Existing) \in Nat
            BY ExistingCount
          <5>3. keys'[k] \in Row
            BY <4>2, <5>1, <5>2 DEF Row
          <5>4. keys'[k] # None
            BY <5>3, AbsentAssumption DEF Row
          <5>5. keys'[k].org = call[r].org
            BY <5>1
          <5> QED
            BY <5>4, <5>5
        <4>6. pc'[r] = "audit"
          BY <3>3 DEF Insert, Goto
        <4> QED
          BY <4>2, <4>4, <4>5, <4>6
      <3>4. CASE ListKeys(r)
        BY <3>4 DEF ListKeys, Page, Existing, Answer, Goto
      <3>5. CASE RevokeKey(r)
        <4>1. /\ pc'[r] = "audit" /\ call'[r] = call[r] /\ pc[r] = "set"
              /\ keys' = [keys EXCEPT ![call[r].key].revoked = TRUE]
          BY <3>5 DEF RevokeKey, Goto
        <4>2. keys[call[r].key] \in Row /\ call[r].key \in Keys
          BY <4>1
        <4>3. keys'[call[r].key].revoked
          BY <4>1, <4>2 DEF Row
        <4> QED
          BY <1>1, <4>1, <4>2, <4>3 DEF KeysKept
      <3>6. CASE Audit(r) \/ Fail(r)
        BY <3>6 DEF Audit, Fail, Answer
      <3>7. CASE FindByPrefix(r)
        BY <3>7 DEF FindByPrefix, Answer, Revoked
      <3>8. CASE TouchLastUsed(r)
        BY <3>8 DEF TouchLastUsed, Conclude, Answer
      <3> QED
        BY <1>4, <3>1, <3>2, <3>3, <3>4, <3>5, <3>6, <3>7, <3>8 DEF Handle
    <2> QED
      BY <2>1, <2>2
  <1> QED
    BY <1>3, <1>4 DEF Next

\* The invariant holds of every behavior.
THEOREM Invariance == Spec => []IInv
  <1>1. IInv /\ [Next]_vars => IInv'
    BY TypeStep, RequestStep DEF IInv
  <1> QED
    BY <1>1, InvInit, PTL DEF Spec

\* Every variable keeps its type.
THEOREM TypeCorrect == Spec => []TypeOK
  <1>1. IInv => TypeOK
    BY DEF IInv
  <1> QED
    BY <1>1, Invariance, PTL

\* Only a request that has touched its key is accepted.
LEMMA Acceptance ==
  ASSUME TypeOK, [Next]_vars, NEW r \in Requests, Accepted(r)
  PROVE  TouchLastUsed(r)
  <1>1. pc[r] # "idle" /\ pc'[r] = "idle" /\ reply'[r] = "accepted"
    BY DEF Accepted
  <1>2. Handle(r)
    BY <1>1, LocalsFrame DEF Next, vars, OthersKept
  <1>3. ~Began(r)
    BY <1>1 DEF Began, Begin
  <1>4. ~(Insert(r) \/ ListKeys(r) \/ RevokeKey(r) \/ Audit(r))
    BY <1>1 DEF Insert, ListKeys, RevokeKey, Audit, Goto, Answer, TypeOK
  <1>5. ~(FindByPrefix(r) \/ Fail(r))
    BY <1>1 DEF FindByPrefix, Fail, Answer, TypeOK
  <1> QED
    BY <1>2, <1>3, <1>4, <1>5, BeginForm DEF Handle

\* A use of a key that arrives after the key was revoked is never accepted.
THEOREM RevokedRefused == Spec => RevokedKeyRefused
  <1>1. IInv /\ [Next]_vars => \A r \in Requests : Accepted(r) => ~call[r].dead
    BY Acceptance DEF IInv, TouchLastUsed, UseOK
  <1> QED
    BY <1>1, Invariance, PTL DEF Spec, RevokedKeyRefused

\* Whoever is let in by a key holds its secret and has the scope for it.
THEOREM Entitlement == Spec => AcceptedIsEntitled
  <1>1. ASSUME IInv, [Next]_vars, NEW r \in Requests, Accepted(r)
        PROVE  /\ call[r].genuine
               /\ keys[call[r].key] # None
               /\ call[r].op = "manage" =>
                     keys[call[r].key].scope \in {"admin", "license_manager"}
    <2>1. TouchLastUsed(r) /\ UseOK(r) /\ TypeOK /\ reply'[r] = "accepted"
      BY <1>1, Acceptance DEF IInv, Accepted
    <2>2. pc[r] = "touch" /\ Conclude(r)
      BY <2>1 DEF TouchLastUsed
    <2>3. call[r].op = "manage" => MayManage(seen[r])
      BY <2>1, <2>2 DEF Conclude, Answer, TypeOK
    <2> QED
      BY <2>1, <2>2, <2>3 DEF UseOK, MayManage
  <1>2. IInv /\ [Next]_vars =>
          \A r \in Requests : Accepted(r) =>
             /\ call[r].genuine
             /\ keys[call[r].key] # None
             /\ call[r].op = "manage" =>
                   keys[call[r].key].scope \in {"admin", "license_manager"}
    BY <1>1
  <1> QED
    BY <1>2, Invariance, PTL DEF Spec, AcceptedIsEntitled

\* A key becomes revoked by a request that found it on a page of its owner.
LEMMA RevokedBy ==
  ASSUME IInv, [Next]_vars, NEW k \in Keys, ~Revoked(k), Revoked(k)'
  PROVE  \E r \in Requests : /\ pc[r] = "set" /\ pc'[r] # "set"
                             /\ call[r].key = k
                             /\ call[r].org = keys[k].org
  <1>1. TypeOK
    BY DEF IInv
  <1>2. PICK r \in Requests : Handle(r)
    BY DEF Next, vars, Revoked
  <1>3. RouteOK(r) /\ UseOK(r)
    BY DEF IInv
  <1>4. CASE RevokeKey(r)
    <2>1. pc[r] = "set" /\ pc'[r] = "audit" /\ call[r].key = k
      BY <1>1, <1>4 DEF RevokeKey, Goto, TypeOK, Revoked
    <2> QED
      BY <1>3, <2>1 DEF RouteOK
  <1>5. ~Insert(r)
    BY <1>1 DEF Insert, Revoked, TypeOK
  <1>6. ~TouchLastUsed(r)
    <2>1. SUFFICES ASSUME TouchLastUsed(r), keys' # keys PROVE FALSE
      BY DEF Revoked
    <2>2. call[r].key \in Keys /\ keys[call[r].key] \in Row
      BY <1>1, <1>3, <2>1 DEF TouchLastUsed, UseOK, TypeOK
    <2>3. keys' = [keys EXCEPT ![call[r].key] = [@ EXCEPT !.last_used = TRUE]]
      BY <2>1 DEF TouchLastUsed
    <2>4. keys'[k] = keys[k] \/ (k = call[r].key /\
                                  keys'[k] = [keys[k] EXCEPT !.last_used = TRUE])
      BY <1>1, <2>2, <2>3 DEF TypeOK
    <2> QED
      BY <2>2, <2>4, AbsentAssumption DEF Revoked, Row
  <1> QED
    BY <1>2, <1>4, <1>5, <1>6, KeysFrame DEF Revoked

\* A key is revoked only by a request of the organization that owns it.
THEOREM OwnersRevoke == Spec => OwnerRevokesOnly
  <1>1. IInv /\ [Next]_vars =>
          \A k \in Keys : ~Revoked(k) /\ Revoked(k)' =>
             \E r \in Requests : /\ pc[r] = "set" /\ pc'[r] # "set"
                                 /\ call[r].key = k
                                 /\ call[r].org = keys[k].org
    BY RevokedBy
  <1> QED
    BY <1>1, Invariance, PTL DEF Spec, OwnerRevokesOnly

\* A page holds keys of its organization that fewer than PageLimit younger
\* ones of it precede, and those only become more.
LEMMA PagesMove ==
  ASSUME IInv, [Next]_vars, NEW k \in Keys, keys[k] # None, k \notin Page(keys[k].org)
  PROVE  k \notin Page(keys[k].org)'
  <1>1. KeysKept /\ keys \in [Keys -> Row \cup {None}]
    BY RowsFrame DEF IInv, TypeOK
  <1>2. Newer(k) \subseteq Newer(k)'
    <2> SUFFICES ASSUME NEW j \in Newer(k) PROVE j \in Newer(k)'
      OBVIOUS
    <2>1. /\ j \in Keys /\ keys[j] # None /\ keys[j].org = keys[k].org
          /\ keys[j].created_at > keys[k].created_at
      BY DEF Newer, Existing
    <2>2. /\ keys'[j] # None /\ keys'[j].org = keys[j].org
          /\ keys'[j].created_at = keys[j].created_at
          /\ keys'[k].org = keys[k].org /\ keys'[k].created_at = keys[k].created_at
      BY <1>1, <2>1 DEF KeysKept
    <2> QED
      BY <2>1, <2>2 DEF Newer, Existing
  <1>3. /\ IsFiniteSet(Newer(k)') /\ Cardinality(Newer(k)') \in Nat
        /\ Cardinality(Newer(k)) \in Nat /\ Cardinality(Newer(k)) <= Cardinality(Newer(k)')
    <2>1. Newer(k)' \subseteq Keys
      BY DEF Newer, Existing
    <2>2. IsFiniteSet(Newer(k)')
      BY <2>1, KeysAssumption, FS_Subset
    <2> HIDE DEF Newer
    <2> QED
      BY <1>2, <2>2, FS_Subset, FS_CardinalityType
  <1>4. Cardinality(Newer(k)) >= PageLimit
    BY <1>3, KeysAssumption DEF Page, Existing
  <1> QED
    BY <1>3, <1>4, KeysAssumption DEF Page

\* A live key with PageLimit younger ones can never be revoked, unless a
\* request found it before (api_keys.rs:54).
THEOREM IrrevocableKeys == Spec => IrrevocableForever
  <1>1. ASSUME IInv, [Next]_vars, NEW k \in Keys, Unreachable(k)
        PROVE  Unreachable(k)'
    <2>1. /\ keys[k] # None /\ ~keys[k].revoked /\ k \notin Page(keys[k].org)
          /\ \A r \in Requests : ~(pc[r] = "set" /\ call[r].key = k)
      BY <1>1 DEF Unreachable
    <2>2. keys'[k] # None /\ keys'[k].org = keys[k].org
      BY <1>1, <2>1, RowsFrame DEF KeysKept
    <2>3. ~keys'[k].revoked
      BY <1>1, <2>1, <2>2, RevokedBy DEF Revoked
    <2>4. k \notin Page(keys[k].org)'
      BY <1>1, <2>1, PagesMove
    <2>5. ASSUME NEW r \in Requests, pc'[r] = "set", call'[r].key = k
          PROVE  FALSE
      <3>1. TypeOK /\ ~(pc[r] = "set" /\ call[r].key = k)
        BY <1>1, <2>1 DEF IInv
      <3>2. Handle(r)
        BY <1>1, <2>5, <3>1, LocalsFrame DEF Next, vars, OthersKept
      <3>3. ListKeys(r)
        BY <2>5, <3>1, <3>2, BeginForm DEF Handle, Began, Begin, Insert, RevokeKey, Audit,
           FindByPrefix, TouchLastUsed, Conclude, Fail, Goto, Answer, TypeOK
      <3>4. k \in Page(call[r].org)
        BY <2>5, <3>1, <3>3 DEF ListKeys, Goto, Answer, TypeOK
      <3> QED
        BY <2>1, <3>4 DEF Page
    <2> QED
      BY <2>2, <2>3, <2>4, <2>5 DEF Unreachable
  <1>2. IInv /\ [Next]_vars => \A k \in Keys : Unreachable(k) => Unreachable(k)'
    BY <1>1
  <1> QED
    BY <1>2, Invariance, PTL DEF Spec, IrrevocableForever

\* Every audit entry is filed under the owner of the key it names, and a
\* "revoke" entry names a revoked key.
THEOREM AuditTruth == Spec => []AuditTruthful
  <1>1. Init => AuditTruthful
    BY DEF Init, AuditTruthful
  <1>2. ASSUME IInv, AuditTruthful, [Next]_vars
        PROVE  AuditTruthful'
    <2>1. KeysKept /\ \A e \in audit_log : e.key \in Keys
      BY <1>2, RowsFrame DEF IInv, TypeOK, Entry
    <2>2. CASE UNCHANGED audit_log
      BY <1>2, <2>1, <2>2 DEF AuditTruthful, KeysKept
    <2>3. ASSUME NEW r \in Requests, Audit(r)
          PROVE  AuditTruthful'
      <3>1. /\ pc[r] = "audit" /\ RouteOK(r) /\ keys' = keys
            /\ audit_log' \subseteq audit_log \cup
                  {[action |-> call[r].op, org |-> call[r].org, key |-> call[r].key]}
        BY <1>2, <2>3 DEF Audit, IInv
      <3> QED
        BY <1>2, <3>1 DEF AuditTruthful, RouteOK
    <2>4. ASSUME NEW r \in Requests, Handle(r), ~Audit(r)
          PROVE  UNCHANGED audit_log
      BY <2>4, BeginForm DEF Handle, Began, Begin, Insert, ListKeys, RevokeKey,
         FindByPrefix, TouchLastUsed, Fail
    <2> QED
      BY <1>2, <2>2, <2>3, <2>4 DEF Next, vars
  <1> QED
    BY <1>1, <1>2, Invariance, PTL DEF Spec

-----------------------------------------------------------------------------
(* The texts of keys.                                                      *)

\* A set of letters for all the texts there are.
Letters == STRING \cup {Underscore, "thm"}

\* text is s and then t, letter by letter.
Joins(text, s, t) ==
    /\ text \in Seq(Letters) /\ Len(text) = Len(s) + Len(t)
    /\ Len(s) \in Nat /\ Len(t) \in Nat
    /\ \A i \in 1 .. Len(s) : text[i] = s[i]
    /\ \A i \in 1 .. Len(t) : text[i + Len(s)] = t[i]

\* Concatenation joins two texts.
LEMMA Appended ==
  ASSUME NEW s \in Seq(Letters), NEW t \in Seq(Letters)
  PROVE  Joins(s \o t, s, t)
  BY DEF Joins

\* The fixed part of a key's text, up to its secret.
Fixed(tag) == <<"thm", Underscore>> \o tag \o <<Underscore>>

LEMMA FixedLetters ==
  ASSUME NEW tag \in Seq(Letters)
  PROVE  /\ Fixed(tag) \in Seq(Letters) /\ Len(Fixed(tag)) = Len(tag) + 3
         /\ Fixed(tag)[1] = "thm" /\ Fixed(tag)[2] = Underscore
         /\ \A i \in 1 .. Len(tag) : Fixed(tag)[i + 2] = tag[i]
         /\ Fixed(tag)[Len(tag) + 3] = Underscore
  <1> DEFINE start == <<"thm", Underscore>>
             sep == <<Underscore>>
  <1>1. /\ start \in Seq(Letters) /\ Len(start) = 2
        /\ start[1] = "thm" /\ start[2] = Underscore
        /\ sep \in Seq(Letters) /\ Len(sep) = 1 /\ sep[1] = Underscore
    BY DEF Letters
  <1> DEFINE first == start \o tag
             whole == first \o sep
  <1>2. Fixed(tag) = whole
    BY DEF Fixed
  <1> HIDE DEF start, sep
  <1>3. Joins(first, start, tag)
    BY <1>1, Appended
  <1> HIDE DEF first
  <1>4. Joins(whole, first, sep)
    BY <1>1, <1>3, Appended DEF Joins
  <1> HIDE DEF whole
  <1> QED
    BY <1>1, <1>2, <1>3, <1>4 DEF Joins

\* The text of a key, letter by letter, and the prefix that is stored of it.
LEMMA TextLetters ==
  ASSUME NEW tag \in Seq(Letters)
  PROVE  /\ Plaintext(tag) \in Seq(Letters)
         /\ Len(Plaintext(tag)) = Len(tag) + 3 + Len(Secret)
         /\ \A i \in 1 .. Len(tag) + 3 : Plaintext(tag)[i] = Fixed(tag)[i]
         /\ \A i \in 1 .. Len(Secret) : Plaintext(tag)[i + Len(tag) + 3] # Underscore
         /\ Prefix(tag) = SubSeq(Plaintext(tag), 1, Len(tag) + 3 + PrefixLen)
         /\ Prefix(tag) \in Seq(Letters) /\ Len(Prefix(tag)) = Len(tag) + 3 + PrefixLen
  <1> DEFINE begun == SubSeq(Secret, 1, PrefixLen)
             whole == Plaintext(tag)
             part == SubSeq(whole, 1, Len(tag) + 3 + PrefixLen)
  <1>1. /\ Len(tag) \in Nat /\ Len(Secret) \in Nat
        /\ PrefixLen \in Nat /\ PrefixLen <= Len(Secret)
    BY TextAssumption
  <1>2. Secret \in Seq(Letters)
    BY TextAssumption DEF Letters
  <1>3. /\ begun \in Seq(Letters) /\ Len(begun) = PrefixLen
        /\ \A i \in 1 .. PrefixLen : begun[i] = Secret[i]
    BY <1>1, <1>2
  <1>4. /\ Fixed(tag) \in Seq(Letters) /\ Len(Fixed(tag)) = Len(tag) + 3
    BY FixedLetters
  <1>5. /\ whole \in Seq(Letters) /\ Len(whole) = Len(tag) + 3 + Len(Secret)
        /\ \A i \in 1 .. Len(tag) + 3 : whole[i] = Fixed(tag)[i]
        /\ \A i \in 1 .. Len(Secret) : whole[i + Len(tag) + 3] = Secret[i]
    <2>1. whole = Fixed(tag) \o Secret
      BY DEF Plaintext, Fixed
    <2> HIDE DEF whole
    <2>2. Joins(Fixed(tag) \o Secret, Fixed(tag), Secret)
      BY <1>2, <1>4, Appended
    <2>3. Joins(whole, Fixed(tag), Secret)
      BY <2>1, <2>2
    <2> QED
      BY <1>1, <1>4, <2>3 DEF Joins
  <1>6. /\ Prefix(tag) \in Seq(Letters) /\ Len(Prefix(tag)) = Len(tag) + 3 + PrefixLen
        /\ \A i \in 1 .. Len(tag) + 3 : Prefix(tag)[i] = Fixed(tag)[i]
        /\ \A i \in 1 .. PrefixLen : Prefix(tag)[i + Len(tag) + 3] = Secret[i]
    <2>1. Prefix(tag) = Fixed(tag) \o begun
      BY DEF Prefix, Fixed
    <2> HIDE DEF begun
    <2>2. Joins(Fixed(tag) \o begun, Fixed(tag), begun)
      BY <1>3, <1>4, Appended
    <2>3. Joins(Prefix(tag), Fixed(tag), begun)
      BY <2>1, <2>2
    <2> QED
      BY <1>1, <1>3, <1>4, <2>3 DEF Joins
  <1> HIDE DEF whole
  <1>7. /\ part \in Seq(Letters) /\ Len(part) = Len(tag) + 3 + PrefixLen
        /\ \A i \in 1 .. Len(tag) + 3 + PrefixLen : part[i] = whole[i]
    BY <1>1, <1>5
  <1> HIDE DEF part, begun
  <1>8. \A i \in 1 .. Len(tag) + 3 + PrefixLen : Prefix(tag)[i] = part[i]
    <2> SUFFICES ASSUME NEW i \in 1 .. Len(tag) + 3 + PrefixLen
                 PROVE  Prefix(tag)[i] = part[i]
      OBVIOUS
    <2>1. CASE i <= Len(tag) + 3
      BY <1>1, <1>5, <1>6, <1>7, <2>1
    <2>2. CASE i > Len(tag) + 3
      <3> DEFINE j == i - (Len(tag) + 3)
      <3>1. j \in 1 .. PrefixLen /\ j \in 1 .. Len(Secret) /\ i = j + Len(tag) + 3
        BY <1>1, <2>2
      <3> HIDE DEF j
      <3> QED
        BY <1>5, <1>6, <1>7, <3>1
    <2> QED
      BY <1>1, <2>1, <2>2
  <1>9. Prefix(tag) = part
    BY <1>6, <1>7, <1>8, SeqEqual
  <1>10. \A i \in 1 .. Len(Secret) : Secret[i] # Underscore
    BY TextAssumption
  <1> QED
    BY <1>5, <1>6, <1>9, <1>10 DEF whole, part

\* Where the third part of a key's text begins: after the separator that
\* follows the tag, or after the first one within it.
LEMMA ThirdPartBegins ==
  ASSUME NEW tag \in Seq(Letters), NEW n
  PROVE  n \in ThirdPart(Plaintext(tag)) <=>
           /\ n \in 4 .. Len(tag) + 4
           /\ Fixed(tag)[n - 1] = Underscore
           /\ \A i \in 3 .. n - 2 : Fixed(tag)[i] # Underscore
  <1> DEFINE text == Plaintext(tag)
             L == Len(tag)
  <1>1. /\ L \in Nat /\ Len(Secret) \in Nat /\ Len(text) = L + 3 + Len(Secret)
        /\ \A i \in 1 .. L + 3 : text[i] = Fixed(tag)[i]
        /\ \A i \in 1 .. Len(Secret) : text[i + L + 3] # Underscore
    <2>1. Secret \in Seq(STRING)
      BY TextAssumption
    <2>2. L \in Nat /\ Len(Secret) \in Nat
      BY <2>1
    <2> HIDE DEF L, text
    <2> QED
      BY <2>2, TextLetters DEF L, text
  <1>2. text[1] # Underscore /\ text[2] = Underscore
    <2>1. "thm" # Underscore
      BY Zenon DEF Underscore
    <2>2. Fixed(tag)[1] = "thm" /\ Fixed(tag)[2] = Underscore
      BY FixedLetters
    <2>3. 1 \in 1 .. L + 3 /\ 2 \in 1 .. L + 3
      BY <1>1
    <2> HIDE DEF text, L
    <2>4. text[1] = Fixed(tag)[1] /\ text[2] = Fixed(tag)[2]
      BY <1>1, <2>3
    <2> QED
      BY <2>1, <2>2, <2>4
  <1> HIDE DEF text, L
  <1>3. ASSUME n \in ThirdPart(text)
        PROVE  /\ n \in 4 .. L + 4 /\ text[n - 1] = Underscore
               /\ \A i \in 3 .. n - 2 : text[i] # Underscore
    <2>1. /\ n \in 2 .. Len(text) + 1 /\ text[n - 1] = Underscore
      BY <1>3 DEF ThirdPart
    <2>2. PICK m \in 1 .. n - 2 : \A i \in 1 .. n - 2 : text[i] = Underscore <=> i = m
      BY <1>3 DEF ThirdPart
    <2>3. n \in Nat /\ m \in Nat /\ m >= 1 /\ m <= n - 2
      BY <1>1, <2>1
    <2>4. text[m] = Underscore
      BY <2>2, <2>3
    <2>5. m # 1
      BY <1>2, <2>4
    <2>6. 2 \in 1 .. n - 2
      BY <2>3, <2>5
    <2>7. m = 2
      BY <1>2, <2>2, <2>6
    <2>8. \A i \in 3 .. n - 2 : text[i] # Underscore
      BY <2>2, <2>3, <2>7
    <2>9. n <= L + 4
      <3> SUFFICES ASSUME n > L + 4 PROVE FALSE
        BY <1>1, <2>3
      <3> DEFINE j == n - 1 - L - 3
      <3>1. j \in 1 .. Len(Secret) /\ n - 1 = j + L + 3
        BY <1>1, <2>1, <2>3
      <3> HIDE DEF j
      <3> QED
        BY <1>1, <2>1, <3>1
    <2> QED
      BY <1>1, <2>1, <2>3, <2>6, <2>8, <2>9
  <1>4. ASSUME n \in 4 .. L + 4, text[n - 1] = Underscore,
               \A i \in 3 .. n - 2 : text[i] # Underscore
        PROVE  n \in ThirdPart(text)
    <2>1. n \in 2 .. Len(text) + 1 /\ 2 \in 1 .. n - 2
      BY <1>1, <1>4
    <2>2. \A i \in 1 .. n - 2 : text[i] = Underscore <=> i = 2
      <3> TAKE i \in 1 .. n - 2
      <3>1. i = 1 \/ i = 2 \/ i \in 3 .. n - 2
        BY <1>1, <1>4
      <3> QED
        BY <1>2, <1>4, <3>1
    <2> QED
      BY <1>4, <2>1, <2>2 DEF ThirdPart
  <1>5. n \in 4 .. L + 4 => \A i \in 3 .. n - 1 : text[i] = Fixed(tag)[i]
    BY <1>1
  <1>6. n \in 4 .. L + 4 => n - 1 \in 3 .. n - 1 /\ 3 .. n - 2 \subseteq 3 .. n - 1
    BY <1>1
  <1> QED
    BY <1>3, <1>4, <1>5, <1>6 DEF text, L

\* A tag with a separator has a first one.
LEMMA FirstSeparator ==
  ASSUME NEW tag \in Seq(Letters), NEW i \in 1 .. Len(tag), tag[i] = Underscore
  PROVE  \E j \in 1 .. Len(tag) :
           tag[j] = Underscore /\ \A k \in 1 .. j - 1 : tag[k] # Underscore
  <1> DEFINE at == {j \in 1 .. Len(tag) : tag[j] = Underscore}
  <1>1. at # {} /\ at \subseteq Nat
    OBVIOUS
  <1>2. \E j \in at : \A k \in at : ~(<<k, j>> \in OpToRel(<, Nat))
    BY <1>1, NatLessThanWellFounded, WFMin
  <1>3. PICK j \in at : \A k \in at : ~(k < j)
    BY <1>1, <1>2 DEF OpToRel
  <1>4. \A k \in 1 .. j - 1 : tag[k] # Underscore
    BY <1>3
  <1> QED
    BY <1>3, <1>4

\* A key is found under the prefix it was stored under exactly if its tag has
\* no underscore. The tag is what the creating request sent (api_keys.rs:23).
THEOREM FoundByPrefix ==
  ASSUME NEW tag \in Seq(STRING)
  PROVE  FindsItself(tag) <=> \A i \in 1 .. Len(tag) : tag[i] # Underscore
  <1> DEFINE text == Plaintext(tag)
             L == Len(tag)
             third == ThirdPart(text)
             chosen == CHOOSE n \in third : TRUE
  <1>1. tag \in Seq(Letters) /\ L \in Nat
    BY DEF Letters
  <1>2. /\ PrefixLen \in Nat \ {0} /\ Len(Secret) \in Nat /\ PrefixLen <= Len(Secret)
    BY TextAssumption
  <1>3. /\ text \in Seq(Letters) /\ Len(text) = L + 3 + Len(Secret)
        /\ Prefix(tag) = SubSeq(text, 1, L + 3 + PrefixLen)
        /\ Len(Prefix(tag)) = L + 3 + PrefixLen
    BY <1>1, TextLetters
  <1>4. /\ \A i \in 1 .. L : Fixed(tag)[i + 2] = tag[i]
        /\ Fixed(tag)[L + 3] = Underscore
    BY <1>1, FixedLetters
  <1>5. \A n : n \in third <=> /\ n \in 4 .. L + 4 /\ Fixed(tag)[n - 1] = Underscore
                               /\ \A i \in 3 .. n - 2 : Fixed(tag)[i] # Underscore
    BY <1>1, ThirdPartBegins
  <1>6. ASSUME third # {}
        PROVE  chosen \in third /\ PrefixOf(text) = SubSeq(text, 1, chosen + PrefixLen - 1)
    <2>1. chosen \in third
      BY <1>6
    <2>2. chosen \in 4 .. L + 4
      BY <1>5, <2>1
    <2>3. Len(text) - chosen + 1 >= PrefixLen
      BY <1>1, <1>2, <1>3, <2>2
    <2> QED
      BY <2>1, <2>3 DEF PrefixOf
  <1> HIDE DEF text, L, third, chosen
  <1>7. CASE \A i \in 1 .. L : tag[i] # Underscore
    <2>1. \A i \in 3 .. L + 2 : Fixed(tag)[i] # Underscore
      <3> TAKE i \in 3 .. L + 2
      <3>1. i - 2 \in 1 .. L /\ (i - 2) + 2 = i
        BY <1>1
      <3> QED
        BY <1>4, <1>7, <3>1
    <2>2. L + 4 \in third
      BY <1>1, <1>4, <1>5, <2>1
    <2>3. ASSUME NEW n \in third
          PROVE  n = L + 4
      <3>1. n \in 4 .. L + 4 /\ Fixed(tag)[n - 1] = Underscore
        BY <1>5
      <3>2. n - 1 \notin 3 .. L + 2
        BY <2>1, <3>1
      <3> QED
        BY <1>1, <3>1, <3>2
    <2>4. PrefixOf(text) = SubSeq(text, 1, (L + 4) + PrefixLen - 1)
      BY <1>6, <2>2, <2>3
    <2>5. (L + 4) + PrefixLen - 1 = L + 3 + PrefixLen
      BY <1>1, <1>2
    <2>6. PrefixOf(text) = Prefix(tag)
      BY <1>3, <2>4, <2>5
    <2> QED
      BY <1>7, <2>6 DEF FindsItself, text, L
  <1>8. CASE \E i \in 1 .. L : tag[i] = Underscore
    <2>1. PICK j \in 1 .. L :
             tag[j] = Underscore /\ \A k \in 1 .. j - 1 : tag[k] # Underscore
      BY <1>1, <1>8, FirstSeparator DEF L
    <2>2. Fixed(tag)[j + 2] = Underscore
      BY <1>4, <2>1
    <2>3. \A i \in 3 .. j + 1 : Fixed(tag)[i] # Underscore
      <3> TAKE i \in 3 .. j + 1
      <3>1. i - 2 \in 1 .. j - 1 /\ i - 2 \in 1 .. L /\ (i - 2) + 2 = i
        BY <1>1
      <3> QED
        BY <1>4, <2>1, <3>1
    <2>4. j + 3 \in third
      <3>1. j + 3 \in 4 .. L + 4 /\ (j + 3) - 1 = j + 2 /\ (j + 3) - 2 = j + 1
        BY <1>1
      <3> QED
        BY <1>5, <2>2, <2>3, <3>1
    <2>5. ASSUME NEW n \in third
          PROVE  n \in 4 .. L + 3
      <3>1. n \in 4 .. L + 4 /\ \A i \in 3 .. n - 2 : Fixed(tag)[i] # Underscore
        BY <1>5
      <3>2. j + 2 \notin 3 .. n - 2
        BY <2>2, <3>1
      <3> QED
        BY <1>1, <3>1, <3>2
    <2>6. /\ chosen \in 4 .. L + 3
          /\ PrefixOf(text) = SubSeq(text, 1, chosen + PrefixLen - 1)
      BY <1>6, <2>4, <2>5
    <2>7. Len(SubSeq(text, 1, chosen + PrefixLen - 1)) = chosen + PrefixLen - 1
      BY <1>1, <1>2, <1>3, <2>6
    <2>8. chosen + PrefixLen - 1 < L + 3 + PrefixLen
      BY <1>1, <1>2, <2>6
    <2>9. PrefixOf(text) # Prefix(tag)
      BY <1>1, <1>2, <1>3, <2>6, <2>7, <2>8
    <2> QED
      BY <1>8, <2>9 DEF FindsItself, text, L
  <1> QED
    BY <1>7, <1>8 DEF L
=============================================================================
