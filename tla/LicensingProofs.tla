--------------------------- MODULE LicensingProofs ---------------------------
(***************************************************************************)
(* Theorems about Licensing for every value of its constants.              *)
(***************************************************************************)
EXTENDS Licensing, FiniteSetTheorems, TLAPS

USE DEF Steps, Replies

-----------------------------------------------------------------------------
(* Type correctness, with what a request's step says of its arguments.     *)

\* The empty store and the idle requests are typed.
LEMMA TypeInit == Init => TypeOK /\ RequestOK
  BY ConstantsAssumption DEF Init, TypeOK, RequestOK, ArgumentsOK, Times

\* A step of Begin is typed when the call it stores and its first step are.
LEMMA BeginTyped ==
  ASSUME TypeOK, NEW r \in Requests, NEW c \in Call, NEW step \in Steps,
         Begin(r, c, step)
  PROVE  TypeOK'
  BY DEF TypeOK, Begin, store

\* A request that answers keeps the types of its locals.
LEMMA AnswerTyped ==
  ASSUME TypeOK, NEW r \in Requests, NEW a \in Replies, Answer(r, a)
  PROVE  /\ pc' \in [Requests -> Steps]
         /\ call' \in [Requests -> Call \cup {None}]
         /\ seen' \in [Requests -> LicenseRow \cup {None}]
         /\ reply' \in [Requests -> Replies]
  BY DEF TypeOK, Answer

\* A request that goes on keeps the types of its locals.
LEMMA GotoTyped ==
  ASSUME TypeOK, NEW r \in Requests, NEW step \in Steps, Goto(r, step)
  PROVE  /\ pc' \in [Requests -> Steps]
         /\ call' \in [Requests -> Call \cup {None}]
         /\ seen' \in [Requests -> LicenseRow \cup {None}]
         /\ reply' \in [Requests -> Replies]
  BY DEF TypeOK, Goto

\* Every step keeps every variable in its type.
LEMMA TypeStep == TypeOK /\ RequestOK /\ IsFiniteSet(activations) /\ [Next]_vars => TypeOK'
  <1> SUFFICES ASSUME TypeOK, RequestOK, IsFiniteSet(activations), [Next]_vars
               PROVE  TypeOK'
    OBVIOUS
  <1>1. CASE UNCHANGED vars
    BY <1>1 DEF TypeOK, vars
  <1>2. CASE Tick
    BY <1>2, ConstantsAssumption DEF TypeOK, Tick, store, Times
  <1>3. ASSUME NEW r \in Requests, Handle(r)
        PROVE  TypeOK'
    <2>1. CASE BeginValidate(r)
      <3>1. PICK o \in Orgs, p \in Products, l \in Licenses,
                 f \in Fingerprints \cup {None} :
              Begin(r, [org |-> o, product |-> p, license |-> l, fingerprint |-> f,
                        op |-> "validate", activation |-> None, dead |-> Dead(l)],
                    "rate_limit")
        BY <2>1 DEF BeginValidate
      <3>2. Dead(l) \in BOOLEAN
        BY DEF Dead
      <3> QED
        BY <3>1, <3>2, BeginTyped DEF Call, Ops
    <2>2. CASE BeginRevoke(r)
      BY <2>2, BeginTyped DEF BeginRevoke, Call, Ops
    <2>3. CASE BeginRevokeActivation(r)
      BY <2>3, BeginTyped DEF BeginRevokeActivation, Call, Ops
    <2>4. CASE BeginGenerate(r)
      BY <2>4, BeginTyped DEF BeginGenerate, Call, Ops
    <2>5. CASE RateLimit(r)
      BY <2>5, AnswerTyped, GotoTyped DEF RateLimit, TypeOK, store
    <2>6. CASE Lookup(r)
      BY <2>6, AnswerTyped DEF Lookup, TypeOK, store, RequestOK, ArgumentsOK
    <2>7. CASE Check(r)
      BY <2>7, AnswerTyped, GotoTyped DEF Check, TypeOK, store
    <2>8. CASE CountActivations(r)
      <3>1. Cardinality(ActivationsOf(call[r].license)) \in Nat
        BY FS_Subset, FS_CardinalityType DEF ActivationsOf
      <3> QED
        BY <2>8, <3>1, AnswerTyped, GotoTyped DEF CountActivations, TypeOK, store
    <2>9. CASE ListActivations(r)
      BY <2>9, AnswerTyped, GotoTyped DEF ListActivations, TypeOK, store
    <2>10. CASE CreateActivation(r)
      <3>1. activations' \subseteq Activation
        BY <2>10 DEF CreateActivation, TypeOK, RequestOK, ArgumentsOK, Activation
      <3> QED
        BY <2>10, <3>1, AnswerTyped DEF CreateActivation, TypeOK
    <2>11. CASE GetProduct(r)
      BY <2>11, AnswerTyped, GotoTyped DEF GetProduct, TypeOK, store
    <2>12. CASE InsertLicense(r)
      <3>1. licenses' \in [Licenses -> LicenseRow \cup {None}]
        BY <2>12 DEF InsertLicense, TypeOK, RequestOK, ArgumentsOK, LicenseRow, Call
      <3>2. PICK l \in Licenses : call' = [call EXCEPT ![r].license = l]
        BY <2>12 DEF InsertLicense
      <3>3. call[r] \in Call
        BY <2>12 DEF InsertLicense, RequestOK, ArgumentsOK
      <3>4. [call[r] EXCEPT !.license = l] \in Call
        BY <3>3 DEF Call
      <3>5. call' \in [Requests -> Call \cup {None}]
        BY <3>2, <3>4 DEF TypeOK
      <3> QED
        BY <2>12, <3>1, <3>5 DEF InsertLicense, TypeOK
    <2>13. CASE GetLicense(r)
      BY <2>13, AnswerTyped, GotoTyped DEF GetLicense, TypeOK, store
    <2>14. CASE SetLicenseStatus(r)
      <3>1. licenses' \in [Licenses -> LicenseRow \cup {None}]
        BY <2>14 DEF SetLicenseStatus, TypeOK, RequestOK, ArgumentsOK, LicenseRow
      <3> QED
        BY <2>14, <3>1, GotoTyped DEF SetLicenseStatus, TypeOK
    <2>15. CASE DeleteActivation(r)
      BY <2>15, GotoTyped DEF DeleteActivation, TypeOK
    <2>16. CASE Audit(r)
      <3>1. audit_log' \subseteq Entry
        BY <2>16 DEF Audit, TypeOK, RequestOK, ArgumentsOK, Entry, Call
      <3> QED
        BY <2>16, <3>1, AnswerTyped DEF Audit, TypeOK
    <2>17. CASE Fail(r)
      BY <2>17, AnswerTyped DEF Fail, TypeOK, store
    <2> QED
      BY <1>3, <2>1, <2>2, <2>3, <2>4, <2>5, <2>6, <2>7, <2>8, <2>9, <2>10,
         <2>11, <2>12, <2>13, <2>14, <2>15, <2>16, <2>17 DEF Handle
  <1> QED
    BY <1>1, <1>2, <1>3 DEF Next

-----------------------------------------------------------------------------
(* What a step leaves alone: the locals of the other requests, and of every *)
(* license row all but its status, which never leaves "Revoked".            *)

RowsKept ==
    \A l \in Licenses : licenses[l] # None =>
        /\ licenses'[l] # None
        /\ licenses'[l].org = licenses[l].org
        /\ licenses'[l].product = licenses[l].product
        /\ licenses'[l].seats = licenses[l].seats
        /\ licenses'[l].expires_at = licenses[l].expires_at
        /\ licenses[l].status = "Revoked" => licenses'[l].status = "Revoked"

OthersKept(r) ==
    \A q \in Requests \ {r} :
        /\ pc'[q] = pc[q] /\ call'[q] = call[q]
        /\ seen'[q] = seen[q] /\ seats_used'[q] = seats_used[q]

\* A handler's locals are its own: no other request changes them.
LEMMA LocalsFrame ==
  ASSUME TypeOK, NEW r \in Requests, Handle(r)
  PROVE  OthersKept(r)
  <1> USE DEF TypeOK, OthersKept, Answer, Goto
  <1>1. CASE BeginValidate(r) \/ BeginRevoke(r) \/ BeginRevokeActivation(r)
             \/ BeginGenerate(r)
    <2>1. PICK c, step : Begin(r, c, step)
      BY <1>1, Zenon DEF BeginValidate, BeginRevoke, BeginRevokeActivation, BeginGenerate
    <2> QED
      BY <2>1 DEF Begin
  <1>2. CASE RateLimit(r) \/ Lookup(r) \/ Check(r)
    BY <1>2 DEF RateLimit, Lookup, Check
  <1>3. CASE CountActivations(r) \/ ListActivations(r) \/ CreateActivation(r)
    BY <1>3 DEF CountActivations, ListActivations, CreateActivation
  <1>4. CASE GetProduct(r) \/ InsertLicense(r) \/ GetLicense(r)
    BY <1>4 DEF GetProduct, InsertLicense, GetLicense
  <1>5. CASE SetLicenseStatus(r) \/ DeleteActivation(r) \/ Audit(r) \/ Fail(r)
    BY <1>5 DEF SetLicenseStatus, DeleteActivation, Audit, Fail
  <1> QED
    BY <1>1, <1>2, <1>3, <1>4, <1>5 DEF Handle

\* Only InsertLicense and SetLicenseStatus write the license table.
LEMMA LicensesFrame ==
  ASSUME NEW r \in Requests, Handle(r)
  PROVE  InsertLicense(r) \/ SetLicenseStatus(r) \/ UNCHANGED licenses
  <1>1. CASE BeginValidate(r) \/ BeginRevoke(r) \/ BeginRevokeActivation(r)
             \/ BeginGenerate(r)
    <2>1. PICK c, step : Begin(r, c, step)
      BY <1>1, Zenon DEF BeginValidate, BeginRevoke, BeginRevokeActivation, BeginGenerate
    <2> QED
      BY <2>1 DEF Begin, store
  <1> QED
    BY <1>1 DEF Handle, RateLimit, Lookup, Check, CountActivations, ListActivations,
       CreateActivation, GetProduct, GetLicense, DeleteActivation, Audit, Fail, store

\* No step deletes a license row, moves it to another organization, changes
\* its seats or expiry, or takes a revocation back.
LEMMA RowsFrame ==
  ASSUME TypeOK, RequestOK, [Next]_vars
  PROVE  RowsKept
  <1>1. ASSUME NEW r \in Requests, InsertLicense(r)
        PROVE  RowsKept
    BY <1>1 DEF InsertLicense, RowsKept, TypeOK
  <1>2. ASSUME NEW r \in Requests, SetLicenseStatus(r)
        PROVE  RowsKept
    <2>1. PICK m \in Licenses : /\ m = call[r].license /\ licenses[m] \in LicenseRow
                                /\ licenses' = [licenses EXCEPT ![m].status = "Revoked"]
      BY <1>2 DEF SetLicenseStatus, RequestOK, ArgumentsOK, TypeOK
    <2>2. licenses'[m] = [licenses[m] EXCEPT !.status = "Revoked"]
      BY <2>1 DEF TypeOK
    <2>3. \A l \in Licenses \ {m} : licenses'[l] = licenses[l]
      BY <2>1 DEF TypeOK
    <2>4. licenses'[m] \in LicenseRow /\ licenses'[m].status = "Revoked"
      BY <2>1, <2>2 DEF LicenseRow
    <2>5. /\ licenses'[m].org = licenses[m].org
          /\ licenses'[m].product = licenses[m].product
          /\ licenses'[m].seats = licenses[m].seats
          /\ licenses'[m].expires_at = licenses[m].expires_at
      BY <2>1, <2>2 DEF LicenseRow
    <2> QED
      BY <2>3, <2>4, <2>5, NoneAssumption DEF RowsKept
  <1>3. CASE UNCHANGED licenses
    BY <1>3 DEF RowsKept
  <1> QED
    BY <1>1, <1>2, <1>3, LicensesFrame DEF Next, Tick, store, vars

\* A new activation carries an id that was named nowhere.
LEMMA NewAreFresh ==
  ASSUME NEW r \in Requests, Handle(r)
  PROVE  \A x \in activations' \ activations : FreshActivationId(x.id)
  <1>1. CASE BeginValidate(r) \/ BeginRevoke(r) \/ BeginRevokeActivation(r)
             \/ BeginGenerate(r)
    <2>1. PICK c, step : Begin(r, c, step)
      BY <1>1, Zenon DEF BeginValidate, BeginRevoke, BeginRevokeActivation, BeginGenerate
    <2> QED
      BY <2>1 DEF Begin, store
  <1>2. CASE CreateActivation(r)
    BY <1>2 DEF CreateActivation
  <1>3. CASE DeleteActivation(r)
    BY <1>3 DEF DeleteActivation
  <1> QED
    BY <1>1, <1>2, <1>3 DEF Handle, RateLimit, Lookup, Check, CountActivations,
       ListActivations, GetProduct, InsertLicense, GetLicense, SetLicenseStatus,
       Audit, Fail, store

\* A request's step and the store agree on its arguments.
LEMMA RequestStep == TypeOK /\ RequestOK /\ [Next]_vars => RequestOK'
  <1> SUFFICES ASSUME TypeOK, RequestOK, [Next]_vars
               PROVE  RequestOK'
    OBVIOUS
  <1> USE DEF ArgumentsOK
  <1>1. RowsKept
    BY RowsFrame
  <1>2. CASE UNCHANGED vars \/ Tick
    BY <1>2 DEF vars, Tick, store, RequestOK, ActivationsOf
  <1>3. ASSUME NEW r \in Requests, Handle(r)
        PROVE  RequestOK'
    <2>1. ASSUME NEW q \in Requests \ {r}
          PROVE  ArgumentsOK(q)'
      <3>1. ArgumentsOK(q)
        BY DEF RequestOK
      <3>2. pc'[q] = pc[q] /\ call'[q] = call[q]
        BY <1>3, LocalsFrame DEF OthersKept
      <3>3. pc[q] = "audit" =>
               \A x \in activations' \ activations : x.id # call[q].activation
        BY <1>3, NewAreFresh DEF FreshActivationId
      <3> QED
        BY <1>1, <3>1, <3>2, <3>3 DEF RowsKept, ActivationsOf
    <2>2. ArgumentsOK(r)'
      <3>1. ArgumentsOK(r) /\ call[r] \in Call \cup {None} /\ pc \in [Requests -> Steps]
        BY DEF RequestOK, TypeOK
      <3>2. CASE BeginValidate(r)
        BY <3>2, <3>1 DEF BeginValidate, Begin, Call, Ops, Dead, IsUsable, Expired, TypeOK
      <3>3. CASE BeginRevoke(r)
        BY <3>3, <3>1 DEF BeginRevoke, Begin, Call, Ops, TypeOK
      <3>4. CASE BeginRevokeActivation(r)
        BY <3>4, <3>1 DEF BeginRevokeActivation, Begin, Call, Ops, TypeOK
      <3>5. CASE BeginGenerate(r)
        BY <3>5, <3>1 DEF BeginGenerate, Begin, Call, Ops, TypeOK
      <3>6. CASE RateLimit(r) \/ Lookup(r) \/ Check(r)
        BY <3>6, <3>1 DEF RateLimit, Lookup, Check, Goto, Answer
      <3>7. CASE CountActivations(r)
        BY <3>7, <3>1 DEF CountActivations, Goto, Answer, Call
      <3>8. CASE ListActivations(r) \/ CreateActivation(r)
        BY <3>8, <3>1 DEF ListActivations, CreateActivation, Goto, Answer
      <3>9. CASE GetProduct(r)
        BY <3>9, <3>1 DEF GetProduct, Goto, Answer
      <3>10. CASE InsertLicense(r)
        <4>1. PICK l \in Licenses, s \in SeatCounts, e \in Expiries :
                 /\ licenses' = [licenses EXCEPT ![l] =
                       [org |-> call[r].org, product |-> call[r].product,
                        seats |-> s, expires_at |-> e, status |-> "Active"]]
                 /\ call' = [call EXCEPT ![r].license = l]
          BY <3>10 DEF InsertLicense
        <4>2. call'[r] = [call[r] EXCEPT !.license = l] /\ call[r] \in Call
          BY <4>1, <3>1, <3>10 DEF InsertLicense, TypeOK
        <4>3. call'[r] \in Call /\ call'[r].license = l /\ call'[r].org = call[r].org
              /\ call'[r].op = call[r].op
          BY <4>2 DEF Call
        <4>4. licenses'[l] \in LicenseRow /\ licenses'[l].org = call[r].org
          BY <4>1, <4>2, <3>1, <3>10 DEF InsertLicense, TypeOK, Call, LicenseRow
        <4>5. pc'[r] = "audit" /\ call[r].op = "generate"
          BY <3>1, <3>10 DEF InsertLicense
        <4> QED
          BY <4>3, <4>4, <4>5, NoneAssumption
      <3>11. CASE GetLicense(r)
        BY <3>11, <3>1 DEF GetLicense, Goto, Answer, store
      <3>12. CASE SetLicenseStatus(r)
        <4>1. pc'[r] = "audit" /\ call'[r] = call[r] /\ pc[r] = "set"
          BY <3>12, <3>1 DEF SetLicenseStatus, Goto
        <4>2. licenses[call[r].license] \in LicenseRow /\ call[r].license \in Licenses
          BY <4>1, <3>1 DEF TypeOK
        <4>3. licenses'[call[r].license].status = "Revoked"
          BY <3>12, <4>2 DEF SetLicenseStatus, TypeOK, LicenseRow
        <4> QED
          BY <4>1, <4>2, <4>3, <3>1, <1>1 DEF RowsKept
      <3>13. CASE DeleteActivation(r)
        BY <3>13, <3>1 DEF DeleteActivation, Goto, ActivationsOf
      <3>14. CASE Audit(r) \/ Fail(r)
        BY <3>14, <3>1 DEF Audit, Fail, Answer
      <3> QED
        BY <1>3, <3>2, <3>3, <3>4, <3>5, <3>6, <3>7, <3>8, <3>9, <3>10, <3>11,
           <3>12, <3>13, <3>14 DEF Handle
    <2>3. \A q \in Requests : ArgumentsOK(q)'
      BY <2>1, <2>2
    <2> QED
      BY <2>3 DEF RequestOK
  <1> QED
    BY <1>2, <1>3 DEF Next

-----------------------------------------------------------------------------
(* The snapshot of a validate request, and licenses dead on arrival.       *)

\* A stale row still agrees with the stored one on what validate uses later.
LEMMA SnapshotStep ==
  TypeOK /\ RequestOK /\ SnapshotsOK /\ [Next]_vars => SnapshotsOK'
  <1> SUFFICES ASSUME TypeOK, RequestOK, SnapshotsOK, [Next]_vars
               PROVE  SnapshotsOK'
    OBVIOUS
  <1> USE DEF SnapshotOK, SeatFree
  <1>1. RowsKept
    BY RowsFrame
  <1>2. CASE UNCHANGED vars \/ Tick
    BY <1>2 DEF vars, Tick, store, SnapshotsOK
  <1>3. ASSUME NEW r \in Requests, Handle(r)
        PROVE  SnapshotsOK'
    <2>1. ASSUME NEW q \in Requests \ {r}
          PROVE  SnapshotOK(q)'
      <3>1. SnapshotOK(q) /\ ArgumentsOK(q)
        BY DEF SnapshotsOK, RequestOK
      <3>2. /\ pc'[q] = pc[q] /\ call'[q] = call[q]
            /\ seen'[q] = seen[q] /\ seats_used'[q] = seats_used[q]
        BY <1>3, LocalsFrame DEF OthersKept
      <3> QED
        BY <1>1, <3>1, <3>2 DEF RowsKept, ArgumentsOK
    <2>2. SnapshotOK(r)'
      <3>1. SnapshotOK(r) /\ ArgumentsOK(r)
        BY DEF SnapshotsOK, RequestOK
      <3>2. CASE Lookup(r)
        BY <3>1, <3>2 DEF Lookup, Answer, TypeOK, ArgumentsOK, store
      <3>3. CASE Check(r) \/ CountActivations(r)
        BY <3>1, <3>3 DEF Check, CountActivations, Answer, Goto, TypeOK, store, Matches
      <3>4. CASE ListActivations(r)
        BY <3>1, <3>4 DEF ListActivations, Answer, Goto, TypeOK, store
      <3>5. CASE BeginValidate(r) \/ BeginRevoke(r) \/ BeginRevokeActivation(r)
                 \/ BeginGenerate(r)
        BY <3>5 DEF BeginValidate, BeginRevoke, BeginRevokeActivation, BeginGenerate,
           Begin, TypeOK
      <3>6. CASE RateLimit(r) \/ CreateActivation(r) \/ GetProduct(r) \/ InsertLicense(r)
        BY <3>6 DEF RateLimit, CreateActivation, GetProduct, InsertLicense, Answer,
           Goto, TypeOK
      <3>7. CASE GetLicense(r) \/ SetLicenseStatus(r) \/ DeleteActivation(r)
                 \/ Audit(r) \/ Fail(r)
        BY <3>7 DEF GetLicense, SetLicenseStatus, DeleteActivation, Audit, Fail, Answer,
           Goto, TypeOK
      <3> QED
        BY <1>3, <3>2, <3>3, <3>4, <3>5, <3>6, <3>7 DEF Handle
    <2> QED
      BY <2>1, <2>2 DEF SnapshotsOK
  <1> QED
    BY <1>2, <1>3 DEF Next

\* The clock only advances, and only between the steps of requests.
LEMMA ClockFrame ==
  ASSUME NEW r \in Requests, Handle(r)
  PROVE  now' = now
  <1>1. CASE BeginValidate(r) \/ BeginRevoke(r) \/ BeginRevokeActivation(r)
             \/ BeginGenerate(r)
    <2>1. PICK c, step : Begin(r, c, step)
      BY <1>1, Zenon DEF BeginValidate, BeginRevoke, BeginRevokeActivation, BeginGenerate
    <2> QED
      BY <2>1 DEF Begin
  <1> QED
    BY <1>1 DEF Handle, RateLimit, Lookup, Check, CountActivations, ListActivations,
       CreateActivation, GetProduct, InsertLicense, GetLicense, SetLicenseStatus,
       DeleteActivation, Audit, Fail

\* A row that is not usable now is not usable later.
LEMMA ExpiryMonotone ==
  ASSUME TypeOK, [Next]_vars, NEW row \in LicenseRow, ~IsUsable(row, now)
  PROVE  ~IsUsable(row, now')
  <1>1. now \in Nat /\ (now' = now \/ now' = now + 1)
    BY ClockFrame, ConstantsAssumption DEF TypeOK, Times, Next, Tick, vars
  <1>2. row.expires_at # None => row.expires_at \in Nat
    <2>1. row.expires_at \in Expiries
      BY DEF LicenseRow
    <2>2. row.expires_at \in Times \cup {None}
      BY <2>1, ConstantsAssumption
    <2> QED
      BY <2>2, ConstantsAssumption DEF Times
  <1> QED
    BY <1>1, <1>2 DEF IsUsable, Expired

\* Dead is for good: revocation is final and the clock does not go back.
LEMMA DeadForever ==
  ASSUME TypeOK, RequestOK, [Next]_vars, NEW l \in Licenses, Dead(l)
  PROVE  Dead(l)'
  <1>1. RowsKept
    BY RowsFrame
  <1>2. licenses[l] \in LicenseRow /\ ~IsUsable(licenses[l], now)
    BY DEF Dead, TypeOK
  <1>3. ~IsUsable(licenses[l], now')
    BY <1>2, ExpiryMonotone
  <1> QED
    BY <1>1, <1>2, <1>3 DEF RowsKept, Dead, IsUsable, Expired, LicenseRow

\* A call dead on arrival stays on its way to a refusal.
LEMMA DeadStep ==
  TypeOK /\ RequestOK /\ SnapshotsOK /\ DeadAreRefused /\ [Next]_vars
    => DeadAreRefused'
  <1> SUFFICES ASSUME TypeOK, RequestOK, SnapshotsOK, DeadAreRefused, [Next]_vars
               PROVE  DeadAreRefused'
    OBVIOUS
  <1>1. ASSUME NEW q \in Requests, pc'[q] = pc[q], call'[q] = call[q],
               seen'[q] = seen[q]
        PROVE  DeadOK(q)'
    <2>1. DeadOK(q) /\ ArgumentsOK(q) /\ SnapshotOK(q)
      BY DEF DeadAreRefused, RequestOK, SnapshotsOK
    <2>2. \A l \in Licenses : Dead(l) => Dead(l)'
      BY DeadForever
    <2>3. pc[q] = "check" /\ call[q].dead => ~IsUsable(seen'[q], now')
      BY <1>1, <2>1, ExpiryMonotone DEF DeadOK, SnapshotOK
    <2> QED
      BY <1>1, <2>1, <2>2, <2>3 DEF DeadOK, ArgumentsOK, Dead, IsUsable, Expired
  <1>2. CASE UNCHANGED vars \/ Tick
    BY <1>1, <1>2 DEF vars, Tick, store, DeadAreRefused
  <1>3. ASSUME NEW r \in Requests, Handle(r)
        PROVE  DeadAreRefused'
    <2>1. \A q \in Requests \ {r} : DeadOK(q)'
      BY <1>1, <1>3, LocalsFrame DEF OthersKept
    <2>2. DeadOK(r)'
      <3>1. DeadOK(r) /\ ArgumentsOK(r) /\ SnapshotOK(r) /\ now' = now
        BY <1>3, ClockFrame DEF DeadAreRefused, RequestOK, SnapshotsOK
      <3>2. CASE BeginValidate(r)
        <4>1. PICK o \in Orgs, p \in Products, l \in Licenses,
                   f \in Fingerprints \cup {None} :
                Begin(r, [org |-> o, product |-> p, license |-> l, fingerprint |-> f,
                          op |-> "validate", activation |-> None, dead |-> Dead(l)],
                      "rate_limit")
          BY <3>2 DEF BeginValidate
        <4>2. /\ pc'[r] = "rate_limit" /\ call'[r].license = l
              /\ call'[r].dead = Dead(l) /\ licenses' = licenses
          BY <4>1 DEF Begin, TypeOK, store
        <4> QED
          BY <3>1, <4>2 DEF DeadOK, Dead, IsUsable, Expired
      <3>3. CASE BeginRevoke(r) \/ BeginRevokeActivation(r) \/ BeginGenerate(r)
        BY <3>3 DEF BeginRevoke, BeginRevokeActivation, BeginGenerate, Begin, DeadOK, TypeOK
      <3>4. CASE RateLimit(r)
        BY <3>1, <3>4 DEF RateLimit, Goto, Answer, DeadOK, TypeOK, store, Dead,
           IsUsable, Expired
      <3>5. CASE Lookup(r)
        <4>1. CASE pc'[r] = "check"
          BY <3>1, <3>5, <4>1 DEF Lookup, Answer, DeadOK, TypeOK, store, Dead,
             IsUsable, Expired
        <4> QED
          BY <3>5, <4>1 DEF Lookup, Answer, DeadOK, TypeOK
      <3>6. CASE Check(r)
        BY <3>1, <3>6 DEF Check, Goto, Answer, DeadOK, TypeOK
      <3>7. CASE CountActivations(r) \/ ListActivations(r) \/ CreateActivation(r)
        BY <3>1, <3>7 DEF CountActivations, ListActivations, CreateActivation, Goto,
           Answer, DeadOK, TypeOK
      <3>8. CASE GetProduct(r) \/ InsertLicense(r) \/ GetLicense(r)
        BY <3>8 DEF GetProduct, InsertLicense, GetLicense, Goto, Answer, DeadOK, TypeOK
      <3>9. CASE SetLicenseStatus(r) \/ DeleteActivation(r) \/ Audit(r) \/ Fail(r)
        BY <3>9 DEF SetLicenseStatus, DeleteActivation, Audit, Fail, Goto, Answer,
           DeadOK, TypeOK
      <3> QED
        BY <1>3, <3>2, <3>3, <3>4, <3>5, <3>6, <3>7, <3>8, <3>9 DEF Handle
    <2> QED
      BY <2>1, <2>2 DEF DeadAreRefused
  <1> QED
    BY <1>2, <1>3 DEF Next

-----------------------------------------------------------------------------
(* Activations and the bound on their number.                              *)

\* Only CreateActivation and DeleteActivation write the activation table.
LEMMA ActivationsFrame ==
  ASSUME NEW r \in Requests, Handle(r)
  PROVE  CreateActivation(r) \/ DeleteActivation(r) \/ UNCHANGED activations
  <1>1. CASE BeginValidate(r) \/ BeginRevoke(r) \/ BeginRevokeActivation(r)
             \/ BeginGenerate(r)
    <2>1. PICK c, step : Begin(r, c, step)
      BY <1>1, Zenon DEF BeginValidate, BeginRevoke, BeginRevokeActivation, BeginGenerate
    <2> QED
      BY <2>1 DEF Begin, store
  <1> QED
    BY <1>1 DEF Handle, RateLimit, Lookup, Check, CountActivations, ListActivations,
       GetProduct, InsertLicense, GetLicense, SetLicenseStatus, Audit, Fail, store

\* A new activation is of the request's license and machine.
LEMMA CreateAddsOne ==
  ASSUME NEW r \in Requests, CreateActivation(r)
  PROVE  \E a : /\ activations' = activations \cup {a}
               /\ a.license = call[r].license
               /\ a.fingerprint = call[r].fingerprint
               /\ \A x \in activations : x.id # a.id
  <1>1. PICK a \in ActivationIds :
           /\ FreshActivationId(a)
           /\ activations' = activations \cup
                  {[id |-> a, license |-> call[r].license,
                    fingerprint |-> call[r].fingerprint]}
    BY DEF CreateActivation
  <1> DEFINE row == [id |-> a, license |-> call[r].license,
                     fingerprint |-> call[r].fingerprint]
  <1>2. row.id = a /\ row.license = call[r].license
        /\ row.fingerprint = call[r].fingerprint
    OBVIOUS
  <1>3. \A x \in activations : x.id # row.id
    BY <1>1, <1>2 DEF FreshActivationId
  <1>4. activations' = activations \cup {row}
    BY <1>1
  <1> HIDE DEF row
  <1> QED
    BY <1>2, <1>3, <1>4

\* Activations stay finitely many, with distinct ids.
LEMMA ActivationsStep == ActivationsOK /\ [Next]_vars => ActivationsOK'
  <1> SUFFICES ASSUME ActivationsOK, [Next]_vars
               PROVE  ActivationsOK'
    OBVIOUS
  <1> USE DEF ActivationsOK
  <1>1. ASSUME NEW r \in Requests, CreateActivation(r)
        PROVE  ActivationsOK'
    <2>1. PICK a : /\ activations' = activations \cup {a}
                   /\ \A x \in activations : x.id # a.id
      BY <1>1, CreateAddsOne
    <2>2. IsFiniteSet(activations')
      BY <2>1, FS_AddElement
    <2> QED
      BY <2>1, <2>2
  <1>2. ASSUME NEW r \in Requests, DeleteActivation(r)
        PROVE  ActivationsOK'
    <2>1. activations' \subseteq activations
      BY <1>2 DEF DeleteActivation
    <2> QED
      BY <2>1, FS_Subset
  <1>3. CASE UNCHANGED activations
    BY <1>3
  <1> QED
    BY <1>1, <1>2, <1>3, ActivationsFrame DEF Next, Tick, store, vars

\* Racers are finitely many, and their licenses exist.
LEMMA RacersFacts ==
  ASSUME RequestOK, SnapshotsOK, NEW l \in Licenses
  PROVE  /\ IsFiniteSet(Racers(l))
         /\ Cardinality(Racers(l)) <= Cardinality(Requests)
         /\ licenses[l] = None => Racers(l) = {}
  <1>1. Racers(l) \in SUBSET Requests
    BY DEF Racers
  <1>2. licenses[l] = None => Racers(l) = {}
    BY DEF Racers, SnapshotsOK, SnapshotOK
  <1> QED
    BY <1>1, <1>2, FS_Subset, ConstantsAssumption

\* Only counting can make a request a racer; every other step at most ends
\* its race.
LEMMA RacersFrame ==
  ASSUME TypeOK, NEW r \in Requests, Handle(r), NEW l \in Licenses
  PROVE  \/ Racers(l)' \subseteq Racers(l)
         \/ CountActivations(r) /\ r \in Racers(l)'
  <1>1. \A q \in Requests \ {r} : q \in Racers(l)' => q \in Racers(l)
    BY LocalsFrame DEF OthersKept, Racers, SeatFree
  <1>2. ASSUME ~CountActivations(r), r \in Racers(l)'
        PROVE  r \in Racers(l)
    <2>1. pc'[r] \in {"list", "create"}
      BY <1>2 DEF Racers
    <2>2. ListActivations(r)
      <3>1. CASE BeginValidate(r) \/ BeginRevoke(r) \/ BeginRevokeActivation(r)
                 \/ BeginGenerate(r)
        BY <2>1, <3>1 DEF BeginValidate, BeginRevoke, BeginRevokeActivation,
           BeginGenerate, Begin, TypeOK
      <3>2. CASE RateLimit(r) \/ Lookup(r) \/ Check(r) \/ CreateActivation(r)
        BY <2>1, <3>2 DEF RateLimit, Lookup, Check, CreateActivation, Goto, Answer, TypeOK
      <3>3. CASE GetProduct(r) \/ InsertLicense(r) \/ GetLicense(r)
        BY <2>1, <3>3 DEF GetProduct, InsertLicense, GetLicense, Goto, Answer, TypeOK
      <3>4. CASE SetLicenseStatus(r) \/ DeleteActivation(r) \/ Audit(r) \/ Fail(r)
        BY <2>1, <3>4 DEF SetLicenseStatus, DeleteActivation, Audit, Fail, Goto, Answer,
           TypeOK
      <3> QED
        BY <1>2, <3>1, <3>2, <3>3, <3>4 DEF Handle
    <2>3. /\ pc[r] = "list" /\ call' = call /\ seen' = seen /\ seats_used' = seats_used
      BY <2>1, <2>2 DEF ListActivations, Goto, Answer, TypeOK, store
    <2> QED
      BY <1>2, <2>3 DEF Racers, SeatFree
  <1> QED
    BY <1>1, <1>2 DEF Racers

\* The sum of activations and racers of a license stays within its bound.
LEMMA SeatsStep ==
  IInv /\ [Next]_vars => SeatsOK'
  <1> SUFFICES ASSUME IInv, [Next]_vars, SnapshotsOK', RequestOK', ActivationsOK',
                      NEW l \in Licenses
               PROVE  /\ licenses'[l] = None => ActivationsOf(l)' = {}
                      /\ licenses'[l] # None =>
                           Cardinality(ActivationsOf(l)') + Cardinality(Racers(l)')
                              <= licenses'[l].seats + Overrun
    BY RequestStep, SnapshotStep, ActivationsStep DEF SeatsOK, IInv, Overrun
  <1> DEFINE A == ActivationsOf(l)
             B == ActivationsOf(l)'
             R == Racers(l)
             S == Racers(l)'
  <1>1. /\ TypeOK /\ RequestOK /\ SnapshotsOK /\ SeatsOK
        /\ RowsKept
    BY RowsFrame DEF IInv
  <1>2. /\ IsFiniteSet(A) /\ IsFiniteSet(B)
        /\ Cardinality(A) \in Nat /\ Cardinality(B) \in Nat
    <2>1. A \in SUBSET activations /\ B \in SUBSET activations'
      BY DEF ActivationsOf
    <2>2. IsFiniteSet(activations) /\ IsFiniteSet(activations')
      BY DEF IInv, ActivationsOK
    <2>3. IsFiniteSet(A) /\ IsFiniteSet(B)
      BY <2>1, <2>2, FS_Subset
    <2> QED
      BY <2>3, FS_CardinalityType
  <1>3. /\ IsFiniteSet(R) /\ IsFiniteSet(S)
        /\ Cardinality(R) \in Nat /\ Cardinality(S) \in Nat
        /\ Cardinality(S) <= Cardinality(Requests)
        /\ licenses[l] = None => R = {}
    <2>1. R \in SUBSET Requests /\ S \in SUBSET Requests
      BY DEF Racers
    <2>2. IsFiniteSet(R) /\ IsFiniteSet(S) /\ Cardinality(S) <= Cardinality(Requests)
      BY <2>1, FS_Subset, ConstantsAssumption
    <2>3. licenses[l] = None => R = {}
      BY <1>1, RacersFacts
    <2> QED
      BY <2>2, <2>3, FS_CardinalityType
  <1>4. Cardinality(Requests) \in Nat \ {0}
    BY ConstantsAssumption, FS_CardinalityType, FS_EmptySet
  <1>5. ASSUME licenses[l] # None
        PROVE  /\ licenses[l].seats \in Nat /\ licenses'[l].seats = licenses[l].seats
               /\ licenses'[l] # None
               /\ Cardinality(A) + Cardinality(R) <= licenses[l].seats + Overrun
    <2>1. licenses[l] \in LicenseRow
      BY <1>1, <1>5 DEF TypeOK
    <2>2. licenses[l].seats \in Nat
      BY <2>1, ConstantsAssumption DEF LicenseRow
    <2>3. licenses'[l].seats = licenses[l].seats /\ licenses'[l] # None
      BY <1>1, <1>5 DEF RowsKept
    <2> QED
      BY <1>1, <1>5, <2>2, <2>3 DEF SeatsOK
  <1>6. Overrun = Cardinality(Requests) - 1
    BY DEF Overrun
  <1> HIDE DEF A, B, R, S
  \* Neither table nor race of l grows.
  <1>7. ASSUME B \subseteq A, S \subseteq R, licenses[l] # None
        PROVE  Cardinality(B) + Cardinality(S) <= licenses'[l].seats + Overrun
    <2>1. Cardinality(B) <= Cardinality(A) /\ Cardinality(S) <= Cardinality(R)
      BY <1>2, <1>3, <1>7, FS_Subset
    <2> QED
      BY <2>1, <1>2, <1>3, <1>4, <1>5, <1>6, <1>7
  <1>8. CASE UNCHANGED vars \/ Tick
    <2>1. B = A /\ S = R /\ licenses' = licenses
      BY <1>8 DEF vars, Tick, store, A, B, R, S, ActivationsOf, Racers, SeatFree
    <2>2. licenses[l] = None => A = {}
      BY <1>1 DEF SeatsOK, A
    <2> QED
      BY <1>7, <2>1, <2>2 DEF B, S
  <1>9. ASSUME NEW r \in Requests, Handle(r)
        PROVE  /\ licenses'[l] = None => B = {}
               /\ licenses'[l] # None =>
                    Cardinality(B) + Cardinality(S) <= licenses'[l].seats + Overrun
    <2>1. S \subseteq R \/ (CountActivations(r) /\ r \in S)
      BY <1>1, <1>9, RacersFrame DEF R, S
    <2>2. B \subseteq A \/ (CreateActivation(r) /\ call[r].license = l)
      BY <1>9, ActivationsFrame, CreateAddsOne DEF DeleteActivation, A, B, ActivationsOf
    <2>3. licenses[l] = None => A = {}
      BY <1>1 DEF SeatsOK, A
    \* The request joins the race: it has just counted a free seat.
    <2>4. CASE CountActivations(r) /\ r \in S
      <3>1. /\ call'[r] = call[r] /\ call[r].license = l /\ pc[r] = "count"
            /\ seen'[r] = seen[r] /\ seats_used'[r] = Cardinality(A)
            /\ seats_used'[r] < seen'[r].seats
            /\ activations' = activations /\ licenses' = licenses
        BY <1>1, <2>4 DEF CountActivations, Goto, Answer, TypeOK, S, A, Racers, SeatFree,
           store
      <3>2. licenses[l] # None /\ seen[r].seats = licenses[l].seats
        BY <1>1, <3>1 DEF SnapshotsOK, SnapshotOK
      <3>3. B = A
        BY <3>1 DEF A, B, ActivationsOf
      <3>4. Cardinality(A) < licenses[l].seats
        BY <3>1, <3>2
      <3> QED
        BY <3>1, <3>2, <3>3, <3>4, <1>2, <1>3, <1>4, <1>5, <1>6
    \* The request trades its race for a row.
    <2>5. CASE CreateActivation(r) /\ call[r].license = l
      <3>1. pc[r] = "create" /\ pc'[r] = "idle" /\ licenses' = licenses
        BY <1>1, <2>5 DEF CreateActivation, Answer, TypeOK
      <3>2. licenses[l] # None /\ r \in R
        BY <1>1, <2>5, <3>1 DEF SnapshotsOK, SnapshotOK, R, Racers
      <3>3. r \notin S
        BY <3>1 DEF S, Racers
      <3>4. S \subseteq R \ {r}
        BY <2>1, <3>3
      <3>5. Cardinality(S) <= Cardinality(R) - 1
        <4>1. IsFiniteSet(R \ {r}) /\ Cardinality(R \ {r}) = Cardinality(R) - 1
          BY <1>3, <3>2, FS_RemoveElement
        <4>2. Cardinality(S) <= Cardinality(R \ {r})
          BY <3>4, <4>1, FS_Subset
        <4> QED
          BY <4>1, <4>2
      <3>6. Cardinality(B) <= Cardinality(A) + 1
        <4>1. PICK a : activations' = activations \cup {a} /\ a.license = l
          BY <2>5, CreateAddsOne
        <4>2. B = A \cup {a}
          BY <4>1 DEF A, B, ActivationsOf
        <4> QED
          BY <1>2, <4>2, FS_AddElement
      <3> QED
        BY <3>1, <3>2, <3>5, <3>6, <1>2, <1>3, <1>4, <1>5, <1>6
    \* The license is new: it has neither activations nor racers.
    <2>6. CASE B \subseteq A /\ S \subseteq R /\ licenses[l] = None
      <3>1. B = {} /\ S = {}
        BY <2>3, <2>6, <1>3
      <3>2. licenses'[l] # None => licenses'[l].seats \in Nat
        <4>1. TypeOK'
          BY <1>1, TypeStep DEF IInv, ActivationsOK
        <4>2. licenses'[l] \in LicenseRow \cup {None}
          BY <4>1 DEF TypeOK
        <4> QED
          BY <4>2, ConstantsAssumption DEF LicenseRow
      <3> QED
        BY <3>1, <3>2, <1>4, <1>6, FS_EmptySet
    <2>7. CASE B \subseteq A /\ S \subseteq R /\ licenses[l] # None
      BY <1>5, <1>7, <2>7
    <2> QED
      BY <2>1, <2>2, <2>4, <2>5, <2>6, <2>7
  <1> QED
    BY <1>8, <1>9 DEF Next, B, S

-----------------------------------------------------------------------------
(* Machines and the bound on their activations.                            *)

\* Only listing the activations can make a request an activator; every other
\* step at most ends that.
LEMMA ActivatorsFrame ==
  ASSUME TypeOK, NEW r \in Requests, Handle(r),
         NEW l \in Licenses, NEW f \in Fingerprints
  PROVE  \/ Activators(l, f)' \subseteq Activators(l, f)
         \/ /\ ListActivations(r) /\ activations' = activations
            /\ OfMachine(l, f) = {}
  <1>1. \A q \in Requests \ {r} :
           q \in Activators(l, f)' => q \in Activators(l, f)
    BY LocalsFrame DEF OthersKept, Activators
  <1>2. ASSUME r \in Activators(l, f)'
        PROVE  /\ ListActivations(r) /\ activations' = activations
               /\ OfMachine(l, f) = {}
    <2>1. pc'[r] = "create" /\ call'[r].license = l /\ call'[r].fingerprint = f
      BY <1>2 DEF Activators
    <2>2. ListActivations(r)
      <3>1. CASE BeginValidate(r) \/ BeginRevoke(r) \/ BeginRevokeActivation(r)
                 \/ BeginGenerate(r)
        BY <2>1, <3>1 DEF BeginValidate, BeginRevoke, BeginRevokeActivation,
           BeginGenerate, Begin, TypeOK
      <3>2. CASE RateLimit(r) \/ Lookup(r) \/ Check(r) \/ CountActivations(r)
                 \/ CreateActivation(r)
        BY <2>1, <3>2 DEF RateLimit, Lookup, Check, CountActivations,
           CreateActivation, Goto, Answer, TypeOK
      <3>3. CASE GetProduct(r) \/ InsertLicense(r) \/ GetLicense(r)
        BY <2>1, <3>3 DEF GetProduct, InsertLicense, GetLicense, Goto, Answer, TypeOK
      <3>4. CASE SetLicenseStatus(r) \/ DeleteActivation(r) \/ Audit(r) \/ Fail(r)
        BY <2>1, <3>4 DEF SetLicenseStatus, DeleteActivation, Audit, Fail, Goto, Answer,
           TypeOK
      <3> QED
        BY <3>1, <3>2, <3>3, <3>4 DEF Handle
    <2>3. /\ ~Activated(call[r].license, call[r].fingerprint)
          /\ call' = call /\ activations' = activations
      BY <2>1, <2>2 DEF ListActivations, Goto, Answer, TypeOK, store
    <2>4. ~Activated(l, f)
      BY <2>1, <2>3
    <2> QED
      BY <2>2, <2>3, <2>4 DEF Activated, OfMachine, ActivationsOf
  <1> QED
    BY <1>1, <1>2 DEF Activators

\* The activations of a machine and its activators together stay within the
\* number of requests.
LEMMA MachinesStep ==
  IInv /\ [Next]_vars => MachinesOK'
  <1> SUFFICES ASSUME IInv, [Next]_vars, ActivationsOK',
                      NEW l \in Licenses, NEW f \in Fingerprints
               PROVE  Cardinality(OfMachine(l, f)') + Cardinality(Activators(l, f)')
                         <= Cardinality(Requests)
    BY ActivationsStep DEF MachinesOK, IInv
  <1> DEFINE A == OfMachine(l, f)
             B == OfMachine(l, f)'
             R == Activators(l, f)
             S == Activators(l, f)'
  <1>1. /\ IsFiniteSet(A) /\ IsFiniteSet(B)
        /\ Cardinality(A) \in Nat /\ Cardinality(B) \in Nat
    <2>1. A \in SUBSET activations /\ B \in SUBSET activations'
      BY DEF OfMachine, ActivationsOf
    <2>2. IsFiniteSet(activations) /\ IsFiniteSet(activations')
      BY DEF IInv, ActivationsOK
    <2>3. IsFiniteSet(A) /\ IsFiniteSet(B)
      BY <2>1, <2>2, FS_Subset
    <2> QED
      BY <2>3, FS_CardinalityType
  <1>2. /\ IsFiniteSet(R) /\ IsFiniteSet(S)
        /\ Cardinality(R) \in Nat /\ Cardinality(S) \in Nat
        /\ Cardinality(S) <= Cardinality(Requests)
    <2>1. R \in SUBSET Requests /\ S \in SUBSET Requests
      BY DEF Activators
    <2>2. IsFiniteSet(R) /\ IsFiniteSet(S) /\ Cardinality(S) <= Cardinality(Requests)
      BY <2>1, FS_Subset, ConstantsAssumption
    <2> QED
      BY <2>2, FS_CardinalityType
  <1>3. Cardinality(Requests) \in Nat
    BY ConstantsAssumption, FS_CardinalityType
  <1>4. TypeOK /\ Cardinality(A) + Cardinality(R) <= Cardinality(Requests)
    BY DEF IInv, MachinesOK
  <1> HIDE DEF A, B, R, S
  \* Neither the rows nor the activators of the machine grow.
  <1>5. ASSUME B \subseteq A, S \subseteq R
        PROVE  Cardinality(B) + Cardinality(S) <= Cardinality(Requests)
    <2>1. Cardinality(B) <= Cardinality(A) /\ Cardinality(S) <= Cardinality(R)
      BY <1>1, <1>2, <1>5, FS_Subset
    <2> QED
      BY <2>1, <1>1, <1>2, <1>3, <1>4
  <1>6. CASE UNCHANGED vars \/ Tick
    <2>1. B = A /\ S = R
      BY <1>6 DEF vars, Tick, store, A, B, R, S, OfMachine, ActivationsOf, Activators
    <2> QED
      BY <1>5, <2>1 DEF B, S
  <1>7. ASSUME NEW r \in Requests, Handle(r)
        PROVE  Cardinality(B) + Cardinality(S) <= Cardinality(Requests)
    <2>1. S \subseteq R \/ (activations' = activations /\ A = {})
      BY <1>4, <1>7, ActivatorsFrame DEF A, R, S
    \* The machine is unknown: nothing but its activators counts.
    <2>2. CASE activations' = activations /\ A = {}
      <3>1. B = {}
        BY <2>2 DEF A, B, OfMachine, ActivationsOf
      <3> QED
        BY <3>1, <1>2, <1>3, FS_EmptySet
    \* The request trades its intention for a row.
    <2>3. CASE S \subseteq R /\ CreateActivation(r) /\ r \in R
      <3>1. pc'[r] = "idle"
        BY <1>4, <2>3 DEF CreateActivation, Answer, TypeOK
      <3>2. S \subseteq R \ {r}
        BY <2>3, <3>1 DEF S, Activators
      <3>3. IsFiniteSet(R \ {r}) /\ Cardinality(R \ {r}) = Cardinality(R) - 1
        BY <1>2, <2>3, FS_RemoveElement
      <3>4. Cardinality(S) <= Cardinality(R) - 1
        BY <3>2, <3>3, FS_Subset
      <3>5. PICK a : activations' = activations \cup {a}
        BY <2>3, CreateAddsOne
      <3>6. B \subseteq A \cup {a}
        BY <3>5 DEF A, B, OfMachine, ActivationsOf
      <3>7. /\ IsFiniteSet(A \cup {a})
            /\ Cardinality(A \cup {a}) = Cardinality(A)
               \/ Cardinality(A \cup {a}) = Cardinality(A) + 1
        BY <1>1, FS_AddElement
      <3>8. Cardinality(B) <= Cardinality(A \cup {a})
        BY <3>6, <3>7, FS_Subset
      <3> QED
        BY <3>4, <3>7, <3>8, <1>1, <1>2, <1>3, <1>4
    \* A row of another license or another machine.
    <2>4. CASE S \subseteq R /\ CreateActivation(r) /\ r \notin R
      <3>1. pc[r] = "create" /\ ~(call[r].license = l /\ call[r].fingerprint = f)
        BY <2>4 DEF CreateActivation, R, Activators
      <3>2. PICK a : /\ activations' = activations \cup {a}
                     /\ a.license = call[r].license
                     /\ a.fingerprint = call[r].fingerprint
        BY <2>4, CreateAddsOne
      <3>3. B \subseteq A
        BY <3>1, <3>2 DEF A, B, OfMachine, ActivationsOf
      <3> QED
        BY <1>5, <2>4, <3>3
    <2>5. CASE S \subseteq R /\ ~CreateActivation(r)
      <3>1. activations' \subseteq activations
        BY <1>7, <2>5, ActivationsFrame DEF DeleteActivation
      <3>2. B \subseteq A
        BY <3>1 DEF A, B, OfMachine, ActivationsOf
      <3> QED
        BY <1>5, <2>5, <3>2
    <2> QED
      BY <2>1, <2>2, <2>3, <2>4, <2>5
  <1> QED
    BY <1>6, <1>7 DEF Next, B, S

-----------------------------------------------------------------------------
(* The theorems.                                                           *)

\* The inductive invariant holds of the empty store.
LEMMA IInvInit == Init => IInv
  <1> SUFFICES ASSUME Init PROVE IInv
    OBVIOUS
  <1>1. TypeOK /\ RequestOK
    BY TypeInit
  <1>2. SnapshotsOK /\ DeadAreRefused
    BY DEF Init, SnapshotsOK, SnapshotOK, DeadAreRefused, DeadOK
  <1>3. ActivationsOK /\ SeatsOK
    BY FS_EmptySet DEF Init, ActivationsOK, SeatsOK, ActivationsOf
  <1>4. MachinesOK
    <2> SUFFICES ASSUME NEW l \in Licenses, NEW f \in Fingerprints
                 PROVE  Cardinality(OfMachine(l, f)) + Cardinality(Activators(l, f))
                           <= Cardinality(Requests)
      BY DEF MachinesOK
    <2>1. OfMachine(l, f) = {} /\ Activators(l, f) = {}
      BY DEF Init, OfMachine, ActivationsOf, Activators
    <2>2. Cardinality(Requests) \in Nat
      BY ConstantsAssumption, FS_CardinalityType
    <2> QED
      BY <2>1, <2>2, FS_EmptySet
  <1> QED
    BY <1>1, <1>2, <1>3, <1>4 DEF IInv

\* Every step keeps the inductive invariant.
LEMMA IInvStep == IInv /\ [Next]_vars => IInv'
  BY TypeStep, RequestStep, SnapshotStep, DeadStep, ActivationsStep, SeatsStep,
     MachinesStep
     DEF IInv, ActivationsOK

\* The strengthened invariant holds whatever the number of requests, licenses,
\* organizations and machines, whatever the seats and expiries asked for.
THEOREM Invariance == Spec => []IInv
  BY IInvInit, IInvStep, PTL DEF Spec

\* Every variable keeps its type.
THEOREM TypeCorrect == Spec => []TypeOK
  <1>1. IInv => TypeOK
    BY DEF IInv
  <1> QED
    BY <1>1, Invariance, PTL

\* A license never exceeds its seats by more than the number of other requests
\* in flight; with one request at a time the seat limit is exact.
THEOREM SeatOverrun == Spec => []SeatOverrunBounded
  <1>1. IInv => SeatOverrunBounded
    <2> SUFFICES ASSUME IInv, NEW l \in Licenses, licenses[l] # None
                 PROVE  Cardinality(ActivationsOf(l)) <= licenses[l].seats + Overrun
      BY DEF SeatOverrunBounded
    <2>1. Cardinality(ActivationsOf(l)) + Cardinality(Racers(l))
             <= licenses[l].seats + Overrun
      BY DEF IInv, SeatsOK
    <2>2. Cardinality(ActivationsOf(l)) \in Nat
      BY FS_Subset, FS_CardinalityType DEF IInv, ActivationsOK, ActivationsOf
    <2>3. Cardinality(Racers(l)) \in Nat
      BY RacersFacts, FS_CardinalityType DEF IInv
    <2>4. licenses[l].seats \in Nat /\ Overrun \in Int
      <3>1. Cardinality(Requests) \in Nat
        BY ConstantsAssumption, FS_CardinalityType
      <3>2. licenses[l] \in LicenseRow
        BY DEF IInv, TypeOK
      <3>3. licenses[l].seats \in Nat
        BY <3>2, ConstantsAssumption DEF LicenseRow
      <3> QED
        BY <3>1, <3>3 DEF Overrun
    <2> QED
      BY <2>1, <2>2, <2>3, <2>4
  <1> QED
    BY <1>1, Invariance, PTL

\* A machine is activated on a license at most once for each call in flight,
\* however often it validates and whatever is freed in between.
THEOREM MachineOverrun == Spec => []MachineOverrunBounded
  <1>1. IInv => MachineOverrunBounded
    <2> SUFFICES ASSUME IInv, NEW l \in Licenses, NEW f \in Fingerprints
                 PROVE  Cardinality(OfMachine(l, f)) <= Cardinality(Requests)
      BY DEF MachineOverrunBounded
    <2>1. Cardinality(OfMachine(l, f)) + Cardinality(Activators(l, f))
             <= Cardinality(Requests)
      BY DEF IInv, MachinesOK
    <2>2. Cardinality(OfMachine(l, f)) \in Nat
      BY FS_Subset, FS_CardinalityType DEF IInv, ActivationsOK, OfMachine, ActivationsOf
    <2>3. Cardinality(Activators(l, f)) \in Nat
      <3>1. Activators(l, f) \in SUBSET Requests
        BY DEF Activators
      <3> QED
        BY <3>1, FS_Subset, FS_CardinalityType, ConstantsAssumption
    <2>4. Cardinality(Requests) \in Nat
      BY ConstantsAssumption, FS_CardinalityType
    <2> QED
      BY <2>1, <2>2, <2>3, <2>4
  <1> QED
    BY <1>1, Invariance, PTL

\* A request moves by its own steps only.
LEMMA Mover ==
  ASSUME TypeOK, [Next]_vars, NEW r \in Requests, pc'[r] # pc[r]
  PROVE  Handle(r)
  BY LocalsFrame DEF Next, Tick, vars, OthersKept

\* Only ListActivations leads to CreateActivation.
LEMMA CreateEntry ==
  ASSUME TypeOK, NEW r \in Requests, Handle(r), pc'[r] = "create"
  PROVE  ListActivations(r)
  <1>1. CASE BeginValidate(r) \/ BeginRevoke(r) \/ BeginRevokeActivation(r)
             \/ BeginGenerate(r)
    BY <1>1 DEF BeginValidate, BeginRevoke, BeginRevokeActivation, BeginGenerate,
       Begin, TypeOK
  <1>2. CASE RateLimit(r) \/ Lookup(r) \/ Check(r) \/ CountActivations(r)
    BY <1>2 DEF RateLimit, Lookup, Check, CountActivations, Goto, Answer, TypeOK
  <1>3. CASE CreateActivation(r) \/ GetProduct(r) \/ InsertLicense(r) \/ GetLicense(r)
    BY <1>3 DEF CreateActivation, GetProduct, InsertLicense, GetLicense, Goto, Answer,
       TypeOK
  <1>4. CASE SetLicenseStatus(r) \/ DeleteActivation(r) \/ Audit(r) \/ Fail(r)
    BY <1>4 DEF SetLicenseStatus, DeleteActivation, Audit, Fail, Goto, Answer, TypeOK
  <1> QED
    BY <1>1, <1>2, <1>3, <1>4 DEF Handle

\* Only the last steps of validate answer "valid".
LEMMA ValidConclusion ==
  ASSUME TypeOK, [Next]_vars, NEW r \in Requests, Concludes(r, "valid")
  PROVE  CountActivations(r) \/ ListActivations(r) \/ CreateActivation(r)
  <1>1. pc[r] # "idle" /\ pc'[r] = "idle" /\ reply'[r] = "valid"
    BY DEF Concludes
  <1>2. Handle(r)
    BY <1>1, Mover
  <1>3. CASE BeginValidate(r) \/ BeginRevoke(r) \/ BeginRevokeActivation(r)
             \/ BeginGenerate(r)
    BY <1>1, <1>3 DEF BeginValidate, BeginRevoke, BeginRevokeActivation, BeginGenerate,
       Begin
  <1>4. CASE RateLimit(r) \/ Lookup(r) \/ Check(r)
    BY <1>1, <1>4 DEF RateLimit, Lookup, Check, Goto, Answer, TypeOK
  <1>5. CASE GetProduct(r) \/ InsertLicense(r) \/ GetLicense(r)
    BY <1>1, <1>5 DEF GetProduct, InsertLicense, GetLicense, Goto, Answer, TypeOK
  <1>6. CASE SetLicenseStatus(r) \/ DeleteActivation(r) \/ Audit(r) \/ Fail(r)
    BY <1>1, <1>6 DEF SetLicenseStatus, DeleteActivation, Audit, Fail, Goto, Answer, TypeOK
  <1> QED
    BY <1>2, <1>3, <1>4, <1>5, <1>6 DEF Handle

\* A validate call that arrives after its license was revoked or expired is
\* never answered "valid" and never takes a seat.
THEOREM DeadRefused == Spec => DeadLicenseRefused
  <1>1. ASSUME IInv, [Next]_vars, NEW r \in Requests,
               Concludes(r, "valid") \/ pc'[r] = "create"
        PROVE  ~call[r].dead
    <2>1. DeadOK(r) /\ TypeOK
      BY <1>1 DEF IInv, DeadAreRefused
    <2>2. pc[r] \in {"count", "list", "create"}
      <3>1. CASE Concludes(r, "valid")
        BY <1>1, <2>1, <3>1, ValidConclusion DEF CountActivations, ListActivations,
           CreateActivation
      <3>2. CASE pc'[r] = "create"
        BY <1>1, <2>1, <3>2, Mover, CreateEntry DEF ListActivations
      <3> QED
        BY <1>1, <3>1, <3>2
    <2> QED
      BY <2>1, <2>2 DEF DeadOK
  <1>2. IInv /\ [Next]_vars =>
          \A r \in Requests :
             Concludes(r, "valid") \/ pc'[r] = "create" => ~call[r].dead
    BY <1>1
  <1> QED
    BY <1>2, Invariance, PTL DEF Spec, DeadLicenseRefused

\* A machine told its license is valid holds a seat of it at that moment.
THEOREM ValidSeated == Spec => ValidMachineSeated
  <1>1. ASSUME IInv, [Next]_vars, NEW r \in Requests, NEW l \in Licenses,
               NEW f \in Fingerprints, Concludes(r, "valid"),
               call[r].license = l, call[r].fingerprint = f
        PROVE  Activated(l, f) \/ Activated(l, f)'
    <2>1. TypeOK /\ pc'[r] = "idle" /\ reply'[r] = "valid"
      BY <1>1 DEF IInv, Concludes
    <2>2. CASE CountActivations(r)
      <3>1. f # None
        BY NoneAssumption
      <3> QED
        BY <1>1, <2>1, <2>2, <3>1 DEF CountActivations, Goto, TypeOK
    <2>3. CASE ListActivations(r)
      BY <1>1, <2>1, <2>3 DEF ListActivations, Goto, Answer, TypeOK
    <2>4. CASE CreateActivation(r)
      <3>1. PICK a : [id |-> a, license |-> l, fingerprint |-> f] \in activations'
        BY <1>1, <2>4 DEF CreateActivation
      <3> QED
        BY <3>1 DEF Activated
    <2> QED
      BY <1>1, <2>1, <2>2, <2>3, <2>4, ValidConclusion
  <1>2. IInv /\ [Next]_vars =>
          \A r \in Requests, l \in Licenses, f \in Fingerprints :
             /\ Concludes(r, "valid")
             /\ call[r].license = l /\ call[r].fingerprint = f
             => Activated(l, f) \/ Activated(l, f)'
    BY <1>1
  <1> QED
    BY <1>2, Invariance, PTL DEF Spec, ValidMachineSeated

\* Every audit entry is filed under the owner of the license it names; a
\* "revoke" entry names a revoked license, and a "revoke_activation" entry an
\* activation that its license does not have: ids in the log are not given again.
THEOREM AuditTruth == Spec => []AuditTruthful
  <1>1. Init => AuditTruthful
    BY DEF Init, AuditTruthful
  <1>2. ASSUME IInv, AuditTruthful, [Next]_vars
        PROVE  AuditTruthful'
    <2>1. RowsKept /\ TypeOK /\ RequestOK
      BY <1>2, RowsFrame DEF IInv
    <2>2. \A e \in audit_log : e.license \in Licenses
      BY <2>1 DEF TypeOK, Entry
    <2>3. ASSUME UNCHANGED audit_log,
                 \A x \in activations' \ activations, e \in audit_log : x.id # e.activation
          PROVE  AuditTruthful'
      BY <1>2, <2>1, <2>2, <2>3 DEF AuditTruthful, RowsKept, ActivationsOf
    <2>4. ASSUME NEW r \in Requests, Audit(r)
          PROVE  AuditTruthful'
      <3>1. /\ pc[r] = "audit" /\ ArgumentsOK(r) /\ licenses' = licenses
            /\ activations' = activations
            /\ audit_log' \subseteq audit_log \cup
                  {[action |-> call[r].op, org |-> call[r].org,
                    license |-> call[r].license,
                    activation |-> call[r].activation]}
        BY <2>1, <2>4 DEF Audit, RequestOK
      <3> QED
        BY <1>2, <3>1 DEF AuditTruthful, ArgumentsOK, ActivationsOf
    <2>5. ASSUME NEW r \in Requests, Handle(r), ~Audit(r)
          PROVE  UNCHANGED audit_log
      <3>1. CASE BeginValidate(r) \/ BeginRevoke(r) \/ BeginRevokeActivation(r)
                 \/ BeginGenerate(r)
        BY <3>1 DEF BeginValidate, BeginRevoke, BeginRevokeActivation, BeginGenerate,
           Begin, store
      <3> QED
        BY <2>5, <3>1 DEF Handle, RateLimit, Lookup, Check, CountActivations,
           ListActivations, CreateActivation, GetProduct, InsertLicense, GetLicense,
           SetLicenseStatus, DeleteActivation, Fail, store
    <2>6. ASSUME NEW r \in Requests, Handle(r)
          PROVE  \A x \in activations' \ activations, e \in audit_log : x.id # e.activation
      BY <2>6, NewAreFresh DEF FreshActivationId
    <2>7. CASE UNCHANGED vars \/ Tick
      BY <2>3, <2>7 DEF vars, Tick, store
    <2> QED
      BY <1>2, <2>3, <2>4, <2>5, <2>6, <2>7 DEF Next
  <1> QED
    BY <1>1, <1>2, Invariance, PTL DEF Spec

\* A license and its activations change only by a step of a request of the
\* organization that owns it.
THEOREM OwnersOnly == Spec => OwnerChangesOnly
  <1>1. ASSUME IInv, [Next]_vars, NEW l \in Licenses, licenses[l] # None,
               licenses'[l] # licenses[l] \/ ActivationsOf(l)' # ActivationsOf(l)
        PROVE  \E r \in Requests : /\ pc'[r] # pc[r]
                                   /\ call[r].license = l
                                   /\ call[r].org = licenses[l].org
    <2>1. TypeOK /\ RequestOK /\ SnapshotsOK
      BY <1>1 DEF IInv
    <2>2. PICK r \in Requests : Handle(r)
      BY <1>1 DEF Next, Tick, vars, store, ActivationsOf
    <2>3. ArgumentsOK(r)
      BY <2>1 DEF RequestOK
    <2>4. CASE SetLicenseStatus(r)
      <3>1. pc[r] = "set" /\ pc'[r] = "audit" /\ activations' = activations
        BY <2>1, <2>4 DEF SetLicenseStatus, Goto, TypeOK
      <3>2. call[r].license = l
        BY <1>1, <2>1, <2>4, <3>1 DEF SetLicenseStatus, TypeOK, ActivationsOf
      <3> QED
        BY <2>3, <3>1, <3>2 DEF ArgumentsOK
    <2>5. CASE InsertLicense(r)
      BY <1>1, <2>1, <2>5 DEF InsertLicense, TypeOK, ActivationsOf
    <2>6. CASE DeleteActivation(r)
      <3>1. pc[r] = "delete" /\ pc'[r] = "audit" /\ licenses' = licenses
        BY <2>1, <2>6 DEF DeleteActivation, Goto, TypeOK
      <3>2. call[r].license = l
        BY <1>1, <2>6, <3>1 DEF DeleteActivation, ActivationsOf
      <3> QED
        BY <2>3, <3>1, <3>2 DEF ArgumentsOK
    <2>7. CASE CreateActivation(r)
      <3>1. pc[r] = "create" /\ pc'[r] = "idle" /\ licenses' = licenses
        BY <2>1, <2>7 DEF CreateActivation, Answer, TypeOK
      <3>2. PICK a : activations' = activations \cup {a} /\ a.license = call[r].license
        BY <2>7, CreateAddsOne
      <3>3. call[r].license = l
        BY <1>1, <3>1, <3>2 DEF ActivationsOf
      <3> QED
        BY <2>1, <3>1, <3>3 DEF SnapshotsOK, SnapshotOK
    <2> QED
      BY <1>1, <2>2, <2>4, <2>5, <2>6, <2>7, LicensesFrame, ActivationsFrame DEF ActivationsOf
  <1>2. IInv /\ [Next]_vars =>
          \A l \in Licenses :
             /\ licenses[l] # None
             /\ licenses'[l] # licenses[l] \/ ActivationsOf(l)' # ActivationsOf(l)
             => \E r \in Requests : /\ pc'[r] # pc[r]
                                    /\ call[r].license = l
                                    /\ call[r].org = licenses[l].org
    BY <1>1
  <1> QED
    BY <1>2, Invariance, PTL DEF Spec, OwnerChangesOnly

-----------------------------------------------------------------------------
(* The store implements the ledger.                                        *)

\* Issuing, revoking, taking and freeing are what four storage calls do.
LEMMA LedgerStep ==
  ASSUME IInv, [Next]_vars
  PROVE  [Ledger!Next]_(Ledger!ledger)
  <1>1. TypeOK /\ RequestOK /\ SnapshotsOK /\ ActivationsOK /\ SeatsOK
    BY DEF IInv
  <1>2. CASE UNCHANGED vars \/ Tick
    BY <1>2 DEF vars, Tick, store, Ledger!ledger
  <1>3. ASSUME NEW r \in Requests, InsertLicense(r)
        PROVE  Ledger!Next
    <2>1. PICK l \in Licenses, s \in SeatCounts, e \in Expiries :
             /\ licenses[l] = None
             /\ licenses' = [licenses EXCEPT ![l] =
                   [org |-> call[r].org, product |-> call[r].product,
                    seats |-> s, expires_at |-> e, status |-> "Active"]]
      BY <1>3 DEF InsertLicense
    <2>2. call[r] \in Call /\ call[r].product \in Products
      BY <1>1, <1>3 DEF InsertLicense, RequestOK, ArgumentsOK
    <2>3. [org |-> call[r].org, product |-> call[r].product,
           seats |-> s, expires_at |-> e, status |-> "Active"] \in LicenseRow
      BY <2>2 DEF Call, LicenseRow
    <2>4. activations' = activations
      BY <1>3 DEF InsertLicense
    <2>5. Ledger!Issue(l)
      BY <2>1, <2>3, <2>4 DEF Ledger!Issue
    <2> QED
      BY <2>5 DEF Ledger!Next
  <1>4. ASSUME NEW r \in Requests, SetLicenseStatus(r)
        PROVE  Ledger!Next
    <2>1. call[r].license \in Licenses /\ licenses[call[r].license] # None
      BY <1>1, <1>4 DEF SetLicenseStatus, RequestOK, ArgumentsOK
    <2>2. Ledger!Revoke(call[r].license)
      BY <1>4, <2>1 DEF SetLicenseStatus, Ledger!Revoke
    <2> QED
      BY <2>1, <2>2 DEF Ledger!Next
  <1>5. ASSUME NEW r \in Requests, CreateActivation(r)
        PROVE  Ledger!Next
    <2> DEFINE l == call[r].license
    <2>1. /\ l \in Licenses /\ call[r].fingerprint \in Fingerprints
          /\ pc[r] = "create" /\ SeatFree(r)
          /\ licenses[l] # None /\ seen[r].seats = licenses[l].seats
      BY <1>1, <1>5 DEF CreateActivation, RequestOK, ArgumentsOK, SnapshotsOK, SnapshotOK
    <2>2. licenses[l].seats \in Nat /\ seats_used[r] \in Nat
      BY <1>1, <2>1, ConstantsAssumption DEF TypeOK, LicenseRow
    <2>3. licenses[l].seats > 0
      BY <2>1, <2>2 DEF SeatFree
    <2>4. Cardinality(ActivationsOf(l)) < licenses[l].seats + Overrun
      <3>1. Cardinality(ActivationsOf(l)) + Cardinality(Racers(l))
               <= licenses[l].seats + Overrun
        BY <1>1, <2>1 DEF SeatsOK
      <3>2. r \in Racers(l) /\ IsFiniteSet(Racers(l))
        BY <1>1, <2>1, RacersFacts DEF Racers
      <3>3. Cardinality(Racers(l)) \in Nat \ {0}
        BY <3>2, FS_CardinalityType, FS_EmptySet
      <3>4. Cardinality(ActivationsOf(l)) \in Nat
        BY <1>1, FS_Subset, FS_CardinalityType DEF ActivationsOK, ActivationsOf
      <3>5. Overrun \in Int
        BY ConstantsAssumption, FS_CardinalityType DEF Overrun
      <3> QED
        BY <2>2, <3>1, <3>3, <3>4, <3>5
    <2>5. Ledger!Cardinality(Ledger!Taken(l)) = Cardinality(ActivationsOf(l))
      BY DEF Ledger!Taken, ActivationsOf, Ledger!Cardinality, Cardinality
    <2>6. PICK a \in ActivationIds :
             /\ FreshActivationId(a)
             /\ activations' = activations \cup
                    {[id |-> a, license |-> l, fingerprint |-> call[r].fingerprint]}
      BY <1>5 DEF CreateActivation
    <2>7. /\ [id |-> a, license |-> l, fingerprint |-> call[r].fingerprint] \in Activation
          /\ \A x \in activations : x.id # a
      BY <2>1, <2>6 DEF Activation, FreshActivationId
    <2>8. licenses' = licenses
      BY <1>5 DEF CreateActivation
    <2>9. Ledger!TakeSeat(l)
      BY <2>1, <2>3, <2>4, <2>5, <2>6, <2>7, <2>8 DEF Ledger!TakeSeat
    <2> QED
      BY <2>1, <2>9 DEF Ledger!Next
  \* At most one row carries the id that is deleted.
  <1>6. ASSUME NEW r \in Requests, DeleteActivation(r)
        PROVE  [Ledger!Next]_(Ledger!ledger)
    <2> DEFINE Gone == {x \in activations : /\ x.id = call[r].activation
                                            /\ x.license = call[r].license}
    <2>1. activations' = activations \ Gone /\ licenses' = licenses
      BY <1>6 DEF DeleteActivation
    <2>2. CASE Gone = {}
      BY <2>1, <2>2 DEF Ledger!ledger
    <2>3. CASE Gone # {}
      <3>1. PICK x : x \in Gone
        BY <2>3
      <3>2. Gone = {x}
        BY <1>1, <3>1 DEF ActivationsOK
      <3>3. Ledger!FreeSeat(x) /\ x \in activations
        BY <2>1, <3>1, <3>2 DEF Ledger!FreeSeat
      <3> QED
        BY <3>3 DEF Ledger!Next
    <2> QED
      BY <2>2, <2>3
  <1>7. ASSUME UNCHANGED licenses, UNCHANGED activations
        PROVE  [Ledger!Next]_(Ledger!ledger)
    BY <1>7 DEF Ledger!ledger
  <1>8. ASSUME NEW r \in Requests, Handle(r)
        PROVE  [Ledger!Next]_(Ledger!ledger)
    <2>1. SetLicenseStatus(r) => UNCHANGED activations
      BY DEF SetLicenseStatus
    <2>2. InsertLicense(r) => UNCHANGED activations
      BY DEF InsertLicense
    <2> QED
      BY <1>3, <1>4, <1>5, <1>6, <1>7, <1>8, <2>1, <2>2, LicensesFrame, ActivationsFrame
  <1> QED
    BY <1>2, <1>8 DEF Next

\* The license and activation tables, whatever requests race on them, change
\* as the seat ledger's do, with an overrun of the other requests in flight.
THEOREM Refinement == Spec => ImplementsLedger
  <1>1. Init => Ledger!Init
    BY DEF Init, Ledger!Init
  <1>2. IInv /\ [Next]_vars => [Ledger!Next]_(Ledger!ledger)
    BY LedgerStep
  <1> QED
    BY <1>1, <1>2, Invariance, PTL DEF Spec, ImplementsLedger, Ledger!Spec
=============================================================================
