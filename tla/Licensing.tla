------------------------------ MODULE Licensing ------------------------------
(***************************************************************************)
(* The license routes of thaumiel-server (routes/licenses.rs) over the     *)
(* storage they share.  A request is a task of the async runtime: it runs  *)
(* alone from one await to the next, and other requests run in between.    *)
(* Each action below is one such stretch, named for the storage call it    *)
(* makes; what a handler read stays in its locals (seen, seats_used) while *)
(* the rows it read may change.                                            *)
(*                                                                         *)
(* Abstracted: a license is looked up by its key or by its id alike, both  *)
(* being unique; authentication has already named the caller's             *)
(* organization; the rate limiter and the keygen backend may give any of   *)
(* their verdicts; the wording of a refusal is left out.                   *)
(***************************************************************************)
EXTENDS Naturals, FiniteSets

CONSTANTS
    Requests,       \* the tasks that may be in flight at the same time
    Orgs,
    Products,
    ProductOrg,     \* ProductOrg[p]: the organization product p belongs to
    Licenses,       \* ids the program may give to licenses (bounds generate)
    ActivationIds,  \* ids the program may give to activations
    Fingerprints,   \* machine fingerprints
    SeatCounts,     \* seat counts a generate request may ask for
    Expiries,       \* expiry times it may ask for, None among them
    MaxTime,        \* bound on the clock
    None            \* an absent row, an omitted field

Times == 0 .. MaxTime

LicenseRow == [org : Orgs, product : Products, seats : SeatCounts,
               expires_at : Expiries, status : {"Active", "Revoked"}]

Activation == [id : ActivationIds, license : Licenses,
               fingerprint : Fingerprints]

Ops == {"generate", "validate", "revoke", "revoke_activation"}

Call == [org : Orgs, product : Products \cup {None},
         license : Licenses \cup {None},
         fingerprint : Fingerprints \cup {None},
         op : Ops, activation : ActivationIds \cup {None},
         dead : BOOLEAN]    \* history: was the license unusable on arrival?

Entry == [org : Orgs, license : Licenses, action : Ops,
          activation : ActivationIds \cup {None}]

Steps == {"idle", "rate_limit", "lookup", "check", "count", "list", "create",
          "product", "insert", "get", "set", "delete", "audit"}

Replies == {"none", "valid", "invalid", "seat_limit", "rate_limited",
            "not_found", "ok", "error"}

ASSUME ConstantsAssumption ==
    /\ IsFiniteSet(Requests) /\ Requests # {}
    /\ ProductOrg \in [Products -> Orgs]
    /\ SeatCounts \subseteq Nat
    /\ Expiries \subseteq Times \cup {None}
    /\ MaxTime \in Nat

ASSUME NoneAssumption ==
    None \notin Licenses \cup Products \cup Fingerprints \cup ActivationIds
                \cup Times \cup LicenseRow

VARIABLES
    licenses,       \* the license_keys table: a row, or None, per id
    activations,    \* the activations table
    audit_log,      \* the audit_log table
    now,            \* the wall clock
    pc,             \* the next step of each request, "idle" when not running
    call,           \* the arguments of each request in flight
    seen,           \* the license row a validate request read
    seats_used,     \* the count a validate request read, then reports
    reply           \* the answer of each request, "none" until it has one

store == <<licenses, activations, audit_log>>
vars == <<licenses, activations, audit_log, now, pc, call, seen, seats_used,
          reply>>

-----------------------------------------------------------------------------
(* The model's rules and the queries of the storage trait.                 *)

Expired(row, t) == row.expires_at # None /\ t >= row.expires_at

IsUsable(row, t) == row.status = "Active" /\ ~Expired(row, t)

\* A license that exists and is revoked or past its expiry.
Dead(l) == licenses[l] # None /\ ~IsUsable(licenses[l], now)

ActivationsOf(l) == {a \in activations : a.license = l}

Activated(l, f) == \E a \in activations : a.license = l /\ a.fingerprint = f

\* Mutant of FreshActivationId: ids that may collide with a stored one.
CollidingActivationId(a) == a \in ActivationIds

\* Ids are random UUIDs: a new one is carried by no row and named by no
\* audit entry and no request in flight.  Ids that are named nowhere any more
\* may be taken again, which keeps the pool finite.
FreshActivationId(a) ==
    /\ \A x \in activations : x.id # a
    /\ \A e \in audit_log : e.activation # a
    /\ \A r \in Requests : pc[r] # "idle" => call[r].activation # a

Init ==
    /\ licenses = [l \in Licenses |-> None]
    /\ activations = {}
    /\ audit_log = {}
    /\ now = 0
    /\ pc = [r \in Requests |-> "idle"]
    /\ call = [r \in Requests |-> None]
    /\ seen = [r \in Requests |-> None]
    /\ seats_used = [r \in Requests |-> 0]
    /\ reply = [r \in Requests |-> "none"]

Goto(r, step) ==
    /\ pc' = [pc EXCEPT ![r] = step]
    /\ UNCHANGED <<call, seen, reply>>

\* The handler returns and its locals go; the seats it counted are reported.
Answer(r, answer) ==
    /\ pc' = [pc EXCEPT ![r] = "idle"]
    /\ call' = [call EXCEPT ![r] = None]
    /\ seen' = [seen EXCEPT ![r] = None]
    /\ reply' = [reply EXCEPT ![r] = answer]

-----------------------------------------------------------------------------
(* Arrival of a request.                                                   *)

Begin(r, c, step) ==
    /\ pc[r] = "idle"
    /\ pc' = [pc EXCEPT ![r] = step]
    /\ call' = [call EXCEPT ![r] = c]
    /\ seats_used' = [seats_used EXCEPT ![r] = 0]
    /\ reply' = [reply EXCEPT ![r] = "none"]
    /\ UNCHANGED <<store, now, seen>>

BeginValidate(r) ==
    \E o \in Orgs, p \in Products, l \in Licenses,
       f \in Fingerprints \cup {None} :
        Begin(r, [org |-> o, product |-> p, license |-> l, fingerprint |-> f,
                  op |-> "validate", activation |-> None, dead |-> Dead(l)],
              "rate_limit")

BeginRevoke(r) ==
    \E o \in Orgs, l \in Licenses :
        Begin(r, [org |-> o, product |-> None, license |-> l,
                  fingerprint |-> None, op |-> "revoke",
                  activation |-> None, dead |-> FALSE],
              "get")

BeginRevokeActivation(r) ==
    \E o \in Orgs, l \in Licenses, a \in ActivationIds :
        Begin(r, [org |-> o, product |-> None, license |-> l,
                  fingerprint |-> None, op |-> "revoke_activation",
                  activation |-> a, dead |-> FALSE],
              "get")

BeginGenerate(r) ==
    \E o \in Orgs, p \in Products :
        Begin(r, [org |-> o, product |-> p, license |-> None,
                  fingerprint |-> None, op |-> "generate",
                  activation |-> None, dead |-> FALSE],
              "product")

-----------------------------------------------------------------------------
(* validate                                                                *)

RateLimit(r) ==
    /\ pc[r] = "rate_limit"
    /\ Goto(r, "lookup") \/ Answer(r, "rate_limited")
    /\ UNCHANGED <<store, now, seats_used>>

\* A missing row and a failing lookup get the same answer.
Lookup(r) ==
    /\ pc[r] = "lookup"
    /\ \/ /\ licenses[call[r].license] # None
          /\ seen' = [seen EXCEPT ![r] = licenses[call[r].license]]
          /\ pc' = [pc EXCEPT ![r] = "check"]
          /\ UNCHANGED <<call, reply>>
       \/ Answer(r, "invalid")
    /\ UNCHANGED <<store, now, seats_used>>

Matches(row, c) == row.org = c.org /\ row.product = c.product

\* Mutant of Check: the expiry is not looked at.
CheckStatusOnly(r) ==
    /\ pc[r] = "check"
    /\ \/ /\ Matches(seen[r], call[r]) /\ seen[r].status = "Active"
          /\ Goto(r, "count") \/ Answer(r, "error")
       \/ Answer(r, "invalid")
    /\ UNCHANGED <<store, now, seats_used>>

\* The clock is read here, the row was read by Lookup.  The keygen backend
\* may refuse the key, or no longer be registered.
Check(r) ==
    /\ pc[r] = "check"
    /\ \/ /\ Matches(seen[r], call[r]) /\ IsUsable(seen[r], now)
          /\ Goto(r, "count") \/ Answer(r, "error")
       \/ Answer(r, "invalid")
    /\ UNCHANGED <<store, now, seats_used>>

CountActivations(r) ==
    /\ pc[r] = "count"
    /\ seats_used' = [seats_used EXCEPT
                        ![r] = Cardinality(ActivationsOf(call[r].license))]
    /\ IF call[r].fingerprint = None THEN Answer(r, "valid") ELSE Goto(r, "list")
    /\ UNCHANGED <<store, now>>

\* Mutant of SeatFree: one seat too many.
SeatFreeOffByOne(r) == seats_used[r] <= seen[r].seats

SeatFree(r) == seats_used[r] < seen[r].seats

\* Mutant of ListActivations: a machine known to any license is accepted.
ListEveryLicense(r) ==
    /\ pc[r] = "list"
    /\ IF \E a \in activations : a.fingerprint = call[r].fingerprint
       THEN Answer(r, "valid")
       ELSE IF SeatFree(r) THEN Goto(r, "create") ELSE Answer(r, "seat_limit")
    /\ UNCHANGED <<store, now, seats_used>>

\* Mutant of ListActivations: whether the machine is known is not asked.
ListUnasked(r) ==
    /\ pc[r] = "list"
    /\ IF SeatFree(r) THEN Goto(r, "create") ELSE Answer(r, "seat_limit")
    /\ UNCHANGED <<store, now, seats_used>>

ListActivations(r) ==
    /\ pc[r] = "list"
    /\ \/ /\ Activated(call[r].license, call[r].fingerprint)
          /\ Answer(r, "valid")
       \/ /\ ~Activated(call[r].license, call[r].fingerprint)
          /\ IF SeatFree(r) THEN Goto(r, "create") ELSE Answer(r, "seat_limit")
    /\ UNCHANGED <<store, now, seats_used>>

\* The row may be committed and the acknowledgement lost.
CreateActivation(r) ==
    /\ pc[r] = "create"
    /\ \E a \in ActivationIds :
        /\ FreshActivationId(a)
        /\ activations' = activations \cup
               {[id |-> a, license |-> call[r].license,
                 fingerprint |-> call[r].fingerprint]}
    /\ \/ /\ seats_used' = [seats_used EXCEPT ![r] = @ + 1]
          /\ Answer(r, "valid")
       \/ /\ Answer(r, "error")
          /\ UNCHANGED seats_used
    /\ UNCHANGED <<licenses, audit_log, now>>

-----------------------------------------------------------------------------
(* generate, revoke and revoke_activation                                  *)

\* Fail covers a keygen backend that is not registered or fails.
GetProduct(r) ==
    /\ pc[r] = "product"
    /\ IF ProductOrg[call[r].product] = call[r].org
       THEN Goto(r, "insert")
       ELSE Answer(r, "not_found")
    /\ UNCHANGED <<store, now, seats_used>>

\* A new license may carry any seat count and any expiry, a past one too.
InsertLicense(r) ==
    /\ pc[r] = "insert"
    /\ \E l \in Licenses, s \in SeatCounts, e \in Expiries :
        /\ licenses[l] = None
        /\ licenses' = [licenses EXCEPT ![l] =
               [org |-> call[r].org, product |-> call[r].product,
                seats |-> s, expires_at |-> e, status |-> "Active"]]
        /\ call' = [call EXCEPT ![r].license = l]
    /\ pc' = [pc EXCEPT ![r] = "audit"]
    /\ UNCHANGED <<activations, audit_log, now, seen, seats_used, reply>>

\* Mutant of GetLicense: the caller's organization is not compared.
GetLicenseOfAnyOrg(r) ==
    /\ pc[r] = "get"
    /\ IF licenses[call[r].license] # None
       THEN Goto(r, IF call[r].op = "revoke" THEN "set" ELSE "delete")
       ELSE Answer(r, "not_found")
    /\ UNCHANGED <<store, now, seats_used>>

GetLicense(r) ==
    /\ pc[r] = "get"
    /\ LET row == licenses[call[r].license] IN
        IF row # None /\ row.org = call[r].org
        THEN Goto(r, IF call[r].op = "revoke" THEN "set" ELSE "delete")
        ELSE Answer(r, "not_found")
    /\ UNCHANGED <<store, now, seats_used>>

SetLicenseStatus(r) ==
    /\ pc[r] = "set"
    /\ licenses' = [licenses EXCEPT ![call[r].license].status = "Revoked"]
    /\ Goto(r, "audit")
    /\ UNCHANGED <<activations, audit_log, now, seats_used>>

\* Mutant of DeleteActivation: the license is not part of the condition.
DeleteByIdOnly(r) ==
    /\ pc[r] = "delete"
    /\ activations' = {x \in activations : x.id # call[r].activation}
    /\ Goto(r, "audit")
    /\ UNCHANGED <<licenses, audit_log, now, seats_used>>

\* Mutant of DeleteActivation: every activation of the license goes.
DeleteEveryActivation(r) ==
    /\ pc[r] = "delete"
    /\ activations' = {x \in activations : x.license # call[r].license}
    /\ Goto(r, "audit")
    /\ UNCHANGED <<licenses, audit_log, now, seats_used>>

DeleteActivation(r) ==
    /\ pc[r] = "delete"
    /\ activations' = {x \in activations : ~ /\ x.id = call[r].activation
                                             /\ x.license = call[r].license}
    /\ Goto(r, "audit")
    /\ UNCHANGED <<licenses, audit_log, now, seats_used>>

\* Best effort: a failing append is logged and the request still succeeds.
Audit(r) ==
    /\ pc[r] = "audit"
    /\ \/ audit_log' = audit_log \cup
              {[action |-> call[r].op, org |-> call[r].org,
                license |-> call[r].license,
                activation |-> call[r].activation]}
       \/ UNCHANGED audit_log
    /\ Answer(r, "ok")
    /\ UNCHANGED <<licenses, activations, now, seats_used>>

-----------------------------------------------------------------------------
\* A storage or cache call fails, or the 30 s TimeoutLayer drops the handler
\* at an await: what it already wrote stays, the rest never runs.
Fail(r) ==
    /\ pc[r] \notin {"idle", "check"}
    /\ Answer(r, "error")
    /\ UNCHANGED <<store, now, seats_used>>

Tick ==
    /\ now < MaxTime
    /\ now' = now + 1
    /\ UNCHANGED <<store, pc, call, seen, seats_used, reply>>

Handle(r) ==
    \/ BeginValidate(r) \/ BeginRevoke(r) \/ BeginRevokeActivation(r)
    \/ BeginGenerate(r)
    \/ RateLimit(r) \/ Lookup(r) \/ Check(r) \/ CountActivations(r)
    \/ ListActivations(r) \/ CreateActivation(r)
    \/ GetProduct(r) \/ InsertLicense(r) \/ GetLicense(r) \/ SetLicenseStatus(r)
    \/ DeleteActivation(r) \/ Audit(r)
    \/ Fail(r)

Next == Tick \/ \E r \in Requests : Handle(r)

Spec == Init /\ [][Next]_vars

-----------------------------------------------------------------------------
(* Type correctness: every row, call, read and answer has its form.        *)
TypeOK ==
    /\ licenses \in [Licenses -> LicenseRow \cup {None}]
    /\ activations \subseteq Activation
    /\ audit_log \subseteq Entry
    /\ now \in Times
    /\ pc \in [Requests -> Steps]
    /\ call \in [Requests -> Call \cup {None}]
    /\ seen \in [Requests -> LicenseRow \cup {None}]
    /\ seats_used \in [Requests -> Nat]
    /\ reply \in [Requests -> Replies]

\* The handler compares a count read earlier with the seats of a row read
\* earlier still, so racing requests may pass a full license.  The overrun is
\* bounded: a license never holds more activations than its seats and the
\* other requests in flight.
Overrun == Cardinality(Requests) - 1

SeatOverrunBounded ==
    \A l \in Licenses : licenses[l] # None =>
        Cardinality(ActivationsOf(l)) <= licenses[l].seats + Overrun

\* A machine that validates several times at once may be activated several
\* times, since each call may find it unknown (183) before any inserts it
\* (194): but at most once for each call that is in flight, however often it
\* comes back and whatever is freed in between.
OfMachine(l, f) == {x \in ActivationsOf(l) : x.fingerprint = f}

MachineOverrunBounded ==
    \A l \in Licenses, f \in Fingerprints :
        Cardinality(OfMachine(l, f)) <= Cardinality(Requests)

\* Revocation and expiry take effect: a validate call that arrives after its
\* license was revoked or expired is never answered "valid" and never takes a
\* seat, whatever it read and however long it was delayed between its reads.
Concludes(r, answer) == pc[r] # "idle" /\ pc'[r] = "idle" /\ reply'[r] = answer

DeadLicenseRefused ==
    [][\A r \in Requests :
          Concludes(r, "valid") \/ pc'[r] = "create" => ~call[r].dead]_vars

\* A machine that is told its license is valid holds a seat of that license
\* at that moment: it was found among the activations, or has just been added.
ValidMachineSeated ==
    [][\A r \in Requests, l \in Licenses, f \in Fingerprints :
          /\ Concludes(r, "valid")
          /\ call[r].license = l /\ call[r].fingerprint = f
          => Activated(l, f) \/ Activated(l, f)']_vars

\* The audit trail is truthful, though an entry is written after other requests
\* have run: it names a license of the organization it is filed under, a
\* "revoke" entry a license that is revoked, and a "revoke_activation" entry an
\* activation that this license does not have, nor ever gets back.
AuditTruthful ==
    \A e \in audit_log :
        /\ licenses[e.license] # None
        /\ licenses[e.license].org = e.org
        /\ e.action = "revoke" => licenses[e.license].status = "Revoked"
        /\ e.action = "revoke_activation" =>
              \A x \in ActivationsOf(e.license) : x.id # e.activation

\* Tenants are apart: a license's row and its activations change only by a
\* step of a request that names this license and comes from its organization.
OwnerChangesOnly ==
    [][\A l \in Licenses :
          /\ licenses[l] # None
          /\ licenses'[l] # licenses[l] \/ ActivationsOf(l)' # ActivationsOf(l)
          => \E r \in Requests : /\ pc'[r] # pc[r]
                                 /\ call[r].license = l
                                 /\ call[r].org = licenses[l].org]_vars

-----------------------------------------------------------------------------
(* The invariant behind these properties, conjunct by conjunct.            *)

\* What the step of a request says of its arguments and of the store.
ArgumentsOK(r) ==
    /\ pc[r] # "idle" => call[r] \in Call
    /\ pc[r] \in {"rate_limit", "lookup", "check", "count", "list",
                 "create", "get", "set", "delete", "audit"}
       => call[r].license \in Licenses
    /\ pc[r] \in {"list", "create"} => call[r].fingerprint \in Fingerprints
    /\ pc[r] \in {"product", "insert"} => call[r].product \in Products
    /\ pc[r] \in {"product", "insert"} => call[r].op = "generate"
    /\ pc[r] = "set" => call[r].op = "revoke"
    /\ pc[r] = "get" => call[r].op \in {"revoke", "revoke_activation"}
    /\ pc[r] = "delete" => call[r].op = "revoke_activation"
    /\ pc[r] \in {"set", "delete", "audit"} =>
          /\ licenses[call[r].license] # None
          /\ licenses[call[r].license].org = call[r].org
    /\ pc[r] = "audit" /\ call[r].op = "revoke" =>
          licenses[call[r].license].status = "Revoked"
    /\ pc[r] = "audit" /\ call[r].op = "revoke_activation" =>
          \A x \in ActivationsOf(call[r].license) : x.id # call[r].activation

\* A validate request past its lookup holds the row of its license as it was:
\* only the status may have changed since.  Past the check the caller owns the
\* license, and one about to take a seat has seen one free.
SnapshotOK(r) ==
    /\ pc[r] \in {"check", "count", "list", "create"} =>
          /\ seen[r] \in LicenseRow
          /\ licenses[call[r].license] # None
          /\ seen[r].seats = licenses[call[r].license].seats
          /\ seen[r].org = licenses[call[r].license].org
    /\ pc[r] \in {"count", "list", "create"} =>
          call[r].org = licenses[call[r].license].org
    /\ pc[r] = "create" => SeatFree(r)

\* A license dead on arrival is dead now, and no row read since says otherwise.
DeadOK(r) ==
    /\ pc[r] \in {"rate_limit", "lookup", "check"} /\ call[r].dead =>
          Dead(call[r].license)
    /\ pc[r] = "check" /\ call[r].dead => ~IsUsable(seen[r], now)
    /\ pc[r] \in {"count", "list", "create"} => ~call[r].dead

\* Requests that counted a free seat of l and have not used it yet.
Racers(l) == {r \in Requests : /\ pc[r] \in {"list", "create"}
                               /\ call[r].license = l
                               /\ SeatFree(r)}

\* Activations and racers together stay within the bound: a request becomes
\* a racer only while a seat is free, and then trades its race for a row.
SeatsOK ==
    \A l \in Licenses :
        /\ licenses[l] = None => ActivationsOf(l) = {}
        /\ licenses[l] # None =>
              Cardinality(ActivationsOf(l)) + Cardinality(Racers(l))
                  <= licenses[l].seats + Overrun

\* Requests that found machine f unknown to l and are about to activate it.
Activators(l, f) == {r \in Requests : /\ pc[r] = "create"
                                      /\ call[r].license = l
                                      /\ call[r].fingerprint = f}

\* While a machine has activations, no request begins to add another one.
MachinesOK ==
    \A l \in Licenses, f \in Fingerprints :
        Cardinality(OfMachine(l, f)) + Cardinality(Activators(l, f))
            <= Cardinality(Requests)

\* Activations are finitely many and carry an id each.
ActivationsOK ==
    /\ IsFiniteSet(activations)
    /\ \A x, y \in activations : x.id = y.id => x = y

RequestOK == \A r \in Requests : ArgumentsOK(r)
SnapshotsOK == \A r \in Requests : SnapshotOK(r)
DeadAreRefused == \A r \in Requests : DeadOK(r)

IInv == /\ TypeOK /\ RequestOK /\ SnapshotsOK /\ DeadAreRefused
        /\ ActivationsOK /\ SeatsOK /\ MachinesOK

-----------------------------------------------------------------------------
(* The store alone implements the ledger, with the overrun of the race.    *)
Ledger == INSTANCE SeatLedger
    WITH LicenseIds <- Licenses, Rows <- LicenseRow, Seats <- Activation,
         Absent <- None

\* Whatever the requests do, the two tables change as the ledger's do: rows
\* are issued once and only ever revoked, seats are taken one at a time within
\* the overrun and freed one at a time.
ImplementsLedger == Ledger!Spec
=============================================================================
