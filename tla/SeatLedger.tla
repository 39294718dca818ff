----------------------------- MODULE SeatLedger -----------------------------
(***************************************************************************)
(* What the license routes promise of the store, without requests: a       *)
(* license is issued once and only ever revoked, and seats are taken and   *)
(* freed one at a time.  Overrun is how far past its seats a license may   *)
(* go: 0 is a strict seat limit.                                           *)
(***************************************************************************)
EXTENDS Naturals, FiniteSets

CONSTANTS LicenseIds, Rows, Seats, Overrun, Absent

VARIABLES licenses, activations

ledger == <<licenses, activations>>

Taken(l) == {a \in activations : a.license = l}

Init ==
    /\ licenses = [l \in LicenseIds |-> Absent]
    /\ activations = {}

Issue(l) ==
    /\ licenses[l] = Absent
    /\ \E row \in Rows :
        /\ row.status = "Active"
        /\ licenses' = [licenses EXCEPT ![l] = row]
    /\ UNCHANGED activations

Revoke(l) ==
    /\ licenses[l] # Absent
    /\ licenses' = [licenses EXCEPT ![l].status = "Revoked"]
    /\ UNCHANGED activations

\* A license without seats takes nobody, however many requests race.
TakeSeat(l) ==
    /\ licenses[l] # Absent
    /\ licenses[l].seats > 0
    /\ Cardinality(Taken(l)) < licenses[l].seats + Overrun
    /\ \E a \in Seats :
        /\ a.license = l
        /\ \A x \in activations : x.id # a.id
        /\ activations' = activations \cup {a}
    /\ UNCHANGED licenses

FreeSeat(a) ==
    /\ activations' = activations \ {a}
    /\ UNCHANGED licenses

Next ==
    \/ \E l \in LicenseIds : Issue(l) \/ Revoke(l) \/ TakeSeat(l)
    \/ \E a \in activations : FreeSeat(a)

Spec == Init /\ [][Next]_ledger
=============================================================================
