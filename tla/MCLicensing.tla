---------------------------- MODULE MCLicensing ----------------------------
(* Instances of Licensing for TLC, and the statement one run refutes.       *)
EXTENDS Licensing, TLC

CONSTANTS o1, p1

OneOwner == p1 :> o1

\* Requests, fingerprints and ids are interchangeable.
Symmetry == Permutations(Requests) \cup Permutations(Fingerprints)
                \cup Permutations(ActivationIds) \cup Permutations(Licenses)

\* The documented seat limit: a new activation is recorded only if there is
\* room, so a license never holds more activations than it has seats.
SeatLimit ==
    \A l \in Licenses : licenses[l] # None =>
        Cardinality(ActivationsOf(l)) <= licenses[l].seats
=============================================================================
