------------------------------ MODULE MCApiKeys ------------------------------
(* Instances of ApiKeys for TLC, and the statement one run refutes.         *)
EXTENDS ApiKeys, TLC

Symmetry == Permutations(Requests) \cup Permutations(Orgs) \cup Permutations(Keys)

\* The tag "live", and one of several words.
LiveTag == <<"live">>
WordyTag == <<"eu", Underscore, "live">>
MCSecret == <<"9", "f", "2">>

Live == [k \in Keys |-> LiveTag]
Wordy == [k \in Keys |-> WordyTag]

\* The round trip asserted by the test of api_key.rs: the prefix taken from a
\* key that was created is the one stored with it, under which it is found.
PrefixRoundTrip ==
    \A k \in Existing : PrefixOf(Plaintext(TagOf[k])) = Prefix(TagOf[k])
=============================================================================
