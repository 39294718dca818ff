------------------------------ MODULE MCAccounts ------------------------------
(* The instance of Accounts for TLC.                                        *)
EXTENDS Accounts, TLC

Symmetry == Permutations(Requests) \cup Permutations(Orgs)
                \cup Permutations(UserIds) \cup Permutations(Emails)
===============================================================================
