---------------------------- MODULE MCMembership ----------------------------
(* Small instances of Membership for TLC.                                  *)
EXTENDS Membership, TLC

CONSTANTS e1, e2, e3, r1, r2, r3

\* Addresses and request slots are only compared.
Symmetry == Permutations(Emails) \cup Permutations(Requests)

============================================================================
