------------------------------ MODULE MCAccess ------------------------------
(* Small instances of Access for TLC.                                      *)
EXTENDS Access

CONSTANTS u1, u2, r1, r2, o1, o2

\* An owner and a custom role in one organisation, an administrator of the
\* platform and a custom role in another.
TwoOrgs ==
  [x \in Users \cup CustomRoles |-> IF x \in {u2, "theirs"} THEN o2 ELSE o1]
OwnerAndAdmin ==
  [u \in Users |-> IF u = u2 THEN {"superadmin"} ELSE {"owner"}]

\* A role may be emptied or given everything.
NoneOrAll == {{}, {"manage:all"}}

============================================================================
