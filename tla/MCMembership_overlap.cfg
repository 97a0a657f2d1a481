SPECIFICATION Spec
CONSTANTS
  e1 = e1  e2 = e2  e3 = e3  r1 = r1  r2 = r2  r3 = r3
  Emails = {e1, e2, e3}
  Requests = {r1, r2}
  MaxUsers = 2
  None = None
SYMMETRY Symmetry
INVARIANTS MembersWereInvited SeatsAreRespected
