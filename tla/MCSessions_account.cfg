SPECIFICATION Spec
CONSTANTS
  r1 = r1  r2 = r2
  Requests = {r1, r2}
  MaxAttempts = 2
  MaxAccounts = 2
  MaxLinks = 2
  None = None
SYMMETRY Symmetry
INVARIANTS GuessesAreBounded UsedLinksStayDead LogoutHolds
