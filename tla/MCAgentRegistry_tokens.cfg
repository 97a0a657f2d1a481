SPECIFICATION FairSpec
CONSTANTS
  a1 = a1  o1 = o1  o2 = o2  c1 = c1
  Agents = {a1}
  Ops = {o1, o2}
  Commands = {c1}
  MaxTokens = 3
  MaxShared = 1
  None = None
INVARIANT RetiredTokensStayOut
PROPERTIES SilentAgentsGoOffline ConnectedTokensAreRenewed
