SPECIFICATION FairSpec
CONSTANTS
  r1 = r1  r2 = r2  f1 = f1  f2 = f2  a1 = a1
  s1 = s1  s2 = s2  w1 = w1  w2 = w2
  Calls = {r1, r2}
  Fingerprints = {f1}
  Compared = {}
  Certified = {}
  Agents = {a1}
  Sockets = {s1}
  Workers = {w1, w2}
  AgentOf <- OneAgent
  SockHome <- OneWorkerSockets
  HomeOf <- TwoWorkerHome
  MaxWrites = 1
  None = None
  Dead = Dead
INVARIANT TypeOK
PROPERTIES TerminalIsFinal ImplementsLifecycle CallsReturn ResultsAreErased
