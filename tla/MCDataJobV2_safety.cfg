SPECIFICATION Spec
CONSTANTS
  r1 = r1  r2 = r2  f1 = f1  f2 = f2  a1 = a1
  s1 = s1  s2 = s2  w1 = w1  w2 = w2
  Calls = {r1, r2}
  Fingerprints = {f1, f2}
  Compared = {f2}
  Certified = {f2}
  Agents = {a1}
  Sockets = {s1, s2}
  Workers = {w1}
  AgentOf <- OneAgent
  SockHome <- OneWorkerSockets
  HomeOf <- OneWorkerHome
  MaxWrites = 0
  None = None
  Dead = Dead
SYMMETRY CallSymmetry
INVARIANTS SingleClaimant AwaitingIsPending ResultsAnswerTheirQuery
