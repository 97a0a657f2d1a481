SPECIFICATION FairSpec
CONSTANTS
  r1 = r1  r2 = r2  s1 = s1  s2 = s2  w1 = w1
  q1 = q1  q2 = q2  x1 = x1  x2 = x2
  Calls = {r1}
  Queries = {q1}
  Answers = {x1}
  Sockets = {s1, s2}
  Workers = {w1}
  SockHome <- OneWorkerSockets
  HomeOf <- OneWorkerHome
  MaxHits = 1
  None = None
  Dead = Dead
PROPERTIES JobsEnd CallsReturn
