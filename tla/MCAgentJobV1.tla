---------------------------- MODULE MCAgentJobV1 ----------------------------
(* Small instances of AgentJobV1 for TLC.                                  *)
EXTENDS AgentJobV1, TLC

CONSTANTS r1, r2, s1, s2, w1, q1, q2, x1, x2

OneWorkerHome == [r \in Calls |-> w1]
OneWorkerSockets == [s \in Sockets |-> w1]

\* One worker serves every call and holds every socket; queries and answers
\* are only compared.
Symmetry == Permutations(Calls) \cup Permutations(Queries)
              \cup Permutations(Answers)

============================================================================
