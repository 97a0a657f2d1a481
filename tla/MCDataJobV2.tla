---------------------------- MODULE MCDataJobV2 ----------------------------
(* Small instances of DataJobV2 for TLC.                                   *)
EXTENDS DataJobV2, TLC

CONSTANTS r1, r2, f1, f2, a1, s1, s2, w1, w2

\* One worker; both sockets are connections of the same agent.
OneWorkerHome == [r \in Calls |-> w1]
OneWorkerSockets == [s \in Sockets |-> w1]
OneAgent == [s \in Sockets |-> a1]

\* A cluster: the agent is connected to w1, the second call reaches w2.
TwoWorkerHome == [r \in Calls |-> IF r = r1 THEN w1 ELSE w2]

\* The two calls are interchangeable when one worker serves both.
CallSymmetry == Permutations({r1, r2})

============================================================================
