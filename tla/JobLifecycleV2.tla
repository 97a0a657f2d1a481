--------------------------- MODULE JobLifecycleV2 ---------------------------
(***************************************************************************)
(* What the V2 job engine promises to the owner of a job, without calls,   *)
(* agents, workers or versions: a job is opened for a query that has no    *)
(* other open job, moves forward only, is answered only once it is         *)
(* RUNNING, is closed exactly once, has an answer only while it is         *)
(* COMPLETED, and is closed eventually.                                    *)
(*                                                                         *)
(* The moves are those of the transition table of ADR-003 with one more,   *)
(* PENDING to FAILED, which the code has and the table has not.  The table *)
(* names an event for every move; here a move is only a change of state,   *)
(* so that it does not matter whether the agent's acknowledgement or, as   *)
(* the code also does, its answer makes a job RUNNING.                     *)
(***************************************************************************)
CONSTANTS Jobs, Queries, Answers, Nothing

VARIABLES status, query, answer

vars == <<status, query, answer>>

Open == {"PENDING", "DISPATCHED", "RUNNING"}

Closed == {"COMPLETED", "FAILED", "TIMED_OUT", "CANCELLED"}

Init ==
  /\ status = [j \in Jobs |-> "ABSENT"]
  /\ query = [j \in Jobs |-> Nothing]
  /\ answer = [j \in Jobs |-> Nothing]

\* A job is opened only when its query has no open job.
OpenJob(j, q) ==
  /\ status[j] = "ABSENT"
  /\ \A k \in Jobs : ~(status[k] \in Open /\ query[k] = q)
  /\ status' = [status EXCEPT ![j] = "PENDING"]
  /\ query' = [query EXCEPT ![j] = q]
  /\ UNCHANGED answer

Advance(j) ==
  /\ \/ /\ status[j] = "PENDING"
        /\ status' = [status EXCEPT ![j] = "DISPATCHED"]
     \/ /\ status[j] = "DISPATCHED"
        /\ status' = [status EXCEPT ![j] = "RUNNING"]
  /\ UNCHANGED <<query, answer>>

\* Only a running job can be answered.
Answer(j, a) ==
  /\ status[j] = "RUNNING"
  /\ a \in Answers /\ a.job = j
  /\ status' = [status EXCEPT ![j] = "COMPLETED"]
  /\ answer' = [answer EXCEPT ![j] = a]
  /\ UNCHANGED query

\* A job fails, is late or is cancelled.  To fail while PENDING is the move
\* ADR-003 does not have.
Close(j) ==
  /\ status[j] \in Open
  /\ \E s \in Closed \ {"COMPLETED"} : status' = [status EXCEPT ![j] = s]
  /\ UNCHANGED <<query, answer>>

\* One pass over the table: open jobs are closed, answers forgotten.
Sweep(late, stale) ==
  /\ \A j \in late : status[j] \in Open
  /\ \A j \in stale : status[j] = "COMPLETED"
  /\ status' = [j \in Jobs |-> IF j \in late THEN "TIMED_OUT" ELSE status[j]]
  /\ answer' = [j \in Jobs |-> IF j \in stale THEN Nothing ELSE answer[j]]
  /\ UNCHANGED query

Next ==
  \/ \E j \in Jobs :
       \/ \E q \in Queries : OpenJob(j, q)
       \/ Advance(j) \/ Close(j)
       \/ Answer(j, answer'[j])
  \/ \E late, stale \in SUBSET Jobs : Sweep(late, stale)

Safe == Init /\ [][Next]_vars

Spec == Safe /\ \A j \in Jobs : (status[j] \in Open) ~> (status[j] \in Closed)

============================================================================
