---------------------------- MODULE JobLifecycle ----------------------------
(***************************************************************************)
(* What the job pipeline promises about the status of a job, with the      *)
(* worker, the nodes, the review counter and the circuit breaker left out: *)
(* which status may follow which, and that at most one job is executing.   *)
(* The statuses are those of JobStatus in backend/jobs/models.py, with     *)
(* "absent" for an id that has no row.                                     *)
(* JobPipeline is shown to implement this specification when no status is  *)
(* written from outside the worker and the REST API (SlackJobs = {}).      *)
(***************************************************************************)
CONSTANT Jobs

VARIABLE status

Terminal == {"done", "failed", "cancelled"}
Active   == {"planning", "executing", "reviewing"}
Statuses == {"absent", "pending", "cancelling"} \union Active \union Terminal

Init == status = [j \in Jobs |-> "absent"]

Become(j, s) == status' = [status EXCEPT ![j] = s]

Submit(j) == status[j] = "absent" /\ Become(j, "pending")

Claim(j) == status[j] = "pending" /\ Become(j, "planning")

(* A job found executing at start-up goes back to planning.                *)
Requeue(j) == status[j] = "executing" /\ Become(j, "planning")

(* Jobs run one at a time.                                                 *)
Execute(j) ==
    /\ status[j] \in {"planning", "reviewing"}
    /\ \A k \in Jobs \ {j} : status[k] # "executing"
    /\ Become(j, "executing")

Review(j) ==
    /\ status[j] \in {"planning", "executing"}
    /\ Become(j, "reviewing")

RequestCancel(j) ==
    /\ status[j] \in {"pending", "cancelling"} \union Active
    /\ Become(j, "cancelling")

(* A cancel request that comes too late may still see the job succeed or   *)
(* fail, but the job never goes back to work.                              *)
Complete(j) ==
    /\ status[j] \in {"reviewing", "cancelling"}
    /\ Become(j, "done")

Abort(j) ==
    /\ status[j] \in Active \union {"cancelling"}
    /\ Become(j, "failed")

(* Between two attempts, on request or because the worker is stopping.     *)
Cancel(j) ==
    /\ status[j] \in {"planning", "reviewing", "cancelling"}
    /\ Become(j, "cancelled")

Delete(j) == status[j] \in Terminal /\ Become(j, "absent")

Next ==
    \E j \in Jobs :
        \/ Submit(j)
        \/ Claim(j)
        \/ Requeue(j)
        \/ Execute(j)
        \/ Review(j)
        \/ RequestCancel(j)
        \/ Complete(j)
        \/ Abort(j)
        \/ Cancel(j)
        \/ Delete(j)

Spec == Init /\ [][Next]_status
=============================================================================
