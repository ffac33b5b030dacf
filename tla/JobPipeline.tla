---------------------------- MODULE JobPipeline ----------------------------
(***************************************************************************)
(* The enterprise job pipeline of LocalMind: the jobs and job_nodes tables *)
(* (backend/jobs/queue.py), the single JobWorker that drives a job through *)
(* planning, node execution and review (backend/jobs/worker.py), the REST  *)
(* handlers (backend/routes/jobs.py), the Slack buttons                    *)
(* (backend/integrations/slack_bot.py), and process exit and restart.      *)
(*                                                                         *)
(* Everything runs in one asyncio event loop, so a step of the model is    *)
(* what the worker or a handler does between two awaits that really        *)
(* suspend.  `stage' names the await the worker is parked at.  Rows live   *)
(* in SQLite and survive a crash; stage, failures, breakerOpen, toResume   *)
(* are memory of the process and do not.                                   *)
(***************************************************************************)
EXTENDS Naturals, Sequences

CONSTANTS
    MaxJobs,          \* bound: jobs ever created; ids in creation order
    Plans,            \* what the planner can answer, see PlansAssumption
    MaxReviews,       \* min(job.max_reviews, _ABSOLUTE_MAX_REVIEWS)
    BreakerThreshold, \* _CIRCUIT_BREAKER_THRESHOLD
    Priorities,
    SlackJobs,        \* jobs with source = 'slack'
    MaxExits          \* bound: crashes and stops of the process

Jobs  == 1 .. MaxJobs
NoJob == 0

(* A plan is a non-empty sequence of nodes, each given by the positions of *)
(* the nodes it depends on; 0 stands for a reference that names no node of *)
(* the plan.                                                               *)
ASSUME PlansAssumption ==
    \A plan \in Plans : plan \in Seq(SUBSET Nat) /\ plan # << >>
ASSUME BoundsAssumption ==
    /\ MaxJobs \in Nat /\ MaxExits \in Nat
    /\ MaxReviews \in Nat \ {0} /\ BreakerThreshold \in Nat \ {0}
ASSUME SourcesAssumption ==
    Priorities \subseteq Nat /\ 0 \in Priorities /\ SlackJobs \subseteq Jobs

VARIABLES
    status, prio, reviewCount,   \* columns of the jobs table
    nodes,                       \* rows of job_nodes, in insertion order
    created,                     \* number of jobs created so far
    gated,                       \* Slack jobs whose review buttons are posted
    stage, cur, node, attempt,   \* where the worker is, and on what
    running,                     \* JobWorker._running
    failures, breakerOpen,       \* circuit breaker; failures saturates
    toResume,                    \* rest of start()'s list of interrupted jobs
    exits

table  == <<status, prio, reviewCount, nodes, created>>
worker == <<stage, cur, node, attempt, toResume>>
health == <<failures, breakerOpen>>
vars   == <<table, gated, worker, running, health, exits>>

Terminal    == {"done", "failed", "cancelled"}
Statuses    == {"absent", "pending", "planning", "executing", "reviewing",
                "cancelling"} \union Terminal
RowStatuses == {"pending", "running", "completed", "failed", "cancelled"}
Rows        == [seq : Nat, deps : SUBSET Nat, status : RowStatuses]
Working     == {"planning", "between", "node", "reviewing", "rca", "replanning"}
Stages      == {"down", "idle"} \union Working

TypeOK ==
    /\ status \in [Jobs -> Statuses] /\ prio \in [Jobs -> Priorities]
    /\ reviewCount \in [Jobs -> Nat] /\ nodes \in [Jobs -> Seq(Rows)]
    /\ created \in 0 .. MaxJobs /\ gated \in SUBSET SlackJobs
    /\ stage \in Stages /\ cur \in Jobs \union {NoJob}
    /\ (cur \in Jobs <=> stage \in Working)
    /\ node \in Nat /\ attempt \in 0 .. MaxReviews
    /\ running \in BOOLEAN /\ breakerOpen \in BOOLEAN
    /\ failures \in 0 .. BreakerThreshold
    /\ toResume \in SUBSET Jobs /\ exits \in 0 .. MaxExits

Init ==
    /\ status = [j \in Jobs |-> "absent"] /\ prio = [j \in Jobs |-> 0]
    /\ reviewCount = [j \in Jobs |-> 0] /\ nodes = [j \in Jobs |-> << >>]
    /\ created = 0 /\ gated = {}
    /\ stage = "down" /\ cur = NoJob /\ node = 0 /\ attempt = 0
    /\ running = FALSE /\ failures = 0 /\ breakerOpen = FALSE
    /\ toResume = {} /\ exits = 0

-----------------------------------------------------------------------------
(* The tables.                                                             *)

(* UPDATE jobs ... WHERE id = ?: unconditional, but a deleted row stays so.*)
Write(j, s) == IF status[j] = "absent" THEN status
               ELSE [status EXCEPT ![j] = s]

Mark(rows, I, s) ==
    [i \in DOMAIN rows |->
        IF i \in I THEN [rows[i] EXCEPT !.status = s] ELSE rows[i]]

WithStatus(rows, s) == {i \in DOMAIN rows : rows[i].status = s}

MutantInsertUnshifted(rows, plan) ==
    rows \o [i \in DOMAIN plan |->
        [seq |-> i, deps |-> plan[i], status |-> "pending"]]
(* create_nodes: sequence numbers restart at 1, references within the plan *)
(* become ids of the new rows, any other reference is kept and never met.  *)
Insert(rows, plan) ==
    rows \o [i \in DOMAIN plan |->
        [seq    |-> i,
         deps   |-> {IF d \in DOMAIN plan THEN Len(rows) + d ELSE 0 : d \in plan[i]},
         status |-> "pending"]]

DepsMet(rows, i) == rows[i].deps \subseteq WithStatus(rows, "completed")

MutantReadyIgnoresDeps(rows) == WithStatus(rows, "pending")
Ready(rows) == {i \in WithStatus(rows, "pending") : DepsMet(rows, i)}

Precedes(rows, i, k) ==
    rows[i].seq < rows[k].seq \/ (rows[i].seq = rows[k].seq /\ i < k)

(* _reset_nodes_for_retry.                                                 *)
Replace(rows, plan) == Insert(Mark(rows, DOMAIN rows, "cancelled"), plan)

-----------------------------------------------------------------------------
(* Ends of a run of a job.  `cur' is the job; its rows are primed by the   *)
(* caller.                                                                 *)

MutantReleaseKeepsJob == stage' = "idle" /\ cur' = cur /\ node' = 0
Release == stage' = "idle" /\ cur' = NoJob /\ node' = 0

(* _handle_failure.                                                        *)
FailJob ==
    /\ status' = Write(cur, "failed")
    /\ failures' = IF failures < BreakerThreshold THEN failures + 1 ELSE failures
    /\ breakerOpen' = (breakerOpen \/ failures + 1 >= BreakerThreshold)
    /\ Release

MutantCancelRunSilent == Release /\ UNCHANGED <<status, health>>
CancelRun ==
    status' = Write(cur, "cancelled") /\ Release /\ UNCHANGED health

MutantIsCancelledOnlyFinal(j) == status[j] = "cancelled"
IsCancelled(j) == status[j] \in {"cancelling", "cancelled"}

-----------------------------------------------------------------------------
(* The worker inside _run_job and _execute_nodes.                          *)

(* The review gate is posted for a Slack job that has something to show.   *)
EnterReview(rows) ==
    /\ status' = Write(cur, "reviewing")
    /\ stage' = "reviewing" /\ cur' = cur /\ node' = 0
    /\ gated' = IF /\ cur \in SlackJobs /\ status[cur] # "absent"
                   /\ WithStatus(rows, "completed") # {}
                THEN gated \union {cur} ELSE gated
    /\ UNCHANGED health

(* _execute_nodes from get_next_pending_node on: run the first ready node, *)
(* else review or fail.  st is the status column as written so far.        *)
RunNext(st, rows) ==
    \/ \E i \in Ready(rows) :
          /\ \A k \in Ready(rows) : ~Precedes(rows, k, i)
          /\ nodes' = [nodes EXCEPT ![cur] = Mark(rows, {i}, "running")]
          /\ status' = st
          /\ stage' = "node" /\ cur' = cur /\ node' = i
          /\ UNCHANGED <<gated, health>>
    \/ /\ Ready(rows) = {}
       /\ nodes' = [nodes EXCEPT ![cur] = rows]
       /\ IF WithStatus(rows, "failed") # {}
          THEN FailJob /\ UNCHANGED gated
          ELSE EnterReview(rows)

(* Top of the loop over attempts: overall timeout, stop or cancel, execute.*)
BeginAttempt(rows) ==
    \/ /\ nodes' = [nodes EXCEPT ![cur] = rows]
       /\ FailJob /\ UNCHANGED gated
    \/ /\ ~running \/ IsCancelled(cur)
       /\ nodes' = [nodes EXCEPT ![cur] = rows]
       /\ CancelRun /\ UNCHANGED gated
    \/ /\ running /\ ~IsCancelled(cur)
       /\ RunNext(Write(cur, "executing"), rows)

At(s) == stage = s /\ UNCHANGED <<prio, created, running, toResume, exits>>

PlanDone ==
    /\ At("planning") /\ attempt' = 0 /\ UNCHANGED reviewCount
    /\ \E plan \in Plans :
          IF status[cur] = "absent"        \* foreign key of job_nodes
          THEN FailJob /\ UNCHANGED <<nodes, gated>>
          ELSE BeginAttempt(Insert(nodes[cur], plan))

PlanError ==
    /\ At("planning") /\ FailJob
    /\ UNCHANGED <<reviewCount, nodes, gated, attempt>>

(* Loop of _execute_nodes: stopped or cancelled between nodes, the run     *)
(* fails.                                                                  *)
Continue(rows) ==
    IF ~running \/ IsCancelled(cur)
    THEN /\ nodes' = [nodes EXCEPT ![cur] = rows]
         /\ FailJob /\ UNCHANGED gated
    ELSE RunNext(status, rows)

(* For a Slack job the worker suspends in the node_completed notification. *)
NodeOk ==
    /\ At("node") /\ UNCHANGED <<reviewCount, attempt>>
    /\ LET rows == Mark(nodes[cur], {node}, "completed") IN
       IF cur \in SlackJobs
       THEN /\ nodes' = [nodes EXCEPT ![cur] = rows]
            /\ stage' = "between" /\ cur' = cur /\ node' = 0
            /\ UNCHANGED <<status, gated, health>>
       ELSE Continue(rows)

BetweenNodes ==
    /\ At("between") /\ UNCHANGED <<reviewCount, attempt>>
    /\ Continue(nodes[cur])

MutantNodeRetriedForever ==
    /\ At("node") /\ stage' = "between" /\ cur' = cur /\ node' = 0
    /\ nodes' = [nodes EXCEPT ![cur] = Mark(@, {node}, "pending")]
    /\ UNCHANGED <<status, reviewCount, gated, attempt, health>>
(* Timeout, exception or a result that reports failure.                    *)
NodeFailed ==
    /\ At("node") /\ FailJob
    /\ nodes' = [nodes EXCEPT ![cur] = Mark(@, {node}, "failed")]
    /\ UNCHANGED <<reviewCount, gated, attempt>>

ReviewPassed ==
    /\ At("reviewing")
    /\ status' = Write(cur, "done") /\ Release
    /\ failures' = 0 /\ UNCHANGED breakerOpen
    /\ UNCHANGED <<reviewCount, nodes, gated, attempt>>

MutantReviewsOffByOne(n) == n > MaxReviews
Exhausted(n) == n >= MaxReviews

(* increment_review_count answers 0 for a row that is gone.                *)
ReviewRejected ==
    /\ At("reviewing")
    /\ LET gone  == status[cur] = "absent"
           count == IF gone THEN 0 ELSE reviewCount[cur] + 1
       IN /\ reviewCount' = IF gone THEN reviewCount
                            ELSE [reviewCount EXCEPT ![cur] = count]
          /\ stage' = IF Exhausted(count) THEN "rca" ELSE "replanning"
    /\ UNCHANGED <<status, nodes, gated, cur, node, attempt, health>>

ReviewError ==
    /\ At("reviewing") /\ FailJob
    /\ UNCHANGED <<reviewCount, nodes, gated, attempt>>

RcaDone ==
    /\ At("rca") /\ FailJob
    /\ UNCHANGED <<reviewCount, nodes, gated, attempt>>

ReplanDone ==
    /\ At("replanning") /\ UNCHANGED reviewCount
    /\ \E plan \in Plans :
          IF status[cur] = "absent" \/ attempt = MaxReviews
          THEN /\ attempt' = attempt /\ FailJob
               /\ nodes' = IF status[cur] = "absent" THEN nodes
                           ELSE [nodes EXCEPT ![cur] = Replace(@, plan)]
               /\ UNCHANGED gated
          ELSE /\ attempt' = attempt + 1
               /\ BeginAttempt(Replace(nodes[cur], plan))

ReplanError ==
    /\ At("replanning") /\ FailJob
    /\ UNCHANGED <<reviewCount, nodes, gated, attempt>>

-----------------------------------------------------------------------------
(* The worker between jobs.                                                *)

BeginRun(j) ==
    /\ status' = Write(j, "planning")
    /\ stage' = "planning" /\ cur' = j /\ node' = 0 /\ attempt' = 0

MutantClaimIgnoresPause == stage = "idle" /\ running /\ toResume = {}
MutantClaimByFailureCount == failures < BreakerThreshold /\ MutantClaimIgnoresPause
CanClaim == ~breakerOpen /\ stage = "idle" /\ running /\ toResume = {}

(* ORDER BY priority DESC, created_at ASC.                                 *)
Beats(j, k) == prio[j] > prio[k] \/ (prio[j] = prio[k] /\ j <= k)

(* _dequeue_next_pending: select and conditional claim, no await between.  *)
Poll ==
    /\ CanClaim
    /\ \E j \in Jobs :
          /\ status[j] = "pending"
          /\ \A k \in Jobs : status[k] = "pending" => Beats(j, k)
          /\ BeginRun(j)
    /\ UNCHANGED <<prio, reviewCount, nodes, created, gated, running, health,
                   toResume, exits>>

MutantResumeKeepsRunning(j) == UNCHANGED nodes /\ BeginRun(j)
(* _resume_job; a job deleted meanwhile is skipped.                        *)
Resume(j) ==
    IF status[j] = "absent"
    THEN /\ stage' = "idle" /\ UNCHANGED <<status, nodes, cur, node, attempt>>
    ELSE /\ nodes' = [nodes EXCEPT ![j] =
                         Mark(@, WithStatus(@, "running"), "pending")]
         /\ BeginRun(j)

MutantInterruptedPlanning == {j \in Jobs : status[j] = "planning"}
(* get_interrupted_jobs, oldest first.                                     *)
Interrupted == {j \in Jobs : status[j] = "executing"}

Start ==
    /\ stage = "down"
    /\ running' = TRUE
    /\ IF Interrupted = {}
       THEN stage' = "idle" /\ toResume' = {}
            /\ UNCHANGED <<status, nodes, cur, node, attempt>>
       ELSE \E j \in Interrupted :
               /\ \A k \in Interrupted : j <= k
               /\ toResume' = Interrupted \ {j}
               /\ Resume(j)
    /\ UNCHANGED <<prio, reviewCount, created, gated, health, exits>>

ResumeNext ==
    /\ stage = "idle" /\ running
    /\ \E j \in toResume :
          /\ \A k \in toResume : j <= k
          /\ toResume' = toResume \ {j}
          /\ Resume(j)
    /\ UNCHANGED <<prio, reviewCount, created, gated, running, health, exits>>

(* _CIRCUIT_OPEN_PAUSE_SEC have passed; the failure count stays.           *)
BreakerTimeout ==
    /\ breakerOpen /\ stage # "down" /\ breakerOpen' = FALSE
    /\ UNCHANGED <<table, gated, worker, running, failures, exits>>

-----------------------------------------------------------------------------
(* The process: a graceful stop only clears the flag, then the process     *)
(* ends wherever the worker is.                                            *)

Stop ==
    /\ stage # "down" /\ running /\ exits < MaxExits
    /\ running' = FALSE /\ exits' = exits + 1
    /\ UNCHANGED <<table, gated, worker, health>>

Down ==
    /\ stage' = "down" /\ cur' = NoJob /\ node' = 0 /\ attempt' = 0
    /\ toResume' = {} /\ running' = FALSE
    /\ failures' = 0 /\ breakerOpen' = FALSE
    /\ UNCHANGED <<table, gated>>

Crash == stage # "down" /\ running /\ exits < MaxExits /\ exits' = exits + 1 /\ Down
Exit  == stage # "down" /\ ~running /\ UNCHANGED exits /\ Down

-----------------------------------------------------------------------------
(* The handlers.  They run in the same process as the worker.              *)

Handler == UNCHANGED <<worker, running, health, exits>>

(* The HTTP server has stopped serving when it calls stop().               *)
CreateJob ==
    /\ running /\ Handler /\ created < MaxJobs /\ created' = created + 1
    /\ status' = [status EXCEPT ![created + 1] = "pending"]
    /\ \E p \in IF created + 1 \in SlackJobs THEN {0} ELSE Priorities :
          prio' = [prio EXCEPT ![created + 1] = p]
    /\ UNCHANGED <<reviewCount, nodes, gated>>

MutantCancellableAny(j) == status[j] # "absent"
Cancellable(j) == status[j] \notin {"absent"} \union Terminal

CancelJob(j) ==
    /\ running /\ Handler /\ Cancellable(j)
    /\ status' = Write(j, "cancelling")
    /\ UNCHANGED <<prio, reviewCount, nodes, created, gated>>

MutantDeletableAny(j) == status[j] # "absent"
Deletable(j) == status[j] \in Terminal

DeleteJob(j) ==
    /\ running /\ Handler /\ Deletable(j)
    /\ status' = [status EXCEPT ![j] = "absent"]
    /\ nodes' = [nodes EXCEPT ![j] = << >>]
    /\ reviewCount' = [reviewCount EXCEPT ![j] = 0]
    /\ prio' = [prio EXCEPT ![j] = 0]
    /\ UNCHANGED <<created, gated>>

(* Approve, Request Changes, Cancel: the button writes its status on       *)
(* whatever the job is by then.                                            *)
SlackButton(j) ==
    /\ stage # "down" /\ Handler /\ j \in gated /\ status[j] # "absent"
    /\ \E s \in {"executing", "reviewing", "cancelled"} : status' = Write(j, s)
    /\ UNCHANGED <<prio, reviewCount, nodes, created, gated>>

-----------------------------------------------------------------------------
WorkerStep ==
    \/ PlanDone \/ PlanError
    \/ NodeOk \/ NodeFailed \/ BetweenNodes
    \/ ReviewPassed \/ ReviewRejected \/ ReviewError
    \/ RcaDone \/ ReplanDone \/ ReplanError
    \/ Poll \/ ResumeNext

HandlerStep ==
    \/ CreateJob
    \/ \E j \in Jobs : CancelJob(j) \/ DeleteJob(j) \/ SlackButton(j)

Next ==
    \/ WorkerStep \/ HandlerStep
    \/ BreakerTimeout
    \/ Start \/ Stop \/ Crash \/ Exit

Spec == Init /\ [][Next]_vars

(* Every await of the worker is bounded by a timeout, the loop polls every *)
(* two seconds, the pause of the breaker is finite, a stopping process     *)
(* ends, and docker-compose.yml restarts it (restart: unless-stopped).     *)
Fairness ==
    /\ WF_vars(WorkerStep) /\ WF_vars(BreakerTimeout)
    /\ WF_vars(Start) /\ WF_vars(Exit)

FairSpec == Spec /\ Fairness

-----------------------------------------------------------------------------
(* Safety.                                                                 *)

(* The status the worker last wrote for its job, given where it is.        *)
StageStatus ==
    CASE stage = "planning" -> "planning"
      [] stage \in {"node", "between"} -> "executing"
      [] OTHER -> "reviewing"

\* The jobs that no Slack button reaches; the buttons of the others may write
\* over any status, and do.
WebJobs == Jobs \ SlackJobs

(* While the worker runs a web job, the row carries the worker's phase or  *)
(* a cancel request: no handler takes the row from under the worker        *)
(* although update_job_status is unconditional and delete_job checks only  *)
(* the status.                                                             *)
WorkerOwnsJob ==
    cur \in WebJobs => status[cur] \in {StageStatus, "cancelling"}

(* A web job left in 'executing' is the worker's or waits for resumption,  *)
(* so it is never executing with nobody to execute it, nor are two.        *)
ExecutingIsOwned ==
    \A j \in WebJobs : status[j] = "executing" =>
        /\ stage = "down" \/ cur = j \/ j \in toResume
        /\ \A k \in WebJobs \ {j} : status[k] # "executing"

(* A node row of a web job is RUNNING only while the worker runs it, or    *)
(* after a crash, until the resume puts it back to PENDING; only a job     *)
(* whose cancellation was lost in the crash keeps one.                     *)
RunningNodeOwned ==
    \A j \in WebJobs : \A i \in WithStatus(nodes[j], "running") :
        \/ stage = "node" /\ cur = j /\ node = i
        \/ cur # j /\ (stage = "down" \/ j \in toResume \/ status[j] = "cancelling")

(* A node has been started only after every node it depends on completed,  *)
(* across retries, resumes and deletions of the job's rows.                *)
DepsOrder ==
    \A j \in Jobs : \A i \in DOMAIN nodes[j] :
        nodes[j][i].status \in {"running", "completed", "failed"}
            => DepsMet(nodes[j], i)

(* A web job is done only when each of its nodes completed or was replaced *)
(* by a retry: "Returns True if every node completed successfully".        *)
DoneComplete ==
    \A j \in WebJobs : status[j] = "done" =>
        \A i \in DOMAIN nodes[j] : nodes[j][i].status \in {"completed", "cancelled"}

(* The review budget holds across restarts although the loop over attempts *)
(* starts afresh each time, and "Should not reach here" is right: the loop *)
(* never runs out of attempts before the counter stops it.                 *)
ReviewBudget ==
    /\ \A j \in WebJobs : reviewCount[j] <= MaxReviews
    /\ cur \in WebJobs => attempt <= reviewCount[cur]
    /\ cur \in WebJobs /\ stage = "replanning" => attempt < reviewCount[cur] /\ attempt < MaxReviews

(* While the circuit breaker is open no job runs.                          *)
BreakerQuiet == breakerOpen => stage = "idle" /\ failures = BreakerThreshold

-----------------------------------------------------------------------------
(* What a step may do.                                                     *)

(* No node starts for a job that is cancelled or being cancelled, whoever  *)
(* wrote the status.                                                       *)
NoNodeAfterCancel ==
    [][\A j \in Jobs : status[j] \in {"cancelling", "cancelled"} =>
          WithStatus(nodes'[j], "running") \subseteq WithStatus(nodes[j], "running")]_vars

(* Each step of the worker brings the end of its run nearer: it leaves the *)
(* planning, uses up an attempt, starts one of the nodes that are left, or *)
(* goes on towards the review and its verdict.  What the handlers do in    *)
(* the meantime, the buttons and a deletion of the job included, sets      *)
(* nothing back.  This is what RunEnds rests on.                           *)
Left(rows) == WithStatus(rows, "pending")
Ahead == CASE stage = "node" -> 3
           [] stage = "between" -> 2
           [] stage = "reviewing" -> 1
           [] OTHER -> 0

Nearer ==
    \/ cur' # cur
    \/ stage = "planning" /\ stage' # "planning"
    \/ /\ stage' # "planning" /\ attempt' >= attempt
       /\ \/ attempt' > attempt
          \/ /\ Left(nodes'[cur]) \subseteq Left(nodes[cur])
             /\ Left(nodes'[cur]) # Left(nodes[cur]) \/ Ahead' < Ahead

NotBack ==
    cur' # cur \/ (UNCHANGED worker /\ Left(nodes'[cur]) \subseteq Left(nodes[cur]))

RunShortens ==
    [][(cur \in Jobs) => IF WorkerStep THEN Nearer ELSE NotBack]_vars

(* The statuses follow the life cycle promised to the clients of the API.  *)
Lifecycle == INSTANCE JobLifecycle
ImplementsLifecycle == Lifecycle!Spec

-----------------------------------------------------------------------------
(* Liveness.                                                               *)

(* Every pending job is claimed or cancelled, whatever fails before it.    *)
PendingServed ==
    \A j \in Jobs : status[j] = "pending" ~> status[j] # "pending"

(* Every run of a job comes to an end.                                     *)
RunEnds == \A j \in Jobs : cur = j ~> cur # j

(* No job stays in 'executing', even if the process dies in the middle.    *)
InterruptedResumed ==
    \A j \in Jobs : status[j] = "executing" ~> status[j] # "executing"

(* A cancel request on the job the worker is running is answered, unless   *)
(* the process goes down first.                                            *)
RunningCancelResolves ==
    \A j \in Jobs :
        (status[j] = "cancelling" /\ cur = j)
            ~> (status[j] \in Terminal \union {"absent"} \/ stage = "down")

(* What cancel_job's documentation promises for any job.                   *)
CancelResolves ==
    \A j \in Jobs : status[j] = "cancelling" ~> status[j] # "cancelling"

(* "resuming from the last completed node": in the first attempt a node of *)
(* the plan completes at most once, with or without a restart in between.  *)
NoRedo ==
    \A j \in Jobs : reviewCount[j] = 0 =>
        \A i, k \in WithStatus(nodes[j], "completed") :
            i # k => nodes[j][i].seq # nodes[j][k].seq
=============================================================================
