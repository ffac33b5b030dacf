-------------------------- MODULE DurableExecution --------------------------
(***************************************************************************)
(* The durable-execution layer (backend/core/execution.py): the leases of  *)
(* the workers, the reclaim of what a dead worker was doing, the attempts  *)
(* at a job's work, the log of tool calls with its idempotency keys, and   *)
(* cancellation in two phases.  Every method is one transaction, but for   *)
(* claim_orphaned_jobs, whose first SELECT precedes its transaction.       *)
(*                                                                         *)
(* The layer is an interface: its workers are whoever calls it as its      *)
(* class docstrings say.  A job is one node with one tool call, whose      *)
(* idempotency key is the job.  Tables survive a crash; at, cur and num,   *)
(* the locals of the workers, do not.                                      *)
(***************************************************************************)
EXTENDS Integers, FiniteSets

CONSTANTS
    Workers, Jobs,
    NoWorker, NoJob,
    MaxAttempts,   \* bound: attempts at one job
    MaxCrashes,    \* bound: crashes of workers
    MaxStalls      \* bound: heartbeats that a live worker sends too late

ASSUME BoundsAssumption ==
    /\ MaxAttempts \in Nat /\ MaxCrashes \in Nat /\ MaxStalls \in Nat
    /\ NoJob \notin Jobs /\ NoWorker \notin Workers

VARIABLES
    job,             \* job[j]: status of j in jobs
    lease,           \* lease[w]: the row of w in worker_leases; late: its
                     \* last_heartbeat lies beyond the timeout
    attempt,         \* attempt[j][n]: row (j, n) of node_attempts
    tool,            \* tool[j][n]: the tool call of that attempt
    at, cur, num,    \* per worker: where it is, its job, its attempt
    found, first, saw,\* the supervisor: the dead workers found, the one that
                     \* claim_orphaned_jobs looks at first, the job it saw
    effects,         \* history: how often the tool of j really ran
    slipped,         \* history: a row changed where the supervisor could not
                     \* see what it had named
    crashes, stalls

tables     == <<job, lease, attempt, tool>>
locals     == <<at, cur, num>>
supervisor == <<found, first, saw>>
history    == <<effects, slipped, crashes, stalls>>
vars       == <<tables, locals, supervisor, history>>

Numbers == 1 .. MaxAttempts
Closed  == {"cancelled", "completed"}
NoLease == [status |-> "none", job |-> NoJob, late |-> FALSE]
Leases  == [status : {"none", "active", "released", "dead"},
            job : Jobs \union {NoJob}, late : BOOLEAN]

(* Types.                                                                  *)
TypeOK ==
    /\ job \in [Jobs -> {"pending", "running", "cancelling"} \union Closed]
    /\ lease \in [Workers -> Leases]
    /\ attempt \in [Jobs -> [Numbers -> {"none", "running", "completed", "failed"}]]
    /\ tool \in [Jobs -> [Numbers -> {"none", "pending", "success", "error"}]]
    /\ at \in [Workers -> {"down", "idle", "taken", "number", "lookup", "tool",
                           "ran", "finish", "cancel"}]
    /\ cur \in [Workers -> Jobs \union {NoJob}]
    /\ num \in [Workers -> 0 .. MaxAttempts]
    /\ found \subseteq Workers
    /\ first \in Workers \union {NoWorker} /\ saw \in Jobs \union {NoJob}
    /\ effects \in [Jobs -> Nat] /\ slipped \in BOOLEAN
    /\ crashes \in 0 .. MaxCrashes /\ stalls \in 0 .. MaxStalls

Init ==
    /\ job = [j \in Jobs |-> "pending"]
    /\ lease = [w \in Workers |-> NoLease]
    /\ attempt = [j \in Jobs |-> [n \in Numbers |-> "none"]]
    /\ tool = [j \in Jobs |-> [n \in Numbers |-> "none"]]
    /\ at = [w \in Workers |-> "down"]
    /\ cur = [w \in Workers |-> NoJob]
    /\ num = [w \in Workers |-> 0]
    /\ found = {} /\ first = NoWorker /\ saw = NoJob
    /\ effects = [j \in Jobs |-> 0] /\ slipped = FALSE
    /\ crashes = 0 /\ stalls = 0

-----------------------------------------------------------------------------
Up(w)     == at[w] # "down"
Active(w) == lease[w].status = "active"
Goto(w, where) == at' = [at EXCEPT ![w] = where]

(* The worker drops its job, done or not.                                  *)
Leave(w, where) ==
    /\ Goto(w, where)
    /\ cur' = [cur EXCEPT ![w] = NoJob]
    /\ num' = [num EXCEPT ![w] = 0]

(* A worker starts.  The row of an earlier life is taken over, and what    *)
(* that life was working on is forgotten.                                  *)
AcquireLease(w) ==
    /\ ~Up(w)
    /\ lease' = [lease EXCEPT ![w] =
                    [status |-> "active", job |-> NoJob, late |-> FALSE]]
    /\ slipped' = (slipped \/ Active(w))
    /\ Goto(w, "idle")
    /\ UNCHANGED <<job, attempt, tool, cur, num, supervisor, effects, crashes, stalls>>

ReleaseLease(w) ==
    /\ at[w] = "idle"
    /\ lease' = [lease EXCEPT ![w].status = "released", ![w].job = NoJob,
                              ![w].late = FALSE]
    /\ Goto(w, "down")
    /\ UNCHANGED <<job, attempt, tool, cur, num, supervisor, history>>

MutantHeartbeat(w) ==
    /\ Up(w)
    /\ lease' = [lease EXCEPT ![w].job = cur[w], ![w].late = FALSE]
    /\ slipped' = (slipped \/ first = w)
    /\ UNCHANGED <<job, attempt, tool, locals, supervisor, effects, crashes, stalls>>
(* Only an active row listens; a worker declared dead is not told.         *)
Heartbeat(w) ==
    /\ Up(w) /\ Active(w)
    /\ lease' = [lease EXCEPT ![w].job = cur[w], ![w].late = FALSE]
    /\ slipped' = (slipped \/ first = w)
    /\ UNCHANGED <<job, attempt, tool, locals, supervisor, effects, crashes, stalls>>

(* The timeout passes without a heartbeat: of a worker that is down, or of *)
(* one that is busy too long.                                              *)
HeartbeatLate(w) ==
    /\ Active(w) /\ ~lease[w].late
    /\ Up(w) => stalls < MaxStalls
    /\ stalls' = IF Up(w) THEN stalls + 1 ELSE stalls
    /\ lease' = [lease EXCEPT ![w].late = TRUE]
    /\ UNCHANGED <<job, attempt, tool, locals, supervisor, effects, slipped, crashes>>

Crash(w) ==
    /\ Up(w) /\ crashes < MaxCrashes
    /\ crashes' = crashes + 1
    /\ Leave(w, "down")
    /\ UNCHANGED <<tables, supervisor, effects, slipped, stalls>>

-----------------------------------------------------------------------------
(* A worker at work.  It takes a pending job, ...                          *)
Take(w, j) ==
    /\ at[w] = "idle" /\ job[j] = "pending"
    /\ job' = [job EXCEPT ![j] = "running"]
    /\ cur' = [cur EXCEPT ![w] = j]
    /\ Goto(w, "taken")
    /\ UNCHANGED <<lease, attempt, tool, num, supervisor, history>>

(* ... numbers its attempt after the latest one, ...                       *)
Latest(j) == Cardinality({n \in Numbers : attempt[j][n] # "none"})
GetLatestAttempt(w) ==
    /\ at[w] = "taken" /\ Latest(cur[w]) < MaxAttempts
    /\ num' = [num EXCEPT ![w] = Latest(cur[w]) + 1]
    /\ Goto(w, "number")
    /\ UNCHANGED <<tables, cur, supervisor, history>>

(* ... and records it; when the pair (node_id, attempt_number) is there,   *)
(* the INSERT fails and the worker numbers its attempt again.              *)
StartAttempt(w) ==
    /\ at[w] = "number"
    /\ IF attempt[cur[w]][num[w]] = "none"
       THEN /\ attempt' = [attempt EXCEPT ![cur[w]][num[w]] = "running"]
            /\ Goto(w, "lookup")
       ELSE Goto(w, "taken") /\ UNCHANGED attempt
    /\ UNCHANGED <<job, lease, tool, cur, num, supervisor, history>>

MutantGetCachedResult(j) == \E n \in Numbers : tool[j][n] # "none"
GetCachedResult(j) == \E n \in Numbers : tool[j][n] = "success"

(* A cached result spares the tool call; otherwise the call is logged as   *)
(* pending, which no lookup sees.                                          *)
LogInvocation(w) ==
    /\ at[w] = "lookup"
    /\ IF GetCachedResult(cur[w])
       THEN Goto(w, "finish") /\ UNCHANGED tool
       ELSE /\ tool' = [tool EXCEPT ![cur[w]][num[w]] = "pending"]
            /\ Goto(w, "tool")
    /\ UNCHANGED <<job, lease, attempt, cur, num, supervisor, history>>

RunTool(w) ==
    /\ at[w] = "tool"
    /\ effects' = [effects EXCEPT ![cur[w]] = @ + 1]
    /\ Goto(w, "ran")
    /\ UNCHANGED <<tables, cur, num, supervisor, slipped, crashes, stalls>>

UpdateInvocation(w) ==
    /\ at[w] = "ran"
    /\ tool' = [tool EXCEPT ![cur[w]][num[w]] = "success"]
    /\ Goto(w, "finish")
    /\ UNCHANGED <<job, lease, attempt, cur, num, supervisor, history>>

MutantFailAttempt(w) ==
    /\ at[w] = "tool" /\ Latest(cur[w]) < MaxAttempts
    /\ tool' = [tool EXCEPT ![cur[w]][num[w]] = "failed"]
    /\ attempt' = [attempt EXCEPT ![cur[w]][num[w]] = "failed"]
    /\ Goto(w, "taken")
    /\ UNCHANGED <<job, lease, cur, num, supervisor, history>>
(* The tool fails; the attempt is recorded as failed and another one made. *)
FailAttempt(w) ==
    /\ at[w] = "tool" /\ Latest(cur[w]) < MaxAttempts
    /\ tool' = [tool EXCEPT ![cur[w]][num[w]] = "error"]
    /\ attempt' = [attempt EXCEPT ![cur[w]][num[w]] = "failed"]
    /\ Goto(w, "taken")
    /\ UNCHANGED <<job, lease, cur, num, supervisor, history>>

(* The job is over, also when a cancellation was asked for after the last  *)
(* look.                                                                   *)
CompleteAttempt(w) ==
    /\ at[w] = "finish"
    /\ attempt' = [attempt EXCEPT ![cur[w]][num[w]] = "completed"]
    /\ job' = [job EXCEPT ![cur[w]] = "completed"]
    /\ Leave(w, "idle")
    /\ UNCHANGED <<lease, tool, supervisor, history>>

-----------------------------------------------------------------------------
(* Cancellation: asked for at any time, seen by the worker between steps.  *)
RequestCancellation(j) ==
    /\ job[j] \in {"pending", "running"}
    /\ job' = [job EXCEPT ![j] = "cancelling"]
    /\ UNCHANGED <<lease, attempt, tool, locals, supervisor, history>>

IsCancelling(w) ==
    /\ at[w] \in {"taken", "finish"} /\ job[cur[w]] = "cancelling"
    /\ Goto(w, "cancel")
    /\ UNCHANGED <<tables, cur, num, supervisor, history>>

CompleteCancellation(w) ==
    /\ at[w] = "cancel"
    /\ job' = [job EXCEPT ![cur[w]] = "cancelled"]
    /\ Leave(w, "idle")
    /\ UNCHANGED <<lease, attempt, tool, supervisor, history>>

-----------------------------------------------------------------------------
MutantFindDeadWorkers ==
    /\ found = {}
    /\ found' = {w \in Workers : Active(w)} /\ found' # {}
    /\ UNCHANGED <<tables, locals, first, saw, history>>
(* The supervisor asks for workers whose heartbeat is late, ...            *)
FindDeadWorkers ==
    /\ found = {}
    /\ found' = {w \in Workers : Active(w) /\ lease[w].late} /\ found' # {}
    /\ UNCHANGED <<tables, locals, first, saw, history>>

(* ... reads what the first of them was doing, ...                         *)
ClaimRead(w) ==
    /\ first = NoWorker /\ w \in found
    /\ first' = w /\ saw' = lease[w].job
    /\ UNCHANGED <<tables, locals, found, history>>

Orphaned == {saw} \union {lease[w].job : w \in found \ {first}}
Bury == [w \in Workers |->
            IF w \in found
            THEN [lease[w] EXCEPT !.status = "dead", !.job = NoJob, !.late = FALSE]
            ELSE lease[w]]

ClaimEnds == found' = {} /\ first' = NoWorker /\ saw' = NoJob

MutantClaimUnguarded ==
    /\ first # NoWorker
    /\ job' = [j \in Jobs |-> IF j \in Orphaned THEN "pending" ELSE job[j]]
    /\ lease' = Bury
    /\ ClaimEnds
    /\ UNCHANGED <<attempt, tool, locals, history>>
MutantClaimForgetsFirst ==
    /\ first # NoWorker
    /\ job' = [j \in Jobs |->
                IF j \in Orphaned \ {saw} /\ job[j] = "running"
                THEN "pending" ELSE job[j]]
    /\ lease' = Bury
    /\ ClaimEnds
    /\ UNCHANGED <<attempt, tool, locals, history>>
(* ... and, in one transaction, gives the running jobs of all of them back *)
(* and declares them dead, whatever they have done since they were found.  *)
ClaimOrphanedJobs ==
    /\ first # NoWorker
    /\ job' = [j \in Jobs |->
                IF j \in Orphaned /\ job[j] = "running" THEN "pending" ELSE job[j]]
    /\ lease' = Bury
    /\ ClaimEnds
    /\ UNCHANGED <<attempt, tool, locals, history>>

Supervise ==
    \/ FindDeadWorkers
    \/ \E w \in Workers : ClaimRead(w)
    \/ ClaimOrphanedJobs

Work(w) ==
    \/ GetLatestAttempt(w) \/ StartAttempt(w) \/ LogInvocation(w)
    \/ RunTool(w) \/ UpdateInvocation(w) \/ FailAttempt(w) \/ CompleteAttempt(w)
    \/ IsCancelling(w) \/ CompleteCancellation(w)

Next ==
    \/ \E w \in Workers :
        \/ AcquireLease(w) \/ ReleaseLease(w)
        \/ Heartbeat(w) \/ HeartbeatLate(w) \/ Crash(w)
        \/ \E j \in Jobs : Take(w, j)
        \/ Work(w)
    \/ \E j \in Jobs : RequestCancellation(j)
    \/ Supervise

(* The heartbeat of a worker that is down becomes late, and the supervisor *)
(* comes round.  Nobody has to start, take a job or go on with one.        *)
Fairness ==
    /\ \A w \in Workers : WF_vars(~Up(w) /\ HeartbeatLate(w))
    /\ WF_vars(Supervise)

Spec == Init /\ [][Next]_vars /\ Fairness

-----------------------------------------------------------------------------
(* Two rows of worker_leases never name the same job: not even when a      *)
(* worker that was declared dead goes on with a job another has taken.     *)
OneHolder ==
    \A w, x \in Workers : lease[w].job = lease[x].job /\ w # x => lease[w].job = NoJob

(* A cancellation is not undone, by a reclaim or by anybody else, and a    *)
(* job that is over stays over.                                            *)
NotReopened ==
    [][\A j \in Jobs :
         job[j] \in {"cancelling"} \union Closed => job'[j] \notin {"pending", "running"}]_vars

(* A job is not reported as completed without its tool having run, however *)
(* many attempts broke off after they had logged the call.                 *)
DoneWasRun ==
    \A j \in Jobs : job[j] = "completed" => effects[j] > 0

(* A tool runs twice for the same key only if a worker crashed or was late *)
(* with its heartbeat: each of these costs at most one more run.           *)
RerunsPaid == \A j \in Jobs : effects[j] <= 1 + crashes + stalls

(* The job that the row of a crashed worker names is given back.  Two      *)
(* windows are excepted: a worker that comes back under its id before it   *)
(* is found wipes the job off its row, and a heartbeat between the SELECT  *)
(* of claim_orphaned_jobs and its UPDATE names a job nobody will look at.  *)
JobsComeBack ==
    \A w \in Workers, j \in Jobs :
        (~Up(w) /\ lease[w].job = j) ~> (job[j] # "running" \/ slipped)
=============================================================================
