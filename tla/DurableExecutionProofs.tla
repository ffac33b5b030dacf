----------------------- MODULE DurableExecutionProofs -----------------------
(***************************************************************************)
(* Proofs about DurableExecution, for every number of workers, jobs,       *)
(* attempts, crashes and stalls: who may hold a job, what a reclaim may    *)
(* undo, that a completed job was worked on, and what each further run of  *)
(* a tool costs.                                                           *)
(***************************************************************************)
EXTENDS DurableExecution, FiniteSetTheorems, TLAPS

(* What the locals of a worker say where it is.                            *)
Calls ==
    \A w \in Workers :
        /\ at[w] \in {"down", "idle"} => cur[w] = NoJob
        /\ at[w] \notin {"down", "idle"} => cur[w] \in Jobs
        /\ at[w] \in {"number", "lookup", "tool", "ran", "finish"} =>
              num[w] \in Numbers

(* Only active rows name a job; a job that an active worker has in hand or *)
(* that a row names is not to be had, and is in no other active hand.      *)
Named ==
    /\ \A w \in Workers : lease[w].job # NoJob => Active(w)
    /\ \A w \in Workers : lease[w].job # NoJob => job[lease[w].job] # "pending"
    /\ \A w \in Workers :
          Active(w) /\ cur[w] # NoJob => job[cur[w]] # "pending"
    /\ \A w, x \in Workers :
          Active(w) /\ cur[w] # NoJob /\ w # x =>
              /\ lease[x].job # cur[w]
              /\ Active(x) => cur[x] # cur[w]

(* The job that claim_orphaned_jobs saw is nobody's but the dead worker's. *)
Seen ==
    /\ first # NoWorker => first \in found
    /\ first = NoWorker => saw = NoJob
    /\ saw # NoJob =>
          /\ job[saw] # "pending"
          /\ \A w \in Workers \ {first} :
                /\ lease[w].job # saw
                /\ Active(w) => cur[w] # saw

(* Wherever a result is recorded or about to be, the tool has run.         *)
Ran ==
    /\ \A w \in Workers : at[w] \in {"ran", "finish"} => effects[cur[w]] > 0
    /\ \A j \in Jobs, n \in Numbers : tool[j][n] = "success" => effects[j] > 0

Inv == TypeOK /\ Calls /\ Named /\ Seen /\ OneHolder /\ Ran /\ DoneWasRun

USE BoundsAssumption
USE DEF Numbers, Closed, NoLease, Leases, tables, locals, supervisor, history

-----------------------------------------------------------------------------
(* The number of the latest attempt is a number.                           *)
LEMMA LatestNat == \A j \in Jobs : Latest(j) \in Nat
<1> SUFFICES ASSUME NEW j \in Jobs PROVE Latest(j) \in Nat
    OBVIOUS
<1>1. IsFiniteSet(Numbers)
    BY FS_Interval
<1>2. IsFiniteSet({n \in Numbers : attempt[j][n] # "none"})
    BY <1>1, FS_Subset
<1> QED
    BY <1>2, FS_CardinalityType DEF Latest

(* The leases.                                                             *)
LEMMA AcquireLeaseKeepsInv ==
    ASSUME Inv, NEW w \in Workers, AcquireLease(w)
    PROVE  Inv'
<1>1. TypeOK'
    BY DEF Inv, TypeOK, Calls, Up, Active, AcquireLease, Goto
<1>2. Calls'
    BY DEF Inv, TypeOK, Calls, Up, AcquireLease, Goto
<1>3. Named'
    BY DEF Inv, TypeOK, Calls, Named, OneHolder, Active, Up, AcquireLease, Goto
<1>4. Seen'
    BY DEF Inv, TypeOK, Calls, Named, Seen, OneHolder, Active, Up, AcquireLease, Goto
<1>5. OneHolder'
    BY DEF Inv, TypeOK, Calls, Named, Seen, OneHolder, Active, Up, AcquireLease, Goto
<1>6. Ran' /\ DoneWasRun'
    BY DEF Inv, TypeOK, Calls, Ran, DoneWasRun, AcquireLease, Goto
<1> QED
    BY <1>1, <1>2, <1>3, <1>4, <1>5, <1>6 DEF Inv

LEMMA ReleaseLeaseKeepsInv ==
    ASSUME Inv, NEW w \in Workers, ReleaseLease(w)
    PROVE  Inv'
<1>1. TypeOK'
    <2>1. lease[w] \in Leases
        BY DEF Inv, TypeOK
    <2>2. [lease[w] EXCEPT !.status = "released", !.job = NoJob, !.late = FALSE] \in Leases
        BY <2>1 DEF Inv, TypeOK
    <2>3. lease' \in [Workers -> Leases]
        BY <2>2 DEF Inv, TypeOK, ReleaseLease
    <2> QED
        BY <2>3 DEF Inv, TypeOK, ReleaseLease, Goto, Up
<1>2. Calls'
    BY DEF Inv, TypeOK, Calls, Up, ReleaseLease, Goto
<1>3. Named'
    BY DEF Inv, TypeOK, Calls, Named, OneHolder, Active, Up, ReleaseLease, Goto
<1>4. Seen'
    BY DEF Inv, TypeOK, Calls, Named, Seen, OneHolder, Active, Up, ReleaseLease, Goto
<1>5. OneHolder'
    BY DEF Inv, TypeOK, Calls, Named, Seen, OneHolder, Active, Up, ReleaseLease, Goto
<1>6. Ran' /\ DoneWasRun'
    BY DEF Inv, TypeOK, Calls, Ran, DoneWasRun, ReleaseLease, Goto
<1> QED
    BY <1>1, <1>2, <1>3, <1>4, <1>5, <1>6 DEF Inv

LEMMA HeartbeatKeepsInv ==
    ASSUME Inv, NEW w \in Workers, Heartbeat(w)
    PROVE  Inv'
<1>1. TypeOK'
    <2>1. lease[w] \in Leases
        BY DEF Inv, TypeOK
    <2>2. [lease[w] EXCEPT !.job = cur[w], !.late = FALSE] \in Leases
        BY <2>1 DEF Inv, TypeOK
    <2>3. lease' \in [Workers -> Leases]
        BY <2>2 DEF Inv, TypeOK, Heartbeat
    <2> QED
        BY <2>3 DEF Inv, TypeOK, Heartbeat, Goto, Up
<1>2. Calls'
    BY DEF Inv, TypeOK, Calls, Up, Heartbeat, Goto
<1>3. Named'
    BY DEF Inv, TypeOK, Calls, Named, OneHolder, Active, Up, Heartbeat, Goto
<1>4. Seen'
    BY DEF Inv, TypeOK, Calls, Named, Seen, OneHolder, Active, Up, Heartbeat, Goto
<1>5. OneHolder'
    BY DEF Inv, TypeOK, Calls, Named, Seen, OneHolder, Active, Up, Heartbeat, Goto
<1>6. Ran' /\ DoneWasRun'
    BY DEF Inv, TypeOK, Calls, Ran, DoneWasRun, Heartbeat, Goto
<1> QED
    BY <1>1, <1>2, <1>3, <1>4, <1>5, <1>6 DEF Inv

LEMMA HeartbeatLateKeepsInv ==
    ASSUME Inv, NEW w \in Workers, HeartbeatLate(w)
    PROVE  Inv'
<1>1. TypeOK'
    <2>1. lease[w] \in Leases
        BY DEF Inv, TypeOK
    <2>2. [lease[w] EXCEPT !.late = TRUE] \in Leases
        BY <2>1 DEF Inv, TypeOK
    <2>3. lease' \in [Workers -> Leases]
        BY <2>2 DEF Inv, TypeOK, HeartbeatLate
    <2> QED
        BY <2>3 DEF Inv, TypeOK, HeartbeatLate, Goto, Up
<1>2. Calls'
    BY DEF Inv, TypeOK, Calls, Up, HeartbeatLate, Goto
<1>3. Named'
    BY DEF Inv, TypeOK, Calls, Named, OneHolder, Active, Up, HeartbeatLate, Goto
<1>4. Seen'
    BY DEF Inv, TypeOK, Calls, Named, Seen, OneHolder, Active, Up, HeartbeatLate, Goto
<1>5. OneHolder'
    BY DEF Inv, TypeOK, Calls, Named, Seen, OneHolder, Active, Up, HeartbeatLate, Goto
<1>6. Ran' /\ DoneWasRun'
    BY DEF Inv, TypeOK, Calls, Ran, DoneWasRun, HeartbeatLate, Goto
<1> QED
    BY <1>1, <1>2, <1>3, <1>4, <1>5, <1>6 DEF Inv

LEMMA CrashKeepsInv ==
    ASSUME Inv, NEW w \in Workers, Crash(w)
    PROVE  Inv'
<1>1. TypeOK'
    BY DEF Inv, TypeOK, Calls, Up, Active, Crash, Goto, Leave
<1>2. Calls'
    BY DEF Inv, TypeOK, Calls, Up, Crash, Goto, Leave
<1>3. Named'
    BY DEF Inv, TypeOK, Calls, Named, OneHolder, Active, Up, Crash, Goto, Leave
<1>4. Seen'
    BY DEF Inv, TypeOK, Calls, Named, Seen, OneHolder, Active, Up, Crash, Goto, Leave
<1>5. OneHolder'
    BY DEF Inv, TypeOK, Calls, Named, Seen, OneHolder, Active, Up, Crash, Goto, Leave
<1>6. Ran' /\ DoneWasRun'
    BY DEF Inv, TypeOK, Calls, Ran, DoneWasRun, Crash, Goto, Leave
<1> QED
    BY <1>1, <1>2, <1>3, <1>4, <1>5, <1>6 DEF Inv

(* The work on a job.                                                      *)
LEMMA TakeKeepsInv ==
    ASSUME Inv, NEW w \in Workers, NEW j \in Jobs, Take(w, j)
    PROVE  Inv'
<1>1. TypeOK'
    BY DEF Inv, TypeOK, Calls, Up, Active, Take, Goto
<1>2. Calls'
    BY DEF Inv, TypeOK, Calls, Up, Take, Goto
<1>3. Named'
    BY DEF Inv, TypeOK, Calls, Named, OneHolder, Active, Up, Take, Goto
<1>4. Seen'
    BY DEF Inv, TypeOK, Calls, Named, Seen, OneHolder, Active, Up, Take, Goto
<1>5. OneHolder'
    BY DEF Inv, TypeOK, Calls, Named, Seen, OneHolder, Active, Up, Take, Goto
<1>6. Ran' /\ DoneWasRun'
    BY DEF Inv, TypeOK, Calls, Ran, DoneWasRun, Take, Goto
<1> QED
    BY <1>1, <1>2, <1>3, <1>4, <1>5, <1>6 DEF Inv

LEMMA GetLatestAttemptKeepsInv ==
    ASSUME Inv, NEW w \in Workers, GetLatestAttempt(w)
    PROVE  Inv'
<1>1. TypeOK'
    <2>1. cur[w] \in Jobs
        BY DEF Inv, Calls, GetLatestAttempt
    <2>2. Latest(cur[w]) \in Nat /\ Latest(cur[w]) < MaxAttempts
        BY <2>1, LatestNat DEF GetLatestAttempt
    <2>3. num' \in [Workers -> 0 .. MaxAttempts]
        <3>1. Latest(cur[w]) + 1 \in 0 .. MaxAttempts
            BY <2>2
        <3> QED
            BY <3>1 DEF Inv, TypeOK, GetLatestAttempt
    <2> QED
        BY <2>3 DEF Inv, TypeOK, GetLatestAttempt, Goto
<1>2. Calls'
    <2>1. cur[w] \in Jobs
        BY DEF Inv, Calls, GetLatestAttempt
    <2>2. Latest(cur[w]) \in Nat /\ Latest(cur[w]) < MaxAttempts
        BY <2>1, LatestNat DEF GetLatestAttempt
    <2>3. Latest(cur[w]) + 1 \in Numbers
        BY <2>2
    <2>4. num'[w] \in Numbers /\ \A x \in Workers \ {w} : num'[x] = num[x]
        BY <2>3 DEF Inv, TypeOK, GetLatestAttempt
    <2> QED
        BY <2>1, <2>4 DEF Inv, TypeOK, Calls, GetLatestAttempt, Goto
<1>3. Named'
    BY DEF Inv, TypeOK, Calls, Named, OneHolder, Active, Up, GetLatestAttempt, Goto
<1>4. Seen'
    BY DEF Inv, TypeOK, Calls, Named, Seen, OneHolder, Active, Up, GetLatestAttempt, Goto
<1>5. OneHolder'
    BY DEF Inv, TypeOK, Calls, Named, Seen, OneHolder, Active, Up, GetLatestAttempt, Goto
<1>6. Ran' /\ DoneWasRun'
    BY DEF Inv, TypeOK, Calls, Ran, DoneWasRun, GetLatestAttempt, Goto
<1> QED
    BY <1>1, <1>2, <1>3, <1>4, <1>5, <1>6 DEF Inv

LEMMA StartAttemptKeepsInv ==
    ASSUME Inv, NEW w \in Workers, StartAttempt(w)
    PROVE  Inv'
<1>1. TypeOK'
    <2>1. cur[w] \in Jobs /\ num[w] \in Numbers
        BY DEF Inv, Calls, StartAttempt
    <2>2. attempt' \in [Jobs -> [Numbers -> {"none", "running", "completed", "failed"}]]
        <3>1. CASE attempt[cur[w]][num[w]] = "none"
            <4>1. attempt' = [attempt EXCEPT ![cur[w]][num[w]] = "running"]
                BY <3>1 DEF StartAttempt
            <4> QED
                BY <2>1, <4>1 DEF Inv, TypeOK
        <3>2. CASE attempt[cur[w]][num[w]] # "none"
            BY <3>2 DEF Inv, TypeOK, StartAttempt
        <3> QED
            BY <3>1, <3>2
    <2> QED
        BY <2>2 DEF Inv, TypeOK, StartAttempt, Goto, Leave
<1>2. Calls'
    BY DEF Inv, TypeOK, Calls, Up, StartAttempt, Goto
<1>3. Named'
    BY DEF Inv, TypeOK, Calls, Named, OneHolder, Active, Up, StartAttempt, Goto
<1>4. Seen'
    BY DEF Inv, TypeOK, Calls, Named, Seen, OneHolder, Active, Up, StartAttempt, Goto
<1>5. OneHolder'
    BY DEF Inv, TypeOK, Calls, Named, Seen, OneHolder, Active, Up, StartAttempt, Goto
<1>6. Ran' /\ DoneWasRun'
    BY DEF Inv, TypeOK, Calls, Ran, DoneWasRun, StartAttempt, Goto
<1> QED
    BY <1>1, <1>2, <1>3, <1>4, <1>5, <1>6 DEF Inv

LEMMA LogInvocationKeepsInv ==
    ASSUME Inv, NEW w \in Workers, LogInvocation(w)
    PROVE  Inv'
<1>1. TypeOK'
    <2>1. cur[w] \in Jobs /\ num[w] \in Numbers
        BY DEF Inv, Calls, LogInvocation
    <2>2. tool' \in [Jobs -> [Numbers -> {"none", "pending", "success", "error"}]]
        <3>1. CASE tool' = [tool EXCEPT ![cur[w]][num[w]] = "pending"]
            BY <2>1, <3>1 DEF Inv, TypeOK
        <3>2. CASE tool' = tool
            BY <3>2 DEF Inv, TypeOK
        <3> QED
            BY <3>1, <3>2 DEF LogInvocation
    <2> QED
        BY <2>2 DEF Inv, TypeOK, LogInvocation, Goto, Leave
<1>2. Calls'
    BY DEF Inv, TypeOK, Calls, Up, LogInvocation, Goto, GetCachedResult
<1>3. Named'
    BY DEF Inv, TypeOK, Calls, Named, OneHolder, Active, Up, LogInvocation, Goto, GetCachedResult
<1>4. Seen'
    BY DEF Inv, TypeOK, Calls, Named, Seen, OneHolder, Active, Up, LogInvocation, Goto, GetCachedResult
<1>5. OneHolder'
    BY DEF Inv, TypeOK, Calls, Named, Seen, OneHolder, Active, Up, LogInvocation, Goto, GetCachedResult
<1>6. Ran' /\ DoneWasRun'
    <2>1. cur[w] \in Jobs /\ num[w] \in Numbers
        BY DEF Inv, Calls, LogInvocation
    <2>2. GetCachedResult(cur[w]) => effects[cur[w]] > 0
        BY <2>1 DEF Inv, Ran, GetCachedResult
    <2>3. \A j \in Jobs, n \in Numbers :
              tool'[j][n] = "success" => tool[j][n] = "success"
        <3>1. CASE tool' = [tool EXCEPT ![cur[w]][num[w]] = "pending"]
            BY <2>1, <3>1 DEF Inv, TypeOK
        <3>2. CASE tool' = tool
            BY <3>2
        <3> QED
            BY <3>1, <3>2 DEF LogInvocation
    <2> QED
        BY <2>1, <2>2, <2>3 DEF Inv, TypeOK, Calls, Ran, DoneWasRun,
           LogInvocation, Goto
<1> QED
    BY <1>1, <1>2, <1>3, <1>4, <1>5, <1>6 DEF Inv

LEMMA RunToolKeepsInv ==
    ASSUME Inv, NEW w \in Workers, RunTool(w)
    PROVE  Inv'
<1>1. TypeOK'
    <2>1. cur[w] \in Jobs
        BY DEF Inv, Calls, RunTool
    <2>2. effects' \in [Jobs -> Nat]
        BY <2>1 DEF Inv, TypeOK, RunTool
    <2> QED
        BY <2>2 DEF Inv, TypeOK, RunTool, Goto, Leave
<1>2. Calls'
    BY DEF Inv, TypeOK, Calls, Up, RunTool, Goto
<1>3. Named'
    BY DEF Inv, TypeOK, Calls, Named, OneHolder, Active, Up, RunTool, Goto
<1>4. Seen'
    BY DEF Inv, TypeOK, Calls, Named, Seen, OneHolder, Active, Up, RunTool, Goto
<1>5. OneHolder'
    BY DEF Inv, TypeOK, Calls, Named, Seen, OneHolder, Active, Up, RunTool, Goto
<1>6. Ran' /\ DoneWasRun'
    BY DEF Inv, TypeOK, Calls, Ran, DoneWasRun, RunTool, Goto
<1> QED
    BY <1>1, <1>2, <1>3, <1>4, <1>5, <1>6 DEF Inv

LEMMA UpdateInvocationKeepsInv ==
    ASSUME Inv, NEW w \in Workers, UpdateInvocation(w)
    PROVE  Inv'
<1>1. TypeOK'
    BY DEF Inv, TypeOK, Calls, Up, Active, UpdateInvocation, Goto
<1>2. Calls'
    BY DEF Inv, TypeOK, Calls, Up, UpdateInvocation, Goto
<1>3. Named'
    BY DEF Inv, TypeOK, Calls, Named, OneHolder, Active, Up, UpdateInvocation, Goto
<1>4. Seen'
    BY DEF Inv, TypeOK, Calls, Named, Seen, OneHolder, Active, Up, UpdateInvocation, Goto
<1>5. OneHolder'
    BY DEF Inv, TypeOK, Calls, Named, Seen, OneHolder, Active, Up, UpdateInvocation, Goto
<1>6. Ran' /\ DoneWasRun'
    BY DEF Inv, TypeOK, Calls, Ran, DoneWasRun, UpdateInvocation, Goto
<1> QED
    BY <1>1, <1>2, <1>3, <1>4, <1>5, <1>6 DEF Inv

LEMMA FailAttemptKeepsInv ==
    ASSUME Inv, NEW w \in Workers, FailAttempt(w)
    PROVE  Inv'
<1>1. TypeOK'
    BY DEF Inv, TypeOK, Calls, Up, Active, FailAttempt, Goto
<1>2. Calls'
    BY DEF Inv, TypeOK, Calls, Up, FailAttempt, Goto
<1>3. Named'
    BY DEF Inv, TypeOK, Calls, Named, OneHolder, Active, Up, FailAttempt, Goto
<1>4. Seen'
    BY DEF Inv, TypeOK, Calls, Named, Seen, OneHolder, Active, Up, FailAttempt, Goto
<1>5. OneHolder'
    BY DEF Inv, TypeOK, Calls, Named, Seen, OneHolder, Active, Up, FailAttempt, Goto
<1>6. Ran' /\ DoneWasRun'
    BY DEF Inv, TypeOK, Calls, Ran, DoneWasRun, FailAttempt, Goto
<1> QED
    BY <1>1, <1>2, <1>3, <1>4, <1>5, <1>6 DEF Inv

LEMMA CompleteAttemptKeepsInv ==
    ASSUME Inv, NEW w \in Workers, CompleteAttempt(w)
    PROVE  Inv'
<1>1. TypeOK'
    <2>1. cur[w] \in Jobs /\ num[w] \in Numbers
        BY DEF Inv, Calls, CompleteAttempt
    <2>2. attempt' \in [Jobs -> [Numbers -> {"none", "running", "completed", "failed"}]]
        BY <2>1 DEF Inv, TypeOK, CompleteAttempt
    <2>3. job' \in [Jobs -> {"pending", "running", "cancelling"} \union Closed]
        BY <2>1 DEF Inv, TypeOK, CompleteAttempt
    <2> QED
        BY <2>2, <2>3 DEF Inv, TypeOK, CompleteAttempt, Goto, Leave
<1>2. Calls'
    BY DEF Inv, TypeOK, Calls, Up, CompleteAttempt, Goto, Leave
<1>3. Named'
    BY DEF Inv, TypeOK, Calls, Named, OneHolder, Active, Up, CompleteAttempt, Goto, Leave
<1>4. Seen'
    BY DEF Inv, TypeOK, Calls, Named, Seen, OneHolder, Active, Up, CompleteAttempt, Goto, Leave
<1>5. OneHolder'
    BY DEF Inv, TypeOK, Calls, Named, Seen, OneHolder, Active, Up, CompleteAttempt, Goto, Leave
<1>6. Ran' /\ DoneWasRun'
    BY DEF Inv, TypeOK, Calls, Ran, DoneWasRun, CompleteAttempt, Goto, Leave
<1> QED
    BY <1>1, <1>2, <1>3, <1>4, <1>5, <1>6 DEF Inv

(* Cancellation.                                                           *)
LEMMA RequestCancellationKeepsInv ==
    ASSUME Inv, NEW j \in Jobs, RequestCancellation(j)
    PROVE  Inv'
<1>1. TypeOK'
    BY DEF Inv, TypeOK, Calls, Up, Active, RequestCancellation, Goto
<1>2. Calls'
    BY DEF Inv, TypeOK, Calls, Up, RequestCancellation, Goto
<1>3. Named'
    BY DEF Inv, TypeOK, Calls, Named, OneHolder, Active, Up, RequestCancellation, Goto
<1>4. Seen'
    BY DEF Inv, TypeOK, Calls, Named, Seen, OneHolder, Active, Up, RequestCancellation, Goto
<1>5. OneHolder'
    BY DEF Inv, TypeOK, Calls, Named, Seen, OneHolder, Active, Up, RequestCancellation, Goto
<1>6. Ran' /\ DoneWasRun'
    BY DEF Inv, TypeOK, Calls, Ran, DoneWasRun, RequestCancellation, Goto
<1> QED
    BY <1>1, <1>2, <1>3, <1>4, <1>5, <1>6 DEF Inv

LEMMA IsCancellingKeepsInv ==
    ASSUME Inv, NEW w \in Workers, IsCancelling(w)
    PROVE  Inv'
<1>1. TypeOK'
    BY DEF Inv, TypeOK, Calls, Up, Active, IsCancelling, Goto
<1>2. Calls'
    BY DEF Inv, TypeOK, Calls, Up, IsCancelling, Goto
<1>3. Named'
    BY DEF Inv, TypeOK, Calls, Named, OneHolder, Active, Up, IsCancelling, Goto
<1>4. Seen'
    BY DEF Inv, TypeOK, Calls, Named, Seen, OneHolder, Active, Up, IsCancelling, Goto
<1>5. OneHolder'
    BY DEF Inv, TypeOK, Calls, Named, Seen, OneHolder, Active, Up, IsCancelling, Goto
<1>6. Ran' /\ DoneWasRun'
    BY DEF Inv, TypeOK, Calls, Ran, DoneWasRun, IsCancelling, Goto
<1> QED
    BY <1>1, <1>2, <1>3, <1>4, <1>5, <1>6 DEF Inv

LEMMA CompleteCancellationKeepsInv ==
    ASSUME Inv, NEW w \in Workers, CompleteCancellation(w)
    PROVE  Inv'
<1>1. TypeOK'
    <2>1. cur[w] \in Jobs
        BY DEF Inv, Calls, CompleteCancellation
    <2>2. job' \in [Jobs -> {"pending", "running", "cancelling"} \union Closed]
        BY <2>1 DEF Inv, TypeOK, CompleteCancellation
    <2> QED
        BY <2>2 DEF Inv, TypeOK, CompleteCancellation, Goto, Leave
<1>2. Calls'
    BY DEF Inv, TypeOK, Calls, Up, CompleteCancellation, Goto, Leave
<1>3. Named'
    BY DEF Inv, TypeOK, Calls, Named, OneHolder, Active, Up, CompleteCancellation, Goto, Leave
<1>4. Seen'
    BY DEF Inv, TypeOK, Calls, Named, Seen, OneHolder, Active, Up, CompleteCancellation, Goto, Leave
<1>5. OneHolder'
    BY DEF Inv, TypeOK, Calls, Named, Seen, OneHolder, Active, Up, CompleteCancellation, Goto, Leave
<1>6. Ran' /\ DoneWasRun'
    BY DEF Inv, TypeOK, Calls, Ran, DoneWasRun, CompleteCancellation, Goto, Leave
<1> QED
    BY <1>1, <1>2, <1>3, <1>4, <1>5, <1>6 DEF Inv

(* The supervisor.                                                         *)
LEMMA FindDeadWorkersKeepsInv ==
    ASSUME Inv, FindDeadWorkers
    PROVE  Inv'
<1>1. TypeOK'
    BY DEF Inv, TypeOK, Calls, Up, Active, FindDeadWorkers, Goto
<1>2. Calls'
    BY DEF Inv, TypeOK, Calls, Up, FindDeadWorkers, Goto
<1>3. Named'
    BY DEF Inv, TypeOK, Calls, Named, OneHolder, Active, Up, FindDeadWorkers, Goto
<1>4. Seen'
    BY DEF Inv, TypeOK, Calls, Named, Seen, OneHolder, Active, Up, FindDeadWorkers, Goto
<1>5. OneHolder'
    BY DEF Inv, TypeOK, Calls, Named, Seen, OneHolder, Active, Up, FindDeadWorkers, Goto
<1>6. Ran' /\ DoneWasRun'
    BY DEF Inv, TypeOK, Calls, Ran, DoneWasRun, FindDeadWorkers, Goto
<1> QED
    BY <1>1, <1>2, <1>3, <1>4, <1>5, <1>6 DEF Inv

LEMMA ClaimReadKeepsInv ==
    ASSUME Inv, NEW w \in Workers, ClaimRead(w)
    PROVE  Inv'
<1>1. TypeOK'
    BY DEF Inv, TypeOK, Calls, Up, Active, ClaimRead, Goto
<1>2. Calls'
    BY DEF Inv, TypeOK, Calls, Up, ClaimRead, Goto
<1>3. Named'
    BY DEF Inv, TypeOK, Calls, Named, OneHolder, Active, Up, ClaimRead, Goto
<1>4. Seen'
    BY DEF Inv, TypeOK, Calls, Named, Seen, OneHolder, Active, Up, ClaimRead, Goto
<1>5. OneHolder'
    BY DEF Inv, TypeOK, Calls, Named, Seen, OneHolder, Active, Up, ClaimRead, Goto
<1>6. Ran' /\ DoneWasRun'
    BY DEF Inv, TypeOK, Calls, Ran, DoneWasRun, ClaimRead, Goto
<1> QED
    BY <1>1, <1>2, <1>3, <1>4, <1>5, <1>6 DEF Inv

LEMMA ClaimOrphanedJobsKeepsInv ==
    ASSUME Inv, ClaimOrphanedJobs
    PROVE  Inv'
<1>1. TypeOK'
    <2>1. lease' \in [Workers -> Leases]
        <3>1. ASSUME NEW w \in Workers PROVE lease'[w] \in Leases
            <4>1. lease[w] \in Leases
                BY DEF Inv, TypeOK
            <4> QED
                BY <4>1 DEF ClaimOrphanedJobs, Bury
        <3> QED
            BY <3>1 DEF ClaimOrphanedJobs, Bury
    <2>2. job' \in [Jobs -> {"pending", "running", "cancelling"} \union Closed]
        BY DEF Inv, TypeOK, ClaimOrphanedJobs
    <2> QED
        BY <2>1, <2>2 DEF Inv, TypeOK, ClaimOrphanedJobs, ClaimEnds
<1>2. Calls'
    BY DEF Inv, TypeOK, Calls, Up, ClaimOrphanedJobs, Goto, Bury, ClaimEnds, Orphaned
<1>3. Named'
    <2>1. \A w \in Workers : w \notin found => lease'[w] = lease[w]
        BY DEF ClaimOrphanedJobs, Bury
    <2>2. \A w \in Workers :
              w \in found => lease'[w].status = "dead" /\ lease'[w].job = NoJob
        <3>1. \A w \in Workers : lease[w] \in Leases
            BY DEF Inv, TypeOK
        <3> QED
            BY <3>1 DEF ClaimOrphanedJobs, Bury
    <2>3. \A j \in Jobs :
              job'[j] = "pending" =>
                  job[j] = "pending" \/ (j \in Orphaned /\ job[j] = "running")
        BY DEF Inv, TypeOK, ClaimOrphanedJobs
    <2>4. ASSUME NEW w \in Workers, w \notin found, NEW j \in Orphaned, j # NoJob
          PROVE  lease[w].job # j /\ (Active(w) => cur[w] # j)
        <3>1. CASE j = saw
            BY <2>4, <3>1 DEF Inv, Seen, ClaimOrphanedJobs
        <3>2. CASE j # saw
            <4>1. PICK v \in found : j = lease[v].job
                BY <3>2 DEF Orphaned
            <4>2. v \in Workers /\ v # w
                BY <2>4, <4>1 DEF Inv, TypeOK
            <4> QED
                BY <2>4, <4>1, <4>2 DEF Inv, Named, OneHolder
        <3> QED
            BY <3>1, <3>2
    <2>5. cur' = cur
        BY DEF ClaimOrphanedJobs
    <2>6. \A w \in Workers : Active(w)' => Active(w) /\ w \notin found
        BY <2>1, <2>2 DEF Active
    <2>7. \A w \in Workers : lease[w].job \in Jobs \union {NoJob} /\ cur[w] \in Jobs \union {NoJob}
        BY DEF Inv, TypeOK
    <2>8. \A w \in Workers : lease'[w].job # NoJob =>
              /\ w \notin found /\ lease'[w] = lease[w]
              /\ job'[lease[w].job] # "pending"
        BY <2>1, <2>2, <2>3, <2>4, <2>7 DEF Inv, Named
    <2>9. \A w \in Workers :
              Active(w)' /\ cur[w] # NoJob => job'[cur[w]] # "pending"
        BY <2>3, <2>4, <2>6, <2>7 DEF Inv, Named
    <2> QED
        BY <2>1, <2>2, <2>5, <2>6, <2>8, <2>9 DEF Inv, Named, Active
<1>4. Seen'
    BY DEF Inv, TypeOK, Calls, Named, Seen, OneHolder, Active, Up, ClaimOrphanedJobs, Goto, Bury, ClaimEnds, Orphaned
<1>5. OneHolder'
    <2>1. \A w \in Workers : lease'[w] = lease[w] \/ lease'[w].job = NoJob
        <3>1. \A w \in Workers : lease[w] \in Leases
            BY DEF Inv, TypeOK
        <3> QED
            BY <3>1 DEF ClaimOrphanedJobs, Bury
    <2> QED
        BY <2>1 DEF Inv, OneHolder
<1>6. Ran' /\ DoneWasRun'
    BY DEF Inv, TypeOK, Calls, Ran, DoneWasRun, ClaimOrphanedJobs, Goto, Bury, ClaimEnds, Orphaned
<1> QED
    BY <1>1, <1>2, <1>3, <1>4, <1>5, <1>6 DEF Inv

-----------------------------------------------------------------------------
LEMMA InitInv == Init => Inv
<1> SUFFICES ASSUME Init PROVE Inv
    OBVIOUS
<1>1. TypeOK
    <2>1. lease \in [Workers -> Leases]
        BY DEF Init
    <2>2. attempt \in [Jobs -> [Numbers -> {"none", "running", "completed", "failed"}]]
        BY DEF Init
    <2>3. tool \in [Jobs -> [Numbers -> {"none", "pending", "success", "error"}]]
        BY DEF Init
    <2>4. num \in [Workers -> 0 .. MaxAttempts] /\ effects \in [Jobs -> Nat]
        BY DEF Init
    <2>5. crashes \in 0 .. MaxCrashes /\ stalls \in 0 .. MaxStalls
        BY DEF Init
    <2> QED
        BY <2>1, <2>2, <2>3, <2>4, <2>5 DEF Init, TypeOK
<1>2. Calls /\ Named /\ Seen
    BY DEF Init, Calls, Named, Seen, Active
<1>3. OneHolder /\ Ran /\ DoneWasRun
    BY DEF Init, OneHolder, Ran, DoneWasRun
<1> QED
    BY <1>1, <1>2, <1>3 DEF Inv

LEMMA NextKeepsInv ==
    ASSUME Inv, [Next]_vars PROVE Inv'
<1>1. CASE \E w \in Workers :
              \/ AcquireLease(w) \/ ReleaseLease(w)
              \/ Heartbeat(w) \/ HeartbeatLate(w) \/ Crash(w)
              \/ \E j \in Jobs : Take(w, j)
    BY <1>1, AcquireLeaseKeepsInv, ReleaseLeaseKeepsInv, HeartbeatKeepsInv,
       HeartbeatLateKeepsInv, CrashKeepsInv, TakeKeepsInv
<1>2. CASE \E w \in Workers : Work(w)
    BY <1>2, GetLatestAttemptKeepsInv, StartAttemptKeepsInv,
       LogInvocationKeepsInv, RunToolKeepsInv, UpdateInvocationKeepsInv,
       FailAttemptKeepsInv, CompleteAttemptKeepsInv, IsCancellingKeepsInv,
       CompleteCancellationKeepsInv DEF Work
<1>3. CASE \E j \in Jobs : RequestCancellation(j)
    BY <1>3, RequestCancellationKeepsInv
<1>4. CASE Supervise
    BY <1>4, FindDeadWorkersKeepsInv, ClaimReadKeepsInv,
       ClaimOrphanedJobsKeepsInv DEF Supervise
<1>5. CASE UNCHANGED vars
    BY <1>5 DEF vars, Inv, TypeOK, Calls, Named, Seen, OneHolder, Ran,
       DoneWasRun, Active
<1> QED
    BY <1>1, <1>2, <1>3, <1>4, <1>5 DEF Next

LEMMA SpecInv == Spec => []Inv
<1>1. Inv /\ [Next]_vars => Inv'
    BY NextKeepsInv
<1> QED
    BY InitInv, <1>1, PTL DEF Spec

(* Every variable keeps its type.                                          *)
THEOREM ExecutionTyped == Spec => []TypeOK
<1>1. Inv => TypeOK
    BY DEF Inv
<1> QED
    BY <1>1, SpecInv, PTL

(* However many workers stall, crash, come back or go on although they     *)
(* were declared dead, no job is named by two leases.                      *)
THEOREM OneHolderAlways == Spec => []OneHolder
<1>1. Inv => OneHolder
    BY DEF Inv
<1> QED
    BY <1>1, SpecInv, PTL

(* A completed job was worked on, whatever broke off in between.           *)
THEOREM DoneWasRunAlways == Spec => []DoneWasRun
<1>1. Inv => DoneWasRun
    BY DEF Inv
<1> QED
    BY <1>1, SpecInv, PTL

-----------------------------------------------------------------------------
(* Only Take and the reclaim open a job, and neither opens one that is     *)
(* being cancelled or over.                                                *)
LEMMA NextReopensNothing ==
    ASSUME Inv, [Next]_vars, NEW j \in Jobs,
           job[j] \in {"cancelling"} \union Closed
    PROVE  job'[j] \notin {"pending", "running"}
<1>1. CASE job' = job
    BY <1>1
<1>2. CASE ClaimOrphanedJobs
    BY <1>2 DEF ClaimOrphanedJobs, Inv, TypeOK
<1>3. CASE \E w \in Workers, k \in Jobs : Take(w, k)
    BY <1>3 DEF Take, Inv, TypeOK
<1>4. CASE \E w \in Workers : CompleteAttempt(w) \/ CompleteCancellation(w)
    BY <1>4 DEF CompleteAttempt, CompleteCancellation, Inv, TypeOK
<1>5. CASE \E k \in Jobs : RequestCancellation(k)
    BY <1>5 DEF RequestCancellation, Inv, TypeOK
<1> QED
    BY <1>1, <1>2, <1>3, <1>4, <1>5 DEF Next, vars, Work, Supervise,
       AcquireLease, ReleaseLease, Heartbeat, HeartbeatLate, Crash,
       GetLatestAttempt, StartAttempt, LogInvocation, RunTool,
       UpdateInvocation, FailAttempt, IsCancelling, FindDeadWorkers, ClaimRead

(* A cancellation, once asked for, is never undone, and what is over stays *)
(* over.                                                                   *)
THEOREM CancellationSticks == Spec => NotReopened
<1>1. Inv /\ [Next]_vars =>
        [\A j \in Jobs :
           job[j] \in {"cancelling"} \union Closed =>
               job'[j] \notin {"pending", "running"}]_vars
    BY NextReopensNothing
<1> QED
    BY <1>1, SpecInv, PTL DEF Spec, NotReopened
-----------------------------------------------------------------------------
(* What pays for a run of the tool of a job.  Whoever holds the job before  *)
(* its tool has run will run it once, and so will whoever takes it when it  *)
(* is pending; a worker that may yet be declared dead, or is about to be,   *)
(* may make it pending once more.  Each crash and each stall brings one     *)
(* such worker, and declaring it dead uses it up.                           *)

Hands(j) == {w \in Workers : cur[w] = j /\ at[w] \in {"taken", "number", "lookup", "tool"}}
Doubted  == {w \in Workers : w \in found \/ (Active(w) /\ (lease[w].late \/ ~Up(w)))}
Open(j)  == IF job[j] = "pending" THEN 1 ELSE 0

Paid(j) ==
    /\ IsFiniteSet(Hands(j)) /\ IsFiniteSet(Doubted)
    /\ effects[j] + Open(j) + Cardinality(Hands(j)) + Cardinality(Doubted)
          <= 1 + crashes + stalls

(* A set that has at most one element more or at least one fewer.           *)
LEMMA OneMore ==
    ASSUME NEW A, NEW B, NEW x, IsFiniteSet(A), B \subseteq A \union {x}
    PROVE  IsFiniteSet(B) /\ Cardinality(B) \in Nat /\ Cardinality(A) \in Nat
           /\ Cardinality(B) <= Cardinality(A) + 1
<1>1. IsFiniteSet(A \union {x}) /\ Cardinality(A \union {x}) \in {Cardinality(A), Cardinality(A) + 1}
    BY FS_AddElement
<1>2. IsFiniteSet(B) /\ Cardinality(B) <= Cardinality(A \union {x})
    BY <1>1, FS_Subset
<1> QED BY <1>1, <1>2, FS_CardinalityType

LEMMA OneFewer ==
    ASSUME NEW A, NEW B, NEW x \in A, IsFiniteSet(A), B \subseteq A \ {x}
    PROVE  IsFiniteSet(B) /\ Cardinality(B) \in Nat /\ Cardinality(A) \in Nat
           /\ Cardinality(B) <= Cardinality(A) - 1
<1>1. IsFiniteSet(A \ {x}) /\ Cardinality(A \ {x}) = Cardinality(A) - 1
    BY FS_RemoveElement
<1>2. IsFiniteSet(B) /\ Cardinality(B) <= Cardinality(A \ {x})
    BY <1>1, FS_Subset
<1> QED BY <1>1, <1>2, FS_CardinalityType

LEMMA NoMore ==
    ASSUME NEW A, NEW B, IsFiniteSet(A), B \subseteq A
    PROVE  IsFiniteSet(B) /\ Cardinality(B) \in Nat /\ Cardinality(A) \in Nat
           /\ Cardinality(B) <= Cardinality(A)
BY FS_Subset, FS_CardinalityType

(* What the sum is made of.                                                 *)
LEMMA PaidTypes ==
    ASSUME Inv, NEW j \in Jobs, Paid(j)
    PROVE  /\ effects[j] \in Nat /\ Open(j) \in 0 .. 1 /\ crashes \in Nat /\ stalls \in Nat
           /\ Cardinality(Hands(j)) \in Nat /\ Cardinality(Doubted) \in Nat
BY FS_CardinalityType DEF Inv, TypeOK, Open, Paid

(* A step that brings nobody new into either set costs nothing.             *)
LEMMA FreeStep ==
    ASSUME Inv, NEW j \in Jobs, Paid(j),
           Hands(j)' \subseteq Hands(j), Doubted' \subseteq Doubted,
           job'[j] = "pending" => job[j] = "pending",
           UNCHANGED <<effects, crashes, stalls>>
    PROVE  Paid(j)'
<1>1. IsFiniteSet(Hands(j)') /\ Cardinality(Hands(j)') \in Nat
      /\ Cardinality(Hands(j)') <= Cardinality(Hands(j))
    BY NoMore DEF Paid
<1>2. IsFiniteSet(Doubted') /\ Cardinality(Doubted') \in Nat
      /\ Cardinality(Doubted') <= Cardinality(Doubted)
    BY NoMore DEF Paid
<1>3. Open(j)' \in 0 .. 1 /\ Open(j)' <= Open(j)
    BY DEF Open
<1>4. effects'[j] + Open(j)' + Cardinality(Hands(j)') + Cardinality(Doubted')
          <= 1 + crashes' + stalls'
    BY <1>1, <1>2, <1>3, PaidTypes DEF Paid
<1> QED BY <1>1, <1>2, <1>4 DEF Paid

(* The steps on the leases.                                                 *)
LEMMA LeaseStepsPaid ==
    ASSUME Inv, NEW j \in Jobs, Paid(j), NEW w \in Workers,
           AcquireLease(w) \/ ReleaseLease(w) \/ Heartbeat(w)
    PROVE  Paid(j)'
<1>1. UNCHANGED <<job, effects, crashes, stalls, found>>
    BY DEF AcquireLease, ReleaseLease, Heartbeat
<1>2. Hands(j)' \subseteq Hands(j)
    BY DEF Hands, AcquireLease, ReleaseLease, Heartbeat, Goto, Up, Inv, TypeOK
<1>3. \A x \in Workers : x # w => lease'[x] = lease[x] /\ (Up(x)' <=> Up(x))
    BY DEF AcquireLease, ReleaseLease, Heartbeat, Goto, Up, Inv, TypeOK
<1>4. ~(Active(w)' /\ (lease'[w].late \/ ~Up(w)'))
    BY DEF AcquireLease, ReleaseLease, Heartbeat, Goto, Up, Active, Inv, TypeOK
<1>5. Doubted' \subseteq Doubted
    BY <1>1, <1>3, <1>4 DEF Doubted, Active
<1> QED BY <1>1, <1>2, <1>5, FreeStep

(* A stall or a crash brings one more worker that may be declared dead.     *)
LEMMA CostlyStepsPaid ==
    ASSUME Inv, NEW j \in Jobs, Paid(j), NEW w \in Workers, HeartbeatLate(w) \/ Crash(w)
    PROVE  Paid(j)'
<1>1. UNCHANGED <<job, effects, found>>
    BY DEF HeartbeatLate, Crash
<1>2. Hands(j)' \subseteq Hands(j)
    BY DEF Hands, HeartbeatLate, Crash, Goto, Leave, Up, Inv, TypeOK
<1>3. \A x \in Workers : x # w => lease'[x] = lease[x] /\ (Up(x)' <=> Up(x))
    BY DEF HeartbeatLate, Crash, Goto, Leave, Up, Inv, TypeOK
<1>4. CASE HeartbeatLate(w) /\ ~Up(w)
    <2>1. w \in Doubted
        BY <1>4 DEF HeartbeatLate, Doubted
    <2>2. Doubted' \subseteq Doubted
        BY <1>1, <1>3, <2>1 DEF Doubted, Active
    <2> QED BY <1>1, <1>2, <1>4, <2>2, FreeStep DEF HeartbeatLate
<1>5. CASE (HeartbeatLate(w) /\ Up(w)) \/ Crash(w)
    <2>1. Doubted' \subseteq Doubted \union {w}
        BY <1>1, <1>3 DEF Doubted, Active
    <2>2. IsFiniteSet(Doubted') /\ Cardinality(Doubted') \in Nat
          /\ Cardinality(Doubted') <= Cardinality(Doubted) + 1
        BY <2>1, OneMore DEF Paid
    <2>3. IsFiniteSet(Hands(j)') /\ Cardinality(Hands(j)') \in Nat
          /\ Cardinality(Hands(j)') <= Cardinality(Hands(j))
        BY <1>2, NoMore DEF Paid
    <2>4. crashes' + stalls' = crashes + stalls + 1
        BY <1>5, PaidTypes DEF HeartbeatLate, Crash
    <2>5. crashes' \in Nat /\ stalls' \in Nat
        BY <1>5, PaidTypes DEF HeartbeatLate, Crash
    <2>6. Open(j)' = Open(j)
        BY <1>1 DEF Open
    <2>7. effects'[j] + Open(j)' + Cardinality(Hands(j)') + Cardinality(Doubted')
              <= 1 + crashes' + stalls'
        BY <1>1, <2>2, <2>3, <2>4, <2>5, <2>6, PaidTypes DEF Paid
    <2> QED BY <2>2, <2>3, <2>7 DEF Paid
<1> QED BY <1>4, <1>5

(* Whoever takes the job holds it instead of it being pending.              *)
LEMMA TakePaid ==
    ASSUME Inv, NEW j \in Jobs, Paid(j), NEW w \in Workers, NEW k \in Jobs, Take(w, k)
    PROVE  Paid(j)'
<1>1. UNCHANGED <<lease, effects, found, crashes, stalls>>
    BY DEF Take
<1>2. Doubted' \subseteq Doubted
    BY <1>1 DEF Take, Goto, Doubted, Up, Active, Inv, TypeOK
<1>3. CASE k # j
    <2>1. Hands(j)' \subseteq Hands(j)
        BY <1>3 DEF Hands, Take, Goto, Inv, TypeOK
    <2>2. job'[j] = job[j]
        BY <1>3 DEF Take, Inv, TypeOK
    <2> QED BY <1>1, <1>2, <2>1, <2>2, FreeStep
<1>4. CASE k = j
    <2>1. Hands(j)' \subseteq Hands(j) \union {w}
        BY DEF Hands, Take, Goto, Inv, TypeOK
    <2>2. IsFiniteSet(Hands(j)') /\ Cardinality(Hands(j)') \in Nat
          /\ Cardinality(Hands(j)') <= Cardinality(Hands(j)) + 1
        BY <2>1, OneMore DEF Paid
    <2>3. IsFiniteSet(Doubted') /\ Cardinality(Doubted') \in Nat
          /\ Cardinality(Doubted') <= Cardinality(Doubted)
        BY <1>2, NoMore DEF Paid
    <2>4. Open(j) = 1 /\ Open(j)' = 0
        BY <1>4 DEF Open, Take, Inv, TypeOK
    <2>5. effects'[j] + Open(j)' + Cardinality(Hands(j)') + Cardinality(Doubted')
              <= 1 + crashes' + stalls'
        BY <1>1, <2>2, <2>3, <2>4, PaidTypes DEF Paid
    <2> QED BY <2>2, <2>3, <2>5 DEF Paid
<1> QED BY <1>3, <1>4

(* Whoever runs the tool no longer holds the job before its tool has run.   *)
LEMMA RunToolPaid ==
    ASSUME Inv, NEW j \in Jobs, Paid(j), NEW w \in Workers, RunTool(w)
    PROVE  Paid(j)'
<1>1. UNCHANGED <<job, lease, found, crashes, stalls>>
    BY DEF RunTool
<1>2. Doubted' \subseteq Doubted
    BY <1>1 DEF RunTool, Goto, Doubted, Up, Active, Inv, TypeOK
<1>3. CASE cur[w] # j
    <2>1. Hands(j)' \subseteq Hands(j)
        BY DEF Hands, RunTool, Goto, Inv, TypeOK
    <2>2. effects'[j] = effects[j]
        BY <1>3 DEF RunTool, Inv, TypeOK
    <2>3. IsFiniteSet(Hands(j)') /\ Cardinality(Hands(j)') \in Nat
          /\ Cardinality(Hands(j)') <= Cardinality(Hands(j))
        BY <2>1, NoMore DEF Paid
    <2>4. IsFiniteSet(Doubted') /\ Cardinality(Doubted') \in Nat
          /\ Cardinality(Doubted') <= Cardinality(Doubted)
        BY <1>2, NoMore DEF Paid
    <2>5. Open(j)' = Open(j)
        BY <1>1 DEF Open
    <2>6. effects'[j] + Open(j)' + Cardinality(Hands(j)') + Cardinality(Doubted')
              <= 1 + crashes' + stalls'
        BY <1>1, <2>2, <2>3, <2>4, <2>5, PaidTypes DEF Paid
    <2> QED BY <2>3, <2>4, <2>6 DEF Paid
<1>4. CASE cur[w] = j
    <2>1. w \in Hands(j) /\ Hands(j)' \subseteq Hands(j) \ {w}
        BY <1>4 DEF Hands, RunTool, Goto, Inv, TypeOK
    <2>2. effects'[j] = effects[j] + 1
        BY <1>4 DEF RunTool, Inv, TypeOK
    <2>3. IsFiniteSet(Hands(j)') /\ Cardinality(Hands(j)') \in Nat
          /\ Cardinality(Hands(j)') <= Cardinality(Hands(j)) - 1
        BY <2>1, OneFewer DEF Paid
    <2>4. IsFiniteSet(Doubted') /\ Cardinality(Doubted') \in Nat
          /\ Cardinality(Doubted') <= Cardinality(Doubted)
        BY <1>2, NoMore DEF Paid
    <2>5. Open(j)' = Open(j)
        BY <1>1 DEF Open
    <2>6. effects'[j] + Open(j)' + Cardinality(Hands(j)') + Cardinality(Doubted')
              <= 1 + crashes' + stalls'
        BY <1>1, <2>2, <2>3, <2>4, <2>5, PaidTypes DEF Paid
    <2> QED BY <2>3, <2>4, <2>6 DEF Paid
<1> QED BY <1>3, <1>4

(* The other steps of a worker move it along or make it drop its job.       *)
LEMMA WorkPaid ==
    ASSUME Inv, NEW j \in Jobs, Paid(j), NEW w \in Workers, Work(w)
    PROVE  Paid(j)'
<1>1. CASE RunTool(w)
    BY <1>1, RunToolPaid
<1>2. CASE ~RunTool(w)
    <2>1. UNCHANGED <<lease, effects, found, crashes, stalls>>
        BY <1>2 DEF Work, GetLatestAttempt, StartAttempt, LogInvocation, UpdateInvocation,
           FailAttempt, CompleteAttempt, IsCancelling, CompleteCancellation
    <2>2. job'[j] = "pending" => job[j] = "pending"
        BY <1>2 DEF Work, GetLatestAttempt, StartAttempt, LogInvocation, UpdateInvocation,
           FailAttempt, CompleteAttempt, IsCancelling, CompleteCancellation, Inv, TypeOK
    <2>3. /\ Up(w) /\ Up(w)'
          /\ at[w] \in {"taken", "number", "lookup", "tool"}
                \/ at'[w] \notin {"taken", "number", "lookup", "tool"}
          /\ cur'[w] \in {cur[w], NoJob}
          /\ \A x \in Workers : x # w => at'[x] = at[x] /\ cur'[x] = cur[x]
        BY <1>2 DEF Work, GetLatestAttempt, StartAttempt, LogInvocation, UpdateInvocation,
           FailAttempt, CompleteAttempt, IsCancelling, CompleteCancellation, Goto, Leave, Up,
           Inv, TypeOK
    <2>4. Hands(j)' \subseteq Hands(j)
        BY <2>3 DEF Hands
    <2>5. Doubted' \subseteq Doubted
        BY <2>1, <2>3 DEF Doubted, Up, Active
    <2> QED BY <2>1, <2>2, <2>4, <2>5, FreeStep
<1> QED BY <1>1, <1>2

(* Declaring workers dead uses up at least one of them, and makes the job   *)
(* pending at most once.                                                    *)
LEMMA SupervisePaid ==
    ASSUME Inv, NEW j \in Jobs, Paid(j), Supervise
    PROVE  Paid(j)'
<1>1. UNCHANGED <<at, cur, effects, crashes, stalls>>
    BY DEF Supervise, FindDeadWorkers, ClaimRead, ClaimOrphanedJobs
<1>2. Hands(j)' \subseteq Hands(j)
    BY <1>1 DEF Hands
<1>3. CASE FindDeadWorkers
    <2>1. Doubted' \subseteq Doubted
        BY <1>3 DEF FindDeadWorkers, Doubted, Up, Active
    <2> QED BY <1>1, <1>2, <1>3, <2>1, FreeStep DEF FindDeadWorkers
<1>4. CASE \E w \in Workers : ClaimRead(w)
    <2>1. Doubted' \subseteq Doubted
        BY <1>4 DEF ClaimRead, Doubted, Up, Active
    <2> QED BY <1>1, <1>2, <1>4, <2>1, FreeStep DEF ClaimRead
<1>5. CASE ClaimOrphanedJobs
    <2>1. first \in found /\ found \subseteq Workers
        BY <1>5 DEF Inv, TypeOK, Seen, ClaimOrphanedJobs
    <2>2. \A w \in Workers : IF w \in found THEN lease'[w].status = "dead" ELSE lease'[w] = lease[w]
        <3>1. \A w \in Workers : lease[w] \in Leases
            BY DEF Inv, TypeOK
        <3> QED BY <1>5, <3>1 DEF ClaimOrphanedJobs, Bury
    <2>3. first \in Doubted /\ Doubted' \subseteq Doubted \ {first}
        BY <1>5, <1>1, <2>1, <2>2 DEF Doubted, ClaimOrphanedJobs, ClaimEnds, Up, Active
    <2>4. IsFiniteSet(Doubted') /\ Cardinality(Doubted') \in Nat
          /\ Cardinality(Doubted') <= Cardinality(Doubted) - 1
        BY <2>3, OneFewer DEF Paid
    <2>5. IsFiniteSet(Hands(j)') /\ Cardinality(Hands(j)') \in Nat
          /\ Cardinality(Hands(j)') <= Cardinality(Hands(j))
        BY <1>2, NoMore DEF Paid
    <2>6. Open(j)' \in 0 .. 1
        BY DEF Open
    <2>7. effects'[j] + Open(j)' + Cardinality(Hands(j)') + Cardinality(Doubted')
              <= 1 + crashes' + stalls'
        BY <1>1, <2>4, <2>5, <2>6, PaidTypes DEF Paid
    <2> QED BY <2>4, <2>5, <2>7 DEF Paid
<1> QED BY <1>3, <1>4, <1>5 DEF Supervise

LEMMA NextPaid ==
    ASSUME Inv, NEW j \in Jobs, Paid(j), [Next]_vars
    PROVE  Paid(j)'
<1>1. CASE \E k \in Jobs : RequestCancellation(k)
    <2>1. UNCHANGED <<lease, at, cur, found, effects, crashes, stalls>>
        BY <1>1 DEF RequestCancellation
    <2>2. Hands(j)' \subseteq Hands(j) /\ Doubted' \subseteq Doubted
        BY <2>1 DEF Hands, Doubted, Up, Active
    <2>3. job'[j] = "pending" => job[j] = "pending"
        BY <1>1 DEF RequestCancellation, Inv, TypeOK
    <2> QED BY <2>1, <2>2, <2>3, FreeStep
<1>2. CASE UNCHANGED vars
    <2>1. Hands(j)' \subseteq Hands(j) /\ Doubted' \subseteq Doubted
        BY <1>2 DEF vars, Hands, Doubted, Up, Active
    <2> QED BY <1>2, <2>1, FreeStep DEF vars
<1> QED
    BY <1>1, <1>2, LeaseStepsPaid, CostlyStepsPaid, TakePaid, WorkPaid, SupervisePaid DEF Next

(* A tool runs more than once for its key only at the price of a crash or   *)
(* of a late heartbeat each time, for any number of workers and jobs and in *)
(* any order of stalls, crashes, restarts, reclaims and retries.            *)
THEOREM RerunsArePaid == Spec => []RerunsPaid
<1> DEFINE AllPaid == \A j \in Jobs : Paid(j)
<1>1. Init => Inv /\ AllPaid
    <2> SUFFICES ASSUME Init, NEW j \in Jobs PROVE Paid(j)
        BY InitInv
    <2>1. Hands(j) = {} /\ Doubted = {}
        BY DEF Init, Hands, Doubted, Active
    <2> QED BY <2>1, FS_EmptySet DEF Init, Paid, Open
<1>2. (Inv /\ AllPaid) /\ [Next]_vars => (Inv /\ AllPaid)'
    BY NextKeepsInv, NextPaid
<1>3. Inv /\ AllPaid => RerunsPaid
    <2> SUFFICES ASSUME Inv, NEW j \in Jobs, Paid(j)
                 PROVE  effects[j] <= 1 + crashes + stalls
        BY DEF RerunsPaid
    <2> QED BY PaidTypes DEF Paid
<1> HIDE DEF AllPaid
<1> QED BY <1>1, <1>2, <1>3, PTL DEF Spec
=============================================================================
