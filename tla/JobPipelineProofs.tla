-------------------------- MODULE JobPipelineProofs --------------------------
(***************************************************************************)
(* Proofs about JobPipeline for every number of jobs, every set of plans   *)
(* and every value of the bounds.                                          *)
(***************************************************************************)
EXTENDS JobPipeline, SequenceTheorems, TLAPS

(* Mark keeps the number of rows and everything but the status.            *)
LEMMA MarkProperties ==
    ASSUME NEW rows \in Seq(Rows), NEW I, NEW s \in RowStatuses
    PROVE  /\ Mark(rows, I, s) \in Seq(Rows)
           /\ Len(Mark(rows, I, s)) = Len(rows)
           /\ DOMAIN Mark(rows, I, s) = DOMAIN rows
           /\ \A i \in DOMAIN rows :
                 /\ Mark(rows, I, s)[i].seq = rows[i].seq
                 /\ Mark(rows, I, s)[i].deps = rows[i].deps
                 /\ Mark(rows, I, s)[i].status = IF i \in I THEN s ELSE rows[i].status
<1> DEFINE new == Mark(rows, I, s)
<1>1. DOMAIN new = 1 .. Len(rows)
  BY DEF Mark
<1>2. ASSUME NEW i \in 1 .. Len(rows)
      PROVE  /\ new[i] \in Rows
             /\ new[i].seq = rows[i].seq
             /\ new[i].deps = rows[i].deps
             /\ new[i].status = IF i \in I THEN s ELSE rows[i].status
  <2>1. rows[i] \in Rows
    OBVIOUS
  <2>2. new[i] = IF i \in I THEN [rows[i] EXCEPT !.status = s] ELSE rows[i]
    BY DEF Mark
  <2> QED
    BY <2>1, <2>2 DEF Rows
<1>3. new \in [1 .. Len(rows) -> Rows]
  <2>1. new = [i \in 1 .. Len(rows) |-> new[i]]
    BY DEF Mark
  <2> QED
    BY <2>1, <1>2
<1>4. new \in Seq(Rows) /\ Len(new) = Len(rows)
  BY <1>1, <1>3
<1> QED
  BY <1>1, <1>2, <1>4

(* Insert appends pending rows and leaves the rows before them alone.      *)
LEMMA InsertProperties ==
    ASSUME NEW rows \in Seq(Rows), NEW plan \in Plans
    PROVE  /\ Insert(rows, plan) \in Seq(Rows)
           /\ DOMAIN rows \subseteq DOMAIN Insert(rows, plan)
           /\ \A i \in DOMAIN rows : Insert(rows, plan)[i] = rows[i]
           /\ \A i \in DOMAIN Insert(rows, plan) \ DOMAIN rows :
                 Insert(rows, plan)[i].status = "pending"
<1> DEFINE fresh == [i \in DOMAIN plan |->
                [seq    |-> i,
                 deps   |-> {IF d \in DOMAIN plan THEN Len(rows) + d ELSE 0 : d \in plan[i]},
                 status |-> "pending"]]
<1>1. plan \in Seq(SUBSET Nat) /\ DOMAIN plan = 1 .. Len(plan) /\ Len(plan) \in Nat
  BY PlansAssumption
<1>2. ASSUME NEW i \in DOMAIN plan
      PROVE  fresh[i] \in Rows /\ fresh[i].status = "pending"
  BY <1>1 DEF Rows, RowStatuses
<1>3. fresh \in [1 .. Len(plan) -> Rows]
  BY <1>1, <1>2
<1>4. fresh \in Seq(Rows) /\ Len(fresh) = Len(plan)
  BY <1>1, <1>3
<1>5. Insert(rows, plan) = rows \o fresh
  BY DEF Insert
<1> HIDE DEF fresh
<1>6. /\ rows \o fresh \in Seq(Rows)
      /\ Len(rows \o fresh) = Len(rows) + Len(fresh)
      /\ \A i \in 1 .. Len(rows) + Len(fresh) :
            (rows \o fresh)[i] = IF i <= Len(rows) THEN rows[i]
                                 ELSE fresh[i - Len(rows)]
  BY <1>4, ConcatProperties
<1>7. ASSUME NEW i \in DOMAIN Insert(rows, plan) \ DOMAIN rows
      PROVE  Insert(rows, plan)[i].status = "pending"
  <2>1. i \in 1 .. Len(rows) + Len(fresh) /\ i > Len(rows)
    BY <1>5, <1>6, <1>4, <1>1
  <2>2. i - Len(rows) \in DOMAIN plan
    BY <2>1, <1>4, <1>1
  <2> QED
    BY <2>1, <2>2, <1>2, <1>5, <1>6
<1>8. DOMAIN rows \subseteq DOMAIN Insert(rows, plan)
  BY <1>1, <1>4, <1>5, <1>6
<1>9. \A i \in DOMAIN rows : Insert(rows, plan)[i] = rows[i]
  BY <1>1, <1>4, <1>5, <1>6
<1> QED
  BY <1>5, <1>6, <1>7, <1>8, <1>9

-----------------------------------------------------------------------------
(* Type correctness.                                                       *)

(* What every end or continuation of a run leaves well-typed.              *)
MoveTyped ==
    /\ status' \in [Jobs -> Statuses]
    /\ stage' \in Stages /\ cur' \in Jobs \union {NoJob} /\ node' \in Nat
    /\ (cur' \in Jobs <=> stage' \in Working)
    /\ failures' \in 0 .. BreakerThreshold /\ breakerOpen' \in BOOLEAN

LEMMA WriteType ==
    ASSUME status \in [Jobs -> Statuses], NEW j \in Jobs, NEW s \in Statuses
    PROVE  Write(j, s) \in [Jobs -> Statuses]
BY DEF Write

LEMMA FailJobTyped ==
    ASSUME TypeOK, stage \in Working, FailJob
    PROVE  MoveTyped
<1>1. cur \in Jobs /\ "failed" \in Statuses
  BY DEF TypeOK, Statuses, Terminal
<1>2. status' \in [Jobs -> Statuses]
  BY <1>1, WriteType DEF TypeOK, FailJob
<1>3. failures' \in 0 .. BreakerThreshold
  BY BoundsAssumption DEF TypeOK, FailJob
<1>4. breakerOpen' \in BOOLEAN
  BY DEF FailJob
<1> QED
  BY <1>2, <1>3, <1>4 DEF MoveTyped, FailJob, Release, Stages, Working, Jobs, NoJob

LEMMA CancelRunTyped ==
    ASSUME TypeOK, stage \in Working, CancelRun
    PROVE  MoveTyped
<1>1. cur \in Jobs /\ "cancelled" \in Statuses
  BY DEF TypeOK, Statuses, Terminal
<1>2. status' \in [Jobs -> Statuses]
  BY <1>1, WriteType DEF TypeOK, CancelRun
<1> QED
  BY <1>2 DEF TypeOK, MoveTyped, CancelRun, health, Release, Stages, Working, Jobs, NoJob

LEMMA RunNextTyped ==
    ASSUME TypeOK, stage \in Working,
           NEW st \in [Jobs -> Statuses], NEW rows \in Seq(Rows), RunNext(st, rows)
    PROVE  MoveTyped /\ nodes' \in [Jobs -> Seq(Rows)] /\ gated' \in SUBSET SlackJobs
<1>1. cur \in Jobs
  BY DEF TypeOK
<1>2. CASE \E i \in Ready(rows) :
              /\ nodes' = [nodes EXCEPT ![cur] = Mark(rows, {i}, "running")]
              /\ status' = st
              /\ stage' = "node" /\ cur' = cur /\ node' = i
              /\ UNCHANGED <<gated, health>>
  <2>1. PICK i \in Ready(rows) :
              /\ nodes' = [nodes EXCEPT ![cur] = Mark(rows, {i}, "running")]
              /\ status' = st
              /\ stage' = "node" /\ cur' = cur /\ node' = i
              /\ UNCHANGED <<gated, health>>
    BY <1>2
  <2>2. Mark(rows, {i}, "running") \in Seq(Rows)
    BY MarkProperties DEF RowStatuses
  <2>3. i \in Nat
    BY DEF Ready, WithStatus
  <2> QED
    BY <1>1, <2>1, <2>2, <2>3 DEF TypeOK, MoveTyped, health, Stages, Working
<1>3. CASE /\ nodes' = [nodes EXCEPT ![cur] = rows]
           /\ FailJob /\ UNCHANGED gated
  BY <1>1, <1>3, FailJobTyped DEF TypeOK
<1>4. CASE /\ nodes' = [nodes EXCEPT ![cur] = rows]
           /\ EnterReview(rows)
  <2>1. status' \in [Jobs -> Statuses]
    BY <1>1, <1>4, WriteType DEF EnterReview, Statuses, TypeOK
  <2> QED
    BY <1>1, <1>4, <2>1
    DEF EnterReview, TypeOK, MoveTyped, health, Stages, Working
<1> QED
  BY <1>2, <1>3, <1>4 DEF RunNext

LEMMA BeginAttemptTyped ==
    ASSUME TypeOK, stage \in Working, NEW rows \in Seq(Rows), BeginAttempt(rows)
    PROVE  MoveTyped /\ nodes' \in [Jobs -> Seq(Rows)] /\ gated' \in SUBSET SlackJobs
<1>1. cur \in Jobs /\ Write(cur, "executing") \in [Jobs -> Statuses]
  BY WriteType DEF TypeOK, Statuses
<1>2. CASE nodes' = [nodes EXCEPT ![cur] = rows] /\ FailJob /\ UNCHANGED gated
  BY <1>1, <1>2, FailJobTyped DEF TypeOK
<1>3. CASE nodes' = [nodes EXCEPT ![cur] = rows] /\ CancelRun /\ UNCHANGED gated
  BY <1>1, <1>3, CancelRunTyped DEF TypeOK
<1>4. CASE RunNext(Write(cur, "executing"), rows)
  BY <1>1, <1>4, RunNextTyped
<1> QED
  BY <1>2, <1>3, <1>4 DEF BeginAttempt

LEMMA ContinueTyped ==
    ASSUME TypeOK, stage \in Working, NEW rows \in Seq(Rows), Continue(rows)
    PROVE  MoveTyped /\ nodes' \in [Jobs -> Seq(Rows)] /\ gated' \in SUBSET SlackJobs
<1>1. cur \in Jobs /\ status \in [Jobs -> Statuses]
  BY DEF TypeOK
<1>2. CASE nodes' = [nodes EXCEPT ![cur] = rows] /\ FailJob /\ UNCHANGED gated
  BY <1>1, <1>2, FailJobTyped DEF TypeOK
<1>3. CASE RunNext(status, rows)
  BY <1>1, <1>3, RunNextTyped
<1> QED
  BY <1>2, <1>3 DEF Continue

(* The rest of the state when a step of a run is typed.                    *)
LEMMA MoveKeepsTypeOK ==
    ASSUME TypeOK, MoveTyped,
           UNCHANGED <<prio, created, running, toResume, exits>>,
           reviewCount' \in [Jobs -> Nat], nodes' \in [Jobs -> Seq(Rows)],
           gated' \in SUBSET SlackJobs, attempt' \in 0 .. MaxReviews
    PROVE  TypeOK'
BY DEF TypeOK, MoveTyped

LEMMA BeginRunTyped ==
    ASSUME TypeOK, NEW j \in Jobs, BeginRun(j)
    PROVE  /\ status' \in [Jobs -> Statuses]
           /\ stage' = "planning" /\ cur' = j /\ node' = 0 /\ attempt' = 0
BY WriteType DEF TypeOK, BeginRun, Statuses

LEMMA ResumeTyped ==
    ASSUME TypeOK, stage \in {"down", "idle"}, NEW j \in Jobs, Resume(j)
    PROVE  /\ status' \in [Jobs -> Statuses] /\ nodes' \in [Jobs -> Seq(Rows)]
           /\ stage' \in Stages /\ cur' \in Jobs \union {NoJob}
           /\ (cur' \in Jobs <=> stage' \in Working)
           /\ node' \in Nat /\ attempt' \in 0 .. MaxReviews
<1>1. CASE status[j] = "absent"
  BY <1>1 DEF Resume, TypeOK, Stages, Working
<1>2. CASE status[j] # "absent"
  <2>1. BeginRun(j) /\ nodes' = [nodes EXCEPT ![j] =
                Mark(nodes[j], WithStatus(nodes[j], "running"), "pending")]
    BY <1>2 DEF Resume
  <2>2. Mark(nodes[j], WithStatus(nodes[j], "running"), "pending") \in Seq(Rows)
    BY MarkProperties DEF TypeOK, RowStatuses
  <2> QED
    BY <2>1, <2>2, BeginRunTyped, BoundsAssumption DEF TypeOK, Stages, Working
<1> QED
  BY <1>1, <1>2

LEMMA TypeInit == Init => TypeOK
<1> SUFFICES ASSUME Init PROVE TypeOK
  OBVIOUS
<1>1. nodes \in [Jobs -> Seq(Rows)]
  BY EmptySeq DEF Init
<1>2. running \in BOOLEAN /\ breakerOpen \in BOOLEAN
  BY DEF Init
<1>3. /\ status \in [Jobs -> Statuses] /\ prio \in [Jobs -> Priorities]
      /\ reviewCount \in [Jobs -> Nat]
  BY SourcesAssumption DEF Init, Statuses
<1>4. /\ created \in 0 .. MaxJobs /\ gated \in SUBSET SlackJobs
      /\ attempt \in 0 .. MaxReviews /\ failures \in 0 .. BreakerThreshold
      /\ exits \in 0 .. MaxExits /\ toResume \in SUBSET Jobs /\ node \in Nat
  BY BoundsAssumption DEF Init
<1>5. /\ stage \in Stages /\ cur \in Jobs \union {NoJob}
      /\ (cur \in Jobs <=> stage \in Working)
  BY DEF Init, Stages, Working, Jobs, NoJob
<1> QED
  BY <1>1, <1>2, <1>3, <1>4, <1>5 DEF TypeOK

LEMMA TypeStep == TypeOK /\ [Next]_vars => TypeOK'
<1> SUFFICES ASSUME TypeOK, [Next]_vars
             PROVE  TypeOK'
  OBVIOUS
<1> USE DEF At
<1>1. CASE PlanDone
  <2>1. stage \in Working /\ cur \in Jobs
    BY <1>1 DEF PlanDone, Working, TypeOK
  <2>2. PICK plan \in Plans :
          IF status[cur] = "absent" THEN FailJob /\ UNCHANGED <<nodes, gated>>
          ELSE BeginAttempt(Insert(nodes[cur], plan))
    BY <1>1 DEF PlanDone
  <2>3. Insert(nodes[cur], plan) \in Seq(Rows)
    BY <2>1, InsertProperties DEF TypeOK
  <2>4. MoveTyped /\ nodes' \in [Jobs -> Seq(Rows)] /\ gated' \in SUBSET SlackJobs
    <3>1. CASE status[cur] = "absent"
      BY <2>1, <2>2, <3>1, FailJobTyped DEF TypeOK
    <3>2. CASE status[cur] # "absent"
      BY <2>1, <2>2, <2>3, <3>2, BeginAttemptTyped
    <3> QED
      BY <3>1, <3>2
  <2> QED
    BY <1>1, <2>4, MoveKeepsTypeOK, BoundsAssumption DEF PlanDone, TypeOK
<1>2. CASE PlanError
  BY <1>2, FailJobTyped, MoveKeepsTypeOK DEF PlanError, TypeOK, Working
<1>3. CASE NodeOk
  <2> DEFINE rows == Mark(nodes[cur], {node}, "completed")
  <2>1. stage \in Working /\ cur \in Jobs
    BY <1>3 DEF NodeOk, Working, TypeOK
  <2>2. rows \in Seq(Rows)
    BY <2>1, MarkProperties DEF TypeOK, RowStatuses
  <2>3. MoveTyped /\ nodes' \in [Jobs -> Seq(Rows)] /\ gated' \in SUBSET SlackJobs
    <3>1. CASE cur \in SlackJobs
      <4>1. /\ nodes' = [nodes EXCEPT ![cur] = rows]
            /\ stage' = "between" /\ cur' = cur /\ node' = 0
            /\ UNCHANGED <<status, gated, failures, breakerOpen>>
        BY <1>3, <3>1 DEF NodeOk, health
      <4> QED
        BY <2>1, <2>2, <4>1 DEF TypeOK, MoveTyped, Stages, Working
    <3>2. CASE cur \notin SlackJobs
      BY <1>3, <2>1, <2>2, <3>2, ContinueTyped DEF NodeOk
    <3> QED
      BY <3>1, <3>2
  <2> QED
    BY <1>3, <2>3, MoveKeepsTypeOK DEF NodeOk, TypeOK
<1>4. CASE BetweenNodes
  <2>1. stage \in Working /\ cur \in Jobs /\ nodes[cur] \in Seq(Rows)
    BY <1>4 DEF BetweenNodes, Working, TypeOK
  <2> QED
    BY <1>4, <2>1, ContinueTyped, MoveKeepsTypeOK DEF BetweenNodes, TypeOK
<1>5. CASE NodeFailed
  <2>1. stage \in Working /\ cur \in Jobs
    BY <1>5 DEF NodeFailed, Working, TypeOK
  <2>2. Mark(nodes[cur], {node}, "failed") \in Seq(Rows)
    BY <2>1, MarkProperties DEF TypeOK, RowStatuses
  <2> QED
    BY <1>5, <2>1, <2>2, FailJobTyped, MoveKeepsTypeOK DEF NodeFailed, TypeOK
<1>6. CASE ReviewPassed
  <2>1. cur \in Jobs /\ status' \in [Jobs -> Statuses]
    BY <1>6, WriteType DEF ReviewPassed, TypeOK, Statuses, Terminal, Working
  <2>2. MoveTyped
    BY <1>6, <2>1, BoundsAssumption
    DEF ReviewPassed, Release, MoveTyped, TypeOK, Stages, Working, Jobs, NoJob
  <2> QED
    BY <1>6, <2>2, MoveKeepsTypeOK DEF ReviewPassed, TypeOK
<1>7. CASE ReviewRejected
  <2>1. reviewCount' \in [Jobs -> Nat] /\ stage' \in {"rca", "replanning"}
    BY <1>7 DEF ReviewRejected, TypeOK, Working
  <2>2. MoveTyped
    BY <1>7, <2>1 DEF ReviewRejected, MoveTyped, TypeOK, health, Stages, Working
  <2> QED
    BY <1>7, <2>1, <2>2, MoveKeepsTypeOK DEF ReviewRejected, TypeOK
<1>8. CASE ReviewError
  BY <1>8, FailJobTyped, MoveKeepsTypeOK DEF ReviewError, TypeOK, Working
<1>9. CASE RcaDone
  BY <1>9, FailJobTyped, MoveKeepsTypeOK DEF RcaDone, TypeOK, Working
<1>10. CASE ReplanDone
  <2>1. stage \in Working /\ cur \in Jobs
    BY <1>10 DEF ReplanDone, Working, TypeOK
  <2>2. PICK plan \in Plans :
          IF status[cur] = "absent" \/ attempt = MaxReviews
          THEN /\ attempt' = attempt /\ FailJob
               /\ nodes' = IF status[cur] = "absent" THEN nodes
                           ELSE [nodes EXCEPT ![cur] = Replace(nodes[cur], plan)]
               /\ UNCHANGED gated
          ELSE /\ attempt' = attempt + 1
               /\ BeginAttempt(Replace(nodes[cur], plan))
    BY <1>10 DEF ReplanDone
  <2>3. Replace(nodes[cur], plan) \in Seq(Rows)
    BY <2>1, MarkProperties, InsertProperties DEF Replace, TypeOK, RowStatuses
  <2>4. attempt' \in 0 .. MaxReviews
    BY <2>2, BoundsAssumption DEF TypeOK
  <2>5. MoveTyped /\ nodes' \in [Jobs -> Seq(Rows)] /\ gated' \in SUBSET SlackJobs
    <3>1. CASE status[cur] = "absent" \/ attempt = MaxReviews
      BY <2>1, <2>2, <2>3, <3>1, FailJobTyped DEF TypeOK
    <3>2. CASE ~(status[cur] = "absent" \/ attempt = MaxReviews)
      BY <2>1, <2>2, <2>3, <3>2, BeginAttemptTyped
    <3> QED
      BY <3>1, <3>2
  <2> QED
    BY <1>10, <2>4, <2>5, MoveKeepsTypeOK DEF ReplanDone, TypeOK
<1>11. CASE ReplanError
  BY <1>11, FailJobTyped, MoveKeepsTypeOK DEF ReplanError, TypeOK, Working
<1>12. CASE Poll
  BY <1>12, BeginRunTyped, BoundsAssumption
  DEF Poll, CanClaim, TypeOK, health, Stages, Working
<1>13. CASE ResumeNext
  <2>1. PICK j \in toResume : toResume' = toResume \ {j} /\ Resume(j)
    BY <1>13 DEF ResumeNext
  <2> QED
    BY <1>13, <2>1, ResumeTyped DEF ResumeNext, TypeOK, health
<1>14. CASE Start
  <2>1. CASE Interrupted = {}
    BY <1>14, <2>1 DEF Start, TypeOK, health, Stages, Working
  <2>2. CASE Interrupted # {}
    <3>1. PICK j \in Interrupted : toResume' = Interrupted \ {j} /\ Resume(j)
      BY <1>14, <2>2 DEF Start
    <3>2. Interrupted \subseteq Jobs
      BY DEF Interrupted
    <3> QED
      BY <1>14, <3>1, <3>2, ResumeTyped DEF Start, TypeOK, health
  <2> QED
    BY <2>1, <2>2
<1>15. CASE BreakerTimeout
  BY <1>15 DEF BreakerTimeout, TypeOK, table, worker
<1>16. CASE Stop
  <2>1. running' \in BOOLEAN /\ exits' \in 0 .. MaxExits
    <3>1. exits < MaxExits /\ exits' = exits + 1
      BY <1>16 DEF Stop
    <3>2. running' \in BOOLEAN
      BY <1>16 DEF Stop
    <3>3. exits \in 0 .. MaxExits
      BY DEF TypeOK
    <3> QED
      BY <3>1, <3>2, <3>3, BoundsAssumption
  <2>2. UNCHANGED <<status, prio, reviewCount, nodes, created, gated, stage, cur, node,
                    attempt, toResume, failures, breakerOpen>>
    BY <1>16 DEF Stop, table, worker, health
  <2> QED
    BY <2>1, <2>2 DEF TypeOK
<1>17. CASE Down /\ exits' \in 0 .. MaxExits
  <2>1. /\ stage' = "down" /\ cur' = NoJob /\ node' = 0 /\ attempt' = 0
        /\ toResume' = {} /\ failures' = 0
        /\ running' \in BOOLEAN /\ breakerOpen' \in BOOLEAN
        /\ UNCHANGED <<status, prio, reviewCount, nodes, created, gated>>
    BY <1>17 DEF Down, table
  <2> QED
    BY <1>17, <2>1, BoundsAssumption DEF TypeOK, Stages, Working, Jobs, NoJob
<1>18. CASE CreateJob
  <2>1. created + 1 \in Jobs /\ created' \in 0 .. MaxJobs
    BY <1>18, BoundsAssumption DEF CreateJob, TypeOK, Jobs
  <2>2. status' \in [Jobs -> Statuses] /\ prio' \in [Jobs -> Priorities]
    BY <1>18, SourcesAssumption DEF CreateJob, TypeOK, Statuses
  <2> QED
    BY <1>18, <2>1, <2>2 DEF CreateJob, Handler, TypeOK, worker, health
<1>19. ASSUME NEW j \in Jobs, CancelJob(j)
       PROVE  TypeOK'
  <2>1. status' \in [Jobs -> Statuses]
    BY <1>19, WriteType DEF CancelJob, TypeOK, Statuses
  <2> QED
    BY <1>19, <2>1 DEF CancelJob, Handler, TypeOK, worker, health
<1>20. ASSUME NEW j \in Jobs, DeleteJob(j)
       PROVE  TypeOK'
  BY <1>20, SourcesAssumption DEF DeleteJob, Handler, TypeOK, Statuses, worker, health
<1>21. ASSUME NEW j \in Jobs, SlackButton(j)
       PROVE  TypeOK'
  <2>1. status' \in [Jobs -> Statuses]
    BY <1>21, WriteType DEF SlackButton, TypeOK, Statuses, Terminal
  <2> QED
    BY <1>21, <2>1 DEF SlackButton, Handler, TypeOK, worker, health
<1>22. CASE UNCHANGED vars
  BY <1>22 DEF vars, TypeOK, table, worker, health
<1>23. (Crash \/ Exit) => Down /\ exits' \in 0 .. MaxExits
  BY BoundsAssumption DEF Crash, Exit, TypeOK
<1> QED
  BY <1>1, <1>2, <1>3, <1>4, <1>5, <1>6, <1>7, <1>8, <1>9, <1>10, <1>11, <1>12,
     <1>13, <1>14, <1>15, <1>16, <1>17, <1>18, <1>19, <1>20, <1>21, <1>22, <1>23
  DEF Next, WorkerStep, HandlerStep

(* Every variable keeps its type, whatever the planner, the reviewer, the  *)
(* users and crashes do, Slack jobs included.                              *)
THEOREM TypeCorrect == Spec => []TypeOK
BY TypeInit, TypeStep, PTL DEF Spec

-----------------------------------------------------------------------------
(* Dependencies.  DepsOrder says RowsOk of the rows of every job; it is    *)
(* kept because the row the worker finishes is the one it started.         *)

RowsOk(rows) ==
    \A i \in DOMAIN rows :
        rows[i].status \in {"running", "completed", "failed"} => DepsMet(rows, i)

NodeIsRunning ==
    stage = "node" => node \notin DOMAIN nodes[cur] \/ nodes[cur][node].status = "running"

DepsInv == TypeOK /\ DepsOrder /\ NodeIsRunning

LEMMA InsertRowsOk ==
    ASSUME NEW rows \in Seq(Rows), NEW plan \in Plans, RowsOk(rows)
    PROVE  RowsOk(Insert(rows, plan))
<1> DEFINE new == Insert(rows, plan)
<1>1. WithStatus(rows, "completed") \subseteq WithStatus(new, "completed")
  BY InsertProperties DEF WithStatus
<1>2. ASSUME NEW i \in DOMAIN new,
             new[i].status \in {"running", "completed", "failed"}
      PROVE  DepsMet(new, i)
  <2>1. i \in DOMAIN rows /\ new[i] = rows[i]
    BY <1>2, InsertProperties
  <2>2. DepsMet(rows, i)
    BY <1>2, <2>1 DEF RowsOk
  <2> QED
    BY <1>1, <2>1, <2>2 DEF DepsMet
<1> QED
  BY <1>2 DEF RowsOk

(* Marking rows that are not completed keeps what the others rely on.      *)
LEMMA MarkRowsOk ==
    ASSUME NEW rows \in Seq(Rows), NEW I, NEW s \in RowStatuses, RowsOk(rows),
           \A i \in DOMAIN rows : i \in I => rows[i].status # "completed",
           \A i \in DOMAIN rows :
              i \in I /\ s \in {"running", "completed", "failed"} => DepsMet(rows, i)
    PROVE  RowsOk(Mark(rows, I, s))
<1> DEFINE new == Mark(rows, I, s)
<1>1. WithStatus(rows, "completed") \subseteq WithStatus(new, "completed")
  BY MarkProperties DEF WithStatus
<1>2. ASSUME NEW i \in DOMAIN new,
             new[i].status \in {"running", "completed", "failed"}
      PROVE  DepsMet(new, i)
  <2>1. i \in DOMAIN rows /\ new[i].deps = rows[i].deps
    BY MarkProperties
  <2>2. DepsMet(rows, i)
    BY <1>2, <2>1, MarkProperties DEF RowsOk
  <2> QED
    BY <1>1, <2>1, <2>2 DEF DepsMet
<1> QED
  BY <1>2 DEF RowsOk

LEMMA ReplaceRowsOk ==
    ASSUME NEW rows \in Seq(Rows), NEW plan \in Plans
    PROVE  RowsOk(Replace(rows, plan))
<1>1. RowsOk(Mark(rows, DOMAIN rows, "cancelled"))
  BY MarkProperties DEF RowsOk, RowStatuses
<1>2. Mark(rows, DOMAIN rows, "cancelled") \in Seq(Rows)
  BY MarkProperties DEF RowStatuses
<1> QED
  BY <1>1, <1>2, InsertRowsOk DEF Replace

(* What a step of a run leaves behind, given the rows it starts from.      *)
RunStepOk ==
    /\ \A j \in Jobs \ {cur} : nodes'[j] = nodes[j]
    /\ RowsOk(nodes'[cur])
    /\ NodeIsRunning'

LEMMA RunNextRowsOk ==
    ASSUME TypeOK, stage \in Working, NEW st, NEW rows \in Seq(Rows), RowsOk(rows),
           RunNext(st, rows)
    PROVE  RunStepOk
<1>1. cur \in Jobs /\ nodes \in [Jobs -> Seq(Rows)]
  BY DEF TypeOK
<1>2. ASSUME NEW i \in Ready(rows),
             nodes' = [nodes EXCEPT ![cur] = Mark(rows, {i}, "running")],
             stage' = "node" /\ cur' = cur /\ node' = i
      PROVE  RunStepOk
  <2>1. i \in DOMAIN rows /\ rows[i].status = "pending" /\ DepsMet(rows, i)
    BY DEF Ready, WithStatus
  <2>2. RowsOk(Mark(rows, {i}, "running"))
    BY <2>1, MarkRowsOk DEF RowStatuses
  <2>3. Mark(rows, {i}, "running")[i].status = "running"
    BY <2>1, MarkProperties DEF RowStatuses
  <2> QED
    BY <1>1, <1>2, <2>2, <2>3 DEF RunStepOk, NodeIsRunning
<1>3. ASSUME nodes' = [nodes EXCEPT ![cur] = rows], stage' # "node"
      PROVE  RunStepOk
  BY <1>1, <1>3 DEF RunStepOk, NodeIsRunning
<1>4. FailJob => stage' # "node"
  BY DEF FailJob, Release
<1>5. EnterReview(rows) => stage' # "node"
  BY DEF EnterReview
<1> QED
  BY <1>2, <1>3, <1>4, <1>5 DEF RunNext

LEMMA BeginAttemptRowsOk ==
    ASSUME TypeOK, stage \in Working, NEW rows \in Seq(Rows), RowsOk(rows),
           BeginAttempt(rows)
    PROVE  RunStepOk
<1>1. cur \in Jobs /\ nodes \in [Jobs -> Seq(Rows)]
  BY DEF TypeOK
<1>2. CASE nodes' = [nodes EXCEPT ![cur] = rows] /\ stage' = "idle"
  BY <1>1, <1>2 DEF RunStepOk, NodeIsRunning
<1>3. (FailJob \/ CancelRun) => stage' = "idle"
  BY DEF FailJob, CancelRun, Release
<1> QED
  BY <1>2, <1>3, RunNextRowsOk DEF BeginAttempt

LEMMA ContinueRowsOk ==
    ASSUME TypeOK, stage \in Working, NEW rows \in Seq(Rows), RowsOk(rows),
           Continue(rows)
    PROVE  RunStepOk
<1>1. cur \in Jobs /\ nodes \in [Jobs -> Seq(Rows)]
  BY DEF TypeOK
<1>2. CASE nodes' = [nodes EXCEPT ![cur] = rows] /\ stage' = "idle"
  BY <1>1, <1>2 DEF RunStepOk, NodeIsRunning
<1>3. FailJob => stage' = "idle"
  BY DEF FailJob, Release
<1> QED
  BY <1>2, <1>3, RunNextRowsOk DEF Continue

LEMMA RunStepKeepsDeps ==
    ASSUME TypeOK, DepsOrder, cur \in Jobs, RunStepOk
    PROVE  DepsOrder' /\ NodeIsRunning'
BY DEF RunStepOk, DepsOrder, RowsOk

LEMMA ResumeKeepsDeps ==
    ASSUME DepsInv, NEW j \in Jobs, stage \in {"down", "idle"}, Resume(j)
    PROVE  DepsOrder' /\ NodeIsRunning'
<1>1. CASE status[j] = "absent"
  BY <1>1 DEF Resume, DepsInv, DepsOrder, NodeIsRunning
<1>2. CASE status[j] # "absent"
  <2> DEFINE rows == Mark(nodes[j], WithStatus(nodes[j], "running"), "pending")
  <2>1. nodes' = [nodes EXCEPT ![j] = rows] /\ stage' = "planning"
    BY <1>2 DEF Resume, BeginRun
  <2>2. nodes \in [Jobs -> Seq(Rows)] /\ RowsOk(nodes[j])
    BY DEF DepsInv, TypeOK, DepsOrder, RowsOk
  <2>3. RowsOk(rows)
    BY <2>2, MarkRowsOk DEF RowStatuses, WithStatus
  <2> QED
    BY <2>1, <2>2, <2>3 DEF DepsInv, DepsOrder, RowsOk, NodeIsRunning
<1> QED
  BY <1>1, <1>2

LEMMA DepsStep == DepsInv /\ [Next]_vars => DepsInv'
<1> SUFFICES ASSUME DepsInv, [Next]_vars
             PROVE  DepsOrder' /\ NodeIsRunning'
  BY TypeStep DEF DepsInv
<1> USE DEF At
<1>0. /\ TypeOK /\ nodes \in [Jobs -> Seq(Rows)]
      /\ \A j \in Jobs : RowsOk(nodes[j])
  BY DEF DepsInv, TypeOK, DepsOrder, RowsOk
<1>1. CASE PlanDone
  <2>1. stage \in Working /\ cur \in Jobs
    BY <1>1, <1>0 DEF PlanDone, Working, TypeOK
  <2>2. PICK plan \in Plans :
          IF status[cur] = "absent" THEN FailJob /\ UNCHANGED <<nodes, gated>>
          ELSE BeginAttempt(Insert(nodes[cur], plan))
    BY <1>1 DEF PlanDone
  <2>3. CASE status[cur] = "absent"
    BY <1>0, <2>2, <2>3 DEF FailJob, Release, DepsInv, DepsOrder, NodeIsRunning
  <2>4. CASE status[cur] # "absent"
    BY <1>0, <2>1, <2>2, <2>4, InsertProperties, InsertRowsOk, BeginAttemptRowsOk,
       RunStepKeepsDeps DEF DepsInv
  <2> QED
    BY <2>3, <2>4
<1>2. CASE NodeOk
  <2> DEFINE rows == Mark(nodes[cur], {node}, "completed")
  <2>1. stage \in Working /\ cur \in Jobs /\ stage = "node"
    BY <1>2, <1>0 DEF NodeOk, Working, TypeOK
  <2>2. rows \in Seq(Rows)
    BY <1>0, <2>1, MarkProperties DEF RowStatuses
  <2>3. RowsOk(rows)
    <3>1. node \in DOMAIN nodes[cur] =>
             nodes[cur][node].status = "running" /\ DepsMet(nodes[cur], node)
      BY <1>0, <2>1 DEF DepsInv, NodeIsRunning, RowsOk
    <3> QED
      BY <1>0, <2>1, <3>1, MarkRowsOk DEF RowStatuses
  <2>4. CASE cur \in SlackJobs
    BY <1>0, <1>2, <2>1, <2>3, <2>4
    DEF NodeOk, DepsInv, DepsOrder, RowsOk, NodeIsRunning
  <2>5. CASE cur \notin SlackJobs
    <3>1. Continue(rows)
      BY <1>2, <2>5 DEF NodeOk
    <3> QED
      BY <1>0, <2>1, <2>2, <2>3, <3>1, ContinueRowsOk, RunStepKeepsDeps DEF DepsInv
  <2> QED
    BY <2>4, <2>5
<1>3. CASE BetweenNodes
  <2>1. stage \in Working /\ cur \in Jobs
    BY <1>3, <1>0 DEF BetweenNodes, Working, TypeOK
  <2> QED
    BY <1>0, <1>3, <2>1, ContinueRowsOk, RunStepKeepsDeps DEF BetweenNodes, DepsInv
<1>4. CASE NodeFailed
  <2>1. cur \in Jobs /\ stage = "node"
    BY <1>4, <1>0 DEF NodeFailed, Working, TypeOK
  <2>2. node \in DOMAIN nodes[cur] =>
           nodes[cur][node].status = "running" /\ DepsMet(nodes[cur], node)
    BY <1>0, <2>1 DEF DepsInv, NodeIsRunning, RowsOk
  <2>3. RowsOk(Mark(nodes[cur], {node}, "failed"))
    BY <1>0, <2>1, <2>2, MarkRowsOk DEF RowStatuses
  <2> QED
    BY <1>0, <1>4, <2>1, <2>3
    DEF NodeFailed, FailJob, Release, DepsInv, DepsOrder, RowsOk, NodeIsRunning
<1>5. CASE ReplanDone
  <2>1. stage \in Working /\ cur \in Jobs
    BY <1>5, <1>0 DEF ReplanDone, Working, TypeOK
  <2>2. PICK plan \in Plans :
          IF status[cur] = "absent" \/ attempt = MaxReviews
          THEN /\ attempt' = attempt /\ FailJob
               /\ nodes' = IF status[cur] = "absent" THEN nodes
                           ELSE [nodes EXCEPT ![cur] = Replace(nodes[cur], plan)]
               /\ UNCHANGED gated
          ELSE /\ attempt' = attempt + 1
               /\ BeginAttempt(Replace(nodes[cur], plan))
    BY <1>5 DEF ReplanDone
  <2>3. RowsOk(Replace(nodes[cur], plan)) /\ Replace(nodes[cur], plan) \in Seq(Rows)
    BY <1>0, <2>1, ReplaceRowsOk, MarkProperties, InsertProperties
    DEF Replace, RowStatuses
  <2>4. CASE status[cur] = "absent" \/ attempt = MaxReviews
    <3>1. stage' = "idle"
      BY <2>2, <2>4 DEF FailJob, Release
    <3> QED
      BY <1>0, <2>1, <2>2, <2>3, <2>4, <3>1 DEF DepsInv, DepsOrder, RowsOk, NodeIsRunning
  <2>5. CASE ~(status[cur] = "absent" \/ attempt = MaxReviews)
    BY <1>0, <2>1, <2>2, <2>3, <2>5, BeginAttemptRowsOk, RunStepKeepsDeps DEF DepsInv
  <2> QED
    BY <2>4, <2>5
<1>6. CASE PlanError \/ ReviewPassed \/ ReviewRejected \/ ReviewError \/ RcaDone
           \/ ReplanError \/ Poll \/ Crash \/ Exit
  <2>1. nodes' = nodes /\ stage' # "node"
    BY <1>6 DEF PlanError, ReviewPassed, ReviewRejected, ReviewError, RcaDone,
      ReplanError, Poll, Crash, Exit, Down, table, FailJob, Release, BeginRun
  <2> QED
    BY <2>1 DEF DepsInv, DepsOrder, NodeIsRunning
<1>7. CASE ResumeNext
  <2>1. PICK j \in toResume : Resume(j)
    BY <1>7 DEF ResumeNext
  <2> QED
    BY <1>0, <1>7, <2>1, ResumeKeepsDeps DEF ResumeNext, TypeOK
<1>8. CASE Start
  <2>1. CASE Interrupted = {}
    BY <1>8, <2>1 DEF Start, DepsInv, DepsOrder, NodeIsRunning
  <2>2. CASE Interrupted # {}
    <3>1. PICK j \in Interrupted : Resume(j)
      BY <1>8, <2>2 DEF Start
    <3> QED
      BY <1>8, <3>1, ResumeKeepsDeps DEF Start, Interrupted
  <2> QED
    BY <2>1, <2>2
<1>9. ASSUME NEW j \in Jobs, DeleteJob(j)
      PROVE  DepsOrder' /\ NodeIsRunning'
  <2>1. nodes' = [nodes EXCEPT ![j] = << >>] /\ UNCHANGED <<stage, cur, node>>
    BY <1>9 DEF DeleteJob, Handler, worker
  <2>2. RowsOk(<< >>) /\ DOMAIN << >> = {}
    BY DEF RowsOk
  <2> QED
    BY <1>0, <2>1, <2>2 DEF DepsInv, DepsOrder, RowsOk, NodeIsRunning, TypeOK
<1>10. CASE BreakerTimeout \/ Stop \/ CreateJob
            \/ (\E j \in Jobs : CancelJob(j) \/ SlackButton(j)) \/ UNCHANGED vars
  <2>1. UNCHANGED <<nodes, stage, cur, node>>
    BY <1>10 DEF BreakerTimeout, Stop, CreateJob, CancelJob, SlackButton, Handler,
      vars, table, worker
  <2> QED
    BY <2>1 DEF DepsInv, DepsOrder, NodeIsRunning
<1> QED
  BY <1>1, <1>2, <1>3, <1>4, <1>5, <1>6, <1>7, <1>8, <1>9, <1>10
  DEF Next, WorkerStep, HandlerStep

(* Whatever is retried, resumed, cancelled or deleted, and even with the   *)
(* Slack buttons writing statuses under the worker, no node is started     *)
(* before the nodes it depends on have completed.                          *)
THEOREM DependenciesRespected == Spec => []DepsOrder
<1>1. Init => DepsInv
  BY TypeInit DEF Init, DepsInv, DepsOrder, NodeIsRunning
<1>2. DepsInv => DepsOrder
  BY DEF DepsInv
<1> QED
  BY <1>1, <1>2, DepsStep, PTL DEF Spec

-----------------------------------------------------------------------------
(* Cancellation.  Only RunNext starts a node, and the worker reads the     *)
(* status in the same step.                                                *)

RunningRows(j) == WithStatus(nodes[j], "running")

NoNewRunning(j) == RunningRows(j)' \subseteq RunningRows(j)

LEMMA RunningAfterMark ==
    ASSUME NEW rows \in Seq(Rows), NEW I, NEW s \in RowStatuses \ {"running"}
    PROVE  WithStatus(Mark(rows, I, s), "running") \subseteq WithStatus(rows, "running")
BY MarkProperties DEF WithStatus

LEMMA RunningAfterInsert ==
    ASSUME NEW rows \in Seq(Rows), NEW plan \in Plans
    PROVE  WithStatus(Insert(rows, plan), "running") \subseteq WithStatus(rows, "running")
BY InsertProperties DEF WithStatus

LEMMA RunningAfterReplace ==
    ASSUME NEW rows \in Seq(Rows), NEW plan \in Plans
    PROVE  /\ WithStatus(Replace(rows, plan), "running") = {}
           /\ Replace(rows, plan) \in Seq(Rows)
<1> DEFINE old == Mark(rows, DOMAIN rows, "cancelled")
<1>1. old \in Seq(Rows) /\ WithStatus(old, "running") = {}
  BY MarkProperties DEF RowStatuses, WithStatus
<1> QED
  BY <1>1, RunningAfterInsert, InsertProperties DEF Replace

(* The job under the worker: a cancelled one starts nothing, and no other  *)
(* job's rows are touched.                                                 *)
CancelStops(rows) ==
    /\ \A j \in Jobs \ {cur} : nodes'[j] = nodes[j]
    /\ IsCancelled(cur) => nodes'[cur] = rows

LEMMA BeginAttemptCancelStops ==
    ASSUME TypeOK, stage \in Working, NEW rows, BeginAttempt(rows)
    PROVE  CancelStops(rows)
<1>1. cur \in Jobs /\ nodes \in [Jobs -> Seq(Rows)]
  BY DEF TypeOK
<1> QED
  BY <1>1 DEF BeginAttempt, RunNext, CancelStops

LEMMA ContinueCancelStops ==
    ASSUME TypeOK, stage \in Working, NEW rows, Continue(rows)
    PROVE  CancelStops(rows)
<1>1. cur \in Jobs /\ nodes \in [Jobs -> Seq(Rows)]
  BY DEF TypeOK
<1> QED
  BY <1>1 DEF Continue, RunNext, CancelStops

LEMMA CancelStopsSuffices ==
    ASSUME TypeOK, cur \in Jobs, NEW rows, CancelStops(rows),
           WithStatus(rows, "running") \subseteq RunningRows(cur),
           NEW j \in Jobs, status[j] \in {"cancelling", "cancelled"}
    PROVE  NoNewRunning(j)
BY DEF CancelStops, IsCancelled, NoNewRunning, RunningRows

LEMMA ResumeStartsNothing ==
    ASSUME TypeOK, NEW k \in Jobs, Resume(k), NEW j \in Jobs
    PROVE  NoNewRunning(j)
<1>1. CASE status[k] = "absent"
  BY <1>1 DEF Resume, NoNewRunning, RunningRows
<1>2. CASE status[k] # "absent"
  <2>1. nodes' = [nodes EXCEPT ![k] =
                     Mark(nodes[k], WithStatus(nodes[k], "running"), "pending")]
    BY <1>2 DEF Resume
  <2>2. nodes \in [Jobs -> Seq(Rows)]
    BY DEF TypeOK
  <2>3. WithStatus(Mark(nodes[k], WithStatus(nodes[k], "running"), "pending"), "running")
           \subseteq WithStatus(nodes[k], "running")
    BY <2>2, RunningAfterMark DEF RowStatuses
  <2> QED
    BY <2>1, <2>2, <2>3 DEF NoNewRunning, RunningRows
<1> QED
  BY <1>1, <1>2

LEMMA CancelStep ==
    ASSUME TypeOK, [Next]_vars, NEW j \in Jobs, status[j] \in {"cancelling", "cancelled"}
    PROVE  NoNewRunning(j)
<1> USE DEF At
<1>0. nodes \in [Jobs -> Seq(Rows)]
  BY DEF TypeOK
<1>1. CASE PlanDone
  <2>1. stage \in Working /\ cur \in Jobs
    BY <1>1 DEF PlanDone, Working, TypeOK
  <2>2. PICK plan \in Plans :
          IF status[cur] = "absent" THEN FailJob /\ UNCHANGED <<nodes, gated>>
          ELSE BeginAttempt(Insert(nodes[cur], plan))
    BY <1>1 DEF PlanDone
  <2>3. CASE status[cur] = "absent"
    BY <2>2, <2>3 DEF NoNewRunning, RunningRows
  <2>4. CASE status[cur] # "absent"
    BY <1>0, <2>1, <2>2, <2>4, BeginAttemptCancelStops, RunningAfterInsert,
       CancelStopsSuffices DEF RunningRows
  <2> QED
    BY <2>3, <2>4
<1>2. CASE NodeOk
  <2> DEFINE rows == Mark(nodes[cur], {node}, "completed")
  <2>1. stage \in Working /\ cur \in Jobs
    BY <1>2 DEF NodeOk, Working, TypeOK
  <2>2. WithStatus(rows, "running") \subseteq RunningRows(cur)
    BY <1>0, <2>1, RunningAfterMark DEF RowStatuses, RunningRows
  <2>3. CASE cur \in SlackJobs
    BY <1>0, <1>2, <2>1, <2>2, <2>3 DEF NodeOk, NoNewRunning, RunningRows
  <2>4. CASE cur \notin SlackJobs
    <3>1. Continue(rows)
      BY <1>2, <2>4 DEF NodeOk
    <3> QED
      BY <2>1, <2>2, <3>1, ContinueCancelStops, CancelStopsSuffices
  <2> QED
    BY <2>3, <2>4
<1>3. CASE BetweenNodes
  <2>1. stage \in Working /\ cur \in Jobs
    BY <1>3 DEF BetweenNodes, Working, TypeOK
  <2> QED
    BY <1>3, <2>1, ContinueCancelStops, CancelStopsSuffices DEF BetweenNodes, RunningRows
<1>4. CASE NodeFailed
  <2>1. cur \in Jobs
    BY <1>4 DEF NodeFailed, Working, TypeOK
  <2>2. WithStatus(Mark(nodes[cur], {node}, "failed"), "running") \subseteq RunningRows(cur)
    BY <1>0, <2>1, RunningAfterMark DEF RowStatuses, RunningRows
  <2> QED
    BY <1>0, <1>4, <2>1, <2>2 DEF NodeFailed, NoNewRunning, RunningRows
<1>5. CASE ReplanDone
  <2>1. stage \in Working /\ cur \in Jobs
    BY <1>5 DEF ReplanDone, Working, TypeOK
  <2>2. PICK plan \in Plans :
          IF status[cur] = "absent" \/ attempt = MaxReviews
          THEN /\ attempt' = attempt /\ FailJob
               /\ nodes' = IF status[cur] = "absent" THEN nodes
                           ELSE [nodes EXCEPT ![cur] = Replace(nodes[cur], plan)]
               /\ UNCHANGED gated
          ELSE /\ attempt' = attempt + 1
               /\ BeginAttempt(Replace(nodes[cur], plan))
    BY <1>5 DEF ReplanDone
  <2>3. WithStatus(Replace(nodes[cur], plan), "running") = {}
    BY <1>0, <2>1, RunningAfterReplace
  <2>4. CASE status[cur] = "absent" \/ attempt = MaxReviews
    BY <1>0, <2>1, <2>2, <2>3, <2>4 DEF NoNewRunning, RunningRows
  <2>5. CASE ~(status[cur] = "absent" \/ attempt = MaxReviews)
    <3>1. CancelStops(Replace(nodes[cur], plan))
      BY <2>1, <2>2, <2>5, BeginAttemptCancelStops
    <3> QED
      BY <2>1, <2>3, <3>1, CancelStopsSuffices
  <2> QED
    BY <2>4, <2>5
<1>6. CASE UNCHANGED nodes
  BY <1>6 DEF NoNewRunning, RunningRows
<1>7. CASE ResumeNext \/ Start
  <2>1. Interrupted \subseteq Jobs /\ toResume \subseteq Jobs
    BY DEF Interrupted, TypeOK
  <2>2. UNCHANGED nodes \/ \E k \in Jobs : Resume(k)
    BY <1>7, <2>1 DEF ResumeNext, Start
  <2> QED
    BY <1>6, <2>2, ResumeStartsNothing
<1>8. ASSUME NEW k \in Jobs, DeleteJob(k)
      PROVE  NoNewRunning(j)
  BY <1>0, <1>8 DEF DeleteJob, NoNewRunning, RunningRows, WithStatus
<1>9. (PlanError \/ ReviewPassed \/ ReviewRejected \/ ReviewError \/ RcaDone
         \/ ReplanError \/ Poll \/ Crash \/ Exit \/ BreakerTimeout \/ Stop \/ CreateJob
         \/ (\E k \in Jobs : CancelJob(k) \/ SlackButton(k)) \/ UNCHANGED vars)
      => UNCHANGED nodes
  BY DEF PlanError, ReviewPassed, ReviewRejected, ReviewError, RcaDone, ReplanError,
     Poll, Crash, Exit, Down, table, BreakerTimeout, Stop, CreateJob, CancelJob,
     SlackButton, vars
<1> QED
  BY <1>1, <1>2, <1>3, <1>4, <1>5, <1>6, <1>7, <1>8, <1>9
  DEF Next, WorkerStep, HandlerStep

(* Once a job carries a cancel request or is cancelled, no step starts one *)
(* of its nodes: the check and the write that starts a node are one step.  *)
THEOREM CancelledStartsNothing == Spec => NoNodeAfterCancel
<1>1. TypeOK /\ [Next]_vars =>
        [\A j \in Jobs : status[j] \in {"cancelling", "cancelled"} =>
            WithStatus(nodes'[j], "running") \subseteq WithStatus(nodes[j], "running")]_vars
  BY CancelStep DEF NoNewRunning, RunningRows
<1> QED
  BY <1>1, TypeCorrect, PTL DEF Spec, NoNodeAfterCancel

-----------------------------------------------------------------------------
(* Ownership.  The Slack buttons may write any status over that of a Slack *)
(* job, whoever works on it; the jobs that come through the API are out of *)
(* their reach.  What is proved of these web jobs holds whatever becomes   *)
(* of the Slack jobs beside them.  The inductive invariant says of a web   *)
(* job that waits for resumption that it is the only one, and that no web  *)
(* job runs meanwhile: the worker can be on only one when the process dies.*)

RunStep ==
    \/ PlanDone \/ PlanError \/ NodeOk \/ NodeFailed \/ BetweenNodes
    \/ ReviewPassed \/ ReviewRejected \/ ReviewError
    \/ RcaDone \/ ReplanDone \/ ReplanError

WebWaits ==
    \A j \in toResume \cap WebJobs :
        /\ status[j] \in {"executing", "cancelling"}
        /\ cur \notin WebJobs
        /\ \A k \in toResume \cap WebJobs : k = j

NotCreated == \A j \in Jobs : j > created => status[j] = "absent"

WebInv == TypeOK /\ NotCreated /\ WorkerOwnsJob /\ ExecutingIsOwned /\ WebWaits

(* What a step of a run leaves of the other jobs and of the process.       *)
Apart ==
    /\ \A j \in Jobs \ {cur} : status'[j] = status[j] /\ nodes'[j] = nodes[j]
    /\ status[cur] = "absent" => status'[cur] = "absent"
    /\ cur' \in {cur, NoJob} /\ stage' # "down"
    /\ breakerOpen' = breakerOpen \/ FailJob

LEMMA WriteApart ==
    ASSUME TypeOK, stage \in Working, NEW s \in Statuses, NEW st, st \in {status, Write(cur, s)}
    PROVE  /\ \A j \in Jobs \ {cur} : st[j] = status[j]
           /\ status[cur] = "absent" => st[cur] = "absent"
BY DEF Write, TypeOK

LEMMA EndApart ==
    ASSUME TypeOK, stage \in Working, FailJob \/ CancelRun,
           UNCHANGED nodes \/ \E rows : nodes' = [nodes EXCEPT ![cur] = rows]
    PROVE  Apart
<1>1. \A j \in Jobs \ {cur} : nodes'[j] = nodes[j]
  BY DEF TypeOK
<1>2. \E s \in Statuses : status' = Write(cur, s)
  BY DEF FailJob, CancelRun, Statuses, Terminal
<1>3. stage' = "idle" /\ cur' = NoJob /\ (breakerOpen' = breakerOpen \/ FailJob)
  BY DEF FailJob, CancelRun, Release, health
<1> QED
  BY <1>1, <1>2, <1>3, WriteApart DEF Apart

LEMMA RunNextApart ==
    ASSUME TypeOK, stage \in Working, NEW s \in Statuses, NEW st \in {status, Write(cur, s)},
           NEW rows, RunNext(st, rows)
    PROVE  Apart
<1>1. CASE \E i \in Ready(rows) :
              /\ nodes' = [nodes EXCEPT ![cur] = Mark(rows, {i}, "running")]
              /\ status' = st /\ stage' = "node" /\ cur' = cur /\ UNCHANGED health
  <2>1. \A j \in Jobs \ {cur} : nodes'[j] = nodes[j]
    BY <1>1 DEF TypeOK
  <2> QED
    BY <1>1, <2>1, WriteApart DEF Apart, health
<1>2. CASE nodes' = [nodes EXCEPT ![cur] = rows] /\ FailJob
  BY <1>2, EndApart
<1>3. CASE nodes' = [nodes EXCEPT ![cur] = rows] /\ EnterReview(rows)
  <2>1. \A j \in Jobs \ {cur} : nodes'[j] = nodes[j]
    BY <1>3 DEF TypeOK
  <2>2. status' = Write(cur, "reviewing") /\ stage' = "reviewing" /\ cur' = cur /\ UNCHANGED health
    BY <1>3 DEF EnterReview
  <2> QED
    BY <2>1, <2>2, WriteApart DEF Apart, health, Statuses
<1> QED
  BY <1>1, <1>2, <1>3 DEF RunNext

LEMMA BeginAttemptApart ==
    ASSUME TypeOK, stage \in Working, NEW rows, BeginAttempt(rows)
    PROVE  Apart
<1>1. CASE nodes' = [nodes EXCEPT ![cur] = rows] /\ (FailJob \/ CancelRun)
  BY <1>1, EndApart
<1>2. CASE RunNext(Write(cur, "executing"), rows)
  BY <1>2, RunNextApart DEF Statuses
<1> QED
  BY <1>1, <1>2 DEF BeginAttempt

LEMMA ContinueApart ==
    ASSUME TypeOK, stage \in Working, NEW rows, Continue(rows)
    PROVE  Apart
<1>1. CASE nodes' = [nodes EXCEPT ![cur] = rows] /\ FailJob
  BY <1>1, EndApart
<1>2. CASE RunNext(status, rows)
  BY <1>2, RunNextApart DEF Statuses
<1> QED
  BY <1>1, <1>2 DEF Continue

LEMMA RunStepApart ==
    ASSUME TypeOK, RunStep
    PROVE  /\ stage \in Working /\ Apart /\ UNCHANGED <<created, toResume>>
           /\ \A j \in Jobs \ {cur} : reviewCount'[j] = reviewCount[j]
<1> USE DEF At
<1>1. stage \in Working /\ UNCHANGED <<created, toResume>>
  BY DEF RunStep, PlanDone, PlanError, NodeOk, NodeFailed, BetweenNodes, ReviewPassed,
     ReviewRejected, ReviewError, RcaDone, ReplanDone, ReplanError, Working
<1>2. \A j \in Jobs \ {cur} : reviewCount'[j] = reviewCount[j]
  <2>1. CASE ReviewRejected
    BY <2>1 DEF ReviewRejected, TypeOK
  <2>2. CASE ~ReviewRejected
    BY <2>2 DEF RunStep, PlanDone, PlanError, NodeOk, NodeFailed, BetweenNodes, ReviewPassed,
       ReviewError, RcaDone, ReplanDone, ReplanError
  <2> QED
    BY <2>1, <2>2
<1>3. Apart
  <2>1. CASE PlanDone
    BY <1>1, <2>1, EndApart, BeginAttemptApart DEF PlanDone
  <2>2. CASE PlanError \/ NodeFailed \/ ReviewError \/ RcaDone \/ ReplanError
    BY <1>1, <2>2, EndApart DEF PlanError, NodeFailed, ReviewError, RcaDone, ReplanError
  <2>3. CASE NodeOk /\ cur \in SlackJobs
    BY <1>1, <2>3 DEF NodeOk, Apart, TypeOK, health
  <2>4. CASE NodeOk /\ cur \notin SlackJobs
    BY <1>1, <2>4, ContinueApart DEF NodeOk
  <2>5. CASE BetweenNodes
    BY <1>1, <2>5, ContinueApart DEF BetweenNodes
  <2>6. CASE ReviewPassed
    <3>1. /\ status' = Write(cur, "done") /\ "done" \in Statuses
          /\ UNCHANGED <<nodes, breakerOpen>> /\ stage' = "idle" /\ cur' = NoJob
      BY <2>6 DEF ReviewPassed, Release, Statuses, Terminal
    <3> QED
      BY <1>1, <3>1, WriteApart DEF Apart
  <2>7. CASE ReviewRejected
    BY <2>7 DEF ReviewRejected, Apart, health
  <2>8. CASE ReplanDone
    BY <1>1, <2>8, EndApart, BeginAttemptApart DEF ReplanDone
  <2> QED
    BY <2>1, <2>2, <2>3, <2>4, <2>5, <2>6, <2>7, <2>8 DEF RunStep
<1> QED
  BY <1>1, <1>2, <1>3

Ends(s) ==
    status' = [status EXCEPT ![cur] = s] /\ stage' = "idle" /\ cur' = NoJob

Goes(s, g) ==
    status' = [status EXCEPT ![cur] = s] /\ stage' = g /\ cur' = cur

Frame == UNCHANGED <<created, toResume>>

LEMMA OwnFacts ==
    ASSUME WebInv, cur \in WebJobs
    PROVE  /\ stage \in Working /\ cur \in Jobs /\ cur \notin SlackJobs /\ cur # NoJob
           /\ status \in [Jobs -> Statuses] /\ status[cur] \in {StageStatus, "cancelling"}
           /\ StageStatus \in {"planning", "executing", "reviewing"}
           /\ status[cur] # "absent" /\ toResume \cap WebJobs = {}
           /\ \A s : Write(cur, s) = [status EXCEPT ![cur] = s]
           /\ \A k \in WebJobs \ {cur} : status[k] # "executing"
<1>1. /\ stage \in Working /\ cur \in Jobs /\ cur \notin SlackJobs /\ cur # NoJob
      /\ status \in [Jobs -> Statuses]
  BY DEF WebInv, TypeOK, WebJobs, Jobs, NoJob
<1>2. StageStatus \in {"planning", "executing", "reviewing"}
  BY DEF StageStatus
<1>3. status[cur] \in {StageStatus, "cancelling"} /\ status[cur] # "absent"
  BY <1>2 DEF WebInv, WorkerOwnsJob
<1>4. toResume \cap WebJobs = {}
  BY DEF WebInv, WebWaits
<1>5. \A k \in WebJobs \ {cur} : status[k] # "executing"
  BY <1>1, <1>4 DEF WebInv, ExecutingIsOwned, Working
<1> QED
  BY <1>1, <1>2, <1>3, <1>4, <1>5 DEF Write

(* A step that leaves the web jobs as they are, and that begins and ends   *)
(* with the worker on the same job or on none of them.                     *)
LEMMA WebUntouched ==
    ASSUME WebInv, TypeOK', \A j \in WebJobs : status'[j] = status[j],
           NotCreated', UNCHANGED toResume,
           \/ UNCHANGED <<stage, cur>>
           \/ cur \notin WebJobs /\ cur' \notin WebJobs /\ stage # "down" /\ stage' # "down"
    PROVE  WebInv'
<1>1. WorkerOwnsJob'
  BY DEF WebInv, WorkerOwnsJob, StageStatus
<1>2. ExecutingIsOwned'
  BY DEF WebInv, ExecutingIsOwned
<1>3. WebWaits'
  BY DEF WebInv, WebWaits
<1> QED
  BY <1>1, <1>2, <1>3 DEF WebInv

LEMMA EndKeepsOwn ==
    ASSUME WebInv, TypeOK', cur \in WebJobs, NEW s \in Terminal, Ends(s), Frame
    PROVE  WebInv'
<1>1. \A k \in WebJobs : status'[k] # "executing"
  BY OwnFacts DEF Ends, Terminal, WebJobs
<1>2. NotCreated'
  BY OwnFacts DEF WebInv, NotCreated, Ends, Frame
<1>3. cur' \notin WebJobs
  BY DEF Ends, WebJobs, Jobs, NoJob
<1> QED
  BY <1>1, <1>2, <1>3, OwnFacts
  DEF WebInv, Frame, WorkerOwnsJob, ExecutingIsOwned, WebWaits

LEMMA GoKeepsOwn ==
    ASSUME WebInv, TypeOK', cur \in WebJobs, Frame,
           Goes("executing", "node") \/ Goes("reviewing", "reviewing")
    PROVE  WebInv'
<1>1. PICK s \in {"executing", "reviewing"} :
         /\ status' = [status EXCEPT ![cur] = s]
         /\ stage' = IF s = "executing" THEN "node" ELSE "reviewing"
  BY DEF Goes
<1>2. cur' = cur /\ cur \in Jobs
  BY OwnFacts DEF Goes
<1>3. WorkerOwnsJob'
  BY <1>1, <1>2, OwnFacts DEF WorkerOwnsJob, StageStatus
<1>4. ExecutingIsOwned'
  BY <1>1, <1>2, OwnFacts DEF ExecutingIsOwned, WebJobs
<1>5. NotCreated'
  BY <1>1, OwnFacts DEF WebInv, NotCreated, Frame
<1>6. WebWaits'
  BY OwnFacts DEF WebWaits, Frame
<1> QED
  BY <1>3, <1>4, <1>5, <1>6 DEF WebInv

(* What a step inside a run does to a web job.                             *)
RunOutcome ==
    \/ Ends("failed")
    \/ Ends("cancelled") /\ stage \in {"planning", "replanning"}
    \/ Goes("executing", "node") /\ status[cur] # "cancelling"
    \/ Goes("reviewing", "reviewing") /\ status[cur] # "cancelling"

LEMMA FailJobEnds ==
    ASSUME WebInv, cur \in WebJobs, FailJob
    PROVE  Ends("failed")
BY OwnFacts DEF FailJob, Release, Ends

LEMMA RunNextOutcome ==
    ASSUME WebInv, cur \in WebJobs, ~IsCancelled(cur), NEW rows,
           NEW st, st = [status EXCEPT ![cur] = "executing"], RunNext(st, rows)
    PROVE  RunOutcome
<1>1. status[cur] # "cancelling"
  BY DEF IsCancelled
<1>2. CASE status' = st /\ stage' = "node" /\ cur' = cur
  BY <1>1, <1>2 DEF RunOutcome, Goes
<1>3. CASE FailJob
  BY <1>3, FailJobEnds DEF RunOutcome
<1>4. CASE EnterReview(rows)
  BY <1>1, <1>4, OwnFacts DEF EnterReview, RunOutcome, Goes
<1> QED
  BY <1>2, <1>3, <1>4 DEF RunNext

LEMMA BeginAttemptOutcome ==
    ASSUME WebInv, cur \in WebJobs, stage \in {"planning", "replanning"}, NEW rows,
           BeginAttempt(rows)
    PROVE  RunOutcome
<1>1. CASE FailJob
  BY <1>1, FailJobEnds DEF RunOutcome
<1>2. CASE CancelRun
  BY <1>2, OwnFacts DEF CancelRun, Release, Ends, RunOutcome
<1>3. CASE ~IsCancelled(cur) /\ RunNext(Write(cur, "executing"), rows)
  BY <1>3, RunNextOutcome, OwnFacts
<1> QED
  BY <1>1, <1>2, <1>3 DEF BeginAttempt

LEMMA ContinueOutcome ==
    ASSUME WebInv, cur \in WebJobs, stage \in {"node", "between"}, NEW rows, Continue(rows)
    PROVE  RunOutcome
<1>1. CASE FailJob
  BY <1>1, FailJobEnds DEF RunOutcome
<1>2. CASE ~IsCancelled(cur) /\ RunNext(status, rows)
  <2>1. status[cur] = "executing"
    BY <1>2, OwnFacts DEF IsCancelled, StageStatus
  <2>2. status = [status EXCEPT ![cur] = "executing"]
    BY <2>1, OwnFacts
  <2> QED
    BY <1>2, <2>2, RunNextOutcome
<1> QED
  BY <1>1, <1>2 DEF Continue

LEMMA RunStepOutcome ==
    ASSUME WebInv, cur \in WebJobs, RunStep
    PROVE  \/ RunOutcome
           \/ ReviewPassed /\ Ends("done")
           \/ ReviewRejected
<1> USE DEF At
<1>1. CASE PlanDone
  <2>1. stage = "planning" /\ \E plan \in Plans : BeginAttempt(Insert(nodes[cur], plan))
    BY <1>1, OwnFacts DEF PlanDone
  <2> QED
    BY <2>1, BeginAttemptOutcome
<1>2. CASE PlanError \/ NodeFailed \/ ReviewError \/ RcaDone \/ ReplanError
  BY <1>2, FailJobEnds
  DEF PlanError, NodeFailed, ReviewError, RcaDone, ReplanError, RunOutcome
<1>3. CASE NodeOk \/ BetweenNodes
  <2>1. stage \in {"node", "between"} /\ \E rows : Continue(rows)
    BY <1>3, OwnFacts DEF NodeOk, BetweenNodes
  <2> QED
    BY <2>1, ContinueOutcome
<1>4. CASE ReviewPassed
  BY <1>4, OwnFacts DEF ReviewPassed, Release, Ends
<1>5. CASE ReplanDone
  <2>1. /\ stage = "replanning"
        /\ \E plan \in Plans : FailJob \/ BeginAttempt(Replace(nodes[cur], plan))
    BY <1>5 DEF ReplanDone
  <2> QED
    BY <2>1, FailJobEnds, BeginAttemptOutcome DEF RunOutcome
<1> QED
  BY <1>1, <1>2, <1>3, <1>4, <1>5 DEF RunStep

LEMMA RunStepKeepsWeb ==
    ASSUME WebInv, TypeOK', RunStep
    PROVE  WebInv'
<1>1. stage \in Working /\ Apart /\ Frame
  BY RunStepApart DEF WebInv, Frame
<1>2. CASE cur \notin WebJobs
  <2>1. \A j \in WebJobs : status'[j] = status[j]
    BY <1>1, <1>2 DEF Apart, WebJobs
  <2>2. NotCreated'
    BY <1>1 DEF WebInv, NotCreated, Apart, Frame
  <2>3. cur' \notin WebJobs /\ stage # "down" /\ stage' # "down"
    BY <1>1, <1>2 DEF Apart, Working, WebJobs, Jobs, NoJob
  <2> QED
    BY <1>1, <1>2, <2>1, <2>2, <2>3, WebUntouched DEF Frame
<1>3. CASE cur \in WebJobs
  <2>1. CASE RunOutcome
    BY <1>1, <1>3, <2>1, EndKeepsOwn, GoKeepsOwn DEF RunOutcome, Terminal
  <2>2. CASE Ends("done")
    BY <1>1, <1>3, <2>2, EndKeepsOwn DEF Terminal
  <2>3. CASE ReviewRejected
    <3>1. /\ stage = "reviewing" /\ stage' \in {"rca", "replanning"}
          /\ UNCHANGED <<status, cur, created, toResume>>
      BY <2>3 DEF ReviewRejected, At
    <3>2. WorkerOwnsJob' /\ ExecutingIsOwned' /\ WebWaits' /\ NotCreated'
      BY <1>3, <3>1, OwnFacts
      DEF WebInv, WorkerOwnsJob, ExecutingIsOwned, WebWaits, NotCreated, StageStatus
    <3> QED
      BY <3>2 DEF WebInv
  <2> QED
    BY <1>3, <2>1, <2>2, <2>3, RunStepOutcome
<1> QED
  BY <1>2, <1>3

(* A job is taken up by a poll when none waits for resumption, from the    *)
(* list of those that do, or by start() from those found executing.        *)
TakenUp(j) ==
    \/ stage = "idle" /\ toResume = {} /\ toResume' = {}
    \/ stage = "idle" /\ j \in toResume /\ toResume' = toResume \ {j}
    \/ stage = "down" /\ j \in Interrupted /\ toResume' = Interrupted \ {j}

LEMMA BeginRunKeeps ==
    ASSUME WebInv, TypeOK', NEW j \in Jobs, status[j] # "absent", BeginRun(j),
           created' = created, TakenUp(j)
    PROVE  WebInv'
<1>1. /\ status' = [status EXCEPT ![j] = "planning"] /\ status \in [Jobs -> Statuses]
      /\ stage' = "planning" /\ cur' = j /\ cur \notin WebJobs
  BY DEF BeginRun, Write, WebInv, TypeOK, TakenUp, Working, WebJobs
<1>2. WorkerOwnsJob'
  BY <1>1 DEF WorkerOwnsJob, StageStatus
<1>3. ExecutingIsOwned'
  <2>1. ASSUME NEW k \in WebJobs, status'[k] = "executing"
        PROVE  k \in toResume' /\ \A m \in WebJobs \ {k} : status'[m] # "executing"
    <3>1. k # j /\ status[k] = "executing" /\ k \in Jobs
      BY <1>1, <2>1 DEF WebJobs
    <3>2. k \in toResume'
      BY <1>1, <3>1 DEF WebInv, ExecutingIsOwned, TakenUp, Interrupted
    <3>3. \A m \in WebJobs \ {k} : status'[m] # "executing"
      BY <1>1, <3>1 DEF WebInv, ExecutingIsOwned, WebJobs
    <3> QED
      BY <3>2, <3>3
  <2> QED
    BY <2>1 DEF ExecutingIsOwned
<1>4. WebWaits'
  <2>1. ASSUME NEW k \in toResume' \cap WebJobs
        PROVE  /\ k # j /\ status[k] \in {"executing", "cancelling"}
               /\ j \notin WebJobs
               /\ \A m \in toResume' \cap WebJobs : m = k
    BY <1>1 DEF WebInv, WebWaits, ExecutingIsOwned, TakenUp, Interrupted
  <2> QED
    BY <1>1, <2>1 DEF WebWaits, WebJobs
<1>5. NotCreated'
  BY <1>1 DEF WebInv, NotCreated
<1> QED
  BY <1>2, <1>3, <1>4, <1>5 DEF WebInv

(* What a step that resumes a job does.                                    *)
LEMMA ResumesWeb ==
    ASSUME WebInv, TypeOK', NEW j \in Jobs, Resume(j), created' = created,
           \/ stage = "idle" /\ j \in toResume /\ toResume' = toResume \ {j}
           \/ stage = "down" /\ j \in Interrupted /\ toResume' = Interrupted \ {j}
    PROVE  WebInv'
<1>1. CASE status[j] # "absent"
  BY <1>1, BeginRunKeeps DEF Resume, TakenUp
<1>2. CASE status[j] = "absent"
  <2>1. /\ stage = "idle" /\ stage' = "idle" /\ UNCHANGED <<status, cur>>
        /\ j \in toResume /\ toResume' = toResume \ {j}
    BY <1>2 DEF Resume, Interrupted
  <2>2. j \notin WebJobs
    BY <1>2, <2>1 DEF WebInv, WebWaits
  <2> QED
    BY <2>1, <2>2
    DEF WebInv, NotCreated, WorkerOwnsJob, ExecutingIsOwned, WebWaits, StageStatus
<1> QED
  BY <1>1, <1>2

(* A handler changes the status of one job that nobody is made to work on. *)
LEMMA HandlerKeeps ==
    ASSUME WebInv, TypeOK', Handler, NotCreated', NEW j \in Jobs,
           NEW s \in Statuses \ {"executing"}, status' = [status EXCEPT ![j] = s],
           s = "cancelling" \/ status[j] \in Terminal \union {"absent"}
    PROVE  WebInv'
<1>1. status \in [Jobs -> Statuses] /\ UNCHANGED <<stage, cur, toResume>>
  BY DEF WebInv, TypeOK, Handler, worker
<1>2. CASE j \notin WebJobs
  BY <1>1, <1>2, WebUntouched DEF WebJobs
<1>3. CASE j \in WebJobs
  <2>1. s = "cancelling" \/ (cur # j /\ j \notin toResume)
    BY <1>3, OwnFacts DEF Terminal, WebInv, WebWaits
  <2>2. WorkerOwnsJob'
    BY <1>1, <1>3, <2>1 DEF WebInv, WorkerOwnsJob, StageStatus, WebJobs
  <2>3. ExecutingIsOwned'
    BY <1>1, <1>3 DEF WebInv, ExecutingIsOwned, WebJobs
  <2>4. WebWaits'
    BY <1>1, <1>3, <2>1 DEF WebInv, WebWaits, WebJobs
  <2> QED
    BY <2>2, <2>3, <2>4 DEF WebInv
<1> QED
  BY <1>2, <1>3

(* What the handlers and the buttons do to the statuses.                   *)
LEMMA CreateFacts ==
    ASSUME TypeOK, NotCreated, CreateJob
    PROVE  /\ created + 1 \in Jobs /\ status[created + 1] = "absent"
           /\ status' = [status EXCEPT ![created + 1] = "pending"]
           /\ NotCreated' /\ Handler /\ UNCHANGED <<nodes, reviewCount>>
<1>1. created \in Nat /\ created + 1 \in Jobs /\ created' = created + 1
  BY BoundsAssumption DEF CreateJob, TypeOK, Jobs
<1>2. /\ status' = [status EXCEPT ![created + 1] = "pending"] /\ Handler
      /\ UNCHANGED <<nodes, reviewCount>>
  BY DEF CreateJob
<1>3. status[created + 1] = "absent"
  BY <1>1 DEF NotCreated
<1>4. NotCreated'
  BY <1>1, <1>2 DEF NotCreated, Jobs, TypeOK
<1> QED
  BY <1>1, <1>2, <1>3, <1>4

LEMMA CancelFacts ==
    ASSUME TypeOK, NEW j \in Jobs, CancelJob(j)
    PROVE  /\ status[j] \notin {"absent"} \union Terminal
           /\ status' = [status EXCEPT ![j] = "cancelling"]
           /\ (NotCreated => NotCreated') /\ Handler /\ UNCHANGED <<nodes, reviewCount>>
BY DEF CancelJob, Cancellable, Write, NotCreated, TypeOK

LEMMA DeleteFacts ==
    ASSUME TypeOK, NEW j \in Jobs, DeleteJob(j)
    PROVE  /\ status[j] \in Terminal
           /\ status' = [status EXCEPT ![j] = "absent"]
           /\ nodes' = [nodes EXCEPT ![j] = << >>]
           /\ reviewCount' = [reviewCount EXCEPT ![j] = 0]
           /\ (NotCreated => NotCreated') /\ Handler
BY DEF DeleteJob, Deletable, NotCreated, TypeOK

LEMMA ButtonFacts ==
    ASSUME TypeOK, NEW j \in Jobs, SlackButton(j)
    PROVE  /\ j \notin WebJobs /\ \A k \in WebJobs : status'[k] = status[k]
           /\ (NotCreated => NotCreated') /\ Handler /\ UNCHANGED <<nodes, reviewCount>>
<1>1. j \in SlackJobs /\ status[j] # "absent" /\ Handler /\ UNCHANGED <<nodes, reviewCount, created>>
  BY DEF SlackButton, TypeOK
<1>2. \E s \in {"executing", "reviewing", "cancelled"} : status' = [status EXCEPT ![j] = s]
  BY DEF SlackButton, Write
<1> QED
  BY <1>1, <1>2 DEF WebJobs, NotCreated, TypeOK

LEMMA WebInit == Init => WebInv
BY TypeInit DEF Init, WebInv, NotCreated, WorkerOwnsJob, ExecutingIsOwned, WebWaits,
   WebJobs, Jobs, NoJob

LEMMA WebStep ==
    ASSUME WebInv, [Next]_vars
    PROVE  WebInv'
<1>0. TypeOK' /\ TypeOK /\ NotCreated /\ status \in [Jobs -> Statuses]
  BY TypeStep DEF WebInv, TypeOK
<1>1. CASE RunStep
  BY <1>0, <1>1, RunStepKeepsWeb
<1>2. CASE Poll
  <2>1. PICK j \in Jobs : status[j] = "pending" /\ BeginRun(j)
    BY <1>2 DEF Poll
  <2>2. stage = "idle" /\ toResume = {} /\ UNCHANGED <<created, toResume>>
    BY <1>2 DEF Poll, CanClaim
  <2> QED
    BY <1>0, <2>1, <2>2, BeginRunKeeps DEF TakenUp
<1>3. CASE ResumeNext
  <2>1. PICK j \in toResume : toResume' = toResume \ {j} /\ Resume(j)
    BY <1>3 DEF ResumeNext
  <2>2. j \in Jobs /\ stage = "idle" /\ created' = created
    BY <1>0, <1>3 DEF ResumeNext, TypeOK
  <2> QED
    BY <1>0, <2>1, <2>2, ResumesWeb
<1>4. CASE Start
  <2>1. stage = "down" /\ created' = created /\ cur \notin Jobs
    BY <1>0, <1>4 DEF Start, TypeOK, Working
  <2>2. CASE Interrupted = {}
    <3>1. UNCHANGED <<status, cur>> /\ stage' = "idle" /\ toResume' = {}
      BY <1>4, <2>2 DEF Start
    <3>2. \A k \in Jobs : status[k] # "executing"
      BY <2>2 DEF Interrupted
    <3> QED
      BY <1>0, <2>1, <3>1, <3>2
      DEF WebInv, NotCreated, WorkerOwnsJob, ExecutingIsOwned, WebWaits, WebJobs
  <2>3. CASE Interrupted # {}
    <3>1. PICK j \in Interrupted : toResume' = Interrupted \ {j} /\ Resume(j)
      BY <1>4, <2>3 DEF Start
    <3>2. j \in Jobs
      BY <3>1 DEF Interrupted
    <3> QED
      BY <1>0, <2>1, <3>1, <3>2, ResumesWeb
  <2> QED
    BY <2>2, <2>3
<1>5. CASE BreakerTimeout \/ Stop \/ UNCHANGED vars
  <2>1. UNCHANGED <<status, stage, cur, created, toResume>>
    BY <1>5 DEF BreakerTimeout, Stop, vars, table, worker
  <2> QED
    BY <1>0, <2>1, WebUntouched DEF NotCreated
<1>6. CASE Crash \/ Exit
  <2>1. UNCHANGED <<status, created>> /\ stage' = "down" /\ toResume' = {} /\ cur' = NoJob
    BY <1>6 DEF Crash, Exit, Down, table
  <2> QED
    BY <1>0, <2>1 DEF WebInv, NotCreated, WorkerOwnsJob, ExecutingIsOwned, WebWaits,
       WebJobs, Jobs, NoJob
<1>7. CASE CreateJob
  BY <1>0, <1>7, CreateFacts, HandlerKeeps DEF Statuses
<1>8. ASSUME NEW j \in Jobs, CancelJob(j)
      PROVE  WebInv'
  BY <1>0, <1>8, CancelFacts, HandlerKeeps DEF Statuses
<1>9. ASSUME NEW j \in Jobs, DeleteJob(j)
      PROVE  WebInv'
  BY <1>0, <1>9, DeleteFacts, HandlerKeeps DEF Statuses
<1>10. ASSUME NEW j \in Jobs, SlackButton(j)
       PROVE  WebInv'
  BY <1>0, <1>10, ButtonFacts, WebUntouched DEF Handler, worker
<1> QED
  BY <1>1, <1>2, <1>3, <1>4, <1>5, <1>6, <1>7, <1>8, <1>9, <1>10
  DEF Next, WorkerStep, RunStep, HandlerStep

LEMMA WebInvariant == Spec => []WebInv
<1>1. WebInv /\ [Next]_vars => WebInv'
  BY WebStep
<1> QED
  BY <1>1, WebInit, PTL DEF Spec

(* No handler takes the row of a running web job from under the worker.    *)
THEOREM WorkerOwnership == Spec => []WorkerOwnsJob
<1>1. WebInv => WorkerOwnsJob
  BY DEF WebInv
<1> QED
  BY <1>1, WebInvariant, PTL

(* At most one web job is executing, and never one that nobody will take   *)
(* up, whichever Slack jobs are resumed before it.                         *)
THEOREM ExecutingOwnership == Spec => []ExecutingIsOwned
<1>1. WebInv => ExecutingIsOwned
  BY DEF WebInv
<1> QED
  BY <1>1, WebInvariant, PTL


-----------------------------------------------------------------------------
(* The breaker and the life cycle, where every job comes through the API.  *)
(* Then the list of jobs to resume is empty whenever the worker is not in  *)
(* start(): at most one job can be executing when the process dies, and    *)
(* start() takes it in the same step.  With Slack jobs in the list neither *)
(* property holds: the jobs of the list are resumed while the breaker is   *)
(* open, and over a cancel request.                                        *)

ApiInv == WebInv /\ toResume = {} /\ BreakerQuiet

LEMMA ApiJobs ==
    ASSUME SlackJobs = {}, ApiInv
    PROVE  /\ WebJobs = Jobs /\ TypeOK /\ NotCreated /\ status \in [Jobs -> Statuses]
           /\ stage \in Working => cur \in WebJobs /\ ~breakerOpen
           /\ stage \notin Working => cur \notin Jobs
           /\ \A j \in Jobs : status[j] = "executing" =>
                 /\ stage = "down" \/ cur = j
                 /\ \A k \in Jobs \ {j} : status[k] # "executing"
BY DEF ApiInv, WebInv, WebJobs, TypeOK, ExecutingIsOwned, BreakerQuiet, Working

LEMMA StartResumes ==
    ASSUME SlackJobs = {}, ApiInv, Start
    PROVE  /\ toResume' = {} /\ stage = "down" /\ UNCHANGED <<created, health>>
           /\ \/ UNCHANGED <<status, nodes, cur, node, attempt>> /\ stage' = "idle"
              \/ \E j \in Jobs : status[j] = "executing" /\ BeginRun(j)
<1>1. stage = "down" /\ UNCHANGED <<created, health>>
  BY DEF Start
<1>2. CASE Interrupted = {}
  BY <1>1, <1>2 DEF Start
<1>3. CASE Interrupted # {}
  <2>1. PICK j \in Interrupted : toResume' = Interrupted \ {j} /\ Resume(j)
    BY <1>3 DEF Start
  <2>2. j \in Jobs /\ status[j] = "executing" /\ BeginRun(j)
    BY <2>1 DEF Interrupted, Resume
  <2>3. \A k \in Jobs \ {j} : status[k] # "executing"
    BY <2>2, ApiJobs
  <2> QED
    BY <1>1, <2>1, <2>2, <2>3 DEF Interrupted
<1> QED
  BY <1>2, <1>3

LEMMA BreakerStep ==
    ASSUME SlackJobs = {}, ApiInv, [Next]_vars
    PROVE  toResume' = {} /\ BreakerQuiet'
<1>0. TypeOK /\ failures \in 0 .. BreakerThreshold /\ toResume = {}
  BY DEF ApiInv, WebInv, TypeOK
<1>1. CASE RunStep
  <2>1. stage \in Working /\ Apart /\ UNCHANGED toResume /\ ~breakerOpen
    BY <1>0, <1>1, RunStepApart, ApiJobs
  <2>2. ASSUME breakerOpen'
        PROVE  stage' = "idle" /\ failures' = BreakerThreshold
    <3>1. FailJob
      BY <2>1, <2>2 DEF Apart
    <3>2. /\ failures + 1 >= BreakerThreshold /\ stage' = "idle"
          /\ failures' = IF failures < BreakerThreshold THEN failures + 1 ELSE failures
      BY <2>1, <2>2, <3>1 DEF FailJob, Release
    <3> QED
      BY <1>0, <3>2, BoundsAssumption
  <2> QED
    BY <1>0, <2>1, <2>2 DEF BreakerQuiet
<1>2. CASE Poll
  BY <1>0, <1>2 DEF Poll, CanClaim, BreakerQuiet, health
<1>3. CASE ResumeNext
  BY <1>0, <1>3 DEF ResumeNext
<1>4. CASE Start
  BY <1>4, StartResumes DEF ApiInv, BreakerQuiet, health
<1>5. CASE Crash \/ Exit
  BY <1>5 DEF Crash, Exit, Down, BreakerQuiet
<1>6. CASE BreakerTimeout \/ Stop \/ HandlerStep \/ UNCHANGED vars
  <2>1. UNCHANGED <<toResume, stage, failures>> /\ (breakerOpen' => breakerOpen)
    BY <1>6 DEF BreakerTimeout, Stop, HandlerStep, CreateJob, CancelJob, DeleteJob, SlackButton,
       Handler, vars, worker, health
  <2> QED
    BY <1>0, <2>1 DEF ApiInv, BreakerQuiet
<1> QED
  BY <1>1, <1>2, <1>3, <1>4, <1>5, <1>6 DEF Next, WorkerStep, RunStep

LEMMA ApiStep ==
    ASSUME SlackJobs = {}, ApiInv, [Next]_vars
    PROVE  ApiInv'
BY WebStep, BreakerStep DEF ApiInv

LEMMA ApiInvariant ==
    ASSUME SlackJobs = {}
    PROVE  Spec => []ApiInv
<1>1. Init => ApiInv
  BY WebInit DEF Init, ApiInv, BreakerQuiet
<1>2. ApiInv /\ [Next]_vars => ApiInv'
  BY ApiStep
<1> QED
  BY <1>1, <1>2, PTL DEF Spec

(* No job runs while the circuit breaker is open.                          *)
THEOREM BreakerPausesWork ==
    ASSUME SlackJobs = {}
    PROVE  Spec => []BreakerQuiet
<1>1. ApiInv => BreakerQuiet
  BY DEF ApiInv
<1> QED
  BY <1>1, ApiInvariant, PTL

LifeStep == Lifecycle!Next \/ UNCHANGED status

LEMMA RunStepLives ==
    ASSUME SlackJobs = {}, ApiInv, RunStep
    PROVE  LifeStep
<1> USE DEF Lifecycle!Become, Lifecycle!Active, At
<1>1. cur \in WebJobs /\ cur \in Jobs /\ WebInv
  BY RunStepApart, ApiJobs DEF ApiInv
<1>2. /\ status \in [Jobs -> Statuses] /\ status[cur] \in {StageStatus, "cancelling"}
      /\ StageStatus \in {"planning", "executing", "reviewing"}
      /\ \A k \in Jobs \ {cur} : status[k] # "executing"
  BY <1>1, OwnFacts, ApiJobs
<1>3. CASE Ends("failed")
  BY <1>1, <1>2, <1>3 DEF Ends, LifeStep, Lifecycle!Next, Lifecycle!Abort
<1>4. CASE Ends("cancelled") /\ stage \in {"planning", "replanning"}
  <2>1. Lifecycle!Cancel(cur)
    BY <1>2, <1>4 DEF Lifecycle!Cancel, StageStatus, Ends
  <2> QED
    BY <1>1, <2>1 DEF LifeStep, Lifecycle!Next
<1>5. CASE Goes("executing", "node") /\ status[cur] # "cancelling"
  <2>1. status[cur] # "executing" => Lifecycle!Execute(cur)
    BY <1>2, <1>5 DEF Lifecycle!Execute, Goes
  <2>2. status[cur] = "executing" => UNCHANGED status
    BY <1>2, <1>5 DEF Goes
  <2> QED
    BY <1>1, <2>1, <2>2 DEF LifeStep, Lifecycle!Next
<1>6. CASE Goes("reviewing", "reviewing") /\ status[cur] # "cancelling"
  <2>1. status[cur] # "reviewing" => Lifecycle!Review(cur)
    BY <1>2, <1>6 DEF Lifecycle!Review, Goes
  <2>2. status[cur] = "reviewing" => UNCHANGED status
    BY <1>2, <1>6 DEF Goes
  <2> QED
    BY <1>1, <2>1, <2>2 DEF LifeStep, Lifecycle!Next
<1>7. CASE ReviewPassed /\ Ends("done")
  <2>1. Lifecycle!Complete(cur)
    BY <1>2, <1>7 DEF ReviewPassed, StageStatus, Lifecycle!Complete, Ends
  <2> QED
    BY <1>1, <2>1 DEF LifeStep, Lifecycle!Next
<1>8. CASE ReviewRejected
  BY <1>8 DEF ReviewRejected, LifeStep
<1> QED
  BY <1>1, <1>3, <1>4, <1>5, <1>6, <1>7, <1>8, RunStepOutcome DEF RunOutcome

LEMMA LifeStepTaken ==
    ASSUME SlackJobs = {}, ApiInv, [Next]_vars
    PROVE  LifeStep
<1> USE DEF Lifecycle!Become, Lifecycle!Active
<1>0. TypeOK /\ NotCreated /\ toResume = {} /\ status \in [Jobs -> Statuses]
  BY ApiJobs DEF ApiInv
<1>1. CASE RunStep
  BY <1>1, RunStepLives
<1>2. CASE Poll
  <2>1. PICK j \in Jobs : status[j] = "pending" /\ BeginRun(j)
    BY <1>2 DEF Poll
  <2>2. Lifecycle!Claim(j)
    BY <2>1 DEF BeginRun, Write, Lifecycle!Claim
  <2> QED
    BY <2>2 DEF LifeStep, Lifecycle!Next
<1>3. CASE ResumeNext
  BY <1>0, <1>3 DEF ResumeNext
<1>4. CASE Start
  <2>1. ASSUME NEW j \in Jobs, status[j] = "executing", BeginRun(j)
        PROVE  Lifecycle!Requeue(j)
    BY <2>1 DEF BeginRun, Write, Lifecycle!Requeue
  <2> QED
    BY <1>4, <2>1, StartResumes DEF LifeStep, Lifecycle!Next
<1>5. CASE BreakerTimeout \/ Stop \/ Crash \/ Exit \/ UNCHANGED vars
  BY <1>5 DEF BreakerTimeout, Stop, Crash, Exit, Down, vars, table, LifeStep
<1>6. CASE CreateJob
  <2>1. Lifecycle!Submit(created + 1) /\ created + 1 \in Jobs
    BY <1>0, <1>6, CreateFacts DEF Lifecycle!Submit
  <2> QED
    BY <2>1 DEF LifeStep, Lifecycle!Next
<1>7. ASSUME NEW j \in Jobs, CancelJob(j)
      PROVE  LifeStep
  <2>1. Lifecycle!RequestCancel(j)
    BY <1>0, <1>7, CancelFacts DEF Statuses, Terminal, Lifecycle!RequestCancel
  <2> QED
    BY <2>1 DEF LifeStep, Lifecycle!Next
<1>8. ASSUME NEW j \in Jobs, DeleteJob(j)
      PROVE  LifeStep
  <2>1. Lifecycle!Delete(j)
    BY <1>0, <1>8, DeleteFacts DEF Terminal, Lifecycle!Delete, Lifecycle!Terminal
  <2> QED
    BY <2>1 DEF LifeStep, Lifecycle!Next
<1>9. ASSUME NEW j \in Jobs, SlackButton(j)
      PROVE  FALSE
  BY <1>0, <1>9 DEF SlackButton, TypeOK
<1> QED
  BY <1>1, <1>2, <1>3, <1>4, <1>5, <1>6, <1>7, <1>8, <1>9
  DEF Next, WorkerStep, RunStep, HandlerStep

(* The pipeline implements the promised life cycle: terminal statuses are  *)
(* final, a cancel request is never overwritten by a working status, jobs  *)
(* execute one at a time.                                                  *)
THEOREM LifecycleImplemented ==
    ASSUME SlackJobs = {}
    PROVE  Spec => ImplementsLifecycle
<1>1. Init => Lifecycle!Init
  BY DEF Init, Lifecycle!Init
<1>2. ApiInv /\ [Next]_vars => [Lifecycle!Next]_status
  BY LifeStepTaken DEF LifeStep
<1> QED
  BY <1>1, <1>2, ApiInvariant, PTL DEF Spec, ImplementsLifecycle, Lifecycle!Spec

-----------------------------------------------------------------------------
(* Running nodes.  A row that nobody runs belongs to a job whose run the   *)
(* process did not survive: start() finds it in 'executing', unless its    *)
(* cancellation was requested before.                                      *)

RunningInv ==
    \A j \in WebJobs : \A i \in RunningRows(j) :
        \/ stage = "node" /\ cur = j /\ node = i
        \/ cur # j /\ status[j] \in {"executing", "cancelling"}

(* The rows of the worker's job after a step inside a run: one is running  *)
(* only if the worker is parked at it.                                     *)
RowsLeft ==
    \/ WithStatus(nodes'[cur], "running") = {}
    \/ /\ cur' = cur /\ stage' = "node"
       /\ WithStatus(nodes'[cur], "running") \subseteq {node'}

LEMMA QuietRows ==
    ASSUME TypeOK, cur \in Jobs, NEW rows, WithStatus(rows, "running") = {},
           nodes' = [nodes EXCEPT ![cur] = rows]
    PROVE  RowsLeft
BY DEF TypeOK, RowsLeft

LEMMA RunNextRows ==
    ASSUME TypeOK, cur \in Jobs, NEW rows \in Seq(Rows), WithStatus(rows, "running") = {},
           NEW st, RunNext(st, rows)
    PROVE  RowsLeft
<1>1. ASSUME NEW i \in Ready(rows),
             nodes' = [nodes EXCEPT ![cur] = Mark(rows, {i}, "running")],
             stage' = "node", cur' = cur, node' = i
      PROVE  RowsLeft
  <2>1. nodes'[cur] = Mark(rows, {i}, "running")
    BY <1>1 DEF TypeOK
  <2>2. "running" \in RowStatuses
    BY DEF RowStatuses
  <2>3. \A k \in DOMAIN nodes'[cur] : nodes'[cur][k].status = "running" => k = i
    BY <2>1, <2>2, MarkProperties DEF WithStatus
  <2> QED
    BY <1>1, <2>3 DEF RowsLeft, WithStatus
<1>2. CASE nodes' = [nodes EXCEPT ![cur] = rows]
  BY <1>2, QuietRows
<1> QED
  BY <1>1, <1>2 DEF RunNext

LEMMA AttemptRows ==
    ASSUME TypeOK, cur \in Jobs, NEW rows \in Seq(Rows), WithStatus(rows, "running") = {},
           BeginAttempt(rows) \/ Continue(rows)
    PROVE  RowsLeft
BY QuietRows, RunNextRows DEF BeginAttempt, Continue

(* The rows of the worker's job, and what marking its node leaves of them. *)
LEMMA OwnRows ==
    ASSUME WebInv, RunningInv, cur \in WebJobs
    PROVE  /\ nodes[cur] \in Seq(Rows) /\ cur \in Jobs
           /\ stage # "node" => WithStatus(nodes[cur], "running") = {}
           /\ \A s \in RowStatuses \ {"running"} :
                 stage = "node" =>
                     /\ Mark(nodes[cur], {node}, s) \in Seq(Rows)
                     /\ WithStatus(Mark(nodes[cur], {node}, s), "running") = {}
<1>1. cur \in Jobs /\ nodes[cur] \in Seq(Rows)
  BY OwnFacts DEF WebInv, TypeOK
<1>2. stage # "node" => WithStatus(nodes[cur], "running") = {}
  BY DEF RunningInv, RunningRows
<1>3. ASSUME NEW s \in RowStatuses \ {"running"}, stage = "node"
      PROVE  /\ Mark(nodes[cur], {node}, s) \in Seq(Rows)
             /\ WithStatus(Mark(nodes[cur], {node}, s), "running") = {}
  <2>1. WithStatus(nodes[cur], "running") \subseteq {node}
    BY DEF RunningInv, RunningRows
  <2> QED
    BY <1>1, <1>3, <2>1, MarkProperties DEF WithStatus
<1> QED
  BY <1>1, <1>2, <1>3

LEMMA RunStepRows ==
    ASSUME WebInv, RunningInv, cur \in WebJobs, RunStep
    PROVE  RowsLeft
<1> USE DEF At
<1>0. /\ TypeOK /\ cur \in Jobs /\ nodes[cur] \in Seq(Rows) /\ status[cur] # "absent"
      /\ cur \notin SlackJobs
  BY OwnRows, OwnFacts DEF WebInv
<1>1. CASE PlanDone
  <2>1. PICK plan \in Plans : BeginAttempt(Insert(nodes[cur], plan))
    BY <1>0, <1>1 DEF PlanDone
  <2>2. stage # "node"
    BY <1>1 DEF PlanDone
  <2>3. /\ Insert(nodes[cur], plan) \in Seq(Rows)
        /\ WithStatus(Insert(nodes[cur], plan), "running") = {}
    BY <1>0, <2>2, OwnRows, InsertProperties, RunningAfterInsert
  <2> QED
    BY <1>0, <2>1, <2>3, AttemptRows
<1>2. CASE PlanError \/ ReviewError \/ RcaDone \/ ReplanError \/ ReviewPassed \/ ReviewRejected
  <2>1. stage # "node" /\ UNCHANGED nodes
    BY <1>2 DEF PlanError, ReviewError, RcaDone, ReplanError, ReviewPassed, ReviewRejected
  <2> QED
    BY <2>1, OwnRows DEF RowsLeft
<1>3. CASE NodeFailed
  <2>1. /\ stage = "node"
        /\ nodes' = [nodes EXCEPT ![cur] = Mark(nodes[cur], {node}, "failed")]
    BY <1>3 DEF NodeFailed
  <2>2. WithStatus(Mark(nodes[cur], {node}, "failed"), "running") = {}
    BY <2>1, OwnRows DEF RowStatuses
  <2> QED
    BY <1>0, <2>1, <2>2, QuietRows
<1>4. CASE NodeOk
  <2>1. stage = "node" /\ Continue(Mark(nodes[cur], {node}, "completed"))
    BY <1>0, <1>4 DEF NodeOk
  <2>2. /\ Mark(nodes[cur], {node}, "completed") \in Seq(Rows)
        /\ WithStatus(Mark(nodes[cur], {node}, "completed"), "running") = {}
    BY <2>1, OwnRows DEF RowStatuses
  <2> QED
    BY <1>0, <2>1, <2>2, AttemptRows
<1>5. CASE BetweenNodes
  <2>1. stage = "between" /\ Continue(nodes[cur])
    BY <1>5 DEF BetweenNodes
  <2> QED
    BY <1>0, <2>1, OwnRows, AttemptRows
<1>6. CASE ReplanDone
  <2>1. PICK plan \in Plans :
          \/ nodes' = [nodes EXCEPT ![cur] = Replace(nodes[cur], plan)]
          \/ BeginAttempt(Replace(nodes[cur], plan))
    BY <1>0, <1>6 DEF ReplanDone
  <2>2. /\ Replace(nodes[cur], plan) \in Seq(Rows)
        /\ WithStatus(Replace(nodes[cur], plan), "running") = {}
    BY <1>0, RunningAfterReplace
  <2> QED
    BY <1>0, <2>1, <2>2, QuietRows, AttemptRows
<1> QED
  BY <1>1, <1>2, <1>3, <1>4, <1>5, <1>6 DEF RunStep

LEMMA RunStepKeepsRunning ==
    ASSUME WebInv, RunningInv, RunStep
    PROVE  RunningInv'
<1>1. Apart /\ stage # "down" /\ NoJob \notin WebJobs
  BY RunStepApart DEF WebInv, Working, WebJobs, Jobs, NoJob
<1> SUFFICES ASSUME NEW j \in WebJobs, NEW i \in WithStatus(nodes'[j], "running")
             PROVE  \/ stage' = "node" /\ cur' = j /\ node' = i
                    \/ cur' # j /\ status'[j] \in {"executing", "cancelling"}
  BY DEF RunningInv, RunningRows
<1>2. CASE j = cur
  BY <1>2, RunStepRows DEF RowsLeft
<1>3. CASE j # cur
  <2>1. nodes'[j] = nodes[j] /\ status'[j] = status[j] /\ cur' # j
    BY <1>1, <1>3 DEF Apart, WebJobs
  <2> QED
    BY <1>3, <2>1 DEF RunningInv, RunningRows
<1> QED
  BY <1>2, <1>3

LEMMA ResumedRows ==
    ASSUME NEW rows \in Seq(Rows)
    PROVE  WithStatus(Mark(rows, WithStatus(rows, "running"), "pending"), "running") = {}
<1> DEFINE I == WithStatus(rows, "running")
           new == Mark(rows, I, "pending")
<1>1. "pending" \in RowStatuses
  BY DEF RowStatuses
<1>2. /\ DOMAIN new = DOMAIN rows
      /\ \A i \in DOMAIN rows : new[i].status = IF i \in I THEN "pending" ELSE rows[i].status
  BY <1>1, MarkProperties
<1> HIDE DEF new
<1>3. WithStatus(new, "running") = {}
  BY <1>2 DEF WithStatus
<1> QED
  BY <1>3 DEF new

(* A job that is taken up has no running row left.                         *)
LEMMA BeginRunKeepsRunning ==
    ASSUME TypeOK, RunningInv, NEW j \in Jobs, BeginRun(j), cur \notin Jobs,
           status[j] # "absent", WithStatus(nodes'[j], "running") = {} \/ j \notin WebJobs,
           \A k \in Jobs \ {j} : nodes'[k] = nodes[k]
    PROVE  RunningInv'
<1> SUFFICES ASSUME NEW k \in WebJobs, NEW i \in WithStatus(nodes'[k], "running")
             PROVE  cur' # k /\ status'[k] \in {"executing", "cancelling"}
  BY DEF RunningInv, RunningRows
<1>1. k # j /\ k \in Jobs /\ nodes'[k] = nodes[k]
  BY DEF WebJobs
<1>2. status[k] \in {"executing", "cancelling"}
  BY <1>1 DEF RunningInv, RunningRows
<1>3. status' = [status EXCEPT ![j] = "planning"] /\ cur' = j
  BY DEF BeginRun, Write
<1> QED
  BY <1>1, <1>2, <1>3 DEF TypeOK

LEMMA ResumeKeepsRunning ==
    ASSUME TypeOK, RunningInv, NEW j \in Jobs, Resume(j), cur \notin Jobs
    PROVE  RunningInv'
<1>1. CASE status[j] = "absent"
  <2>1. UNCHANGED <<status, nodes, cur>>
    BY <1>1 DEF Resume
  <2> QED
    BY <2>1 DEF RunningInv, RunningRows, WebJobs
<1>2. CASE status[j] # "absent"
  <2>1. /\ BeginRun(j) /\ nodes[j] \in Seq(Rows)
        /\ nodes' = [nodes EXCEPT ![j] =
                        Mark(nodes[j], WithStatus(nodes[j], "running"), "pending")]
    BY <1>2 DEF Resume, TypeOK
  <2>2. WithStatus(nodes'[j], "running") = {} /\ \A k \in Jobs \ {j} : nodes'[k] = nodes[k]
    BY <2>1, ResumedRows DEF TypeOK
  <2> QED
    BY <1>2, <2>1, <2>2, BeginRunKeepsRunning
<1> QED
  BY <1>1, <1>2

LEMMA RunningStep ==
    ASSUME WebInv, RunningInv, [Next]_vars
    PROVE  RunningInv'
<1>0. /\ TypeOK /\ NotCreated /\ status \in [Jobs -> Statuses] /\ nodes \in [Jobs -> Seq(Rows)]
      /\ cur \in Jobs <=> stage \in Working
      /\ WebJobs \subseteq Jobs
  BY DEF WebInv, TypeOK, WebJobs
<1>1. CASE RunStep
  BY <1>1, RunStepKeepsRunning
<1>2. CASE Poll
  <2>1. PICK j \in Jobs : status[j] = "pending" /\ BeginRun(j)
    BY <1>2 DEF Poll
  <2>2. cur \notin Jobs /\ UNCHANGED nodes
    BY <1>0, <1>2 DEF Poll, CanClaim, Working
  <2>3. WithStatus(nodes[j], "running") = {} \/ j \notin WebJobs
    BY <2>1, <2>2 DEF RunningInv, RunningRows
  <2> QED
    BY <1>0, <2>1, <2>2, <2>3, BeginRunKeepsRunning
<1>3. CASE ResumeNext
  <2>1. PICK j \in toResume : Resume(j)
    BY <1>3 DEF ResumeNext
  <2>2. j \in Jobs /\ cur \notin Jobs
    BY <1>0, <1>3 DEF ResumeNext, TypeOK, Working
  <2> QED
    BY <1>0, <2>1, <2>2, ResumeKeepsRunning
<1>4. CASE Start
  <2>1. cur \notin Jobs
    BY <1>0, <1>4 DEF Start, Working
  <2>2. CASE Interrupted = {}
    BY <1>0, <1>4, <2>1, <2>2 DEF Start, RunningInv, RunningRows
  <2>3. CASE Interrupted # {}
    <3>1. PICK j \in Interrupted : Resume(j)
      BY <1>4, <2>3 DEF Start
    <3> QED
      BY <1>0, <2>1, <3>1, ResumeKeepsRunning DEF Interrupted
  <2> QED
    BY <2>2, <2>3
<1>5. CASE BreakerTimeout \/ Stop \/ UNCHANGED vars
  <2>1. UNCHANGED <<status, nodes, stage, cur, node>>
    BY <1>5 DEF BreakerTimeout, Stop, vars, table, worker
  <2> QED
    BY <2>1 DEF RunningInv, RunningRows
(* The process dies: a job whose node was running is 'executing', or its   *)
(* cancellation was requested.                                             *)
<1>6. CASE Crash \/ Exit
  <2>1. UNCHANGED <<status, nodes>> /\ cur' \notin WebJobs
    BY <1>6 DEF Crash, Exit, Down, table, WebJobs, Jobs, NoJob
  <2>2. stage = "node" /\ cur \in WebJobs => status[cur] \in {"executing", "cancelling"}
    BY OwnFacts DEF StageStatus
  <2> QED
    BY <2>1, <2>2 DEF RunningInv, RunningRows
<1>7. CASE CreateJob
  BY <1>0, <1>7, CreateFacts DEF RunningInv, RunningRows, Handler, worker
<1>8. ASSUME NEW j \in Jobs, CancelJob(j)
      PROVE  RunningInv'
  <2>1. /\ status' = [status EXCEPT ![j] = "cancelling"]
        /\ UNCHANGED <<nodes, stage, cur, node>>
    BY <1>0, <1>8, CancelFacts DEF Handler, worker
  <2> QED
    BY <1>0, <2>1 DEF RunningInv, RunningRows
<1>9. ASSUME NEW j \in Jobs, DeleteJob(j)
      PROVE  RunningInv'
  <2>1. /\ nodes' = [nodes EXCEPT ![j] = << >>] /\ status' = [status EXCEPT ![j] = "absent"]
        /\ UNCHANGED <<stage, cur, node>>
    BY <1>0, <1>9, DeleteFacts DEF Handler, worker
  <2>2. WithStatus(nodes'[j], "running") = {}
    BY <1>0, <2>1 DEF WithStatus
  <2> QED
    BY <1>0, <2>1, <2>2 DEF RunningInv, RunningRows
<1>10. ASSUME NEW j \in Jobs, SlackButton(j)
       PROVE  RunningInv'
  BY <1>0, <1>10, ButtonFacts DEF RunningInv, RunningRows, Handler, worker
<1> QED
  BY <1>1, <1>2, <1>3, <1>4, <1>5, <1>6, <1>7, <1>8, <1>9, <1>10
  DEF Next, WorkerStep, RunStep, HandlerStep

(* A node row of a web job is left running only by a crash, and then its   *)
(* job is found again by start() unless its cancellation was requested     *)
(* before, whatever the Slack jobs do meanwhile.                           *)
THEOREM RunningOwnership == Spec => []RunningNodeOwned
<1>1. Init => RunningInv
  BY DEF Init, RunningInv, RunningRows, WithStatus, WebJobs
<1>2. WebInv /\ RunningInv /\ [Next]_vars => RunningInv'
  BY RunningStep
<1>3. WebInv /\ RunningInv => RunningNodeOwned
  BY DEF WebInv, ExecutingIsOwned, RunningInv, RunningRows, RunningNodeOwned
<1> QED
  BY <1>1, <1>2, <1>3, WebInvariant, PTL DEF Spec

-----------------------------------------------------------------------------
(* The review budget.  A web job that can still be rejected has a rejection*)
(* left: the counter in the row, not the loop over attempts, is what ends  *)
(* the retries of a job that is resumed.                                   *)

BudgetInv ==
    /\ ReviewBudget
    /\ \A j \in WebJobs : status[j] \in {"absent", "pending"} => reviewCount[j] = 0
    /\ \A j \in WebJobs :
          status[j] = "executing" \/ j \in toResume => reviewCount[j] < MaxReviews
    /\ cur \in WebJobs /\ stage \in {"planning", "node", "between", "reviewing", "replanning"}
          => reviewCount[cur] < MaxReviews

LEMMA BudgetInit == Init => BudgetInv
BY BoundsAssumption DEF Init, BudgetInv, ReviewBudget, WebJobs, Jobs, NoJob

(* A run of a web job that ends or goes on with the counter as it was.     *)
LEMMA RunOutcomeKeepsBudget ==
    ASSUME WebInv, BudgetInv, cur \in WebJobs, RunOutcome, UNCHANGED <<reviewCount, toResume>>,
           attempt' <= reviewCount[cur], reviewCount[cur] < MaxReviews \/ stage' = "idle"
    PROVE  BudgetInv'
<1>1. PICK s \in {"failed", "cancelled", "executing", "reviewing"} :
        /\ status' = [status EXCEPT ![cur] = s]
        /\ s = "executing" => reviewCount[cur] < MaxReviews
  BY DEF RunOutcome, Ends, Goes
<1>2. \/ stage' = "idle" /\ cur' = NoJob
      \/ stage' \in {"node", "reviewing"} /\ cur' = cur /\ reviewCount[cur] < MaxReviews
  BY DEF RunOutcome, Ends, Goes
<1>3. NoJob \notin WebJobs /\ WebJobs \subseteq Jobs
  BY DEF NoJob, WebJobs, Jobs
<1>4. ReviewBudget'
  BY <1>2, <1>3 DEF BudgetInv, ReviewBudget
<1>5. \A j \in WebJobs : status'[j] \in {"absent", "pending"} => reviewCount'[j] = 0
  BY <1>1, <1>3, OwnFacts DEF BudgetInv
<1>6. \A j \in WebJobs :
         status'[j] = "executing" \/ j \in toResume' => reviewCount'[j] < MaxReviews
  BY <1>1, <1>3, OwnFacts DEF BudgetInv
<1> QED
  BY <1>2, <1>3, <1>4, <1>5, <1>6 DEF BudgetInv

LEMMA RejectionKeepsBudget ==
    ASSUME WebInv, BudgetInv, cur \in WebJobs, ReviewRejected
    PROVE  BudgetInv'
<1>0. /\ status \in [Jobs -> Statuses] /\ reviewCount \in [Jobs -> Nat] /\ attempt \in Nat
      /\ WebJobs \subseteq Jobs /\ cur \in Jobs /\ toResume \cap WebJobs = {}
  BY OwnFacts DEF WebInv, TypeOK, WebJobs
<1>1. stage = "reviewing" /\ status[cur] \in {"reviewing", "cancelling"}
  BY OwnFacts DEF ReviewRejected, At, StageStatus
<1>2. /\ reviewCount' = [reviewCount EXCEPT ![cur] = reviewCount[cur] + 1]
      /\ stage' = IF reviewCount[cur] + 1 >= MaxReviews THEN "rca" ELSE "replanning"
      /\ UNCHANGED <<status, cur, attempt, toResume>>
  BY <1>1 DEF ReviewRejected, Exhausted, At
<1>3. reviewCount[cur] < MaxReviews /\ attempt <= reviewCount[cur]
  BY <1>1 DEF BudgetInv, ReviewBudget
<1>4. ReviewBudget'
  BY <1>0, <1>2, <1>3, BoundsAssumption DEF BudgetInv, ReviewBudget
<1>5. stage' = "replanning" => reviewCount'[cur'] < MaxReviews
  BY <1>0, <1>2, BoundsAssumption
<1>6. \A j \in WebJobs : status'[j] \in {"absent", "pending", "executing"} \/ j \in toResume'
          => status[j] = status'[j] /\ reviewCount'[j] = reviewCount[j]
  BY <1>0, <1>1, <1>2
<1>7. stage' \in {"rca", "replanning"}
  BY <1>2
<1> QED
  BY <1>2, <1>4, <1>5, <1>6, <1>7 DEF BudgetInv

LEMMA RunStepKeepsBudget ==
    ASSUME WebInv, BudgetInv, RunStep
    PROVE  BudgetInv'
<1> USE DEF At
<1>1. CASE cur \notin WebJobs
  <2>1. /\ \A j \in WebJobs : status'[j] = status[j] /\ reviewCount'[j] = reviewCount[j]
        /\ cur' \notin WebJobs /\ UNCHANGED toResume
    BY <1>1, RunStepApart DEF WebInv, Apart, WebJobs, Jobs, NoJob
  <2> QED
    BY <2>1 DEF BudgetInv, ReviewBudget
<1>2. CASE cur \in WebJobs
  <2>0. /\ UNCHANGED toResume /\ attempt \in Nat /\ reviewCount[cur] \in Nat
        /\ attempt <= reviewCount[cur]
    BY <1>2, RunStepApart, OwnFacts DEF WebInv, TypeOK, BudgetInv, ReviewBudget
  <2>1. CASE PlanDone
    <3>1. stage = "planning" /\ attempt' = 0 /\ UNCHANGED reviewCount /\ ~ReviewPassed /\ ~ReviewRejected
      BY <2>1 DEF PlanDone, ReviewPassed, ReviewRejected
    <3>2. reviewCount[cur] < MaxReviews /\ attempt' <= reviewCount[cur]
      BY <1>2, <2>0, <3>1 DEF BudgetInv
    <3> QED
      BY <1>2, <2>0, <3>1, <3>2, RunStepOutcome, RunOutcomeKeepsBudget
  <2>2. CASE PlanError \/ NodeFailed \/ ReviewError \/ RcaDone \/ ReplanError
    <3>1. FailJob /\ UNCHANGED <<reviewCount, attempt>>
      BY <2>2 DEF PlanError, NodeFailed, ReviewError, RcaDone, ReplanError
    <3>2. stage' = "idle" /\ RunOutcome
      BY <1>2, <3>1, FailJobEnds DEF RunOutcome, Ends
    <3> QED
      BY <1>2, <2>0, <3>1, <3>2, RunOutcomeKeepsBudget
  <2>3. CASE NodeOk \/ BetweenNodes
    <3>1. stage \in {"node", "between"} /\ UNCHANGED <<reviewCount, attempt>>
      BY <2>3 DEF NodeOk, BetweenNodes
    <3>2. reviewCount[cur] < MaxReviews /\ ~ReviewPassed /\ ~ReviewRejected
      BY <1>2, <3>1 DEF BudgetInv, ReviewPassed, ReviewRejected
    <3> QED
      BY <1>2, <2>0, <3>1, <3>2, RunStepOutcome, RunOutcomeKeepsBudget
  <2>4. CASE ReviewPassed
    <3>1. UNCHANGED reviewCount /\ status' = [status EXCEPT ![cur] = "done"] /\ cur' \notin WebJobs
      BY <1>2, <2>4, OwnFacts DEF ReviewPassed, Release, WebJobs, Jobs, NoJob
    <3> QED
      BY <1>2, <2>0, <3>1, OwnFacts DEF BudgetInv, ReviewBudget, WebJobs
  <2>5. CASE ReviewRejected
    BY <1>2, <2>5, RejectionKeepsBudget
  <2>6. CASE ReplanDone
    <3>1. stage = "replanning" /\ UNCHANGED reviewCount /\ ~ReviewPassed /\ ~ReviewRejected
      BY <2>6 DEF ReplanDone, ReviewPassed, ReviewRejected
    <3>2. attempt < reviewCount[cur] /\ attempt < MaxReviews /\ reviewCount[cur] < MaxReviews
      BY <1>2, <3>1 DEF BudgetInv, ReviewBudget
    <3>3. attempt' = attempt + 1
      BY <1>2, <2>0, <2>6, <3>2, OwnFacts, BoundsAssumption DEF ReplanDone
    <3> QED
      BY <1>2, <2>0, <2>6, <3>1, <3>2, <3>3, RunStepOutcome, RunOutcomeKeepsBudget
  <2> QED
    BY <2>1, <2>2, <2>3, <2>4, <2>5, <2>6 DEF RunStep
<1> QED
  BY <1>1, <1>2

(* A job is taken up with a rejection left, if it is a web job.            *)
LEMMA BeginRunKeepsBudget ==
    ASSUME TypeOK, BudgetInv, NEW j \in Jobs, status[j] # "absent", BeginRun(j),
           j \in WebJobs => reviewCount[j] < MaxReviews, UNCHANGED reviewCount,
           \A k \in toResume' : k \in toResume \/ status[k] = "executing"
    PROVE  BudgetInv'
<1>1. status' = [status EXCEPT ![j] = "planning"] /\ status \in [Jobs -> Statuses]
  BY DEF BeginRun, Write, TypeOK
<1>2. reviewCount \in [Jobs -> Nat] /\ WebJobs \subseteq Jobs
  BY DEF TypeOK, WebJobs
<1>3. ReviewBudget'
  BY <1>2 DEF BeginRun, BudgetInv, ReviewBudget
<1> QED
  BY <1>1, <1>2, <1>3 DEF BeginRun, BudgetInv

LEMMA ResumeKeepsBudget ==
    ASSUME TypeOK, BudgetInv, NEW j \in Jobs, Resume(j), UNCHANGED reviewCount, cur \notin Jobs,
           j \in toResume \/ status[j] = "executing",
           \A k \in toResume' : k \in toResume \/ status[k] = "executing"
    PROVE  BudgetInv'
<1>1. CASE status[j] = "absent"
  <2>1. UNCHANGED <<status, cur>> /\ WebJobs \subseteq Jobs
    BY <1>1 DEF Resume, WebJobs
  <2> QED
    BY <2>1 DEF BudgetInv, ReviewBudget
<1>2. CASE status[j] # "absent"
  BY <1>2, BeginRunKeepsBudget DEF Resume, BudgetInv
<1> QED
  BY <1>1, <1>2

LEMMA BudgetStep ==
    ASSUME WebInv, BudgetInv, [Next]_vars
    PROVE  BudgetInv'
<1>0. /\ TypeOK /\ NotCreated /\ status \in [Jobs -> Statuses] /\ reviewCount \in [Jobs -> Nat]
      /\ WebJobs \subseteq Jobs /\ (cur \in Jobs <=> stage \in Working)
  BY DEF WebInv, TypeOK, WebJobs
<1>1. CASE RunStep
  BY <1>1, RunStepKeepsBudget
<1>2. CASE Poll
  <2>1. PICK j \in Jobs : status[j] = "pending" /\ BeginRun(j)
    BY <1>2 DEF Poll
  <2>2. UNCHANGED <<reviewCount, toResume>> /\ (j \in WebJobs => reviewCount[j] < MaxReviews)
    BY <1>2, <2>1, BoundsAssumption DEF Poll, BudgetInv
  <2> QED
    BY <1>0, <2>1, <2>2, BeginRunKeepsBudget
<1>3. CASE ResumeNext
  <2>1. PICK j \in toResume : toResume' = toResume \ {j} /\ Resume(j)
    BY <1>3 DEF ResumeNext
  <2>2. j \in Jobs /\ cur \notin Jobs /\ UNCHANGED reviewCount
    BY <1>0, <1>3 DEF ResumeNext, TypeOK, Working
  <2> QED
    BY <1>0, <2>1, <2>2, ResumeKeepsBudget
<1>4. CASE Start
  <2>1. cur \notin Jobs /\ UNCHANGED reviewCount
    BY <1>0, <1>4 DEF Start, Working
  <2>2. CASE Interrupted = {}
    BY <1>0, <1>4, <2>1, <2>2 DEF Start, BudgetInv, ReviewBudget
  <2>3. CASE Interrupted # {}
    <3>1. PICK j \in Interrupted : toResume' = Interrupted \ {j} /\ Resume(j)
      BY <1>4, <2>3 DEF Start
    <3> QED
      BY <1>0, <2>1, <3>1, ResumeKeepsBudget DEF Interrupted
  <2> QED
    BY <2>2, <2>3
<1>5. CASE BreakerTimeout \/ Stop \/ UNCHANGED vars
  <2>1. UNCHANGED <<status, reviewCount, stage, cur, attempt, toResume>>
    BY <1>5 DEF BreakerTimeout, Stop, vars, table, worker
  <2> QED
    BY <2>1 DEF BudgetInv, ReviewBudget
<1>6. CASE Crash \/ Exit
  <2>1. UNCHANGED <<status, reviewCount>> /\ toResume' = {} /\ cur' \notin WebJobs
    BY <1>6 DEF Crash, Exit, Down, table, WebJobs, Jobs, NoJob
  <2> QED
    BY <2>1 DEF BudgetInv, ReviewBudget
<1>7. CASE CreateJob
  <2>1. /\ created + 1 \in Jobs /\ status[created + 1] = "absent"
        /\ status' = [status EXCEPT ![created + 1] = "pending"]
        /\ UNCHANGED <<reviewCount, stage, cur, attempt, toResume>>
    BY <1>0, <1>7, CreateFacts DEF Handler, worker
  <2> QED
    BY <1>0, <2>1 DEF BudgetInv, ReviewBudget
<1>8. ASSUME NEW j \in Jobs, CancelJob(j)
      PROVE  BudgetInv'
  <2>1. /\ status' = [status EXCEPT ![j] = "cancelling"]
        /\ UNCHANGED <<reviewCount, stage, cur, attempt, toResume>>
    BY <1>0, <1>8, CancelFacts DEF Handler, worker
  <2> QED
    BY <1>0, <2>1 DEF BudgetInv, ReviewBudget
<1>9. ASSUME NEW j \in Jobs, DeleteJob(j)
      PROVE  BudgetInv'
  <2>1. /\ status[j] \in Terminal /\ status' = [status EXCEPT ![j] = "absent"]
        /\ reviewCount' = [reviewCount EXCEPT ![j] = 0]
        /\ UNCHANGED <<stage, cur, attempt, toResume>>
    BY <1>0, <1>9, DeleteFacts DEF Handler, worker
  <2>2. cur \in WebJobs => cur # j
    BY <2>1, OwnFacts DEF Terminal
  <2> QED
    BY <1>0, <2>1, <2>2, BoundsAssumption DEF BudgetInv, ReviewBudget
<1>10. ASSUME NEW j \in Jobs, SlackButton(j)
       PROVE  BudgetInv'
  BY <1>0, <1>10, ButtonFacts DEF BudgetInv, ReviewBudget, Handler, worker
<1> QED
  BY <1>1, <1>2, <1>3, <1>4, <1>5, <1>6, <1>7, <1>8, <1>9, <1>10
  DEF Next, WorkerStep, RunStep, HandlerStep

(* No web job is reviewed more often than its budget, whatever restarts    *)
(* happen, and the loop over attempts never ends by running out.           *)
THEOREM ReviewBudgetHolds == Spec => []ReviewBudget
<1>1. WebInv /\ BudgetInv /\ [Next]_vars => BudgetInv'
  BY BudgetStep
<1>2. BudgetInv => ReviewBudget
  BY DEF BudgetInv
<1> QED
  BY <1>1, <1>2, BudgetInit, WebInvariant, PTL DEF Spec

-----------------------------------------------------------------------------
(* The end of a run.  Attempts are bounded by TypeOK, the nodes left and   *)
(* the stages ahead are finite, so no run goes on for ever once each step  *)
(* of the worker lessens them in this order; that the worker does take     *)
(* its steps is the fairness assumed, and left to the model checker.       *)

LEMMA MarkLeft ==
    ASSUME NEW rows \in Seq(Rows), NEW I, NEW s \in RowStatuses \ {"pending"}
    PROVE  Left(Mark(rows, I, s)) = Left(rows) \ I
<1> DEFINE new == Mark(rows, I, s)
<1>1. /\ DOMAIN new = DOMAIN rows
      /\ \A i \in DOMAIN rows : new[i].status = IF i \in I THEN s ELSE rows[i].status
  BY MarkProperties
<1> HIDE DEF new
<1>2. Left(new) = Left(rows) \ I
  BY <1>1 DEF Left, WithStatus
<1> QED
  BY <1>2 DEF new

LEMMA EndIsNearer ==
    ASSUME cur \in Jobs, FailJob \/ CancelRun \/ Release
    PROVE  Nearer
BY DEF FailJob, CancelRun, Release, Nearer, Jobs, NoJob

LEMMA ContinueIsNearer ==
    ASSUME TypeOK, cur \in Jobs, stage \in {"node", "between"}, attempt' = attempt,
           NEW rows \in Seq(Rows), Left(rows) \subseteq Left(nodes[cur]), Continue(rows)
    PROVE  Nearer
<1>1. attempt' >= attempt
  BY DEF TypeOK
<1>2. CASE FailJob
  BY <1>2, EndIsNearer
<1>3. ASSUME NEW i \in Ready(rows),
             nodes' = [nodes EXCEPT ![cur] = Mark(rows, {i}, "running")], stage' = "node"
      PROVE  Nearer
  <2>1. nodes'[cur] = Mark(rows, {i}, "running")
    BY <1>3 DEF TypeOK
  <2>2. Left(nodes'[cur]) = Left(rows) \ {i}
    BY <2>1, MarkLeft DEF RowStatuses
  <2>3. i \in Left(rows)
    BY DEF Ready, Left
  <2> QED
    BY <1>1, <1>3, <2>2, <2>3 DEF Nearer
<1>4. ASSUME nodes' = [nodes EXCEPT ![cur] = rows], EnterReview(rows)
      PROVE  Nearer
  <2>1. nodes'[cur] = rows /\ stage' = "reviewing"
    BY <1>4 DEF TypeOK, EnterReview
  <2>2. Ahead' < Ahead
    BY <2>1 DEF Ahead
  <2> QED
    BY <1>1, <2>1, <2>2 DEF Nearer
<1> QED
  BY <1>2, <1>3, <1>4 DEF Continue, RunNext

LEMMA RunStepIsNearer ==
    ASSUME TypeOK, cur \in Jobs, RunStep
    PROVE  Nearer
<1> USE DEF At
<1>0. nodes[cur] \in Seq(Rows) /\ attempt \in 0 .. MaxReviews
  BY DEF TypeOK
<1>1. CASE PlanDone
  <2>1. CASE FailJob
    BY <2>1, EndIsNearer
  <2>2. CASE \E rows : BeginAttempt(rows)
    BY <1>1, <2>2
    DEF PlanDone, BeginAttempt, RunNext, FailJob, CancelRun, Release, EnterReview, Nearer
  <2> QED
    BY <1>1, <2>1, <2>2 DEF PlanDone
<1>2. CASE PlanError \/ NodeFailed \/ ReviewPassed \/ ReviewError \/ RcaDone \/ ReplanError
  BY <1>2, EndIsNearer DEF PlanError, NodeFailed, ReviewPassed, ReviewError, RcaDone, ReplanError
<1>3. CASE NodeOk
  <2> DEFINE rows == Mark(nodes[cur], {node}, "completed")
  <2>1. rows \in Seq(Rows) /\ Left(rows) \subseteq Left(nodes[cur])
    BY <1>0, MarkProperties, MarkLeft DEF RowStatuses
  <2>2. stage = "node" /\ attempt' = attempt
    BY <1>3 DEF NodeOk
  <2>3. CASE cur \in SlackJobs
    <3>1. nodes'[cur] = rows /\ stage' = "between"
      BY <1>3, <2>3 DEF NodeOk, TypeOK
    <3>2. Ahead' < Ahead
      BY <2>2, <3>1 DEF Ahead
    <3> HIDE DEF rows
    <3> QED
      BY <1>0, <2>1, <2>2, <3>1, <3>2 DEF Nearer
  <2>4. CASE cur \notin SlackJobs
    <3>1. Continue(rows)
      BY <1>3, <2>4 DEF NodeOk
    <3> HIDE DEF rows
    <3> QED
      BY <2>1, <2>2, <3>1, ContinueIsNearer
  <2> QED
    BY <2>3, <2>4
<1>4. CASE BetweenNodes
  BY <1>0, <1>4, ContinueIsNearer DEF BetweenNodes
<1>5. CASE ReviewRejected
  <2>1. /\ stage = "reviewing" /\ stage' \in {"rca", "replanning"}
        /\ UNCHANGED <<nodes, attempt, cur>>
    BY <1>5 DEF ReviewRejected
  <2>2. Ahead' < Ahead
    BY <2>1 DEF Ahead
  <2> QED
    BY <1>0, <2>1, <2>2 DEF Nearer
<1>6. CASE ReplanDone
  <2>1. CASE FailJob
    BY <2>1, EndIsNearer
  <2>2. CASE attempt' = attempt + 1 /\ \E rows : BeginAttempt(rows)
    <3>1. stage' # "planning"
      BY <2>2 DEF BeginAttempt, RunNext, FailJob, CancelRun, Release, EnterReview
    <3> QED
      BY <1>0, <2>2, <3>1 DEF Nearer
  <2> QED
    BY <1>6, <2>1, <2>2 DEF ReplanDone
<1> QED
  BY <1>1, <1>2, <1>3, <1>4, <1>5, <1>6 DEF RunStep

(* Nothing but the worker takes its run anywhere, except that the process  *)
(* may end; rows disappear with their job, and none becomes pending.       *)
LEMMA RestIsNotBack ==
    ASSUME TypeOK, cur \in Jobs, [Next]_vars, ~WorkerStep
    PROVE  NotBack
<1>1. CASE Crash \/ Exit
  BY <1>1 DEF Crash, Exit, Down, NotBack, Jobs, NoJob
<1>2. CASE Start
  BY <1>2 DEF Start, TypeOK, Working
<1>3. CASE BreakerTimeout \/ Stop \/ UNCHANGED vars
  BY <1>3 DEF BreakerTimeout, Stop, vars, table, NotBack
<1>4. CASE CreateJob \/ \E j \in Jobs : CancelJob(j) \/ SlackButton(j)
  BY <1>4 DEF CreateJob, CancelJob, SlackButton, Handler, NotBack
<1>5. ASSUME NEW j \in Jobs, DeleteJob(j)
      PROVE  NotBack
  <2>1. UNCHANGED worker /\ nodes' = [nodes EXCEPT ![j] = << >>]
    BY <1>5 DEF DeleteJob, Handler
  <2>2. nodes'[cur] = nodes[cur] \/ nodes'[cur] = << >>
    BY <2>1 DEF TypeOK
  <2> QED
    BY <2>1, <2>2 DEF NotBack, Left, WithStatus
<1> QED
  BY <1>1, <1>2, <1>3, <1>4, <1>5 DEF Next, HandlerStep

(* Each step of the worker brings its run nearer to the end, and nothing   *)
(* that happens in between sets it back, with Slack buttons pressed and    *)
(* jobs deleted under the worker's hands.                                  *)
THEOREM RunsShorten == Spec => RunShortens
<1>1. ASSUME TypeOK, cur \in Jobs, WorkerStep
      PROVE  Nearer
  <2>1. ~Poll /\ ~ResumeNext
    BY <1>1 DEF TypeOK, Poll, CanClaim, ResumeNext, Working
  <2> QED
    BY <1>1, <2>1, RunStepIsNearer DEF WorkerStep, RunStep
<1>2. TypeOK /\ [Next]_vars
         => [(cur \in Jobs) => IF WorkerStep THEN Nearer ELSE NotBack]_vars
  BY <1>1, RestIsNotBack
<1> QED
  BY <1>2, TypeCorrect, PTL DEF Spec, RunShortens
=============================================================================
