------------------------ MODULE JobCompletionProofs ------------------------
(***************************************************************************)
(* When a web job is done, each of its nodes has run: proved for plans     *)
(* without cycles and without references to nodes that the plan does not   *)
(* contain, through retries, crashes and resumes that append plan to plan. *)
(***************************************************************************)
EXTENDS JobPipelineProofs

(* No cycle: every set of nodes has one that depends on none of the set.   *)
AcyclicPlan(plan) ==
    /\ \A i \in DOMAIN plan : plan[i] \subseteq DOMAIN plan
    /\ \A T \in SUBSET DOMAIN plan :
          T # {} => \E i \in T : plan[i] \cap T = {}

(* The same of the rows of a job, which may come from several plans; a row *)
(* that was not replaced depends on no row that was.                       *)
Kept(rows) == DOMAIN rows \ WithStatus(rows, "cancelled")

Acyclic(rows) ==
    \A T \in SUBSET DOMAIN rows :
        T # {} => \E i \in T : rows[i].deps \cap T = {}

Grounded(rows) ==
    Acyclic(rows) /\ \A i \in Kept(rows) : rows[i].deps \subseteq Kept(rows)

Finished(rows) ==
    \A i \in DOMAIN rows : rows[i].status \in {"completed", "cancelled"}

-----------------------------------------------------------------------------
(* The rows.                                                               *)

LEMMA MarkAcyclic ==
    ASSUME NEW rows \in Seq(Rows), NEW I, NEW s \in RowStatuses, Acyclic(rows)
    PROVE  Acyclic(Mark(rows, I, s))
<1> DEFINE new == Mark(rows, I, s)
<1>1. DOMAIN new = DOMAIN rows /\ \A i \in DOMAIN rows : new[i].deps = rows[i].deps
  BY MarkProperties
<1> HIDE DEF new
<1>2. Acyclic(new)
  BY <1>1 DEF Acyclic
<1> QED
  BY <1>2 DEF new

(* Marking rows that are kept leaves them kept.                            *)
LEMMA MarkGrounded ==
    ASSUME NEW rows \in Seq(Rows), NEW I, NEW s \in RowStatuses \ {"cancelled"},
           Grounded(rows), I \cap DOMAIN rows \subseteq Kept(rows)
    PROVE  Grounded(Mark(rows, I, s))
<1> DEFINE new == Mark(rows, I, s)
<1>1. /\ DOMAIN new = DOMAIN rows
      /\ \A i \in DOMAIN rows :
            /\ new[i].deps = rows[i].deps
            /\ new[i].status = IF i \in I THEN s ELSE rows[i].status
  BY MarkProperties
<1>2. Acyclic(new)
  BY MarkAcyclic DEF Grounded
<1> HIDE DEF new
<1>3. Kept(new) = Kept(rows)
  BY <1>1 DEF Kept, WithStatus
<1>4. \A i \in Kept(new) : new[i].deps \subseteq Kept(new)
  BY <1>1, <1>3 DEF Grounded, Kept
<1>5. Grounded(new)
  BY <1>2, <1>4 DEF Grounded
<1> QED
  BY <1>5 DEF new

(* The rows of a new plan depend on each other only, and on kept rows.     *)
LEMMA InsertGrounded ==
    ASSUME NEW rows \in Seq(Rows), NEW plan \in Plans, AcyclicPlan(plan), Grounded(rows)
    PROVE  Grounded(Insert(rows, plan))
<1> DEFINE new == Insert(rows, plan)
           fresh == [i \in DOMAIN plan |->
                [seq    |-> i,
                 deps   |-> {IF d \in DOMAIN plan THEN Len(rows) + d ELSE 0 : d \in plan[i]},
                 status |-> "pending"]]
<1>1. /\ plan \in Seq(SUBSET Nat) /\ DOMAIN plan = 1 .. Len(plan) /\ Len(plan) \in Nat
      /\ DOMAIN rows = 1 .. Len(rows) /\ Len(rows) \in Nat
  BY PlansAssumption
<1>2. /\ DOMAIN new = 1 .. (Len(rows) + Len(plan))
      /\ \A i \in 1 .. Len(plan) : new[Len(rows) + i] = fresh[i]
  <2>1. new = rows \o fresh
    BY DEF Insert
  <2>2. fresh \in Seq(Rows)
    <3>1. \A i \in DOMAIN plan : fresh[i] \in Rows
      BY <1>1 DEF Rows, RowStatuses
    <3>2. fresh \in [1 .. Len(plan) -> Rows]
      BY <1>1, <3>1
    <3> QED
      BY <1>1, <3>2
  <2>3. Len(fresh) = Len(plan)
    BY <1>1
  <2> HIDE DEF fresh, new
  <2>4. /\ new \in Seq(Rows) /\ Len(new) = Len(rows) + Len(plan)
        /\ \A k \in 1 .. Len(rows) + Len(plan) :
              new[k] = IF k <= Len(rows) THEN rows[k] ELSE fresh[k - Len(rows)]
    <3>1. /\ rows \o fresh \in Seq(Rows)
          /\ Len(rows \o fresh) = Len(rows) + Len(fresh)
          /\ \A k \in 1 .. Len(rows) + Len(fresh) :
                (rows \o fresh)[k] = IF k <= Len(rows) THEN rows[k]
                                     ELSE fresh[k - Len(rows)]
      BY <2>2, ConcatProperties
    <3> QED
      BY <2>1, <2>3, <3>1
  <2>5. ASSUME NEW i \in 1 .. Len(plan)
        PROVE  new[Len(rows) + i] = fresh[i]
    <3>1. /\ Len(rows) + i \in 1 .. Len(rows) + Len(plan) /\ ~(Len(rows) + i <= Len(rows))
          /\ (Len(rows) + i) - Len(rows) = i
      BY <1>1
    <3> QED
      BY <2>4, <3>1
  <2> QED
    BY <1>1, <2>4, <2>5
<1>3. \A i \in DOMAIN rows : new[i] = rows[i]
  BY InsertProperties
<1>4. ASSUME NEW i \in 1 .. Len(plan)
      PROVE  /\ new[Len(rows) + i].deps = {Len(rows) + d : d \in plan[i]}
             /\ new[Len(rows) + i].status = "pending"
  <2>1. \A d \in plan[i] : d \in DOMAIN plan
    BY <1>1 DEF AcyclicPlan
  <2>2. fresh[i].deps = {Len(rows) + d : d \in plan[i]} /\ fresh[i].status = "pending"
    BY <1>1, <2>1
  <2> QED
    BY <1>2, <2>2
<1> HIDE DEF new, fresh
<1>5. Acyclic(new)
  <2> SUFFICES ASSUME NEW T \in SUBSET DOMAIN new, T # {}
               PROVE  \E i \in T : new[i].deps \cap T = {}
    BY DEF Acyclic
  <2> DEFINE N == {i \in 1 .. Len(plan) : Len(rows) + i \in T}
  <2>1. CASE N = {}
    <3>1. T \subseteq DOMAIN rows
      <4> SUFFICES ASSUME NEW t \in T, t \notin 1 .. Len(rows)
                   PROVE  FALSE
        BY <1>1
      <4>1. t - Len(rows) \in 1 .. Len(plan) /\ Len(rows) + (t - Len(rows)) = t
        BY <1>1, <1>2
      <4>2. t - Len(rows) \in N
        BY <4>1
      <4> QED
        BY <2>1, <4>2
    <3>2. PICK i \in T : rows[i].deps \cap T = {}
      BY <3>1 DEF Grounded, Acyclic
    <3> QED
      BY <1>3, <3>1, <3>2
  <2>2. CASE N # {}
    <3>1. N \in SUBSET DOMAIN plan
      BY <1>1
    <3>2. PICK i \in N : plan[i] \cap N = {}
      BY <2>2, <3>1 DEF AcyclicPlan
    <3>3. i \in 1 .. Len(plan) /\ Len(rows) + i \in T
      BY <3>2
    <3>4. \A d \in plan[i] : d \in 1 .. Len(plan)
      BY <1>1, <3>3 DEF AcyclicPlan
    <3>5. new[Len(rows) + i].deps \cap T = {}
      BY <1>4, <3>2, <3>3, <3>4
    <3> QED
      BY <3>3, <3>5
  <2> QED
    BY <2>1, <2>2
<1>6. ASSUME NEW i \in Kept(new)
      PROVE  new[i].deps \subseteq Kept(new)
  <2>1. \A k \in 1 .. Len(plan) : Len(rows) + k \in Kept(new)
    BY <1>1, <1>2, <1>4 DEF Kept, WithStatus
  <2>2. Kept(rows) \subseteq Kept(new)
    BY <1>1, <1>2, <1>3 DEF Kept, WithStatus
  <2>3. CASE i \in DOMAIN rows
    <3>1. i \in Kept(rows) /\ new[i].deps = rows[i].deps
      BY <1>3, <2>3, <1>6 DEF Kept, WithStatus
    <3> QED
      BY <2>2, <3>1 DEF Grounded
  <2>4. CASE i \notin DOMAIN rows
    <3> DEFINE k == i - Len(rows)
    <3>1. k \in 1 .. Len(plan) /\ i = Len(rows) + k
      BY <1>1, <1>2, <1>6, <2>4 DEF Kept
    <3> HIDE DEF k
    <3>2. \A d \in plan[k] : d \in 1 .. Len(plan)
      BY <1>1, <3>1 DEF AcyclicPlan
    <3> QED
      BY <1>4, <2>1, <3>1, <3>2
  <2> QED
    BY <2>3, <2>4
<1>7. Grounded(new)
  BY <1>5, <1>6 DEF Grounded
<1> QED
  BY <1>7 DEF new

LEMMA ReplaceGrounded ==
    ASSUME NEW rows \in Seq(Rows), NEW plan \in Plans, AcyclicPlan(plan), Grounded(rows)
    PROVE  Grounded(Replace(rows, plan))
<1> DEFINE old == Mark(rows, DOMAIN rows, "cancelled")
<1>1. "cancelled" \in RowStatuses
  BY DEF RowStatuses
<1>2. old \in Seq(Rows) /\ Acyclic(old)
  BY <1>1, MarkProperties, MarkAcyclic DEF Grounded
<1>3. \A i \in DOMAIN old : old[i].status = "cancelled"
  BY <1>1, MarkProperties
<1> HIDE DEF old
<1>4. Grounded(old)
  BY <1>2, <1>3 DEF Grounded, Kept, WithStatus
<1>5. Grounded(Insert(old, plan))
  BY <1>2, <1>4, InsertGrounded
<1> QED
  BY <1>5 DEF Replace, old

(* When no row is ready, running or failed, none is pending: of a set of   *)
(* pending rows one depends on completed rows only.                        *)
LEMMA NothingReadyFinished ==
    ASSUME NEW rows \in Seq(Rows), Grounded(rows), Ready(rows) = {},
           WithStatus(rows, "running") = {}, WithStatus(rows, "failed") = {}
    PROVE  Finished(rows)
<1> DEFINE T == WithStatus(rows, "pending")
<1>1. \A i \in DOMAIN rows : rows[i].status \in {"pending", "completed", "cancelled"}
  <2>1. ASSUME NEW i \in DOMAIN rows
        PROVE  rows[i].status \in RowStatuses
    <3>1. rows[i] \in Rows
      OBVIOUS
    <3> QED
      BY <3>1 DEF Rows
  <2> QED
    BY <2>1 DEF RowStatuses, WithStatus
<1>2. ASSUME T # {}
      PROVE  FALSE
  <2>1. PICK i \in T : rows[i].deps \cap T = {}
    BY <1>2 DEF Grounded, Acyclic, WithStatus
  <2>2. i \in Kept(rows)
    BY <2>1 DEF Kept, WithStatus
  <2>3. rows[i].deps \subseteq Kept(rows)
    BY <2>2 DEF Grounded
  <2>4. rows[i].deps \subseteq WithStatus(rows, "completed")
    BY <1>1, <2>1, <2>3 DEF Kept, WithStatus
  <2> QED
    BY <2>1, <2>4 DEF Ready, DepsMet
<1> QED
  BY <1>1, <1>2 DEF Finished, WithStatus

-----------------------------------------------------------------------------
(* The steps.  From the moment a job goes to review its nodes have run, and*)
(* nothing touches them between that and the end of the run.               *)

DoneInv ==
    /\ \A j \in WebJobs : Grounded(nodes[j])
    /\ cur \in WebJobs /\ stage = "reviewing" => Finished(nodes[cur])
    /\ DoneComplete

(* The rows of the worker's job after a step inside a run.                 *)
RunGrounds ==
    /\ Grounded(nodes'[cur])
    /\ stage' = "reviewing" \/ status'[cur] = "done" => Finished(nodes'[cur])

(* A run that ends without being done, with well-grounded rows.            *)
LEMMA EndGrounds ==
    ASSUME WebInv, cur \in WebJobs, NEW rows, Grounded(rows),
           nodes' = [nodes EXCEPT ![cur] = rows], FailJob \/ CancelRun
    PROVE  RunGrounds
<1>1. cur \in Jobs /\ nodes'[cur] = rows
  BY OwnFacts DEF WebInv, TypeOK
<1>2. status'[cur] # "done" /\ stage' = "idle"
  BY <1>1, OwnFacts DEF FailJob, CancelRun, Release
<1> QED
  BY <1>1, <1>2 DEF RunGrounds

LEMMA RunNextGrounds ==
    ASSUME WebInv, cur \in WebJobs, NEW rows \in Seq(Rows), Grounded(rows),
           WithStatus(rows, "running") = {}, NEW st, st[cur] # "done", RunNext(st, rows)
    PROVE  RunGrounds
<1>1. cur \in Jobs /\ nodes \in [Jobs -> Seq(Rows)]
  BY OwnFacts DEF WebInv, TypeOK
<1>2. ASSUME NEW i \in Ready(rows),
             nodes' = [nodes EXCEPT ![cur] = Mark(rows, {i}, "running")],
             status' = st, stage' = "node"
      PROVE  RunGrounds
  <2>1. "running" \in RowStatuses \ {"cancelled"} /\ {i} \cap DOMAIN rows \subseteq Kept(rows)
    BY DEF RowStatuses, Ready, Kept, WithStatus
  <2>2. Grounded(Mark(rows, {i}, "running"))
    BY <2>1, MarkGrounded
  <2> QED
    BY <1>1, <1>2, <2>2 DEF RunGrounds
<1>3. CASE nodes' = [nodes EXCEPT ![cur] = rows] /\ FailJob
  BY <1>3, EndGrounds
<1>4. ASSUME nodes' = [nodes EXCEPT ![cur] = rows],
             Ready(rows) = {}, WithStatus(rows, "failed") = {}
      PROVE  RunGrounds
  <2>1. Finished(rows) /\ nodes'[cur] = rows
    BY <1>1, <1>4, NothingReadyFinished
  <2> QED
    BY <2>1 DEF RunGrounds
<1> QED
  BY <1>2, <1>3, <1>4 DEF RunNext

LEMMA AttemptGrounds ==
    ASSUME WebInv, cur \in WebJobs, NEW rows \in Seq(Rows), Grounded(rows),
           WithStatus(rows, "running") = {}, BeginAttempt(rows) \/ Continue(rows)
    PROVE  RunGrounds
<1>1. status[cur] # "done" /\ Write(cur, "executing")[cur] # "done"
  BY OwnFacts DEF Terminal
<1>2. CASE nodes' = [nodes EXCEPT ![cur] = rows] /\ (FailJob \/ CancelRun)
  BY <1>2, EndGrounds
<1>3. CASE RunNext(Write(cur, "executing"), rows) \/ RunNext(status, rows)
  BY <1>1, <1>3, RunNextGrounds
<1> QED
  BY <1>2, <1>3 DEF BeginAttempt, Continue

(* The node that the worker runs, marked when it returns.                  *)
LEMMA NodeGrounded ==
    ASSUME WebInv, DoneInv, DepsInv, cur \in WebJobs, stage = "node",
           NEW s \in RowStatuses \ {"cancelled"}
    PROVE  Grounded(Mark(nodes[cur], {node}, s))
<1>1. cur \in Jobs /\ nodes[cur] \in Seq(Rows)
  BY OwnFacts DEF WebInv, TypeOK
<1>2. {node} \cap DOMAIN nodes[cur] \subseteq Kept(nodes[cur])
  BY DEF DepsInv, NodeIsRunning, Kept, WithStatus
<1> QED
  BY <1>1, <1>2, MarkGrounded DEF DoneInv

LEMMA RunStepGrounds ==
    ASSUME \A plan \in Plans : AcyclicPlan(plan),
           WebInv, RunningInv, DepsInv, DoneInv, cur \in WebJobs, RunStep
    PROVE  RunGrounds
<1> USE DEF At
<1>0. /\ TypeOK /\ cur \in Jobs /\ nodes[cur] \in Seq(Rows) /\ Grounded(nodes[cur])
      /\ status[cur] # "absent" /\ cur \notin SlackJobs
  BY OwnRows, OwnFacts DEF WebInv, DoneInv
<1>1. CASE PlanDone
  <2>1. PICK plan \in Plans : BeginAttempt(Insert(nodes[cur], plan))
    BY <1>0, <1>1 DEF PlanDone
  <2>2. stage # "node"
    BY <1>1 DEF PlanDone
  <2>3. /\ Insert(nodes[cur], plan) \in Seq(Rows)
        /\ WithStatus(Insert(nodes[cur], plan), "running") = {}
    BY <1>0, <2>2, OwnRows, InsertProperties, RunningAfterInsert
  <2>4. Grounded(Insert(nodes[cur], plan))
    BY <1>0, InsertGrounded
  <2> QED
    BY <2>1, <2>3, <2>4, AttemptGrounds
<1>2. CASE PlanError \/ ReviewError \/ RcaDone \/ ReplanError
  <2>1. FailJob /\ UNCHANGED nodes
    BY <1>2 DEF PlanError, ReviewError, RcaDone, ReplanError
  <2>2. nodes' = [nodes EXCEPT ![cur] = nodes[cur]]
    BY <1>0, <2>1 DEF TypeOK
  <2> QED
    BY <1>0, <2>1, <2>2, EndGrounds
<1>3. CASE NodeFailed
  <2>1. /\ stage = "node" /\ FailJob
        /\ nodes' = [nodes EXCEPT ![cur] = Mark(nodes[cur], {node}, "failed")]
    BY <1>3 DEF NodeFailed
  <2>2. Grounded(Mark(nodes[cur], {node}, "failed"))
    BY <2>1, NodeGrounded DEF RowStatuses
  <2> QED
    BY <2>1, <2>2, EndGrounds
<1>4. CASE NodeOk
  <2>1. stage = "node" /\ Continue(Mark(nodes[cur], {node}, "completed"))
    BY <1>0, <1>4 DEF NodeOk
  <2>2. /\ Mark(nodes[cur], {node}, "completed") \in Seq(Rows)
        /\ WithStatus(Mark(nodes[cur], {node}, "completed"), "running") = {}
    BY <2>1, OwnRows DEF RowStatuses
  <2>3. Grounded(Mark(nodes[cur], {node}, "completed"))
    BY <2>1, NodeGrounded DEF RowStatuses
  <2> QED
    BY <2>1, <2>2, <2>3, AttemptGrounds
<1>5. CASE BetweenNodes
  <2>1. stage = "between" /\ Continue(nodes[cur])
    BY <1>5 DEF BetweenNodes
  <2> QED
    BY <1>0, <2>1, OwnRows, AttemptGrounds
<1>6. CASE ReviewPassed
  BY <1>0, <1>6 DEF ReviewPassed, RunGrounds, DoneInv
<1>7. CASE ReviewRejected
  <2>1. UNCHANGED <<nodes, status>> /\ stage' # "reviewing"
    BY <1>7 DEF ReviewRejected
  <2> QED
    BY <1>0, <2>1, OwnFacts DEF RunGrounds
<1>8. CASE ReplanDone
  <2>1. PICK plan \in Plans :
          \/ nodes' = [nodes EXCEPT ![cur] = Replace(nodes[cur], plan)] /\ FailJob
          \/ BeginAttempt(Replace(nodes[cur], plan))
    BY <1>0, <1>8 DEF ReplanDone
  <2>2. /\ Replace(nodes[cur], plan) \in Seq(Rows)
        /\ WithStatus(Replace(nodes[cur], plan), "running") = {}
        /\ Grounded(Replace(nodes[cur], plan))
    BY <1>0, RunningAfterReplace, ReplaceGrounded
  <2> QED
    BY <2>1, <2>2, EndGrounds, AttemptGrounds
<1> QED
  BY <1>1, <1>2, <1>3, <1>4, <1>5, <1>6, <1>7, <1>8 DEF RunStep

LEMMA RunStepKeepsDone ==
    ASSUME \A plan \in Plans : AcyclicPlan(plan),
           WebInv, RunningInv, DepsInv, DoneInv, RunStep
    PROVE  DoneInv'
<1>1. Apart /\ stage \in Working /\ NoJob \notin WebJobs /\ WebJobs \subseteq Jobs
  BY RunStepApart DEF WebInv, WebJobs, Jobs, NoJob
<1>2. cur \in WebJobs => RunGrounds
  BY RunStepGrounds
<1>3. \A j \in WebJobs : Grounded(nodes'[j])
  BY <1>1, <1>2 DEF Apart, RunGrounds, DoneInv
<1>4. cur' \in WebJobs /\ stage' = "reviewing" => Finished(nodes'[cur'])
  BY <1>1, <1>2 DEF Apart, RunGrounds
<1>5. ASSUME NEW j \in WebJobs, status'[j] = "done"
      PROVE  Finished(nodes'[j])
  BY <1>1, <1>2, <1>5 DEF Apart, RunGrounds, DoneInv, DoneComplete, Finished
<1>6. DoneComplete'
  BY <1>5 DEF DoneComplete, Finished
<1> QED
  BY <1>3, <1>4, <1>6 DEF DoneInv

(* A step that touches no row, and makes no job done or reviewed.          *)
LEMMA RestKeepsDone ==
    ASSUME DoneInv, \A j \in WebJobs : nodes'[j] = nodes[j],
           stage' = "reviewing" => stage = "reviewing" /\ cur' = cur,
           \A j \in WebJobs : status'[j] = "done" => status[j] = "done"
    PROVE  DoneInv'
BY DEF DoneInv, DoneComplete

LEMMA ResumeKeepsDone ==
    ASSUME TypeOK, DoneInv, NEW j \in Jobs, Resume(j)
    PROVE  DoneInv'
<1>1. CASE status[j] = "absent"
  <2>1. stage' = "idle" /\ UNCHANGED <<status, nodes>>
    BY <1>1 DEF Resume
  <2> QED
    BY <2>1, RestKeepsDone
<1>2. CASE status[j] # "absent"
  <2> DEFINE I == WithStatus(nodes[j], "running")
  <2>1. /\ nodes \in [Jobs -> Seq(Rows)] /\ status \in [Jobs -> Statuses]
        /\ nodes' = [nodes EXCEPT ![j] = Mark(nodes[j], I, "pending")]
        /\ status' = [status EXCEPT ![j] = "planning"] /\ stage' = "planning"
        /\ WebJobs \subseteq Jobs
    BY <1>2 DEF TypeOK, Resume, BeginRun, Write, WebJobs
  <2>2. I \cap DOMAIN nodes[j] \subseteq Kept(nodes[j])
    BY DEF Kept, WithStatus
  <2>3. "pending" \in RowStatuses \ {"cancelled"}
    BY DEF RowStatuses
  <2>4. j \in WebJobs => Grounded(Mark(nodes[j], I, "pending"))
    BY <2>1, <2>2, <2>3, MarkGrounded DEF DoneInv
  <2> HIDE DEF I
  <2>5. \A k \in WebJobs : Grounded(nodes'[k])
    BY <2>1, <2>4 DEF DoneInv
  <2>6. DoneComplete'
    BY <2>1 DEF DoneInv, DoneComplete
  <2> QED
    BY <2>1, <2>5, <2>6 DEF DoneInv
<1> QED
  BY <1>1, <1>2

LEMMA DoneStep ==
    ASSUME \A plan \in Plans : AcyclicPlan(plan),
           WebInv, RunningInv, DepsInv, DoneInv, [Next]_vars
    PROVE  DoneInv'
<1>0. /\ TypeOK /\ NotCreated /\ status \in [Jobs -> Statuses] /\ nodes \in [Jobs -> Seq(Rows)]
      /\ WebJobs \subseteq Jobs
  BY DEF WebInv, TypeOK, WebJobs
<1>1. CASE RunStep
  BY <1>1, RunStepKeepsDone
<1>2. CASE Poll
  <2>1. PICK j \in Jobs : status[j] = "pending" /\ BeginRun(j)
    BY <1>2 DEF Poll
  <2>2. status' = [status EXCEPT ![j] = "planning"] /\ stage' = "planning" /\ UNCHANGED nodes
    BY <1>2, <2>1 DEF Poll, BeginRun, Write
  <2> QED
    BY <1>0, <2>2, RestKeepsDone
<1>3. CASE ResumeNext
  BY <1>0, <1>3, ResumeKeepsDone DEF ResumeNext, TypeOK
<1>4. CASE Start
  <2>1. CASE Interrupted = {}
    BY <1>4, <2>1, RestKeepsDone DEF Start
  <2>2. CASE Interrupted # {}
    <3>1. PICK j \in Interrupted : Resume(j)
      BY <1>4, <2>2 DEF Start
    <3> QED
      BY <1>0, <3>1, ResumeKeepsDone DEF Interrupted
  <2> QED
    BY <2>1, <2>2
<1>5. CASE BreakerTimeout \/ Stop \/ UNCHANGED vars
  <2>1. UNCHANGED <<status, nodes, stage, cur>>
    BY <1>5 DEF BreakerTimeout, Stop, vars, table, worker
  <2> QED
    BY <2>1, RestKeepsDone
<1>6. CASE Crash \/ Exit
  <2>1. UNCHANGED <<status, nodes>> /\ stage' = "down"
    BY <1>6 DEF Crash, Exit, Down, table
  <2> QED
    BY <2>1, RestKeepsDone
<1>7. CASE CreateJob
  <2>1. /\ status' = [status EXCEPT ![created + 1] = "pending"] /\ UNCHANGED <<nodes, stage, cur>>
    BY <1>0, <1>7, CreateFacts DEF Handler, worker
  <2> QED
    BY <1>0, <2>1, RestKeepsDone
<1>8. ASSUME NEW j \in Jobs, CancelJob(j)
      PROVE  DoneInv'
  <2>1. status' = [status EXCEPT ![j] = "cancelling"] /\ UNCHANGED <<nodes, stage, cur>>
    BY <1>0, <1>8, CancelFacts DEF Handler, worker
  <2> QED
    BY <1>0, <2>1, RestKeepsDone
<1>9. ASSUME NEW j \in Jobs, DeleteJob(j)
      PROVE  DoneInv'
  <2>1. /\ status[j] \in Terminal /\ status' = [status EXCEPT ![j] = "absent"]
        /\ nodes' = [nodes EXCEPT ![j] = << >>] /\ UNCHANGED <<stage, cur>>
    BY <1>0, <1>9, DeleteFacts DEF Handler, worker
  <2>2. cur \in WebJobs => cur # j
    BY <2>1, OwnFacts DEF Terminal
  <2>3. Grounded(<< >>)
    BY DEF Grounded, Acyclic, Kept
  <2>4. DoneComplete'
    BY <1>0, <2>1 DEF DoneInv, DoneComplete
  <2>5. cur' \in WebJobs /\ stage' = "reviewing" => Finished(nodes'[cur'])
    BY <1>0, <2>1, <2>2 DEF DoneInv
  <2>6. \A k \in WebJobs : Grounded(nodes'[k])
    BY <1>0, <2>1, <2>3 DEF DoneInv
  <2> QED
    BY <2>4, <2>5, <2>6 DEF DoneInv
<1>10. ASSUME NEW j \in Jobs, SlackButton(j)
       PROVE  DoneInv'
  BY <1>0, <1>10, ButtonFacts, RestKeepsDone DEF Handler, worker
<1> QED
  BY <1>1, <1>2, <1>3, <1>4, <1>5, <1>6, <1>7, <1>8, <1>9, <1>10
  DEF Next, WorkerStep, RunStep, HandlerStep

LEMMA DoneInit == Init => DoneInv
<1> SUFFICES ASSUME Init PROVE DoneInv
  OBVIOUS
<1>1. Grounded(<< >>)
  BY DEF Grounded, Acyclic, Kept
<1> QED
  BY <1>1 DEF Init, DoneInv, DoneComplete, WebJobs

(* A web job is reported as done only when each of its nodes completed or  *)
(* was replaced, if the planner's plans are sound: without cycles and      *)
(* without references to nodes they do not contain.                        *)
THEOREM DoneMeansComplete ==
    ASSUME \A plan \in Plans : AcyclicPlan(plan)
    PROVE  Spec => []DoneComplete
<1>1. Init => DepsInv /\ RunningInv /\ WebInv /\ DoneInv
  BY TypeInit, WebInit, DoneInit
  DEF Init, DepsInv, DepsOrder, NodeIsRunning, RunningInv, RunningRows, WithStatus, WebJobs
<1>2. DepsInv /\ RunningInv /\ WebInv /\ DoneInv /\ [Next]_vars
        => DepsInv' /\ RunningInv' /\ WebInv' /\ DoneInv'
  BY DepsStep, RunningStep, WebStep, DoneStep
<1>3. DoneInv => DoneComplete
  BY DEF DoneInv
<1> QED
  BY <1>1, <1>2, <1>3, PTL DEF Spec
=============================================================================
