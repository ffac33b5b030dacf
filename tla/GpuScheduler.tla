---------------------------- MODULE GpuScheduler ----------------------------
(***************************************************************************)
(* The scheduler of job nodes and the manager of the card's memory         *)
(* (backend/core/scheduler.py, backend/core/gpu_manager.py): which waiting *)
(* node is offered next, and how the model that it needs gets its memory.  *)
(*                                                                         *)
(* The two meet in one event loop: schedule_next peeks at can_fit and at   *)
(* the loaded models, and the caller acquires the memory later, when other *)
(* nodes may have taken it.  acquire and release suspend nowhere between   *)
(* taking and leaving the manager's lock, so each is one step here, except *)
(* that the loop of _evict_lru_locked unloads one model per step while     *)
(* everything else stands still.                                           *)
(*                                                                         *)
(* The caller of both is a worker that does as their docstrings say, and   *)
(* picks the LoRA; a node is created once and has a job of its own.        *)
(***************************************************************************)
EXTENDS Integers, Sequences, FiniteSets, SequencesExt

CONSTANTS
    Nodes, Models, Families, Loras, Workspaces,
    ModelOf, WorkspaceOf, Priority, Review,  \* of each node
    FamilyOf, Vram,                          \* of each model
    Total,         \* memory of the card
    Limit,         \* rows that one look at the queue fetches
    NoNode

ASSUME GpuAssumption ==
    /\ ModelOf \in [Nodes -> Models]
    /\ WorkspaceOf \in [Nodes -> Workspaces] /\ Priority \in [Nodes -> Int]
    /\ Review \subseteq Nodes
    /\ FamilyOf \in [Models -> Families] /\ Vram \in [Models -> Nat \ {0}]
    /\ Total \in Nat /\ Limit \in Nat \ {0}
    /\ IsFiniteSet(Nodes) /\ NoNode \notin Nodes

VARIABLES
    node,          \* node[n]: where n is
    created,       \* created[n]: the place of n in the order of created_at
    old,           \* the first so many nodes wait for over MAX_GPU_WAIT_SEC
    loaded,        \* _loaded_models, least recently used first
    allocated,     \* _vram_allocated_mb
    holds,         \* holds[n]: vram_mb of the slot that n got
    evicting       \* the node whose acquire is evicting, NoNode if none is

queue == <<node, created, old>>
gpu   == <<loaded, allocated, holds, evicting>>
vars  == <<queue, gpu>>

\* A row stays 'pending' when schedule_next offers it, until a worker takes it.
Statuses == {"absent", "pending", "offered", "running", "acquired", "done"}
Slots == [model : Models, lora : Loras, vram : Nat]

(* Types: what is counted as allocated never exceeds the card.             *)
TypeOK ==
    /\ node \in [Nodes -> Statuses]
    /\ created \in [Nodes -> Nat] /\ old \in Nat
    /\ loaded \in Seq(Slots)
    /\ allocated \in 0 .. Total
    /\ holds \in [Nodes -> Nat]
    /\ evicting \in Nodes \union {NoNode}

Init ==
    /\ node = [n \in Nodes |-> "absent"]
    /\ created = [n \in Nodes |-> 0] /\ old = 0
    /\ loaded = <<>> /\ allocated = 0
    /\ holds = [n \in Nodes |-> 0] /\ evicting = NoNode

-----------------------------------------------------------------------------
(* The queue *)

Waiting == {n \in Nodes : node[n] \in {"pending", "offered"}}
Starving(n) == created[n] \in 1 .. old
Rows == Cardinality({n \in Nodes : created[n] # 0})

\* The planner creates the row of a node.
Arrive(n) ==
    /\ evicting = NoNode /\ node[n] = "absent"
    /\ node' = [node EXCEPT ![n] = "pending"]
    /\ created' = [created EXCEPT ![n] = Rows + 1]
    /\ UNCHANGED <<old, gpu>>

\* The oldest row that was not yet too old now is.
Age ==
    /\ evicting = NoNode /\ old < Rows
    /\ old' = old + 1
    /\ UNCHANGED <<node, created, gpu>>

\* The first Limit rows by priority; rows of one priority come in any order.
FetchPendingNodes(S) ==
    /\ S \subseteq Waiting
    /\ IF Cardinality(Waiting) <= Limit THEN S = Waiting ELSE Cardinality(S) = Limit
    /\ \A n \in S, m \in Waiting \ S : Priority[n] >= Priority[m]

CanFit(size) == allocated + size <= Total

LoadedFamilies == {FamilyOf[loaded[i].model] : i \in 1 .. Len(loaded)}

Score(n, nextWs) ==
    Priority[n]
      + (IF n \in Review THEN 50 ELSE 0)
      + (IF FamilyOf[ModelOf[n]] \in LoadedFamilies THEN 30 ELSE 0)
      + (IF WorkspaceOf[n] = nextWs THEN 20 ELSE 0)
      + (IF Starving(n) THEN 1000 ELSE 0)

MutantWinner(n, S, nextWs) ==
    /\ n \in S
    /\ \A m \in S \ {n} :
          \/ Score(n, nextWs) > Score(m, nextWs)
          \/ Score(n, nextWs) = Score(m, nextWs) /\ created[n] > created[m]

\* The highest score first, then the oldest.
Winner(n, S, nextWs) ==
    /\ n \in S
    /\ \A m \in S \ {n} :
          \/ Score(n, nextWs) > Score(m, nextWs)
          \/ Score(n, nextWs) = Score(m, nextWs) /\ created[n] < created[m]

MutantScheduleNext(n) ==
    /\ evicting = NoNode
    /\ \E S \in SUBSET Waiting : \E w \in {WorkspaceOf[m] : m \in S} :
          FetchPendingNodes(S) /\ Winner(n, S, w)
    /\ CanFit(Vram[ModelOf[n]])
    /\ node' = [node EXCEPT ![n] = "offered"]
    /\ UNCHANGED <<created, old, gpu>>

\* schedule_next when n wins; a winner that does not fit and does not starve
\* keeps everyone waiting.  The cursor indexes list(set(..)), whose order is
\* that of the hashes: the workspace whose turn it is may be any of those.
ScheduleNext(n) ==
    /\ evicting = NoNode
    /\ \E S \in SUBSET Waiting : \E w \in {WorkspaceOf[m] : m \in S} :
          FetchPendingNodes(S) /\ Winner(n, S, w)
    /\ CanFit(Vram[ModelOf[n]]) \/ Starving(n)
    /\ node' = [node EXCEPT ![n] = "offered"]
    /\ UNCHANGED <<created, old, gpu>>

\* A worker takes the node that it was offered: the row is 'running'.
Take(n) ==
    /\ evicting = NoNode /\ node[n] = "offered"
    /\ node' = [node EXCEPT ![n] = "running"]
    /\ UNCHANGED <<created, old, gpu>>

-----------------------------------------------------------------------------
(* The memory *)

Size(n) == Vram[ModelOf[n]]
Asks(n) == evicting = NoNode /\ node[n] = "running"
SameModel(n, i) == loaded[i].model = ModelOf[n]
Resident(n) == \E i \in 1 .. Len(loaded) : SameModel(n, i)
Touched(i, slot) == Append(RemoveAt(loaded, i), slot)
Acquired(n, size) ==
    /\ node' = [node EXCEPT ![n] = "acquired"]
    /\ holds' = [holds EXCEPT ![n] = size]

\* ValueError: the model is larger than the card.
AcquireTooBig(n) ==
    /\ Asks(n) /\ Size(n) > Total
    /\ node' = [node EXCEPT ![n] = "done"]
    /\ UNCHANGED <<created, old, gpu>>

\* The model is loaded with the same LoRA: it becomes the last one used.
AcquireReuse(n, l) ==
    /\ Asks(n) /\ Size(n) <= Total
    /\ \E i \in 1 .. Len(loaded) :
          /\ SameModel(n, i) /\ loaded[i].lora = l
          /\ loaded' = Touched(i, loaded[i])
    /\ Acquired(n, 0)
    /\ UNCHANGED <<created, old, allocated, evicting>>

\* It is loaded with another LoRA: the adapter is swapped, whoever uses it.
AcquireSwap(n, l) ==
    /\ Asks(n) /\ Size(n) <= Total
    /\ \A i \in 1 .. Len(loaded) : SameModel(n, i) => loaded[i].lora # l
    /\ \E i \in 1 .. Len(loaded) :
          /\ SameModel(n, i)
          /\ loaded' = Touched(i, [loaded[i] EXCEPT !.lora = l])
    /\ Acquired(n, 0)
    /\ UNCHANGED <<created, old, allocated, evicting>>

MutantAllocateNew(n, l) ==
    /\ loaded' = Append(loaded, [model |-> ModelOf[n], lora |-> l, vram |-> 0])
    /\ allocated' = allocated + Size(n)
    /\ Acquired(n, Size(n))

AllocateNew(n, l) ==
    /\ loaded' = Append(loaded, [model |-> ModelOf[n], lora |-> l, vram |-> Size(n)])
    /\ allocated' = allocated + Size(n)
    /\ Acquired(n, Size(n))

\* There is room for the model without unloading any.
AcquireFits(n, l) ==
    /\ Asks(n) /\ Size(n) <= Total /\ ~Resident(n)
    /\ CanFit(Size(n))
    /\ AllocateNew(n, l)
    /\ UNCHANGED <<created, old, evicting>>

\* There is none: _evict_lru_locked starts.
AcquireEvicts(n) ==
    /\ Asks(n) /\ Size(n) <= Total /\ ~Resident(n)
    /\ ~CanFit(Size(n))
    /\ evicting' = n
    /\ UNCHANGED <<queue, loaded, allocated, holds>>

\* max(0, allocated - size)
Less(size) == IF allocated > size THEN allocated - size ELSE 0

MutantEvictOldest ==
    /\ evicting # NoNode /\ ~CanFit(Size(evicting)) /\ loaded # <<>>
    /\ allocated' = Less(Head(loaded).vram)
    /\ loaded' = Append(Tail(loaded), Head(loaded))
    /\ UNCHANGED <<queue, holds, evicting>>

\* One round of the loop: the least recently used model goes, used or not.
EvictOldest ==
    /\ evicting # NoNode /\ ~CanFit(Size(evicting)) /\ loaded # <<>>
    /\ allocated' = Less(Head(loaded).vram)
    /\ loaded' = Tail(loaded)
    /\ UNCHANGED <<queue, holds, evicting>>

AcquireEvicted ==
    /\ evicting # NoNode /\ CanFit(Size(evicting))
    /\ \E l \in Loras : AllocateNew(evicting, l)
    /\ evicting' = NoNode
    /\ UNCHANGED <<created, old>>

MutantRelease(n) ==
    /\ evicting = NoNode /\ node[n] = "acquired"
    /\ allocated' = allocated - holds[n]
    /\ node' = [node EXCEPT ![n] = "done"]
    /\ UNCHANGED <<created, old, loaded, holds, evicting>>

\* The slot is left: its memory counts as free, its model stays loaded.
Release(n) ==
    /\ evicting = NoNode /\ node[n] = "acquired"
    /\ allocated' = Less(holds[n])
    /\ node' = [node EXCEPT ![n] = "done"]
    /\ UNCHANGED <<created, old, loaded, holds, evicting>>

Acquire(n) ==
    \/ AcquireTooBig(n) \/ AcquireEvicts(n)
    \/ \E l \in Loras : AcquireReuse(n, l) \/ AcquireSwap(n, l) \/ AcquireFits(n, l)

Next ==
    \/ Age \/ EvictOldest \/ AcquireEvicted
    \/ \E n \in Nodes :
          Arrive(n) \/ ScheduleNext(n) \/ Take(n) \/ Acquire(n) \/ Release(n)

\* Time passes, workers ask for work and take it, a started acquire returns.
\* No node need ever leave its slot.
Fairness ==
    /\ WF_vars(Age)
    /\ \A n \in Nodes : WF_vars(ScheduleNext(n)) /\ WF_vars(Take(n))
    /\ WF_vars(EvictOldest) /\ WF_vars(AcquireEvicted)

Spec == Init /\ [][Next]_vars /\ Fairness

-----------------------------------------------------------------------------
(* Properties *)

\* What is loaded adds up, model by model, to no more than the card has.
FitTogether ==
    \E total \in [0 .. Len(loaded) -> 0 .. Total] :
        /\ total[0] = 0
        /\ \A i \in 1 .. Len(loaded) : total[i] = total[i - 1] + loaded[i].vram

(* An acquire that got past the ValueError never waits for a release: when *)
(* it has unloaded everything it fits, although releases and evictions     *)
(* both subtract what one model takes.  The waiters of acquire (lines      *)
(* 201-222) are never used.                                                *)
NeverWaits == evicting # NoNode /\ loaded = <<>> => CanFit(Size(evicting))

(* Until a first slot that loaded its model is released, the models in     *)
(* memory fit on the card together.  From then on they may not: release    *)
(* counts the memory of a model that stays loaded as free.                 *)
FitsUntilRelease ==
    (\A n \in Nodes : node[n] = "done" => holds[n] = 0) => FitTogether

\* n is fetched however the rows of one priority are ordered.
SurelyFetched(n) ==
    /\ n \in Waiting
    /\ Cardinality({m \in Waiting \ {n} : Priority[m] >= Priority[n]}) < Limit

(* schedule_next offers no fresh node while a fetched one starves, unless  *)
(* its job's priority, which the API does not bound, outweighs the boost   *)
(* of 1000 against the 100 that the other boosts add up to.  At 900 the    *)
(* scores can be equal, and the starving node goes first as the older one. *)
StarvingFirst ==
    [][\A n, m \in Nodes :
          /\ node[n] = "pending" /\ node'[n] = "offered" /\ ~Starving(n)
          /\ SurelyFetched(m) /\ Starving(m)
          => Priority[n] - Priority[m] > 900]_vars

(* Every node that waits is offered in the end, whatever its priority and  *)
(* the size of its model, beyond the rows fetched at first too, and even   *)
(* if no slot is ever released.                                            *)
EveryNodeScheduled == \A n \in Nodes : node[n] = "pending" ~> node[n] = "offered"
=============================================================================
