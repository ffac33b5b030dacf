------------------------ MODULE GpuSchedulerProofs ------------------------
(***************************************************************************)
(* Proofs about GpuScheduler, for any nodes, priorities, models and card:  *)
(* its types, among them that the memory counted as allocated stays within *)
(* the card; that a starving node goes before a fresh one; and, from the   *)
(* account of what is loaded, that no acquire waits for a release and that *)
(* the loaded models fit on the card until a slot is left.                 *)
(***************************************************************************)
EXTENDS GpuScheduler, FiniteSetTheorems, TLAPS

(* Taking out one slot and putting in another keeps loaded a list of slots. *)
LEMMA TouchedType ==
    ASSUME loaded \in Seq(Slots), NEW i \in 1 .. Len(loaded), NEW slot \in Slots
    PROVE  Touched(i, slot) \in Seq(Slots)
<1>1. SubSeq(loaded, 1, i - 1) \in Seq(Slots) /\ SubSeq(loaded, i + 1, Len(loaded)) \in Seq(Slots)
    OBVIOUS
<1>2. RemoveAt(loaded, i) \in Seq(Slots)
    BY <1>1 DEF RemoveAt
<1> QED BY <1>2 DEF Touched

(* Loading a model that fits keeps the types.                               *)
LEMMA AllocateNewType ==
    ASSUME TypeOK, GpuAssumption, NEW n \in Nodes, NEW l \in Loras,
           CanFit(Size(n)), AllocateNew(n, l)
    PROVE  /\ node' \in [Nodes -> Statuses] /\ holds' \in [Nodes -> Nat]
           /\ loaded' \in Seq(Slots) /\ allocated' \in 0 .. Total
<1>1. Size(n) \in Nat /\ ModelOf[n] \in Models
    BY DEF Size, GpuAssumption
<1>2. [model |-> ModelOf[n], lora |-> l, vram |-> Size(n)] \in Slots
    BY <1>1 DEF Slots
<1>3. loaded' \in Seq(Slots)
    BY <1>2 DEF AllocateNew, TypeOK
<1>4. allocated' \in 0 .. Total
    BY <1>1 DEF AllocateNew, TypeOK, CanFit, GpuAssumption
<1>5. node' \in [Nodes -> Statuses] /\ holds' \in [Nodes -> Nat]
    BY <1>1 DEF AllocateNew, Acquired, TypeOK, Statuses
<1> QED BY <1>3, <1>4, <1>5

(* Subtracting from what is allocated stops at zero.                        *)
LEMMA LessType ==
    ASSUME TypeOK, GpuAssumption, NEW size \in Nat
    PROVE  Less(size) \in 0 .. Total
BY DEF Less, TypeOK, GpuAssumption

(* What the steps of the queue keep.                                        *)
LEMMA QueueTypes ==
    ASSUME TypeOK, GpuAssumption, NEW n \in Nodes,
           Arrive(n) \/ ScheduleNext(n) \/ Take(n) \/ Age
    PROVE  TypeOK'
<1>1. Rows \in Nat
    <2>1. {m \in Nodes : created[m] # 0} \subseteq Nodes
        OBVIOUS
    <2>2. IsFiniteSet({m \in Nodes : created[m] # 0})
        BY <2>1, FS_Subset DEF GpuAssumption
    <2> QED BY <2>2, FS_CardinalityType DEF Rows
<1>2. UNCHANGED gpu /\ (node' = node \/ \E s \in Statuses : node' = [node EXCEPT ![n] = s])
    BY DEF Arrive, ScheduleNext, Take, Age, Statuses, gpu
<1>3. node' \in [Nodes -> Statuses]
    BY <1>2 DEF TypeOK
<1>4. created' \in [Nodes -> Nat] /\ old' \in Nat
    <2>1. CASE Arrive(n)
        BY <1>1, <2>1 DEF TypeOK, Arrive
    <2>2. CASE Age
        BY <2>2 DEF TypeOK, Age
    <2>3. CASE ScheduleNext(n) \/ Take(n)
        BY <2>3 DEF TypeOK, ScheduleNext, Take
    <2> QED BY <2>1, <2>2, <2>3
<1> QED BY <1>2, <1>3, <1>4 DEF TypeOK, gpu

(* What the steps of an acquire keep.                                       *)
LEMMA AcquireTypes ==
    ASSUME TypeOK, GpuAssumption, NEW n \in Nodes, Acquire(n)
    PROVE  TypeOK'
<1>1. CASE AcquireTooBig(n)
    BY <1>1 DEF AcquireTooBig, TypeOK, gpu, Statuses
<1>2. CASE AcquireEvicts(n)
    BY <1>2 DEF AcquireEvicts, TypeOK, queue
<1>3. CASE \E l \in Loras : AcquireReuse(n, l)
    <2>1. PICK l \in Loras, i \in 1 .. Len(loaded) : loaded' = Touched(i, loaded[i])
        BY <1>3 DEF AcquireReuse
    <2>2. loaded' \in Seq(Slots)
        BY <2>1, TouchedType DEF TypeOK
    <2> QED BY <1>3, <2>2 DEF AcquireReuse, Acquired, TypeOK, Statuses
<1>4. CASE \E l \in Loras : AcquireSwap(n, l)
    <2>1. PICK l \in Loras, i \in 1 .. Len(loaded) :
              loaded' = Touched(i, [loaded[i] EXCEPT !.lora = l])
        BY <1>4 DEF AcquireSwap
    <2>2. [loaded[i] EXCEPT !.lora = l] \in Slots
        <3>1. loaded[i] \in Slots
            BY <2>1 DEF TypeOK
        <3> QED BY <2>1, <3>1 DEF Slots
    <2>3. loaded' \in Seq(Slots)
        BY <2>1, <2>2, TouchedType DEF TypeOK
    <2> QED BY <1>4, <2>3, SMTT(30) DEF AcquireSwap, Acquired, TypeOK, Statuses
<1>5. CASE \E l \in Loras : AcquireFits(n, l)
    <2>1. PICK l \in Loras : AcquireFits(n, l)
        BY <1>5
    <2>2. CanFit(Size(n)) /\ AllocateNew(n, l) /\ UNCHANGED <<created, old, evicting>>
        BY <2>1 DEF AcquireFits
    <2> QED BY <2>2, AllocateNewType DEF TypeOK
<1> QED BY <1>1, <1>2, <1>3, <1>4, <1>5 DEF Acquire

(* The types hold initially and every step keeps them.                      *)
LEMMA TypesInductive ==
    ASSUME TypeOK, GpuAssumption, [Next]_vars
    PROVE  TypeOK'
<1>1. CASE UNCHANGED vars
    BY <1>1 DEF TypeOK, vars, queue, gpu
<1>2. CASE Age
    <2>1. CASE Nodes = {}
        BY <1>2, <2>1 DEF Age, TypeOK, gpu
    <2>2. CASE \E n \in Nodes : TRUE
        BY <1>2, <2>2, QueueTypes
    <2> QED BY <2>1, <2>2
<1>3. CASE EvictOldest
    <2>1. loaded # <<>> /\ Head(loaded) \in Slots /\ Tail(loaded) \in Seq(Slots)
        BY <1>3 DEF EvictOldest, TypeOK
    <2>2. Less(Head(loaded).vram) \in 0 .. Total
        BY <2>1, LessType DEF Slots
    <2> QED BY <1>3, <2>1, <2>2 DEF EvictOldest, TypeOK, queue
<1>4. CASE AcquireEvicted
    <2>1. evicting \in Nodes /\ CanFit(Size(evicting))
        BY <1>4 DEF AcquireEvicted, TypeOK
    <2>2. PICK l \in Loras : AllocateNew(evicting, l)
        BY <1>4 DEF AcquireEvicted
    <2>3. evicting' = NoNode /\ UNCHANGED <<created, old>>
        BY <1>4 DEF AcquireEvicted
    <2> QED BY <2>1, <2>2, <2>3, AllocateNewType DEF TypeOK
<1>5. ASSUME NEW n \in Nodes, Arrive(n) \/ ScheduleNext(n) \/ Take(n)
      PROVE  TypeOK'
    BY <1>5, QueueTypes
<1>6. ASSUME NEW n \in Nodes, Acquire(n)
      PROVE  TypeOK'
    BY <1>6, AcquireTypes
<1>7. ASSUME NEW n \in Nodes, Release(n)
      PROVE  TypeOK'
    <2>1. Less(holds[n]) \in 0 .. Total
        BY LessType DEF TypeOK
    <2> QED BY <1>7, <2>1 DEF Release, TypeOK, Statuses
<1> QED BY <1>1, <1>2, <1>3, <1>4, <1>5, <1>6, <1>7 DEF Next

(* Every reachable state is of the types; what counts as allocated is at    *)
(* most the memory of the card, though what is loaded may be more.          *)
THEOREM GpuTyped == Spec => []TypeOK
<1>1. Init => TypeOK
    BY GpuAssumption DEF Init, TypeOK, Statuses, GpuAssumption
<1>2. TypeOK /\ [Next]_vars => TypeOK'
    BY TypesInductive, GpuAssumption
<1> QED BY <1>1, <1>2, PTL DEF Spec
-----------------------------------------------------------------------------
(* The sum of what is loaded: running totals, which never fall.             *)

Sums(s, sum) ==
    \E total \in [0 .. Len(s) -> Nat] :
        /\ total[0] = 0 /\ total[Len(s)] = sum
        /\ \A i \in 1 .. Len(s) : total[i] = total[i - 1] + s[i].vram
        /\ \A i, j \in 0 .. Len(s) : i <= j => total[i] <= total[j]

(* A slot more at the end adds what it takes.                               *)
LEMMA AppendSums ==
    ASSUME NEW s \in Seq(Slots), NEW sum \in Nat, Sums(s, sum), NEW slot \in Slots
    PROVE  Sums(Append(s, slot), sum + slot.vram)
<1>1. PICK total \in [0 .. Len(s) -> Nat] :
          /\ total[0] = 0 /\ total[Len(s)] = sum
          /\ \A i \in 1 .. Len(s) : total[i] = total[i - 1] + s[i].vram
          /\ \A i, j \in 0 .. Len(s) : i <= j => total[i] <= total[j]
    BY DEF Sums
<1> DEFINE longer == Append(s, slot)
           more == [i \in 0 .. Len(longer) |-> IF i <= Len(s) THEN total[i] ELSE sum + slot.vram]
<1>2. Len(longer) = Len(s) + 1 /\ Len(s) \in Nat /\ slot.vram \in Nat
    BY DEF Slots
<1>3. longer[Len(s) + 1] = slot /\ \A i \in 1 .. Len(s) : longer[i] = s[i]
    OBVIOUS
<1> HIDE DEF longer
<1>4. more \in [0 .. Len(longer) -> Nat] /\ more[0] = 0 /\ more[Len(longer)] = sum + slot.vram
    BY <1>1, <1>2
<1>5. ASSUME NEW i \in 1 .. Len(longer)
      PROVE  more[i] = more[i - 1] + longer[i].vram
    <2>1. CASE i <= Len(s)
        <3>1. i \in 1 .. Len(s) /\ longer[i] = s[i]
            BY <2>1, <1>2, <1>3
        <3>2. more[i] = total[i] /\ more[i - 1] = total[i - 1]
            BY <3>1, <1>2
        <3> QED BY <3>1, <3>2, <1>1
    <2>2. CASE i = Len(s) + 1
        <3>1. more[i] = sum + slot.vram /\ more[i - 1] = sum /\ longer[i] = slot
            BY <2>2, <1>1, <1>2, <1>3
        <3> QED BY <3>1
    <2> QED BY <2>1, <2>2, <1>2
<1>6. ASSUME NEW i \in 0 .. Len(longer), NEW j \in 0 .. Len(longer), i <= j
      PROVE  more[i] <= more[j]
    BY <1>1, <1>2, <1>6, SMTT(30)
<1>7. Sums(longer, sum + slot.vram)
    BY <1>4, <1>5, <1>6 DEF Sums
<1> QED BY <1>7 DEF longer

(* A slot less, wherever it was, takes away what it took.                   *)
LEMMA RemoveSums ==
    ASSUME NEW s \in Seq(Slots), NEW sum \in Nat, Sums(s, sum), NEW k \in 1 .. Len(s)
    PROVE  /\ s[k].vram <= sum /\ s[k].vram \in Nat
           /\ Sums(RemoveAt(s, k), sum - s[k].vram)
<1>1. PICK total \in [0 .. Len(s) -> Nat] :
          /\ total[0] = 0 /\ total[Len(s)] = sum
          /\ \A i \in 1 .. Len(s) : total[i] = total[i - 1] + s[i].vram
          /\ \A i, j \in 0 .. Len(s) : i <= j => total[i] <= total[j]
    BY DEF Sums
<1> DEFINE rest == RemoveAt(s, k)
           fewer == [i \in 0 .. Len(rest) |-> IF i < k THEN total[i] ELSE total[i + 1] - s[k].vram]
<1>2. s[k] \in Slots /\ s[k].vram \in Nat /\ Len(s) \in Nat
    <2>1. s[k] \in Slots /\ Len(s) \in Nat
        OBVIOUS
    <2> QED BY <2>1 DEF Slots
<1>3. Len(rest) = Len(s) - 1
    BY DEF RemoveAt
<1>4. \A i \in 1 .. Len(s) - 1 : rest[i] = IF i < k THEN s[i] ELSE s[i + 1]
    BY DEF RemoveAt
<1> HIDE DEF rest
<1>5. total[k] = total[k - 1] + s[k].vram /\ total[k - 1] \in Nat /\ total[k] \in Nat
    BY <1>1
<1>6. ASSUME NEW i \in 0 .. Len(s)
      PROVE  total[i] \in Nat /\ (i >= k => total[i] >= total[k])
    <2>1. k \in 0 .. Len(s)
        OBVIOUS
    <2>2. k <= i => total[k] <= total[i]
        BY <2>1, <1>1
    <2>3. total[i] \in Nat
        OBVIOUS
    <2> QED BY <2>2, <2>3, <1>5
<1>7. s[k].vram <= sum
    BY <1>1, <1>2, <1>5, <1>6, SMTT(30)
<1>8. ASSUME NEW i \in 0 .. Len(rest)
      PROVE  (IF i < k THEN total[i] ELSE total[i + 1] - s[k].vram) \in Nat
    <2>1. i \in 0 .. Len(s) /\ i + 1 \in 0 .. Len(s)
        BY <1>2, <1>3
    <2>2. total[i] \in Nat /\ total[i + 1] \in Nat /\ (i >= k => total[i + 1] >= total[k])
        BY <2>1, <1>6
    <2>3. CASE i < k
        BY <2>2, <2>3
    <2>4. CASE ~(i < k)
        <3>1. i >= k
            BY <2>1, <2>4
        <3>2. total[i + 1] - s[k].vram \in Nat
            BY <2>2, <3>1, <1>2, <1>5, SMTT(30)
        <3> QED BY <2>4, <3>2
    <2> QED BY <2>3, <2>4
<1>9. fewer \in [0 .. Len(rest) -> Nat]
    BY <1>8
<1>10. fewer[0] = 0 /\ fewer[Len(rest)] = sum - s[k].vram
    BY <1>1, <1>2, <1>3
<1>11. ASSUME NEW i \in 1 .. Len(rest)
       PROVE  fewer[i] = fewer[i - 1] + rest[i].vram
    <2>1. CASE i < k
        BY <2>1, <1>1, <1>3, <1>4
    <2>2. CASE i = k
        <3>1. total[k + 1] = total[k] + s[k + 1].vram /\ s[k + 1] \in Slots
            BY <2>2, <1>1, <1>3
        <3>2. rest[i] = s[k + 1] /\ fewer[i] = total[k + 1] - s[k].vram /\ fewer[i - 1] = total[k - 1]
            BY <2>2, <1>3, <1>4
        <3> QED BY <3>1, <3>2, <1>2, <1>5, SMTT(30) DEF Slots
    <2>3. CASE i > k
        <3>1. total[i + 1] = total[i] + s[i + 1].vram /\ s[i + 1] \in Slots /\ total[i] \in Nat
            BY <1>1, <1>3
        <3>2. rest[i] = s[i + 1] /\ fewer[i] = total[i + 1] - s[k].vram
              /\ fewer[i - 1] = total[i] - s[k].vram
            BY <2>3, <1>3, <1>4
        <3> QED BY <3>1, <3>2, <1>2, SMTT(30) DEF Slots
    <2> QED BY <2>1, <2>2, <2>3
<1>12. ASSUME NEW i \in 0 .. Len(rest), NEW j \in 0 .. Len(rest), i <= j
       PROVE  fewer[i] <= fewer[j]
    <2>1. CASE j < k
        BY <2>1, <1>12, <1>1, <1>3
    <2>2. CASE i < k /\ j >= k
        <3>1. total[i] <= total[k - 1] /\ total[j + 1] >= total[k] /\ total[i] \in Nat /\ total[j + 1] \in Nat
            BY <2>2, <1>1, <1>3, SMTT(30)
        <3>2. fewer[i] = total[i] /\ fewer[j] = total[j + 1] - s[k].vram
            BY <2>2
        <3> QED BY <3>1, <3>2, <1>2, <1>5, SMTT(30)
    <2>3. CASE i >= k
        <3>1. total[i + 1] <= total[j + 1] /\ total[i + 1] \in Nat /\ total[j + 1] \in Nat
            BY <1>12, <1>1, <1>3, SMTT(30)
        <3>2. ~(i < k) /\ ~(j < k)
            BY <2>3, <1>12, <1>1
        <3>3. fewer[i] = total[i + 1] - s[k].vram /\ fewer[j] = total[j + 1] - s[k].vram
            BY <3>2
        <3>4. s[k].vram \in Nat
            BY <1>2
        <3> HIDE DEF fewer
        <3> QED BY <3>1, <3>3, <3>4
    <2> QED BY <1>12, <2>1, <2>2, <2>3
<1>13. Sums(rest, sum - s[k].vram)
    BY <1>9, <1>10, <1>11, <1>12 DEF Sums
<1> QED BY <1>2, <1>7, <1>13 DEF rest

(* Using a slot again moves it to the end, and the sum stays.               *)
LEMMA TouchedSums ==
    ASSUME loaded \in Seq(Slots), NEW sum \in Nat, Sums(loaded, sum),
           NEW i \in 1 .. Len(loaded), NEW slot \in Slots, slot.vram = loaded[i].vram
    PROVE  Sums(Touched(i, slot), sum)
<1>1. RemoveAt(loaded, i) \in Seq(Slots)
    BY DEF RemoveAt
<1>2. loaded[i].vram <= sum /\ loaded[i].vram \in Nat
      /\ Sums(RemoveAt(loaded, i), sum - loaded[i].vram)
    BY RemoveSums
<1>3. Sums(Append(RemoveAt(loaded, i), slot), (sum - loaded[i].vram) + slot.vram)
    BY <1>1, <1>2, AppendSums
<1> QED BY <1>2, <1>3 DEF Touched
-----------------------------------------------------------------------------
(* What is counted against what is loaded.                                  *)

\* No node that took memory for its model has left its slot yet.
Unreleased == \A n \in Nodes : node[n] = "done" => holds[n] = 0

\* What is counted as allocated is what is loaded adds up to, or less once a
\* slot has been left; and a node that evicts needs no more than the card has.
Counted ==
    \E sum \in Nat :
        Sums(loaded, sum) /\ allocated <= sum /\ (Unreleased => allocated = sum)
EvictsForOne ==
    evicting # NoNode => node[evicting] = "running" /\ Size(evicting) <= Total

MemoryInv == TypeOK /\ Counted /\ EvictsForOne

\* Whoever is done keeps what it took.
DoneStays == \A n \in Nodes : node[n] = "done" => node'[n] = "done" /\ holds'[n] = holds[n]

(* A step that changes neither the models nor what is counted.              *)
LEMMA QuietStep ==
    ASSUME MemoryInv, UNCHANGED <<loaded, allocated>>, DoneStays
    PROVE  Counted'
<1>1. Unreleased' => Unreleased
    BY DEF Unreleased, DoneStays
<1> QED BY <1>1 DEF MemoryInv, Counted, Sums

(* A model used again moves to the end of the list.                         *)
LEMMA TouchStep ==
    ASSUME MemoryInv, NEW i \in 1 .. Len(loaded), NEW slot \in Slots,
           slot.vram = loaded[i].vram, loaded' = Touched(i, slot),
           allocated' = allocated, DoneStays
    PROVE  Counted'
<1>1. Unreleased' => Unreleased
    BY DEF Unreleased, DoneStays
<1>2. PICK sum \in Nat : Sums(loaded, sum) /\ allocated <= sum /\ (Unreleased => allocated = sum)
    BY DEF MemoryInv, Counted
<1>3. Sums(loaded', sum)
    BY <1>2, TouchedSums DEF MemoryInv, TypeOK
<1>4. allocated' <= sum /\ (Unreleased' => allocated' = sum)
    BY <1>1, <1>2
<1> QED BY <1>3, <1>4 DEF Counted

(* A model is loaded: it is counted when it is put into the list.           *)
LEMMA AllocateStep ==
    ASSUME MemoryInv, GpuAssumption, NEW n \in Nodes, node[n] = "running", NEW l \in Loras,
           AllocateNew(n, l)
    PROVE  Counted'
<1> DEFINE slot == [model |-> ModelOf[n], lora |-> l, vram |-> Size(n)]
<1>1. slot \in Slots /\ slot.vram = Size(n) /\ Size(n) \in Nat
    BY DEF GpuAssumption, Size, Slots
<1> HIDE DEF slot
<1>2. Unreleased' => Unreleased
    BY DEF Unreleased, AllocateNew, Acquired, MemoryInv, TypeOK
<1>3. PICK sum \in Nat : Sums(loaded, sum) /\ allocated <= sum /\ (Unreleased => allocated = sum)
    BY DEF MemoryInv, Counted
<1>4. Sums(Append(loaded, slot), sum + slot.vram)
    BY <1>1, <1>3, AppendSums DEF MemoryInv, TypeOK
<1>5. loaded' = Append(loaded, slot) /\ allocated' = allocated + Size(n)
    BY DEF AllocateNew, slot
<1>6. allocated' <= sum + slot.vram /\ (Unreleased' => allocated' = sum + slot.vram)
    BY <1>1, <1>2, <1>3, <1>5 DEF MemoryInv, TypeOK
<1>7. sum + slot.vram \in Nat
    BY <1>1
<1> QED BY <1>4, <1>5, <1>6, <1>7 DEF Counted

(* The least recently used model goes, and what it took is subtracted.      *)
LEMMA EvictStep ==
    ASSUME MemoryInv, GpuAssumption, EvictOldest
    PROVE  Counted'
<1>1. loaded \in Seq(Slots) /\ loaded # <<>> /\ allocated \in Nat
    BY DEF MemoryInv, TypeOK, EvictOldest, GpuAssumption
<1>2. 1 \in 1 .. Len(loaded) /\ Head(loaded) = loaded[1]
    BY <1>1
<1>3. RemoveAt(loaded, 1) = Tail(loaded)
    BY <1>1 DEF RemoveAt
<1>4. Unreleased' => Unreleased
    BY DEF Unreleased, EvictOldest, queue
<1>5. PICK sum \in Nat : Sums(loaded, sum) /\ allocated <= sum /\ (Unreleased => allocated = sum)
    BY DEF MemoryInv, Counted
<1> DEFINE size == loaded[1].vram
<1>6. size <= sum /\ size \in Nat /\ Sums(Tail(loaded), sum - size)
    <2>1. size <= sum /\ size \in Nat /\ Sums(RemoveAt(loaded, 1), sum - size)
        BY <1>1, <1>2, <1>5, RemoveSums
    <2> QED BY <2>1, <1>3
<1>7. loaded' = Tail(loaded) /\ allocated' = Less(size)
    BY <1>2 DEF EvictOldest
<1> HIDE DEF size
<1>8. allocated' <= sum - size /\ (Unreleased' => allocated' = sum - size)
    BY <1>1, <1>4, <1>5, <1>6, <1>7 DEF Less
<1>9. sum - size \in Nat
    BY <1>6
<1> QED BY <1>6, <1>7, <1>8, <1>9 DEF Counted

(* A slot is left: what it took is subtracted, and its model stays.         *)
LEMMA ReleaseStep ==
    ASSUME MemoryInv, GpuAssumption, NEW n \in Nodes, Release(n)
    PROVE  Counted'
<1>1. allocated \in Nat /\ holds[n] \in Nat /\ node'[n] = "done" /\ holds' = holds
      /\ loaded' = loaded /\ allocated' = Less(holds[n])
    BY DEF MemoryInv, TypeOK, Release, GpuAssumption
<1>2. Unreleased' => Unreleased /\ holds[n] = 0
    BY <1>1 DEF Unreleased, Release, MemoryInv, TypeOK
<1>3. PICK sum \in Nat : Sums(loaded, sum) /\ allocated <= sum /\ (Unreleased => allocated = sum)
    BY DEF MemoryInv, Counted
<1>4. allocated' <= allocated /\ (holds[n] = 0 => allocated' = allocated)
    BY <1>1 DEF Less
<1>5. allocated' <= sum /\ (Unreleased' => allocated' = sum)
    BY <1>1, <1>2, <1>3, <1>4 DEF Less
<1>6. Sums(loaded', sum)
    BY <1>1, <1>3
<1> QED BY <1>5, <1>6 DEF Counted

(* Every step keeps the account.                                            *)
LEMMA CountedStep ==
    ASSUME MemoryInv, GpuAssumption, [Next]_vars
    PROVE  Counted'
<1>1. CASE UNCHANGED vars
    BY <1>1, QuietStep DEF vars, queue, gpu, DoneStays
<1>2. CASE Age
    BY <1>2, QuietStep DEF Age, gpu, DoneStays
<1>3. CASE EvictOldest
    BY <1>3, EvictStep
<1>4. CASE AcquireEvicted
    <2>1. evicting \in Nodes /\ node[evicting] = "running"
        BY <1>4 DEF AcquireEvicted, MemoryInv, TypeOK, EvictsForOne
    <2> QED BY <1>4, <2>1, AllocateStep DEF AcquireEvicted
<1>5. ASSUME NEW n \in Nodes, Arrive(n) \/ ScheduleNext(n) \/ Take(n)
      PROVE  Counted'
    <2>1. UNCHANGED <<loaded, allocated, holds>>
        BY <1>5 DEF Arrive, ScheduleNext, Take, gpu
    <2>2. node[n] # "done"
        <3>1. CASE ScheduleNext(n)
            BY <3>1 DEF ScheduleNext, Winner, Waiting
        <3> QED BY <1>5, <3>1 DEF Arrive, Take
    <2>3. \A m \in Nodes : m # n => node'[m] = node[m]
        BY <1>5 DEF Arrive, ScheduleNext, Take, MemoryInv, TypeOK
    <2> QED BY <2>1, <2>2, <2>3, QuietStep DEF DoneStays
<1>6. ASSUME NEW n \in Nodes, Acquire(n)
      PROVE  Counted'
    <2>1. node[n] = "running"
        BY <1>6 DEF Acquire, AcquireTooBig, AcquireEvicts, AcquireReuse, AcquireSwap, AcquireFits, Asks
    <2>2. CASE AcquireTooBig(n) \/ AcquireEvicts(n)
        <3>1. UNCHANGED <<loaded, allocated, holds>> /\ \A m \in Nodes : m # n => node'[m] = node[m]
            BY <2>2 DEF AcquireTooBig, AcquireEvicts, gpu, queue, MemoryInv, TypeOK
        <3> QED BY <2>1, <3>1, QuietStep DEF DoneStays
    <2>3. ASSUME NEW l \in Loras, AcquireReuse(n, l) \/ AcquireSwap(n, l)
          PROVE  Counted'
        <3>1. DoneStays
            BY <2>1, <2>3 DEF AcquireReuse, AcquireSwap, Acquired, DoneStays, MemoryInv, TypeOK
        <3>2. allocated' = allocated
            BY <2>3 DEF AcquireReuse, AcquireSwap
        <3>3. PICK i \in 1 .. Len(loaded) :
                  \/ loaded' = Touched(i, loaded[i])
                  \/ loaded' = Touched(i, [loaded[i] EXCEPT !.lora = l])
            BY <2>3 DEF AcquireReuse, AcquireSwap
        <3>4. loaded[i] \in Slots
            BY <3>3 DEF MemoryInv, TypeOK
        <3>5. [loaded[i] EXCEPT !.lora = l] \in Slots
              /\ [loaded[i] EXCEPT !.lora = l].vram = loaded[i].vram
            BY <3>4 DEF Slots
        <3> QED BY <3>1, <3>2, <3>3, <3>4, <3>5, TouchStep
    <2>4. ASSUME NEW l \in Loras, AcquireFits(n, l)
          PROVE  Counted'
        BY <2>1, <2>4, AllocateStep DEF AcquireFits
    <2> QED BY <1>6, <2>2, <2>3, <2>4 DEF Acquire
<1>7. ASSUME NEW n \in Nodes, Release(n)
      PROVE  Counted'
    BY <1>7, ReleaseStep
<1> QED BY <1>1, <1>2, <1>3, <1>4, <1>5, <1>6, <1>7 DEF Next

(* While a node evicts nothing else happens, and it stays the one it was.   *)
LEMMA EvictsForOneStep ==
    ASSUME MemoryInv, GpuAssumption, [Next]_vars
    PROVE  EvictsForOne'
<1>1. CASE UNCHANGED vars \/ EvictOldest
    BY <1>1 DEF vars, queue, gpu, EvictOldest, MemoryInv, EvictsForOne, Size
<1>2. CASE evicting = NoNode
    <2>1. CASE \E n \in Nodes : AcquireEvicts(n)
        BY <2>1 DEF AcquireEvicts, Asks, queue, EvictsForOne, Size
    <2>2. CASE ~(\E n \in Nodes : AcquireEvicts(n))
        <3>1. evicting' = NoNode
            BY <1>1, <1>2, <2>2 DEF Next, Age, EvictOldest, AcquireEvicted, Arrive, ScheduleNext,
               Take, Acquire, AcquireTooBig, AcquireReuse, AcquireSwap, AcquireFits, Release, gpu, vars
        <3> QED BY <3>1 DEF EvictsForOne
    <2> QED BY <2>1, <2>2
<1>3. CASE evicting # NoNode /\ AcquireEvicted
    BY <1>3 DEF AcquireEvicted, EvictsForOne
<1>4. CASE evicting # NoNode /\ ~AcquireEvicted /\ ~EvictOldest
    <2>1. ~Age /\ \A n \in Nodes : ~(Arrive(n) \/ ScheduleNext(n) \/ Take(n) \/ Release(n))
        BY <1>4 DEF Age, Arrive, ScheduleNext, Take, Release
    <2>2. \A n \in Nodes : ~Acquire(n)
        BY <1>4 DEF Acquire, AcquireTooBig, AcquireEvicts, AcquireReuse, AcquireSwap, AcquireFits, Asks
    <2> QED BY <1>1, <1>4, <2>1, <2>2 DEF Next
<1> QED BY <1>1, <1>2, <1>3, <1>4

(* With nothing loaded nothing is counted.                                  *)
LEMMA NothingLoaded ==
    ASSUME MemoryInv, GpuAssumption, loaded = <<>>
    PROVE  allocated = 0
<1>1. PICK sum \in Nat : Sums(loaded, sum) /\ allocated <= sum
    BY DEF MemoryInv, Counted
<1>2. sum = 0
    BY <1>1 DEF Sums
<1> QED BY <1>1, <1>2 DEF MemoryInv, TypeOK, GpuAssumption

(* The account and the evicting node are kept by every step of the system.  *)
LEMMA MemoryKept == Spec => []MemoryInv
<1>1. Init => MemoryInv
    <2> SUFFICES ASSUME Init PROVE MemoryInv
        OBVIOUS
    <2>1. TypeOK
        BY GpuAssumption DEF Init, TypeOK, Statuses, GpuAssumption
    <2> DEFINE none == [i \in 0 .. 0 |-> 0]
    <2>2. loaded = <<>> /\ Len(loaded) = 0
        BY DEF Init
    <2>3. none \in [0 .. Len(loaded) -> Nat] /\ none[0] = 0 /\ none[Len(loaded)] = 0
        BY <2>2
    <2>4. \A i, j \in 0 .. Len(loaded) : i <= j => none[i] <= none[j]
        BY <2>2
    <2> HIDE DEF none
    <2>5. Sums(loaded, 0)
        BY <2>2, <2>3, <2>4 DEF Sums
    <2>6. Counted
        BY <2>5 DEF Init, Counted
    <2> QED BY <2>1, <2>6 DEF MemoryInv, EvictsForOne, Init
<1>2. MemoryInv /\ [Next]_vars => MemoryInv'
    BY TypesInductive, CountedStep, EvictsForOneStep, GpuAssumption DEF MemoryInv
<1> QED BY <1>1, <1>2, PTL DEF Spec

(* An acquire that has unloaded everything fits: the waiting branch is dead *)
(* code, whatever the sizes of the models and the card.                     *)
THEOREM AcquireNeverWaits == Spec => []NeverWaits
<1>1. MemoryInv => NeverWaits
    <2> SUFFICES ASSUME MemoryInv, evicting # NoNode, loaded = <<>>
                 PROVE  CanFit(Size(evicting))
        BY DEF NeverWaits
    <2>1. allocated = 0
        BY NothingLoaded, GpuAssumption
    <2>2. evicting \in Nodes /\ Size(evicting) <= Total
        BY DEF MemoryInv, TypeOK, EvictsForOne
    <2>3. Size(evicting) \in Nat
        BY <2>2, GpuAssumption DEF GpuAssumption, Size
    <2> QED BY <2>1, <2>2, <2>3 DEF CanFit
<1> QED BY <1>1, MemoryKept, PTL

(* The models in memory fit on the card together until a slot that loaded   *)
(* its model is left: until then what is counted is what is loaded.         *)
THEOREM FitsBeforeRelease == Spec => []FitsUntilRelease
<1>1. MemoryInv => FitsUntilRelease
    <2> SUFFICES ASSUME MemoryInv, Unreleased
                 PROVE  FitTogether
        BY DEF FitsUntilRelease, Unreleased
    <2>1. PICK sum \in Nat : Sums(loaded, sum) /\ allocated = sum
        BY DEF MemoryInv, Counted
    <2>2. PICK total \in [0 .. Len(loaded) -> Nat] :
              /\ total[0] = 0 /\ total[Len(loaded)] = sum
              /\ \A i \in 1 .. Len(loaded) : total[i] = total[i - 1] + loaded[i].vram
              /\ \A i, j \in 0 .. Len(loaded) : i <= j => total[i] <= total[j]
        BY <2>1 DEF Sums
    <2>3. Len(loaded) \in Nat /\ sum <= Total /\ Total \in Nat
        BY <2>1, GpuAssumption DEF MemoryInv, TypeOK, GpuAssumption
    <2>4. ASSUME NEW i \in 0 .. Len(loaded)
          PROVE  total[i] \in 0 .. Total
        <3>1. total[i] \in Nat /\ total[i] <= total[Len(loaded)]
            BY <2>2, <2>3
        <3> QED BY <3>1, <2>2, <2>3
    <2>5. total \in [0 .. Len(loaded) -> 0 .. Total]
        BY <2>4
    <2> QED BY <2>2, <2>5 DEF FitTogether
<1> QED BY <1>1, MemoryKept, PTL
-----------------------------------------------------------------------------
(* Which node goes first.                                                   *)

(* A row that few enough others rank before is among those fetched.         *)
LEMMA SurelyInFetched ==
    ASSUME TypeOK, GpuAssumption, NEW S \in SUBSET Waiting, FetchPendingNodes(S),
           NEW m \in Nodes, SurelyFetched(m)
    PROVE  m \in S
<1> SUFFICES ASSUME m \notin S PROVE FALSE
    OBVIOUS
<1> DEFINE Before == {x \in Waiting \ {m} : Priority[x] >= Priority[m]}
<1>1. m \in Waiting \ S
    BY DEF SurelyFetched
<1>2. Cardinality(S) = Limit
    BY <1>1 DEF FetchPendingNodes
<1>3. S \subseteq Before
    BY <1>1 DEF FetchPendingNodes
<1>4. Waiting \subseteq Nodes
    BY DEF Waiting
<1>5. IsFiniteSet(Before)
    BY <1>4, FS_Subset DEF GpuAssumption
<1>6. Cardinality(S) <= Cardinality(Before)
    BY <1>3, <1>5, FS_Subset
<1>7. Cardinality(Before) < Limit
    BY DEF SurelyFetched
<1>8. Cardinality(Before) \in Nat /\ Limit \in Nat
    BY <1>5, FS_CardinalityType DEF GpuAssumption
<1> QED BY <1>2, <1>6, <1>7, <1>8

(* The boosts but that of starvation add up to at most 100.                 *)
LEMMA ScoreBounds ==
    ASSUME GpuAssumption, NEW n \in Nodes, NEW w
    PROVE  /\ Score(n, w) \in Int /\ Score(n, w) >= Priority[n]
           /\ ~Starving(n) => Score(n, w) <= Priority[n] + 100
           /\ Starving(n) => Score(n, w) >= Priority[n] + 1000
<1>1. Priority[n] \in Int
    BY DEF GpuAssumption
<1> QED BY <1>1 DEF Score

(* A node that has a row has a place in the order of the rows.              *)
Placed == \A n \in Nodes : node[n] # "absent" => created[n] > 0

LEMMA PlacedStep ==
    ASSUME MemoryInv, Placed, [Next]_vars PROVE Placed'
<1>1. ASSUME NEW n \in Nodes, Arrive(n) PROVE Placed'
    <2>1. IsFiniteSet({k \in Nodes : created[k] # 0})
        BY GpuAssumption, FS_Subset DEF GpuAssumption
    <2>2. Rows + 1 > 0
        BY <2>1, FS_CardinalityType DEF Rows
    <2>3. /\ node' = [node EXCEPT ![n] = "pending"]
          /\ created' = [created EXCEPT ![n] = Rows + 1]
        BY <1>1 DEF Arrive
    <2> HIDE DEF Rows
    <2> QED BY <2>2, <2>3 DEF Placed, MemoryInv, TypeOK
<1>2. CASE UNCHANGED <<node, created>>
    BY <1>2 DEF Placed
<1>3. ASSUME NEW n \in Nodes, ScheduleNext(n) \/ Take(n) \/ Acquire(n) \/ Release(n)
      PROVE  Placed'
    <2>1. /\ created' = created /\ node[n] # "absent"
          /\ \A k \in Nodes : k # n => node'[k] = node[k]
        BY <1>3 DEF ScheduleNext, Winner, Waiting, FetchPendingNodes, Take, Acquire, Asks,
                    AcquireTooBig, AcquireReuse, AcquireSwap, AcquireFits, AcquireEvicts,
                    AllocateNew, Acquired, Release, MemoryInv, TypeOK, queue, gpu
    <2> QED BY <2>1 DEF Placed
<1>4. CASE AcquireEvicted
    <2>1. /\ evicting \in Nodes /\ created' = created /\ node[evicting] = "running"
          /\ node' = [node EXCEPT ![evicting] = "acquired"]
        BY <1>4 DEF AcquireEvicted, AllocateNew, Acquired, MemoryInv, TypeOK, EvictsForOne
    <2> QED BY <2>1 DEF Placed, MemoryInv, TypeOK
<1> QED BY <1>1, <1>2, <1>3, <1>4 DEF Next, Age, EvictOldest, vars, queue, gpu

(* A fresh node is never offered while a fetched one starves, unless its    *)
(* priority is more than 900 higher.                                        *)
THEOREM StarvingGoFirst == Spec => StarvingFirst
<1>1. ASSUME TypeOK, Placed, [Next]_vars,
             NEW n \in Nodes, NEW m \in Nodes,
             node[n] = "pending", node'[n] = "offered", ~Starving(n),
             SurelyFetched(m), Starving(m)
      PROVE  Priority[n] - Priority[m] > 900
    <2>1. ScheduleNext(n)
        <3>1. ~UNCHANGED vars
            BY <1>1 DEF vars, queue
        <3>2. ~Age /\ ~EvictOldest
            BY <1>1 DEF Age, EvictOldest, queue
        <3>3. ~AcquireEvicted
            BY <1>1 DEF AcquireEvicted, AllocateNew, Acquired, TypeOK
        <3>4. \A k \in Nodes : ~Arrive(k) /\ ~Take(k) /\ ~Release(k)
            BY <1>1 DEF Arrive, Take, Release, TypeOK
        <3>5. \A k \in Nodes : ~Acquire(k)
            BY <1>1 DEF Acquire, AcquireTooBig, AcquireEvicts, AcquireReuse, AcquireSwap,
                        AcquireFits, AllocateNew, Acquired, TypeOK, queue
        <3>6. \A k \in Nodes : ScheduleNext(k) => k = n
            BY <1>1 DEF ScheduleNext, TypeOK
        <3> QED BY <1>1, <3>1, <3>2, <3>3, <3>4, <3>5, <3>6 DEF Next
    <2>2. PICK S \in SUBSET Waiting, w \in Workspaces : FetchPendingNodes(S) /\ Winner(n, S, w)
        <3>1. PICK S \in SUBSET Waiting : \E w \in {WorkspaceOf[x] : x \in S} :
                  FetchPendingNodes(S) /\ Winner(n, S, w)
            BY <2>1 DEF ScheduleNext
        <3>2. \A x \in S : WorkspaceOf[x] \in Workspaces
            BY GpuAssumption DEF Waiting, GpuAssumption
        <3> QED BY <3>1, <3>2
    <2>3. m \in S
        BY <1>1, <2>2, SurelyInFetched, GpuAssumption
    <2>4. m # n
        BY <1>1
    <2>5. Score(n, w) > Score(m, w)
        <3>1. \/ Score(n, w) > Score(m, w)
              \/ created[n] < created[m]
            BY <2>2, <2>3, <2>4, ScoreBounds, GpuAssumption DEF Winner
        <3>2. created[n] > 0 /\ created[n] \in Nat /\ created[m] \in Nat /\ old \in Nat
            BY <1>1 DEF Placed, TypeOK
        <3>3. created[m] <= old /\ created[n] > old
            BY <1>1, <3>2 DEF Starving
        <3> QED BY <3>1, <3>2, <3>3
    <2>6. Score(n, w) <= Priority[n] + 100 /\ Score(m, w) >= Priority[m] + 1000
        BY <1>1, ScoreBounds, GpuAssumption
    <2>7. Priority[n] \in Int /\ Priority[m] \in Int /\ Score(n, w) \in Int /\ Score(m, w) \in Int
        BY ScoreBounds, GpuAssumption DEF GpuAssumption
    <2> QED BY <2>5, <2>6, <2>7
<1>2. TypeOK /\ Placed /\ [Next]_vars =>
          [\A n, m \in Nodes :
              /\ node[n] = "pending" /\ node'[n] = "offered" /\ ~Starving(n)
              /\ SurelyFetched(m) /\ Starving(m)
              => Priority[n] - Priority[m] > 900]_vars
    BY <1>1
<1>3. Init => Placed
    BY DEF Init, Placed
<1>4. MemoryInv /\ Placed /\ [Next]_vars => Placed'
    BY PlacedStep
<1> QED BY <1>2, <1>3, <1>4, GpuTyped, MemoryKept, PTL DEF Spec, StarvingFirst
=============================================================================
