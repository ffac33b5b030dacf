------------------------ MODULE ResourceLockProofs ------------------------
(***************************************************************************)
(* Theorems about ResourceLock, for all jobs, paths and times to live.     *)
(***************************************************************************)
EXTENDS ResourceLock, TLAPS

USE DEF Kinds, Locks, NoRow

-----------------------------------------------------------------------------
(* Lemmas about the two ways in which rows change.                         *)

(* The release of any set of rows keeps kinds and expiries, and no lock    *)
(* becomes active by it.                                                   *)
LEMMA ReleaseOnlyLoses ==
    ASSUME TypeOK, NEW chosen, ReleaseRows(chosen)
    PROVE  /\ TypeOK'
           /\ now' = now
           /\ \A p \in Paths, j \in Jobs :
                 /\ (rows'[p][j] = NoRow) <=> (rows[p][j] = NoRow)
                 /\ rows'[p][j].kind = rows[p][j].kind
                 /\ rows'[p][j].expires = rows[p][j].expires
                 /\ Active(p, j)' => Active(p, j)
                 /\ <<p, j>> \notin chosen => (Active(p, j)' <=> Active(p, j))
<1> DEFINE Row(p, j) ==
        IF <<p, j>> \in chosen /\ rows[p][j] # NoRow
        THEN [rows[p][j] EXCEPT !.released = TRUE] ELSE rows[p][j]
<1>1. rows' = [p \in Paths |-> [j \in Jobs |-> Row(p, j)]] /\ now' = now
      /\ answer' = NoAnswer
    BY DEF ReleaseRows
<1>2. ASSUME NEW p \in Paths, NEW j \in Jobs
      PROVE  /\ Row(p, j) \in Locks \union {NoRow}
             /\ (Row(p, j) = NoRow) <=> (rows[p][j] = NoRow)
             /\ Row(p, j).kind = rows[p][j].kind
             /\ Row(p, j).expires = rows[p][j].expires
             /\ ~Row(p, j).released => ~rows[p][j].released
             /\ <<p, j>> \notin chosen => Row(p, j) = rows[p][j]
    <2>1. rows[p][j] \in Locks \union {NoRow}
        BY DEF TypeOK
    <2> QED
        BY <2>1
<1>3. ASSUME NEW p \in Paths, NEW j \in Jobs PROVE rows'[p][j] = Row(p, j)
    BY <1>1
<1>4. TypeOK'
    <2>1. rows' \in [Paths -> [Jobs -> Locks \union {NoRow}]]
        BY <1>1, <1>2
    <2> QED
        BY <1>1, <2>1 DEF TypeOK, Answers
<1> HIDE DEF Row
<1> QED
    BY <1>1, <1>2, <1>3, <1>4 DEF Active

(* An insertion changes one row, which is then active.                     *)
LEMMA InsertAddsOne ==
    ASSUME TypeOK, NEW p \in Paths, NEW j \in Jobs, NEW kind \in Kinds,
           NEW ttl \in TTLs, Insert(p, j, kind, ttl), now' = now
    PROVE  /\ rows' \in [Paths -> [Jobs -> Locks \union {NoRow}]]
           /\ rows'[p][j] = [kind |-> kind, expires |-> now + ttl,
                             released |-> FALSE]
           /\ Active(p, j)'
           /\ \A q \in Paths, k \in Jobs : <<q, k>> # <<p, j>> =>
                 rows'[q][k] = rows[q][k] /\ (Active(q, k)' <=> Active(q, k))
<1>1. ttl \in Nat \ {0} /\ now \in Nat
    BY ClockAssumption DEF TypeOK
<1>2. [kind |-> kind, expires |-> now + ttl, released |-> FALSE] \in Locks
    BY <1>1
<1>3. /\ rows' \in [Paths -> [Jobs -> Locks \union {NoRow}]]
      /\ rows'[p][j] = [kind |-> kind, expires |-> now + ttl,
                        released |-> FALSE]
    BY <1>2 DEF Insert, TypeOK
<1>4. ASSUME NEW q \in Paths, NEW k \in Jobs, <<q, k>> # <<p, j>>
      PROVE  rows'[q][k] = rows[q][k]
    BY <1>4 DEF Insert, TypeOK
<1>5. Active(p, j)'
    BY <1>1, <1>3 DEF Active
<1> QED
    BY <1>3, <1>4, <1>5 DEF Active

-----------------------------------------------------------------------------
(* What each kind of step does to the table.                               *)

LEMMA TypeStep == TypeOK /\ [Next]_vars => TypeOK'
<1> SUFFICES ASSUME TypeOK, [Next]_vars PROVE TypeOK'
    OBVIOUS
<1>1. ASSUME NEW p \in Paths, NEW j \in Jobs, NEW kind \in Kinds,
             NEW r \in {"lock", "conflict", "integrity"},
             Answer(p, j, kind, r)
      PROVE  answer' \in Answers
    BY <1>1 DEF Answer, Answers
<1>2. ASSUME NEW p \in Paths, NEW j \in Jobs, NEW kind \in Kinds,
             \/ AcquireHeld(p, j, kind) \/ AcquireConflict(p, j, kind)
             \/ AcquireAgain(p, j, kind)
      PROVE  TypeOK'
    BY <1>1, <1>2 DEF AcquireHeld, AcquireConflict, AcquireAgain, TypeOK
<1>3. ASSUME NEW p \in Paths, NEW j \in Jobs, NEW kind \in Kinds,
             NEW ttl \in TTLs, AcquireNew(p, j, kind, ttl)
      PROVE  TypeOK'
    BY <1>1, <1>3, InsertAddsOne DEF AcquireNew, TypeOK
<1>4. ASSUME NEW p \in Paths, NEW j \in Jobs, Release(p, j) PROVE TypeOK'
    BY <1>4, ReleaseOnlyLoses DEF Release
<1>5. ASSUME NEW j \in Jobs, ReleaseAll(j) PROVE TypeOK'
    BY <1>5, ReleaseOnlyLoses DEF ReleaseAll
<1>6. CASE CleanupExpired
    BY <1>6, ReleaseOnlyLoses DEF CleanupExpired
<1>7. CASE Tick
    BY <1>7, ClockAssumption DEF Tick, TypeOK, Answers
<1>8. CASE UNCHANGED vars
    BY <1>8 DEF vars, TypeOK
<1> QED
    BY <1>2, <1>3, <1>4, <1>5, <1>6, <1>7, <1>8 DEF Next

(* A step either grants one new lock that conflicts with none, or only     *)
(* takes locks away; the kind of a lock that stays is not changed, and a   *)
(* row once written is there for ever.                                     *)
GrantStep(p, j, kind) ==
    /\ rows[p][j] = NoRow /\ ~Active(p, j) /\ ~Conflict(p, j, kind)
    /\ rows'[p][j].kind = kind /\ Active(p, j)'
    /\ \A q \in Paths, k \in Jobs : <<q, k>> # <<p, j>> =>
          rows'[q][k] = rows[q][k] /\ (Active(q, k)' <=> Active(q, k))
LoseStep ==
    \A p \in Paths, j \in Jobs :
        /\ Active(p, j)' => Active(p, j)
        /\ rows'[p][j].kind = rows[p][j].kind

LEMMA GrantOrLose ==
    ASSUME TypeOK, [Next]_vars
    PROVE  \/ \E p \in Paths, j \in Jobs, kind \in Kinds :
                 GrantStep(p, j, kind)
           \/ LoseStep
<1>1. ASSUME UNCHANGED <<rows, now>> PROVE LoseStep
    BY <1>1 DEF LoseStep, Active
<1>2. ASSUME NEW chosen, ReleaseRows(chosen) PROVE LoseStep
    BY <1>2, ReleaseOnlyLoses DEF LoseStep
<1>3. ASSUME NEW p \in Paths, NEW j \in Jobs, NEW kind \in Kinds,
             NEW ttl \in TTLs, AcquireNew(p, j, kind, ttl)
      PROVE  GrantStep(p, j, kind)
    <2>1. Insert(p, j, kind, ttl) /\ now' = now
        BY <1>3 DEF AcquireNew
    <2>2. /\ rows'[p][j].kind = kind /\ Active(p, j)'
          /\ \A q \in Paths, k \in Jobs : <<q, k>> # <<p, j>> =>
                rows'[q][k] = rows[q][k] /\ (Active(q, k)' <=> Active(q, k))
        <3>1. rows'[p][j] = [kind |-> kind, expires |-> now + ttl,
                             released |-> FALSE]
            BY <2>1, InsertAddsOne
        <3>2. Active(p, j)'
            BY <2>1, InsertAddsOne
        <3>3. \A q \in Paths, k \in Jobs : <<q, k>> # <<p, j>> =>
                rows'[q][k] = rows[q][k] /\ (Active(q, k)' <=> Active(q, k))
            BY <2>1, InsertAddsOne, ZenonT(30)
        <3> QED
            BY <3>1, <3>2, <3>3
    <2> QED
        BY <1>3, <2>2 DEF AcquireNew, GrantStep
<1>4. CASE Tick
    <2>1. ASSUME NEW p \in Paths, NEW j \in Jobs, Active(p, j)'
          PROVE  Active(p, j)
        <3>1. rows[p][j].expires \in Nat /\ now \in Nat
            BY DEF TypeOK
        <3> QED
            BY <1>4, <2>1, <3>1 DEF Tick, Active
    <2> QED
        BY <1>4, <2>1 DEF Tick, LoseStep
<1> QED
    BY <1>1, <1>2, <1>3, <1>4
       DEF Next, AcquireHeld, AcquireConflict, AcquireAgain, Release,
           ReleaseAll, CleanupExpired, vars

LEMMA ExclusionStep ==
    TypeOK /\ MutualExclusion /\ [Next]_vars => MutualExclusion'
<1> SUFFICES ASSUME TypeOK, MutualExclusion, [Next]_vars,
                    NEW q \in Paths, NEW k \in Jobs, NEW l \in Jobs \ {k},
                    Active(q, k)', Active(q, l)'
             PROVE  rows'[q][k].kind = "shared" /\ rows'[q][l].kind = "shared"
    BY DEF MutualExclusion
<1>1. CASE LoseStep
    BY <1>1 DEF LoseStep, MutualExclusion
<1>2. ASSUME NEW p \in Paths, NEW j \in Jobs, NEW kind \in Kinds,
             GrantStep(p, j, kind)
      PROVE  rows'[q][k].kind = "shared" /\ rows'[q][l].kind = "shared"
    <2>1. ASSUME NEW m \in Jobs \ {j}, Active(p, m)
          PROVE  rows[p][m].kind = "shared" /\ kind = "shared"
        <3>1. rows[p][m] \in Locks \union {NoRow} /\ rows[p][m] # NoRow
            BY <2>1 DEF Active, TypeOK
        <3> QED
            BY <1>2, <2>1, <3>1 DEF GrantStep, Conflict
    <2>2. CASE <<q, k>> = <<p, j>>
        BY <1>2, <2>1, <2>2 DEF GrantStep
    <2>3. CASE <<q, l>> = <<p, j>>
        BY <1>2, <2>1, <2>3 DEF GrantStep
    <2>4. CASE <<q, k>> # <<p, j>> /\ <<q, l>> # <<p, j>>
        BY <1>2, <2>4 DEF GrantStep, MutualExclusion
    <2> QED
        BY <2>2, <2>3, <2>4
<1> QED
    BY <1>1, <1>2, GrantOrLose

LEMMA InitHolds == Init => TypeOK /\ MutualExclusion
<1> SUFFICES ASSUME Init PROVE TypeOK /\ MutualExclusion
    OBVIOUS
<1>1. TypeOK
    BY ClockAssumption DEF Init, TypeOK, Answers
<1>2. MutualExclusion
    BY DEF Init, MutualExclusion, Active
<1> QED
    BY <1>1, <1>2

-----------------------------------------------------------------------------
(* Every variable keeps its type: in particular a row is a lock or none    *)
(* and expires at a time that the insertion computed.                      *)
THEOREM TypeCorrect == Spec => []TypeOK
<1> QED
    BY InitHolds, TypeStep, PTL DEF Spec

(* Exclusive locks exclude: acquire's two conflict queries together with   *)
(* expiry, releases and the clean-up keep every other job out.             *)
THEOREM Exclusion == Spec => []MutualExclusion
<1> QED
    BY TypeCorrect, InitHolds, ExclusionStep, PTL DEF Spec

(* cleanup_expired takes no lock that acquire still respects, at the       *)
(* moment of expiry included.                                              *)
THEOREM CleanupIsExact == Spec => CleanupSparesActive
<1>1. TypeOK /\ [Next]_vars =>
        [CleanupExpired =>
            \A p \in Paths, j \in Jobs : Active(p, j) => Active(p, j)']_vars
    <2> SUFFICES ASSUME TypeOK, CleanupExpired,
                        NEW p \in Paths, NEW j \in Jobs, Active(p, j)
                 PROVE  Active(p, j)'
        OBVIOUS
    <2>1. rows[p][j].expires \in Nat /\ now \in Nat
        BY DEF TypeOK
    <2>2. ~Expired(p, j)
        BY <2>1 DEF Expired, Active
    <2> DEFINE chosen ==
            {pj \in Paths \X Jobs : Expired(pj[1], pj[2])}
    <2>3. <<p, j>> \notin chosen
        BY <2>2
    <2>4. ReleaseRows(chosen)
        BY DEF CleanupExpired
    <2> HIDE DEF chosen
    <2> QED
        BY <2>3, <2>4, ReleaseOnlyLoses
<1> QED
    BY <1>1, TypeCorrect, PTL DEF Spec, CleanupSparesActive

(* The UNIQUE constraint makes every row one lock: one that is lost stays  *)
(* lost.                                                                   *)
THEOREM LostForGood == Spec => LockedOnce
<1>1. TypeOK /\ [Next]_vars =>
        [\A p \in Paths, j \in Jobs :
            rows[p][j] # NoRow /\ ~Active(p, j) => ~Active(p, j)']_vars
    <2> SUFFICES ASSUME TypeOK, [Next]_vars,
                        NEW p \in Paths, NEW j \in Jobs,
                        rows[p][j] # NoRow, ~Active(p, j)
                 PROVE  ~Active(p, j)'
        OBVIOUS
    <2>1. CASE LoseStep
        BY <2>1 DEF LoseStep
    <2>2. ASSUME NEW q \in Paths, NEW k \in Jobs, NEW kind \in Kinds,
                 GrantStep(q, k, kind)
          PROVE  ~Active(p, j)'
        BY <2>2 DEF GrantStep
    <2> QED
        BY <2>1, <2>2, GrantOrLose
<1> QED
    BY <1>1, TypeCorrect, PTL DEF Spec, LockedOnce

-----------------------------------------------------------------------------
(* ResourceLock implements LockTable: a grant is a grant, and every other  *)
(* step, the passing of time included, only loses locks.                   *)

LEMMA TableInit == Init => Table!Init
BY DEF Init, Table!Init, Holds, Active

LEMMA TableStep == TypeOK /\ [Next]_vars => [Table!Next]_Holds
<1> SUFFICES ASSUME TypeOK, [Next]_vars PROVE Table!Next
    OBVIOUS
<1> DEFINE Hold(p, j) == IF Active(p, j) THEN rows[p][j].kind ELSE "none"
<1>1. /\ Holds = [p \in Paths |-> [j \in Jobs |-> Hold(p, j)]]
      /\ Holds' = [p \in Paths |-> [j \in Jobs |-> Hold(p, j)']]
    BY DEF Holds
<1>2. ASSUME NEW p \in Paths, NEW j \in Jobs
      PROVE  Hold(p, j) \in Kinds \union {"none"}
    BY DEF TypeOK
<1>3. ASSUME LoseStep PROVE Table!Lose
    <2>1. ASSUME NEW p \in Paths, NEW j \in Jobs
          PROVE  Hold(p, j)' \in {Hold(p, j), "none"}
        BY <1>3, <2>1 DEF LoseStep
    <2>2. Holds' \in [Paths -> [Jobs -> Kinds \union {"none"}]]
        BY <1>1, <1>2, <2>1
    <2> QED
        BY <1>1, <2>1, <2>2 DEF Table!Lose, Table!Kinds
<1>4. ASSUME NEW p \in Paths, NEW j \in Jobs, NEW kind \in Kinds,
             GrantStep(p, j, kind)
      PROVE  Table!Grant(p, j, kind)
    <2>1. Hold(p, j) = "none" /\ Hold(p, j)' = kind
        BY <1>4 DEF GrantStep
    <2>2. ASSUME NEW q \in Paths, NEW k \in Jobs, <<q, k>> # <<p, j>>
          PROVE  Hold(q, k)' = Hold(q, k)
        BY <1>4, <2>2 DEF GrantStep
    <2>3. Holds' = [Holds EXCEPT ![p][j] = kind]
        <3> HIDE DEF Hold
        <3> QED
            BY <1>1, <2>1, <2>2
    <2>4. ASSUME NEW k \in Jobs \ {j}
          PROVE  \/ Hold(p, k) = "none"
                 \/ Hold(p, k) = "shared" /\ kind = "shared"
        <3>1. CASE Active(p, k)
            <4>1. rows[p][k] \in Locks
                BY <3>1 DEF Active, TypeOK
            <4> QED
                BY <1>4, <3>1, <4>1 DEF GrantStep, Conflict
        <3> QED
            BY <3>1
    <2> HIDE DEF Hold
    <2> QED
        BY <1>1, <2>1, <2>3, <2>4 DEF Table!Grant, Table!Compatible
<1> QED
    BY <1>3, <1>4, GrantOrLose DEF Table!Next, Table!Kinds

(* The lock table of the swarm is a lock table.                            *)
THEOREM TableImplemented == Spec => ImplementsLockTable
<1> QED
    BY TypeCorrect, TableInit, TableStep, PTL
       DEF Spec, ImplementsLockTable, Table!Spec
=============================================================================
