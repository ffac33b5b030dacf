---------------------------- MODULE ResourceLock ----------------------------
(***************************************************************************)
(* The locks that keep the jobs of the swarm from working on the same      *)
(* resource: ResourceLockManager and the resource_locks table              *)
(* (backend/swarm/resource_lock.py, backend/core/schema.py).               *)
(*                                                                         *)
(* The manager is synchronous code in one event loop, so each call is one  *)
(* step.  UNIQUE(resource_path, held_by_job_id) leaves at most one row per *)
(* path and job for ever, which is why the table is a function of both.    *)
(***************************************************************************)
EXTENDS Integers

CONSTANTS
    Jobs, Paths,
    TTLs,            \* values of ttl_sec
    MaxTime          \* bound of the clock

ASSUME ClockAssumption == TTLs \subseteq Nat \ {0} /\ MaxTime \in Nat

VARIABLES
    rows,            \* rows[p][j]: the row of job j on path p, or NoRow
    now,             \* the clock, in units of the shortest ttl
    answer           \* what the last step answered to a call of acquire

vars == <<rows, now, answer>>

Kinds == {"shared", "exclusive"}
Locks == [kind : Kinds, expires : Nat, released : BOOLEAN]
NoRow == [kind |-> "none", expires |-> 0, released |-> TRUE]
NoAnswer == [result |-> "none"]
Answers ==
    {NoAnswer} \union [result : {"lock", "conflict", "integrity"},
                       path : Paths, job : Jobs, kind : Kinds]

(* Types; a row expires at a time that the insertion computed.             *)
TypeOK ==
    /\ rows \in [Paths -> [Jobs -> Locks \union {NoRow}]]
    /\ now \in 0 .. MaxTime
    /\ answer \in Answers

Init ==
    /\ rows = [p \in Paths |-> [j \in Jobs |-> NoRow]]
    /\ now = 0 /\ answer = NoAnswer

-----------------------------------------------------------------------------
(* released_at IS NULL AND expires_at > now.                               *)
Active(p, j) == ~rows[p][j].released /\ rows[p][j].expires > now

MutantConflictIgnoresShared(p, j, kind) ==
    \E k \in Jobs \ {j} : Active(p, k) /\ rows[p][k].kind = "exclusive"
Conflict(p, j, kind) ==
    \E k \in Jobs \ {j} :
        Active(p, k) /\ (rows[p][k].kind = "exclusive" \/ kind = "exclusive")

Answer(p, j, kind, result) ==
    answer' = [result |-> result, path |-> p, job |-> j, kind |-> kind]

(* The call returns the job's active lock, whatever kind is asked for, and *)
(* leaves its expiry alone.                                                *)
AcquireHeld(p, j, kind) ==
    /\ Active(p, j)
    /\ Answer(p, j, kind, "lock") /\ UNCHANGED <<rows, now>>

AcquireConflict(p, j, kind) ==
    /\ ~Active(p, j) /\ Conflict(p, j, kind)
    /\ Answer(p, j, kind, "conflict") /\ UNCHANGED <<rows, now>>

MutantInsertBackwards(p, j, kind, ttl) ==
    rows' = [rows EXCEPT ![p][j] =
                [kind |-> kind, expires |-> now - ttl, released |-> FALSE]]
Insert(p, j, kind, ttl) ==
    rows' = [rows EXCEPT ![p][j] =
                [kind |-> kind, expires |-> now + ttl, released |-> FALSE]]

AcquireNew(p, j, kind, ttl) ==
    /\ ~Active(p, j) /\ ~Conflict(p, j, kind) /\ rows[p][j] = NoRow
    /\ Insert(p, j, kind, ttl)
    /\ Answer(p, j, kind, "lock") /\ UNCHANGED now

MutantReplaceRow(p, j, kind) ==
    /\ ~Active(p, j) /\ ~Conflict(p, j, kind) /\ rows[p][j] # NoRow
    /\ \E ttl \in TTLs : Insert(p, j, kind, ttl)
    /\ Answer(p, j, kind, "lock") /\ UNCHANGED now
(* A row of this job, released or expired, is still there: the INSERT      *)
(* breaks the UNIQUE constraint and the call raises.                       *)
AcquireAgain(p, j, kind) ==
    /\ ~Active(p, j) /\ ~Conflict(p, j, kind) /\ rows[p][j] # NoRow
    /\ Answer(p, j, kind, "integrity") /\ UNCHANGED <<rows, now>>

(* UPDATE ... SET released_at = now WHERE ... AND released_at IS NULL; on  *)
(* a row that is released already the update is the identity here.         *)
ReleaseRows(chosen) ==
    /\ rows' = [p \in Paths |-> [j \in Jobs |->
                   IF <<p, j>> \in chosen /\ rows[p][j] # NoRow
                   THEN [rows[p][j] EXCEPT !.released = TRUE] ELSE rows[p][j]]]
    /\ answer' = NoAnswer /\ UNCHANGED now

(* release and force_release, by the id of the row.                        *)
Release(p, j) == ReleaseRows({<<p, j>>})

ReleaseAll(j) == ReleaseRows({<<p, j>> : p \in Paths})

MutantExpiredTooSoon(p, j) == rows[p][j].expires <= now + 1
Expired(p, j) == rows[p][j].expires <= now

CleanupExpired ==
    ReleaseRows({pj \in Paths \X Jobs : Expired(pj[1], pj[2])})

Tick ==
    /\ now < MaxTime /\ now' = now + 1
    /\ answer' = NoAnswer /\ UNCHANGED rows

Next ==
    \/ \E p \in Paths, j \in Jobs, kind \in Kinds :
          \/ AcquireHeld(p, j, kind)
          \/ AcquireConflict(p, j, kind)
          \/ \E ttl \in TTLs : AcquireNew(p, j, kind, ttl)
          \/ AcquireAgain(p, j, kind)
    \/ \E p \in Paths, j \in Jobs : Release(p, j)
    \/ \E j \in Jobs : ReleaseAll(j)
    \/ CleanupExpired
    \/ Tick

Spec == Init /\ [][Next]_vars

-----------------------------------------------------------------------------
(* An exclusive lock is the only active lock on its path, through every    *)
(* expiry, release and repeated call.                                      *)
MutualExclusion ==
    \A p \in Paths, j \in Jobs : \A k \in Jobs \ {j} :
        Active(p, j) /\ Active(p, k) =>
            rows[p][j].kind = "shared" /\ rows[p][k].kind = "shared"

(* Cleaning up never takes a lock that is still held, at the very moment   *)
(* of expiry in particular.                                                *)
CleanupSparesActive ==
    [][CleanupExpired =>
          \A p \in Paths, j \in Jobs : Active(p, j) => Active(p, j)']_vars

(* A lock that was lost, released or expired, never becomes active again:  *)
(* a row is one lock, so a release by id that comes late (release, or the  *)
(* operator's force_release) never takes a lock granted in the meantime.   *)
LockedOnce ==
    [][\A p \in Paths, j \in Jobs :
          rows[p][j] # NoRow /\ ~Active(p, j) => ~Active(p, j)']_vars

(* What the rows say is held behaves as a lock table: every insertion is a *)
(* compatible grant, and calls answered without one, releases, clean-ups   *)
(* and the passing of time only lose locks.                                *)
Holds ==
    [p \in Paths |-> [j \in Jobs |->
        IF Active(p, j) THEN rows[p][j].kind ELSE "none"]]
Table == INSTANCE LockTable WITH holds <- Holds
ImplementsLockTable == Table!Spec

(* "Raises LockConflictError if an incompatible active lock is held by     *)
(* another job" (resource_lock.py:97): a call that asks for an exclusive   *)
(* lock and is given one leaves no other job with a lock on the path.      *)
GrantedAsAsked ==
    (answer.result = "lock" /\ answer.kind = "exclusive") =>
        \A k \in Jobs \ {answer.job} : ~Active(answer.path, k)

(* The other half of that sentence, the only exception the docstring has:  *)
(* a call that is refused meets a lock of another job.                     *)
RefusedOnlyOnConflict ==
    answer.result \in {"conflict", "integrity"} =>
        \E k \in Jobs \ {answer.job} : Active(answer.path, k)
=============================================================================
