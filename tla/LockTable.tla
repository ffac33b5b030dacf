----------------------------- MODULE LockTable -----------------------------
(***************************************************************************)
(* What the resource locks of the swarm promise: on each path either one   *)
(* job holds an exclusive lock or any number hold shared ones; a lock is   *)
(* granted to a job that has none there, keeps its kind while it is held,  *)
(* and may be lost at any time (released or expired).  ResourceLock is     *)
(* shown to implement this specification.                                  *)
(***************************************************************************)
CONSTANTS Jobs, Paths

VARIABLE holds     \* holds[p][j]: the lock of job j on path p

Kinds == {"shared", "exclusive"}

Compatible(p, j, kind) ==
    \A k \in Jobs \ {j} :
        \/ holds[p][k] = "none"
        \/ holds[p][k] = "shared" /\ kind = "shared"

Init == holds = [p \in Paths |-> [j \in Jobs |-> "none"]]

Grant(p, j, kind) ==
    /\ holds[p][j] = "none" /\ Compatible(p, j, kind)
    /\ holds' = [holds EXCEPT ![p][j] = kind]

Lose ==
    /\ holds' \in [Paths -> [Jobs -> Kinds \union {"none"}]]
    /\ \A p \in Paths, j \in Jobs : holds'[p][j] \in {holds[p][j], "none"}

Next ==
    \/ \E p \in Paths, j \in Jobs, kind \in Kinds : Grant(p, j, kind)
    \/ Lose

Spec == Init /\ [][Next]_holds
=============================================================================
