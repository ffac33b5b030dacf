---------------------------- MODULE FileCustody ----------------------------
(***************************************************************************)
(* What the recycle bin promises of a file's content                       *)
(* (backend/security/recycle_bin.py, module docstring and safe_delete):    *)
(* deleting a file only takes it into custody; it leaves custody by being  *)
(* restored or by a purge, and what is gone never comes back.  A restore   *)
(* may displace the file that was at its destination.                      *)
(***************************************************************************)
CONSTANT Files

VARIABLE where

Places == {"unborn", "out", "held", "gone"}

CustodyInit == where = [f \in Files |-> "unborn"]

Goes(f, from, to) == where[f] = from /\ where' = [where EXCEPT ![f] = to]

Create(f)   == Goes(f, "unborn", "out")
Bin(f)      == Goes(f, "out", "held")
Restore(f)  == Goes(f, "held", "out")
Purge(f)    == Goes(f, "held", "gone")
Displace(f) == Goes(f, "out", "gone")

(* A restore onto a file that is still there.                              *)
RestoreOver(f, g) ==
    /\ where[f] = "held" /\ where[g] = "out"
    /\ where' = [where EXCEPT ![f] = "out", ![g] = "gone"]

CustodyNext ==
    \E f \in Files :
        \/ Create(f) \/ Bin(f) \/ Restore(f) \/ Purge(f) \/ Displace(f)
        \/ \E g \in Files : RestoreOver(f, g)

CustodySpec == CustodyInit /\ [][CustodyNext]_where
=============================================================================
