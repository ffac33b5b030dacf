--------------------------- MODULE MCResourceLock ---------------------------
(* Three jobs that contend for one path, and two for the disagreements; a  *)
(* short and a long ttl.                                                   *)
EXTENDS ResourceLock

CONSTANTS a, b, c, f

ThreeJobs == {a, b, c}
TwoJobs   == {a, b}
OnePath   == {f}
ShortLong == {1, 2}
=============================================================================
