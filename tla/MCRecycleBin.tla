---------------------------- MODULE MCRecycleBin ----------------------------
(* Two places, so that a restore can meet another file at its destination. *)
EXTENDS RecycleBin

CONSTANTS here, there

TwoPaths == {here, there}
=============================================================================
