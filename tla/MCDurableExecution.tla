------------------------ MODULE MCDurableExecution ------------------------
(* Two workers, so that one can take over what the other was doing.        *)
EXTENDS DurableExecution

CONSTANTS ann, bob, report

TwoWorkers == {ann, bob}
OneJob == {report}
=============================================================================
