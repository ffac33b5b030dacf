---------------------------- MODULE MCJobPipeline ----------------------------
(* Plans for the model checker: deps are positions in the plan, a plan of   *)
(* two nodes in order, one whose second node comes first, and (Broken) one  *)
(* that names a node it does not contain.                                   *)
EXTENDS JobPipeline

ValidPlans  == {<< {}, {1} >>, << {2}, {} >>}
ShortPlans  == {<< {} >>}
ReversedPlan == {<< {2}, {} >>}
BrokenPlans == {<< {}, {0} >>}
Two == {0, 1}
One == {0}
NoSlack == {}
FirstSlack == {1}
=============================================================================
