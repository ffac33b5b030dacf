-------------------------- MODULE MCGpuScheduler --------------------------
(* Four nodes on a card of three units: two of one model that need two     *)
(* adapters, one whose model has no room beside theirs, and one, of the    *)
(* highest priority, whose model is larger than the card.  The review node *)
(* outranks the lowest by what the starvation boost is worth at most.      *)
EXTENDS GpuScheduler

CONSTANTS build, test, draft, deep, coder, gemma, giant, qwen, g4, plain, tuned,
          red, blue

FourNodes      == {build, test, draft, deep}
ThreeModels    == {coder, gemma, giant}
TwoFamilies    == {qwen, g4}
TwoLoras       == {plain, tuned}
TwoWorkspaces  == {red, blue}
ModelOfNode    == [n \in FourNodes |->
                     CASE n = draft -> gemma [] n = deep -> giant [] OTHER -> coder]
WorkspaceOfNode == [n \in FourNodes |-> IF n = draft THEN blue ELSE red]
PriorityOfNode == [n \in FourNodes |->
                     CASE n = deep -> 908 [] n = test -> 900 [] OTHER -> 0]
ReviewNodes    == {test}
FamilyOfModel  == [m \in ThreeModels |-> IF m = gemma THEN g4 ELSE qwen]
VramOfModel    == [m \in ThreeModels |-> IF m = giant THEN 5 ELSE 2]
=============================================================================
