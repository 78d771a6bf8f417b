-------------------------- MODULE MCCamPublication --------------------------
(* One contract and the UI, each in two versions; two locations.  The new   *)
(* UI runs with either contract, the old UI only with the old one.          *)
EXTENDS CamPublication

CONSTANTS abi, ui, v1, v2, manager, a1

MCAbiOf == [n \in {manager} |-> abi]
MCRunnable == [{abi, ui} -> {v1, v2}] \ {[r \in {abi, ui} |-> IF r = abi THEN v2 ELSE v1]}
MCFirstBindings == [n \in {manager} |-> a1]
MCFirstDoc == [r \in {abi, ui} |-> v1]
=============================================================================
