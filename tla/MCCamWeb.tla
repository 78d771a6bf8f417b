------------------------------ MODULE MCCamWeb ------------------------------
(* An entry view with an input, a component view, and one write route that   *)
(* both views offer and that continues to the component view.                *)
EXTENDS CamWeb, TLC

CONSTANTS alice, bob, nobody, entry, component, report, blank, serial

MCLinks ==
  [r \in {entry, component} |->
     [a \in {alice, bob, nobody} |-> IF r = entry THEN {component, report} ELSE {entry}]]

MCThen == (report :> component)
=============================================================================
