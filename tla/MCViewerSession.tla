-------------------------- MODULE MCViewerSession --------------------------
(* Read routes: the entry, which anyone is shown; one whose calls need an     *)
(* account; one whose screen alone reads it.  A write route that only the     *)
(* account "alice" is shown.                                                  *)
EXTENDS ViewerSession, TLC

CONSTANTS alice, bob, nobody, entry, component, profile, report, blank, serial

MCLinks ==
  [r \in ReadRoutes |->
     [a \in {alice, bob, nobody} |->
        IF r = entry THEN ReadRoutes \ {entry}
        ELSE IF r = component /\ a = alice THEN {entry, report} ELSE {entry}]]
=============================================================================
