----------------------------- MODULE CamCatalog -----------------------------
(***************************************************************************)
(* What a host promises the viewer that loads from it: publications are    *)
(* whole documents, one after another, and a load yields one that was the  *)
(* published one at some moment between its begin and its end.             *)
(***************************************************************************)
EXTENDS Integers, Sequences

CONSTANTS Docs, None

VARIABLES
  published,  \* the documents published so far
  begun,      \* the position of the last document when the load began, 0: none runs
  loaded      \* the document of the last load, or None

Init == \E d \in Docs : published = <<d>> /\ begun = 0 /\ loaded = None

Publish(d) == published' = Append(published, d) /\ UNCHANGED <<begun, loaded>>

Begin == begun = 0 /\ begun' = Len(published) /\ UNCHANGED <<published, loaded>>

Finish ==
  /\ begun > 0
  /\ \E i \in begun..Len(published) : loaded' = published[i]
  /\ begun' = 0 /\ UNCHANGED published

Fail == begun > 0 /\ begun' = 0 /\ UNCHANGED <<published, loaded>>

Next == (\E d \in Docs : Publish(d)) \/ Begin \/ Finish \/ Fail

Spec == Init /\ [][Next]_<<published, begun, loaded>>
=============================================================================
