---------------------------- MODULE MCEgressProxy ----------------------------
(* A host that is allowed and one that is not; two global addresses and one   *)
(* that is not; three bytes each way through a buffer and a window of two.    *)
EXTENDS EgressProxy
=============================================================================
