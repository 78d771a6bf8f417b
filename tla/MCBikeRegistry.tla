--------------------------- MODULE MCBikeRegistry ---------------------------
(* One component, two collections, a person and a shop whose account is a   *)
(* contract; the two collections are interchangeable.                       *)
EXTENDS BikeUI, TLC

CONSTANTS alice, shop, serial, oldTokens, newTokens, uri1, uri2, police

AllCapabilities == {Capabilities}
CollectionSymmetry == Permutations(Collections)
=============================================================================
