--------------------------- MODULE MCNotarization ---------------------------
(* Instances of Notarization for TLC.  Requests and passes are             *)
(* interchangeable, and so are the ids of assets.                          *)
EXTENDS NotarizationInv, TLC

SlotSymmetry == Permutations(Requests) \cup Permutations(Passes) \cup Permutations(Assets)
=============================================================================
