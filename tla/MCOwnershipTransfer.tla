------------------------ MODULE MCOwnershipTransfer ------------------------
(* Instances of OwnershipTransfer for TLC. *)
EXTENDS OwnershipTransfer, TLC

\* Hashes are interchangeable.
Symmetry == Permutations(Hashes)
=============================================================================
