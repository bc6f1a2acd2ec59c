-------------------------- MODULE MCSequentialNonce --------------------------
(* Instances of SequentialNonce for TLC.  Senders are interchangeable.     *)
EXTENDS SequentialNonce, TLC

SenderSymmetry == Permutations(Senders)
=============================================================================
