------------------------- MODULE MCViewRegistration -------------------------
(* Instances of ViewRegistration for TLC.  No symmetry: the run checks a   *)
(* liveness property.                                                      *)
EXTENDS ViewRegistration
=============================================================================
