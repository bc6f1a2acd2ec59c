------------------------------- MODULE MCAudit -------------------------------
(* Instances of Audit for TLC.                                               *)
EXTENDS Audit, TLC

\* The script on the asset the contract knows, or the page on a contract whose
\* row was altered.
MCAudits == {<<"script", 2>>, <<"browser", 3>>}
=============================================================================
