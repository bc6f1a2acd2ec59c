------------------------------- MODULE ViewLog -------------------------------
(***************************************************************************)
(* What POST /views promises: the first request for a key records the      *)
(* event and answers with its id in one step, and every other one is       *)
(* answered with that id.                                                  *)
(***************************************************************************)
CONSTANTS Keys, Ids, NoId
VARIABLES
  log,      \* the event recorded for each key
  answers   \* the 202 answers given so far

Init == log = [k \in Keys |-> NoId] /\ answers = {}

Answer(k, id, duplicate) == [key |-> k, id |-> id, duplicate |-> duplicate]

Record(k, id) ==
  /\ log[k] = NoId
  /\ \A j \in Keys : log[j] # id
  /\ log' = [log EXCEPT ![k] = id]
  /\ answers' = answers \cup {Answer(k, id, FALSE)}

Replay(k) ==
  /\ log[k] # NoId
  /\ answers' = answers \cup {Answer(k, log[k], TRUE)}
  /\ UNCHANGED log

Next == \E k \in Keys : Replay(k) \/ \E id \in Ids : Record(k, id)

Spec == Init /\ [][Next]_<<log, answers>>
=============================================================================
