-------------------------- MODULE NotarizationRecord --------------------------
(***************************************************************************)
(* The life of one row of the contracts and assets tables as the           *)
(* specification of the module tells it: a record is created PENDING, gets *)
(* at most one transaction, and ends CONFIRMED or FAILED for good.         *)
(***************************************************************************)
CONSTANTS Docs, Tx, NoTx
VARIABLE record

Absent == [status |-> "absent", tx |-> NoTx]

Init == record = [d \in Docs |-> Absent]

Set(d, status, t) == record' = [record EXCEPT ![d] = [status |-> status, tx |-> t]]

Create(d) == record[d] = Absent /\ Set(d, "PENDING", NoTx)

Submit(d, t) ==
  /\ record[d] = [status |-> "PENDING", tx |-> NoTx]
  /\ \A e \in Docs : record[e].tx # t
  /\ Set(d, "PENDING", t)

Confirm(d) ==
  /\ record[d].status = "PENDING" /\ record[d].tx # NoTx
  /\ Set(d, "CONFIRMED", record[d].tx)

Fail(d) ==
  /\ record[d] = [status |-> "PENDING", tx |-> NoTx]
  /\ Set(d, "FAILED", NoTx)

Next == \E d \in Docs : Create(d) \/ Confirm(d) \/ Fail(d) \/ \E t \in Tx : Submit(d, t)

Spec == Init /\ [][Next]_record
=============================================================================
