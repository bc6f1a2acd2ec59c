--------------------------- MODULE NotarizationInv ---------------------------
(***************************************************************************)
(* The inductive invariant behind NotarizedOnce, AcceptedIsTracked,        *)
(* ConfirmedIsDeep and RefinesRecord.                                      *)
(***************************************************************************)
EXTENDS Notarization

Owns(q)       == request[q].pc \in {"send", "mark", "fail"}
SentFor(t, d) == Sent(t) /\ txs[t].doc = d

(* The request that inserted the row of a document is the only one that    *)
(* will touch it until it settles, and finds it as it left it.             *)
OwnersApart ==
  \A q \in Requests : Owns(q) =>
    /\ rows[Doc(q)] = [status |-> "PENDING", tx |-> NoTx]
    /\ \A z \in Requests : Owns(z) /\ Doc(z) = Doc(q) => z = q

(* A transaction belongs to a document with a row, and a request that is   *)
(* about to send is the first.                                             *)
SentHasRow == \A t \in Tx : Sent(t) => txs[t].doc \in Docs /\ rows[txs[t].doc].status # "absent"
SendIsFirst ==
  \A q \in Requests : At(q, "send") => \A t \in Tx : ~SentFor(t, Doc(q))

(* The hash in hand, and the hash of a row, are of its document.           *)
HashInHand == \A q \in Requests : At(q, "mark") => request[q].hash \in Tx /\ SentFor(request[q].hash, Doc(q))
RowHash    == \A d \in Docs : rows[d].tx # NoTx => SentFor(rows[d].tx, d)

(* What the status says about the hash.                                    *)
RowShape ==
  \A d \in Docs :
    /\ rows[d].status = "absent" => rows[d] = NoRow
    /\ rows[d].status = "FAILED" => rows[d].tx = NoTx
    /\ rows[d].status = "CONFIRMED" => rows[d].tx # NoTx /\ IsConfirmed(rows[d].tx)

(* A row that has a hash keeps it, and leaves PENDING for CONFIRMED only.  *)
Tracked(w)    == rows[w[1]].tx = w[2] /\ rows[w[1]].status \in {"PENDING", "CONFIRMED"}
PassesTracked == \A r \in Passes : \A w \in pass[r] : Tracked(w)

RecordInv ==
  /\ TypeOK
  /\ NotarizedOnce
  /\ OwnersApart
  /\ SentHasRow
  /\ SendIsFirst
  /\ HashInHand
  /\ RowHash
  /\ RowShape
  /\ PassesTracked
  /\ AcceptedIsTracked
=============================================================================
