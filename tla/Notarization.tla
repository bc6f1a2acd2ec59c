----------------------------- MODULE Notarization -----------------------------
(***************************************************************************)
(* Notarization of contracts and assets: ContractService.notarize and      *)
(* AssetService.notarize (the same code over two tables), the passes of    *)
(* the ReconcileJob over these tables (reconcileContracts and              *)
(* reconcileAssets) and the notarize functions of the Notary contract.     *)
(*                                                                         *)
(* A request is an async function: each awaited call is an action, and     *)
(* other requests and passes run in between.  A document has one content   *)
(* hash; nothing here depends on its value.                                *)
(***************************************************************************)
EXTENDS Naturals, FiniteSets

CONSTANTS
  Contracts, Assets,  \* the ids that may be notarized
  MaxTx,              \* bound: transactions ever broadcast
  Requests,           \* POST .../notarize requests that may be in flight
  Passes,             \* reconciliation passes that may be in flight
  Env                 \* what may go wrong, a subset of Hardships

(***************************************************************************)
(* crash: the process dies and restarts; dbError: a query fails;           *)
(* sendRefused: the node or the gas estimation refuses a transaction;      *)
(* sendLost: the node takes one and the answer is lost; txReverted: a      *)
(* mined transaction reverts; txDropped: the mempool forgets one; reorg: a *)
(* shallow block is undone.                                                *)
(***************************************************************************)
Hardships == {"crash", "dbError", "sendRefused", "sendLost",
              "txReverted", "txDropped", "reorg"}

ASSUME NotarizationAssumption ==
  /\ Contracts \cap Assets = {} /\ IsFiniteSet(Contracts \cup Assets)
  /\ MaxTx \in Nat /\ Env \subseteq Hardships

VARIABLES
  rows,      \* the contracts and assets tables, by id
  txs,       \* notarize transactions handed to the network
  request,   \* locals of the requests in flight
  pass,      \* locals of the reconciliation passes in flight
  accepted   \* history: documents answered 201, with the hash in the answer

vars == <<rows, txs, request, pass, accepted>>

Docs == Contracts \cup Assets
Tx   == 1..MaxTx
NoTx == 0

Row   == [status : {"absent", "PENDING", "CONFIRMED", "FAILED"}, tx : Tx \cup {NoTx}]
NoRow == [status |-> "absent", tx |-> NoTx]

NoDoc == "none"

Transaction == [state : {"unsent", "pool", "mined", "deep", "reverted", "dropped"},
                doc : Docs \cup {NoDoc}]
Unsent      == [state |-> "unsent", doc |-> NoDoc]

RequestLocals == [pc : {"idle", "create", "send", "mark", "fail"},
                  doc : Docs \cup {NoDoc}, hash : Tx \cup {NoTx}]
IdleRequest   == [pc |-> "idle", doc |-> NoDoc, hash |-> NoTx]

(* What a pass has yet to look at; nothing when it is not running.         *)
PassLocals == SUBSET (Docs \X Tx)

Init ==
  /\ rows = [d \in Docs |-> NoRow]
  /\ txs = [t \in Tx |-> Unsent]
  /\ request = [q \in Requests |-> IdleRequest]
  /\ pass = [r \in Passes |-> {}]
  /\ accepted = {}

SetRow(d, row)     == rows' = [rows EXCEPT ![d] = row]
SetRequest(q, k)   == request' = [request EXCEPT ![q] = k]
At(q, pc)          == request[q].pc = pc
Doc(q)             == request[q].doc

-----------------------------------------------------------------------------
(* notarize.                                                               *)

(* findById: an id with a row is answered 409 and nothing happens.         *)
Find(q, d) ==
  /\ At(q, "idle")
  /\ rows[d].status = "absent"
  /\ SetRequest(q, [pc |-> "create", doc |-> d, hash |-> NoTx])
  /\ UNCHANGED <<rows, txs, pass, accepted>>

(* Mutant: the insert replaces a row that is there.                        *)
Create_Upsert(q) ==
  /\ At(q, "create")
  /\ SetRow(Doc(q), [NoRow EXCEPT !.status = "PENDING"])
  /\ SetRequest(q, [request[q] EXCEPT !.pc = "send"])
  /\ UNCHANGED <<txs, pass, accepted>>

(* create: a row inserted meanwhile makes the insert fail on the primary   *)
(* key, and the request is answered 500.                                   *)
Create(q) ==
  /\ At(q, "create")
  /\ IF rows[Doc(q)].status = "absent"
     THEN /\ SetRow(Doc(q), [NoRow EXCEPT !.status = "PENDING"])
          /\ SetRequest(q, [request[q] EXCEPT !.pc = "send"])
     ELSE SetRequest(q, IdleRequest) /\ UNCHANGED rows
  /\ UNCHANGED <<txs, pass, accepted>>

Registered(d) == \E t \in Tx : txs[t].doc = d /\ txs[t].state \in {"mined", "deep"}

Broadcast(q, t) ==
  /\ txs[t] = Unsent /\ \A u \in Tx : u < t => txs[u] # Unsent
  /\ txs' = [txs EXCEPT ![t] = [state |-> "pool", doc |-> Doc(q)]]

(* gateway.notarizeAsset or notarizeContract resolves with the hash.       *)
Send(q, t) ==
  /\ At(q, "send")
  /\ ~Registered(Doc(q))
  /\ Broadcast(q, t)
  /\ SetRequest(q, [request[q] EXCEPT !.pc = "mark", !.hash = t])
  /\ UNCHANGED <<rows, pass, accepted>>

(* It rejects although the transaction went out.                           *)
SendLost(q, t) ==
  /\ "sendLost" \in Env
  /\ At(q, "send")
  /\ ~Registered(Doc(q))
  /\ Broadcast(q, t)
  /\ SetRequest(q, [request[q] EXCEPT !.pc = "fail"])
  /\ UNCHANGED <<rows, pass, accepted>>

(* It rejects and nothing went out: any refusal, AlreadyExists included.   *)
SendRefused(q) ==
  /\ At(q, "send")
  /\ "sendRefused" \in Env \/ Registered(Doc(q))
  /\ SetRequest(q, [request[q] EXCEPT !.pc = "fail"])
  /\ UNCHANGED <<rows, txs, pass, accepted>>

(* Mutant: a settled request keeps the hash of its answer.                 *)
Settle_Keep(q) == SetRequest(q, [IdleRequest EXCEPT !.hash = request[q].hash])

Settle(q) == SetRequest(q, IdleRequest)

(* Mutant: the hash is answered but not stored.                            *)
Submitted_NoHash(row, t) == row

Submitted(row, t) == [row EXCEPT !.tx = t]

(* markSubmitted, and the answer 201.                                      *)
Mark(q) ==
  /\ At(q, "mark")
  /\ SetRow(Doc(q), Submitted(rows[Doc(q)], request[q].hash))
  /\ accepted' = accepted \cup {<<Doc(q), request[q].hash>>}
  /\ Settle(q)
  /\ UNCHANGED <<txs, pass>>

(* markSubmitted throws inside the try: the row will be marked FAILED with *)
(* its transaction on the way.                                             *)
MarkError(q) ==
  /\ "dbError" \in Env
  /\ At(q, "mark")
  /\ SetRequest(q, [request[q] EXCEPT !.pc = "fail"])
  /\ UNCHANGED <<rows, txs, pass, accepted>>

(* The catch: markFailed, then 500.                                        *)
Fail(q) ==
  /\ At(q, "fail")
  /\ SetRow(Doc(q), [rows[Doc(q)] EXCEPT !.status = "FAILED"])
  /\ Settle(q)
  /\ UNCHANGED <<txs, pass, accepted>>

(* create or markFailed throws: 500, and nothing else happens.             *)
Abort(q) ==
  /\ "dbError" \in Env
  /\ At(q, "create") \/ At(q, "fail")
  /\ Settle(q)
  /\ UNCHANGED <<rows, txs, pass, accepted>>

NotarizeStep(q) ==
  \/ Create(q) \/ SendRefused(q) \/ Mark(q) \/ MarkError(q) \/ Fail(q) \/ Abort(q)
  \/ \E t \in Tx : Send(q, t) \/ SendLost(q, t)

Notarize(q, ids) == (\E d \in ids : Find(q, d)) \/ (Doc(q) \in ids /\ NotarizeStep(q))

NotarizeContract(q) == Notarize(q, Contracts)
NotarizeAsset(q)    == Notarize(q, Assets)

-----------------------------------------------------------------------------
(* Reconciliation.                                                         *)

(* findPendingWithTx of one of the tables; an idle pass has nothing to do. *)
PendingWithTx(ids) ==
  {w \in ids \X Tx : rows[w[1]].status = "PENDING" /\ rows[w[1]].tx = w[2]}

StartPass(r, ids) ==
  /\ pass[r] = {}
  /\ pass' = [pass EXCEPT ![r] = PendingWithTx(ids)]
  /\ UNCHANGED <<rows, txs, request, accepted>>

ReconcileContracts(r) == StartPass(r, Contracts)
ReconcileAssets(r)    == StartPass(r, Assets)

(* Mutant: one confirmation is enough.                                     *)
IsConfirmed_Shallow(t) == txs[t].state \in {"mined", "deep", "reverted"}

(* confirmations >= NOTARY_CONFIRMATIONS, of a transaction that reverted   *)
(* too.                                                                    *)
IsConfirmed(t) == txs[t].state \in {"deep", "reverted"}

(* One row of the pass: confirmations, then markConfirmed whatever the row *)
(* has become.  A receipt that is deep stays deep, so the two awaits are   *)
(* one step.                                                               *)
Confirm(r, w) ==
  /\ w \in pass[r]
  /\ IsConfirmed(w[2])
  /\ SetRow(w[1], [rows[w[1]] EXCEPT !.status = "CONFIRMED"])
  /\ pass' = [pass EXCEPT ![r] = @ \ {w}]
  /\ UNCHANGED <<txs, request, accepted>>

(* Too shallow, or a query failed: left for the next tick.                 *)
Skip(r, w) ==
  /\ w \in pass[r]
  /\ IsConfirmed(w[2]) => "dbError" \in Env
  /\ pass' = [pass EXCEPT ![r] = @ \ {w}]
  /\ UNCHANGED <<rows, txs, request, accepted>>

-----------------------------------------------------------------------------
(* The chain.                                                              *)

SetTx(t, state) == txs' = [txs EXCEPT ![t].state = state] /\ UNCHANGED <<rows, request, pass, accepted>>

(* notarizeContract and notarizeAsset refuse an id that is there.          *)
Mine(t)   == txs[t].state = "pool" /\ ~Registered(txs[t].doc) /\ SetTx(t, "mined")
Deepen(t) == txs[t].state = "mined" /\ SetTx(t, "deep")
Revert(t) == "txReverted" \in Env /\ txs[t].state = "pool" /\ SetTx(t, "reverted")
Drop(t)   == "txDropped" \in Env /\ txs[t].state = "pool" /\ SetTx(t, "dropped")
Reorg(t)  == "reorg" \in Env /\ txs[t].state = "mined" /\ SetTx(t, "pool")

(* The process dies and restarts.                                          *)
Crash ==
  /\ "crash" \in Env
  /\ request' = [q \in Requests |-> IdleRequest]
  /\ pass' = [r \in Passes |-> {}]
  /\ UNCHANGED <<rows, txs, accepted>>

Next ==
  \/ Crash
  \/ \E q \in Requests : NotarizeContract(q) \/ NotarizeAsset(q)
  \/ \E r \in Passes :
       \/ ReconcileContracts(r) \/ ReconcileAssets(r)
       \/ \E w \in pass[r] : Confirm(r, w) \/ Skip(r, w)
  \/ \E t \in Tx : Mine(t) \/ Deepen(t) \/ Revert(t) \/ Drop(t) \/ Reorg(t)

Spec == Init /\ [][Next]_vars

-----------------------------------------------------------------------------
(* Every variable has its type; the locals of idle requests are reset.     *)
TypeOK ==
  /\ rows \in [Docs -> Row]
  /\ txs \in [Tx -> Transaction]
  /\ request \in [Requests -> RequestLocals]
  /\ pass \in [Passes -> PassLocals]
  /\ accepted \subseteq Docs \X Tx
  /\ \A q \in Requests : IF At(q, "idle") THEN request[q] = IdleRequest ELSE Doc(q) \in Docs

Sent(t) == txs[t].state # "unsent"

(***************************************************************************)
(* No document is sent to the contract twice, whatever crashes, lost       *)
(* answers and simultaneous requests for one id happen: the row inserted   *)
(* by create before the send stands for the right to send.                 *)
(***************************************************************************)
NotarizedOnce ==
  \A t, u \in Tx : t # u /\ Sent(t) /\ Sent(u) => txs[t].doc # txs[u].doc

(***************************************************************************)
(* A document answered 201 keeps the hash of the answer and stays within   *)
(* reach of the reconciliation: no failure of another request for its id   *)
(* marks it FAILED.                                                        *)
(***************************************************************************)
AcceptedIsTracked ==
  \A w \in accepted : rows[w[1]].tx = w[2] /\ rows[w[1]].status \in {"PENDING", "CONFIRMED"}

(***************************************************************************)
(* A CONFIRMED row carries a transaction that was sent for it and that is  *)
(* NOTARY_CONFIRMATIONS deep.                                              *)
(***************************************************************************)
ConfirmedIsDeep ==
  \A d \in Docs : rows[d].status = "CONFIRMED" =>
    rows[d].tx \in Tx /\ txs[rows[d].tx].doc = d /\ IsConfirmed(rows[d].tx)

(***************************************************************************)
(* The rows live as NotarizationRecord says, although no UPDATE of the     *)
(* repositories looks at the status or the hash it overwrites: in          *)
(* particular CONFIRMED and FAILED are final and a hash is written once.   *)
(***************************************************************************)
Record == INSTANCE NotarizationRecord WITH record <- rows
RefinesRecord == Record!Spec
=============================================================================
