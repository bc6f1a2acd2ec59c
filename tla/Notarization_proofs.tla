-------------------------- MODULE Notarization_proofs --------------------------
(***************************************************************************)
(* Proofs about Notarization: type correctness, the safety invariants of   *)
(* the notarization of documents, and that the tables implement            *)
(* NotarizationRecord.  RecordInv of NotarizationInv is the inductive      *)
(* invariant.                                                              *)
(***************************************************************************)
EXTENDS NotarizationInv, TLAPS

(* The tables start empty.                                                 *)
LEMMA RecordInit == Init => RecordInv
<1> SUFFICES ASSUME Init PROVE RecordInv
  OBVIOUS
<1> USE DEF Init, NoRow, Unsent, IdleRequest, Doc, At, Sent, NoDoc, NoTx
<1>1. TypeOK
  BY DEF TypeOK, Row, Transaction, RequestLocals, PassLocals
<1>2. NotarizedOnce /\ SentHasRow /\ SendIsFirst
  BY DEF NotarizedOnce, SentHasRow, SendIsFirst
<1>3. OwnersApart /\ HashInHand
  BY DEF OwnersApart, HashInHand, Owns
<1>4. RowHash /\ RowShape
  BY DEF RowHash, RowShape
<1>5. PassesTracked /\ AcceptedIsTracked
  BY DEF PassesTracked, AcceptedIsTracked
<1> QED
  BY <1>1, <1>2, <1>3, <1>4, <1>5 DEF RecordInv

(* A request starts, moves towards its catch or settles, and the tables,   *)
(* the chain and the passes stay as they are.                              *)
LEMMA RequestStep ==
  ASSUME RecordInv, NEW q \in Requests, NEW k \in RequestLocals,
         IF k.pc = "idle" THEN k = IdleRequest ELSE k.doc \in Docs,
         k.pc \in {"idle", "create"} \/ (k.pc = "fail" /\ Owns(q) /\ k.doc = Doc(q)),
         SetRequest(q, k), UNCHANGED <<rows, txs, pass, accepted>>
  PROVE  RecordInv'
<1> USE DEF SetRequest, Doc, At, Owns
<1>t. request \in [Requests -> RequestLocals]
  BY DEF RecordInv, TypeOK
<1>0. /\ request'[q] = k
      /\ \A z \in Requests \ {q} : request'[z] = request[z]
  BY <1>t
<1>1. TypeOK'
  BY <1>t, <1>0 DEF RecordInv, TypeOK
<1>2. NotarizedOnce' /\ SentHasRow' /\ RowHash' /\ RowShape'
  BY DEF RecordInv, NotarizedOnce, SentHasRow, RowHash, RowShape, Sent, SentFor, IsConfirmed
<1>3. OwnersApart'
  BY <1>0 DEF RecordInv, OwnersApart
<1>4. SendIsFirst' /\ HashInHand'
  BY <1>0 DEF RecordInv, SendIsFirst, HashInHand, SentFor, Sent
<1>5. PassesTracked' /\ AcceptedIsTracked'
  BY DEF RecordInv, PassesTracked, AcceptedIsTracked, Tracked
<1> QED
  BY <1>1, <1>2, <1>3, <1>4, <1>5 DEF RecordInv

(* A block, a reorganisation or the mempool changes the state of one       *)
(* transaction that is not confirmed.                                      *)
LEMMA ChainStep ==
  ASSUME RecordInv, NEW t \in Tx, NEW state \in {"pool", "mined", "deep", "reverted", "dropped"},
         txs[t].state \in {"pool", "mined"}, SetTx(t, state)
  PROVE  RecordInv'
<1> USE DEF SetTx
<1>t. txs \in [Tx -> Transaction]
  BY DEF RecordInv, TypeOK
<1>0. /\ txs' \in [Tx -> Transaction]
      /\ \A u \in Tx : txs'[u].doc = txs[u].doc
      /\ \A u \in Tx : (txs'[u].state # "unsent") <=> (txs[u].state # "unsent")
      /\ \A u \in Tx : IsConfirmed(u) => IsConfirmed(u)'
  BY <1>t DEF Transaction, IsConfirmed
<1>r. \A d \in Docs : rows[d].tx # NoTx => rows[d].tx \in Tx
  BY DEF RecordInv, TypeOK, Row
<1>1. TypeOK'
  BY <1>0 DEF RecordInv, TypeOK, At, Doc
<1>2. NotarizedOnce' /\ SentHasRow'
  BY <1>0 DEF RecordInv, NotarizedOnce, SentHasRow, Sent
<1>3. OwnersApart'
  BY DEF RecordInv, OwnersApart, Owns, Doc
<1>4. SendIsFirst' /\ HashInHand'
  BY <1>0 DEF RecordInv, SendIsFirst, HashInHand, SentFor, Sent, At, Doc
<1>5. RowHash' /\ RowShape'
  BY <1>0, <1>r DEF RecordInv, RowHash, RowShape, SentFor, Sent
<1>6. PassesTracked' /\ AcceptedIsTracked'
  BY DEF RecordInv, PassesTracked, AcceptedIsTracked, Tracked
<1> QED
  BY <1>1, <1>2, <1>3, <1>4, <1>5, <1>6 DEF RecordInv

(* A pass takes up rows that are tracked, or lets some of its rows go.     *)
LEMMA PassStep ==
  ASSUME RecordInv, pass' \in [Passes -> PassLocals],
         \A r \in Passes : \A w \in pass'[r] : Tracked(w),
         UNCHANGED <<rows, txs, request, accepted>>
  PROVE  RecordInv'
<1>1. TypeOK'
  BY DEF RecordInv, TypeOK, At, Doc
<1>2. NotarizedOnce' /\ SentHasRow' /\ RowHash' /\ RowShape'
  BY DEF RecordInv, NotarizedOnce, SentHasRow, RowHash, RowShape, Sent, SentFor, IsConfirmed
<1>3. OwnersApart' /\ SendIsFirst' /\ HashInHand'
  BY DEF RecordInv, OwnersApart, SendIsFirst, HashInHand, Owns, At, Doc, Sent, SentFor
<1>4. PassesTracked' /\ AcceptedIsTracked'
  BY DEF RecordInv, PassesTracked, AcceptedIsTracked, Tracked
<1> QED
  BY <1>1, <1>2, <1>3, <1>4 DEF RecordInv

(* The insert of a row that is not there makes the request its owner.      *)
LEMMA CreateStep ==
  ASSUME RecordInv, NEW q \in Requests, Doc(q) \in Docs, Create(q)
  PROVE  RecordInv'
<1> DEFINE d == Doc(q)
<1>a. CASE rows[d].status # "absent"
  <2>1. IdleRequest \in RequestLocals
    BY DEF IdleRequest, RequestLocals
  <2> QED
    BY <1>a, <2>1, RequestStep DEF Create, IdleRequest
<1>b. CASE rows[d].status = "absent"
  <2>t. /\ request \in [Requests -> RequestLocals] /\ rows \in [Docs -> Row]
        /\ request[q].pc = "create"
    BY DEF RecordInv, TypeOK, Create, At
  <2>0. /\ request' = [request EXCEPT ![q] = [request[q] EXCEPT !.pc = "send"]]
        /\ rows' = [rows EXCEPT ![d] = [NoRow EXCEPT !.status = "PENDING"]]
        /\ UNCHANGED <<txs, pass, accepted>>
    BY <1>b DEF Create, SetRow, SetRequest
  <2>1. /\ rows' \in [Docs -> Row]
        /\ rows'[d] = [status |-> "PENDING", tx |-> NoTx]
        /\ \A e \in Docs \ {d} : rows'[e] = rows[e]
    BY <2>0, <2>t DEF Row, NoRow
  <2>2. /\ request' \in [Requests -> RequestLocals]
        /\ request'[q].pc = "send" /\ request'[q].doc = d
        /\ \A z \in Requests \ {q} : request'[z] = request[z]
    BY <2>0, <2>t DEF RequestLocals, Doc
  <2>3. TypeOK'
    BY <2>0, <2>1, <2>2 DEF RecordInv, TypeOK, At, Doc
  <2>4. NotarizedOnce' /\ SentHasRow'
    BY <2>0, <2>1 DEF RecordInv, NotarizedOnce, SentHasRow, Sent
  <2>5. \A z \in Requests : Owns(z) => Doc(z) # d
    BY <1>b DEF RecordInv, OwnersApart
  <2>6. OwnersApart'
    BY <2>1, <2>2, <2>5 DEF RecordInv, OwnersApart, Owns, Doc, TypeOK, At
  <2>7. SendIsFirst'
    BY <1>b, <2>0, <2>2 DEF RecordInv, SendIsFirst, SentHasRow, SentFor, Sent, At, Doc
  <2>8. HashInHand'
    BY <2>0, <2>2 DEF RecordInv, HashInHand, SentFor, Sent, At, Doc
  <2>9. RowHash' /\ RowShape'
    BY <2>0, <2>1 DEF RecordInv, RowHash, RowShape, SentFor, Sent, IsConfirmed, NoRow
  <2>10. \A e \in Docs, t \in Tx : Tracked(<<e, t>>) => e # d
    BY <1>b DEF Tracked
  <2>11. PassesTracked'
    <3> SUFFICES ASSUME NEW r \in Passes, NEW w \in pass[r] PROVE Tracked(w)'
      BY <2>0 DEF PassesTracked
    <3>1. w \in Docs \X Tx /\ Tracked(w)
      BY DEF RecordInv, TypeOK, PassLocals, PassesTracked
    <3> QED
      BY <1>b, <2>1, <3>1 DEF Tracked
  <2>12. AcceptedIsTracked'
    <3> SUFFICES ASSUME NEW w \in accepted PROVE Tracked(w)'
      BY <2>0 DEF AcceptedIsTracked, Tracked
    <3>1. w \in Docs \X Tx /\ Tracked(w)
      BY DEF RecordInv, TypeOK, AcceptedIsTracked, Tracked
    <3> QED
      BY <1>b, <2>1, <3>1 DEF Tracked
  <2> QED
    BY <2>3, <2>4, <2>6, <2>7, <2>8, <2>9, <2>11, <2>12 DEF RecordInv
<1> QED
  BY <1>a, <1>b

(* A transaction goes out for a document that never had one.               *)
LEMMA BroadcastStep ==
  ASSUME RecordInv, NEW q \in Requests, NEW t \in Tx, Doc(q) \in Docs,
         At(q, "send"), Broadcast(q, t),
         NEW k \in RequestLocals,
         k.doc = Doc(q), k.pc = "fail" \/ (k.pc = "mark" /\ k.hash = t),
         SetRequest(q, k), UNCHANGED <<rows, pass, accepted>>
  PROVE  RecordInv'
<1>t. /\ request \in [Requests -> RequestLocals] /\ rows \in [Docs -> Row]
      /\ txs \in [Tx -> Transaction]
  BY DEF RecordInv, TypeOK
<1>1. /\ txs' \in [Tx -> Transaction]
      /\ txs'[t] = [state |-> "pool", doc |-> Doc(q)]
      /\ txs[t].state = "unsent"
      /\ \A u \in Tx \ {t} : txs'[u] = txs[u]
  BY <1>t DEF Broadcast, Transaction, Unsent
<1>2. /\ request' \in [Requests -> RequestLocals]
      /\ request'[q] = k
      /\ \A z \in Requests \ {q} : request'[z] = request[z]
  BY <1>t DEF SetRequest
<1>3. \A u \in Tx : Sent(u) => txs[u].doc # Doc(q)
  BY DEF RecordInv, SendIsFirst, SentFor
<1>4. TypeOK'
  BY <1>1, <1>2 DEF RecordInv, TypeOK, At, Doc
<1>5. NotarizedOnce' /\ SentHasRow'
  <2>1. rows[Doc(q)].status # "absent"
    BY DEF RecordInv, OwnersApart, Owns, At
  <2> QED
    BY <1>1, <1>3, <2>1 DEF RecordInv, NotarizedOnce, SentHasRow, Sent
<1>6. OwnersApart'
  BY <1>2 DEF RecordInv, OwnersApart, Owns, Doc, At
<1>7. SendIsFirst'
  <2>1. \A z \in Requests \ {q} : At(z, "send") => Doc(z) # Doc(q)
    BY DEF RecordInv, OwnersApart, Owns, At
  <2> QED
    BY <1>1, <1>2, <2>1 DEF RecordInv, SendIsFirst, SentFor, Sent, At, Doc
<1>8. HashInHand'
  BY <1>1, <1>2 DEF RecordInv, HashInHand, SentFor, Sent, At, Doc
<1>9. RowHash' /\ RowShape'
  <2>1. \A d \in Docs : rows[d].tx # NoTx => rows[d].tx # t /\ rows[d].tx \in Tx
    BY <1>1, <1>t DEF RecordInv, RowHash, SentFor, Sent, Row
  <2> QED
    BY <1>1, <2>1 DEF RecordInv, RowHash, RowShape, SentFor, Sent, IsConfirmed
<1>10. PassesTracked' /\ AcceptedIsTracked'
  BY DEF RecordInv, PassesTracked, AcceptedIsTracked, Tracked
<1> QED
  BY <1>4, <1>5, <1>6, <1>7, <1>8, <1>9, <1>10 DEF RecordInv

(* The owner of a row writes what became of it and settles.                *)
LEMMA OwnerStep ==
  ASSUME RecordInv, NEW q \in Requests, Owns(q), NEW row \in Row,
         SetRow(Doc(q), row), Settle(q), UNCHANGED <<txs, pass>>,
         \/ row.status = "FAILED" /\ row.tx = NoTx /\ accepted' = accepted
         \/ /\ row.status = "PENDING" /\ row.tx \in Tx /\ SentFor(row.tx, Doc(q))
            /\ accepted' = accepted \cup {<<Doc(q), row.tx>>}
  PROVE  RecordInv'
<1> DEFINE d == Doc(q)
<1>t. /\ request \in [Requests -> RequestLocals] /\ rows \in [Docs -> Row]
      /\ d \in Docs
  BY DEF RecordInv, TypeOK, Owns, At
<1>1. rows' \in [Docs -> Row] /\ rows'[d] = row /\ \A e \in Docs \ {d} : rows'[e] = rows[e]
  BY <1>t DEF SetRow
<1>2. /\ request' \in [Requests -> RequestLocals]
      /\ request'[q] = IdleRequest
      /\ \A z \in Requests \ {q} : request'[z] = request[z]
  BY <1>t DEF Settle, SetRequest, IdleRequest, RequestLocals
<1>3. rows[d] = [status |-> "PENDING", tx |-> NoTx]
  BY DEF RecordInv, OwnersApart
<1>4. \A z \in Requests \ {q} : Owns(z) => Doc(z) # d
  BY DEF RecordInv, OwnersApart
<1>5. accepted' \subseteq Docs \X Tx
  BY <1>t DEF RecordInv, TypeOK
<1>6. TypeOK'
  BY <1>1, <1>2, <1>5 DEF RecordInv, TypeOK, At, Doc, IdleRequest
<1>7. NotarizedOnce' /\ SentHasRow'
  BY <1>1 DEF RecordInv, NotarizedOnce, SentHasRow, Sent
<1>8. OwnersApart'
  BY <1>1, <1>2, <1>4 DEF RecordInv, OwnersApart, Owns, Doc, TypeOK, At, IdleRequest
<1>9. SendIsFirst' /\ HashInHand'
  BY <1>2 DEF RecordInv, SendIsFirst, HashInHand, SentFor, Sent, At, Doc, IdleRequest
<1>10. RowHash' /\ RowShape'
  BY <1>1 DEF RecordInv, RowHash, RowShape, SentFor, Sent, IsConfirmed
<1>11. \A w \in Docs \X Tx : Tracked(w) => Tracked(w)'
  BY <1>1, <1>3 DEF Tracked, NoTx, Tx
<1>12. PassesTracked'
  BY <1>11 DEF RecordInv, TypeOK, PassLocals, PassesTracked
<1>13. AcceptedIsTracked'
  <2> SUFFICES ASSUME NEW w \in accepted' PROVE Tracked(w)'
    BY DEF AcceptedIsTracked, Tracked
  <2>a. CASE w \in accepted
    BY <2>a, <1>11 DEF RecordInv, TypeOK, AcceptedIsTracked, Tracked
  <2>b. CASE w \notin accepted
    BY <2>b, <1>1 DEF Tracked
  <2> QED
    BY <2>a, <2>b
<1> QED
  BY <1>6, <1>7, <1>8, <1>9, <1>10, <1>12, <1>13 DEF RecordInv

(* markConfirmed finds the row of its pass as tracked as it was.           *)
LEMMA ConfirmStep ==
  ASSUME RecordInv, NEW r \in Passes, NEW w \in pass[r], Confirm(r, w)
  PROVE  RecordInv'
<1>t. /\ rows \in [Docs -> Row] /\ pass \in [Passes -> SUBSET (Docs \X Tx)]
      /\ w \in Docs \X Tx
  BY DEF RecordInv, TypeOK, PassLocals
<1> DEFINE d == w[1]
<1>0. d \in Docs /\ w[2] \in Tx /\ rows[d].tx = w[2] /\ rows[d].status \in {"PENDING", "CONFIRMED"}
  BY <1>t DEF RecordInv, PassesTracked, Tracked
<1>1. /\ rows' \in [Docs -> Row]
      /\ rows'[d].status = "CONFIRMED" /\ rows'[d].tx = w[2]
      /\ \A e \in Docs \ {d} : rows'[e] = rows[e]
      /\ UNCHANGED <<txs, request, accepted>>
  BY <1>t, <1>0 DEF Confirm, SetRow, Row
<1>2. /\ pass' \in [Passes -> SUBSET (Docs \X Tx)]
      /\ \A z \in Passes : pass'[z] \subseteq pass[z]
  BY <1>t DEF Confirm
<1>3. w[2] # NoTx
  BY <1>0 DEF NoTx, Tx
<1>4. \A q \in Requests : Owns(q) => Doc(q) # d
  BY <1>0, <1>3 DEF RecordInv, OwnersApart
<1>5. TypeOK'
  BY <1>1, <1>2 DEF RecordInv, TypeOK, PassLocals, At, Doc
<1>6. NotarizedOnce' /\ SentHasRow'
  BY <1>1 DEF RecordInv, NotarizedOnce, SentHasRow, Sent
<1>7. OwnersApart'
  BY <1>1, <1>4 DEF RecordInv, OwnersApart, Owns, Doc, TypeOK, At
<1>8. SendIsFirst' /\ HashInHand'
  BY <1>1 DEF RecordInv, SendIsFirst, HashInHand, SentFor, Sent, At, Doc
<1>9. RowHash'
  BY <1>0, <1>1, <1>3 DEF RecordInv, RowHash, SentFor, Sent
<1>10. RowShape'
  BY <1>1, <1>3 DEF RecordInv, RowShape, Confirm, IsConfirmed
<1>11. \A v \in Docs \X Tx : Tracked(v) => Tracked(v)'
  BY <1>0, <1>1 DEF Tracked
<1>12. PassesTracked' /\ AcceptedIsTracked'
  BY <1>1, <1>2, <1>11 DEF RecordInv, TypeOK, PassLocals, PassesTracked, AcceptedIsTracked, Tracked
<1> QED
  BY <1>5, <1>6, <1>7, <1>8, <1>9, <1>10, <1>12 DEF RecordInv

(* Memory goes, tables and chain stay.                                     *)
LEMMA CrashStep == RecordInv /\ Crash => RecordInv'
<1> SUFFICES ASSUME RecordInv, Crash PROVE RecordInv'
  OBVIOUS
<1> USE DEF Crash
<1>1. TypeOK'
  BY DEF RecordInv, TypeOK, IdleRequest, RequestLocals, PassLocals, At, Doc
<1>2. NotarizedOnce' /\ SentHasRow' /\ RowHash' /\ RowShape'
  BY DEF RecordInv, NotarizedOnce, SentHasRow, RowHash, RowShape, Sent, SentFor, IsConfirmed
<1>3. OwnersApart' /\ SendIsFirst' /\ HashInHand'
  BY DEF OwnersApart, SendIsFirst, HashInHand, Owns, At, Doc, IdleRequest
<1>4. PassesTracked' /\ AcceptedIsTracked'
  BY DEF RecordInv, PassesTracked, AcceptedIsTracked, Tracked
<1> QED
  BY <1>1, <1>2, <1>3, <1>4 DEF RecordInv

(* One step of one request.                                                *)
LEMMA NotarizeRequestStep ==
  ASSUME RecordInv, NEW q \in Requests, Doc(q) \in Docs, NotarizeStep(q)
  PROVE  RecordInv'
<1> DEFINE d == Doc(q)
<1>t. /\ request \in [Requests -> RequestLocals] /\ rows \in [Docs -> Row]
      /\ request[q] \in RequestLocals
  BY DEF RecordInv, TypeOK
<1>i. IdleRequest \in RequestLocals
  BY DEF IdleRequest, RequestLocals
<1>f. \A pc \in {"mark", "fail"} :
        /\ [request[q] EXCEPT !.pc = pc] \in RequestLocals
        /\ [request[q] EXCEPT !.pc = pc].pc = pc
        /\ [request[q] EXCEPT !.pc = pc].doc = d
  BY <1>t DEF RequestLocals, Doc
<1>1. CASE Create(q)
  BY <1>1, CreateStep
<1>2. CASE SendRefused(q)
  <2>1. Owns(q)
    BY <1>2 DEF SendRefused, Owns, At
  <2>2. SetRequest(q, [request[q] EXCEPT !.pc = "fail"]) /\ UNCHANGED <<rows, txs, pass, accepted>>
    BY <1>2 DEF SendRefused
  <2> QED
    BY <1>f, <2>1, <2>2, RequestStep
<1>3. CASE Mark(q)
  <2> DEFINE h == request[q].hash
             row == [status |-> "PENDING", tx |-> h]
  <2>1. Owns(q) /\ h \in Tx /\ SentFor(h, d)
    BY <1>3 DEF Mark, Owns, At, RecordInv, HashInHand
  <2>2. rows[d] = [status |-> "PENDING", tx |-> NoTx]
    BY <2>1 DEF RecordInv, OwnersApart
  <2>3. Submitted(rows[d], h) = row
    BY <2>2 DEF Submitted
  <2>4. row \in Row
    BY <2>1 DEF Row
  <2>5. /\ SetRow(d, row) /\ Settle(q) /\ UNCHANGED <<txs, pass>>
        /\ accepted' = accepted \cup {<<d, h>>}
    BY <1>3, <2>3 DEF Mark
  <2> HIDE DEF d
  <2> QED
    BY <2>1, <2>4, <2>5, OwnerStep DEF d
<1>4. CASE MarkError(q)
  <2>1. Owns(q)
    BY <1>4 DEF MarkError, Owns, At
  <2>2. SetRequest(q, [request[q] EXCEPT !.pc = "fail"]) /\ UNCHANGED <<rows, txs, pass, accepted>>
    BY <1>4 DEF MarkError
  <2> QED
    BY <1>f, <2>1, <2>2, RequestStep
<1>5. CASE Fail(q)
  <2> DEFINE row == [status |-> "FAILED", tx |-> NoTx]
  <2>1. Owns(q)
    BY <1>5 DEF Fail, Owns, At
  <2>2. rows[d] = [status |-> "PENDING", tx |-> NoTx]
    BY <2>1 DEF RecordInv, OwnersApart
  <2>3. SetRow(d, row) /\ Settle(q) /\ UNCHANGED <<txs, pass, accepted>>
    BY <1>5, <2>2 DEF Fail
  <2>4. row \in Row
    BY DEF Row
  <2> QED
    BY <2>1, <2>3, <2>4, OwnerStep
<1>6. CASE Abort(q)
  <2>1. SetRequest(q, IdleRequest) /\ UNCHANGED <<rows, txs, pass, accepted>>
    BY <1>6 DEF Abort, Settle
  <2> QED
    BY <1>i, <2>1, RequestStep DEF IdleRequest
<1>7. ASSUME NEW t \in Tx, Send(q, t) \/ SendLost(q, t) PROVE RecordInv'
  <2>1. At(q, "send") /\ Broadcast(q, t) /\ UNCHANGED <<rows, pass, accepted>>
    BY <1>7 DEF Send, SendLost
  <2>a. CASE Send(q, t)
    <3> DEFINE k == [request[q] EXCEPT !.pc = "mark", !.hash = t]
    <3>1. k \in RequestLocals /\ k.pc = "mark" /\ k.doc = d /\ k.hash = t
      BY <1>t DEF RequestLocals, Doc
    <3>2. SetRequest(q, k)
      BY <2>a DEF Send
    <3> HIDE DEF k
    <3> QED
      BY <2>1, <3>1, <3>2, BroadcastStep
  <2>b. CASE SendLost(q, t)
    <3>2. SetRequest(q, [request[q] EXCEPT !.pc = "fail"])
      BY <2>b DEF SendLost
    <3> QED
      BY <1>f, <2>1, <3>2, BroadcastStep
  <2> QED
    BY <1>7, <2>a, <2>b
<1> QED
  BY <1>1, <1>2, <1>3, <1>4, <1>5, <1>6, <1>7 DEF NotarizeStep

(* findById found no row.                                                  *)
LEMMA FindStep ==
  ASSUME RecordInv, NEW q \in Requests, NEW d \in Docs, Find(q, d)
  PROVE  RecordInv'
<1> DEFINE k == [pc |-> "create", doc |-> d, hash |-> NoTx]
<1>1. k \in RequestLocals /\ k.pc = "create" /\ k.doc \in Docs
  BY DEF RequestLocals
<1>2. SetRequest(q, k) /\ UNCHANGED <<rows, txs, pass, accepted>>
  BY DEF Find
<1> HIDE DEF k
<1> QED
  BY <1>1, <1>2, RequestStep

(* Every step preserves RecordInv.                                         *)
LEMMA RecordStep == RecordInv /\ [Next]_vars => RecordInv'
<1> SUFFICES ASSUME RecordInv, [Next]_vars PROVE RecordInv'
  OBVIOUS
<1>t. /\ txs \in [Tx -> Transaction]
      /\ pass \in [Passes -> PassLocals]
  BY DEF RecordInv, TypeOK
<1>1. CASE Crash
  BY <1>1, CrashStep
<1>2. ASSUME NEW q \in Requests, NEW ids \in {Contracts, Assets}, Notarize(q, ids)
      PROVE  RecordInv'
  <2>1. ids \subseteq Docs
    BY DEF Docs
  <2> QED
    BY <1>2, <2>1, FindStep, NotarizeRequestStep DEF Notarize
<1>3. ASSUME NEW r \in Passes, NEW ids \in {Contracts, Assets}, StartPass(r, ids)
      PROVE  RecordInv'
  <2>1. PendingWithTx(ids) \in PassLocals
    BY DEF PendingWithTx, PassLocals, Docs
  <2>2. \A w \in PendingWithTx(ids) : Tracked(w)
    BY DEF PendingWithTx, Tracked
  <2>3. \A z \in Passes : \A w \in pass[z] : Tracked(w)
    BY DEF RecordInv, PassesTracked
  <2>4. pass' \in [Passes -> PassLocals] /\ UNCHANGED <<rows, txs, request, accepted>>
    BY <1>3, <1>t, <2>1 DEF StartPass
  <2>5. \A z \in Passes : \A w \in pass'[z] : Tracked(w)
    BY <1>3, <1>t, <2>2, <2>3 DEF StartPass
  <2> QED
    BY <2>4, <2>5, PassStep
<1>4. ASSUME NEW r \in Passes, NEW w \in pass[r], Confirm(r, w) \/ Skip(r, w)
      PROVE  RecordInv'
  <2>a. CASE Confirm(r, w)
    BY <2>a, ConfirmStep
  <2>b. CASE Skip(r, w)
    <3>1. pass' \in [Passes -> PassLocals] /\ UNCHANGED <<rows, txs, request, accepted>>
      BY <2>b, <1>t DEF Skip, PassLocals
    <3>2. \A z \in Passes : \A v \in pass'[z] : Tracked(v)
      BY <2>b, <1>t DEF Skip, RecordInv, PassesTracked
    <3> QED
      BY <3>1, <3>2, PassStep
  <2> QED
    BY <1>4, <2>a, <2>b
<1>5. ASSUME NEW t \in Tx, Mine(t) \/ Deepen(t) \/ Revert(t) \/ Drop(t) \/ Reorg(t)
      PROVE  RecordInv'
  <2>1. txs[t].state \in {"pool", "mined"}
    BY <1>5 DEF Mine, Deepen, Revert, Drop, Reorg
  <2>2. \E state \in {"pool", "mined", "deep", "reverted", "dropped"} : SetTx(t, state)
    BY <1>5 DEF Mine, Deepen, Revert, Drop, Reorg
  <2> QED
    BY <2>1, <2>2, ChainStep
<1>6. CASE UNCHANGED vars
  <2>1. \A r \in Passes : \A w \in pass'[r] : Tracked(w)
    BY <1>6 DEF vars, RecordInv, PassesTracked
  <2> QED
    BY <1>6, <1>t, <2>1, PassStep DEF vars
<1> QED
  BY <1>1, <1>2, <1>3, <1>4, <1>5, <1>6
  DEF Next, NotarizeContract, NotarizeAsset, ReconcileContracts, ReconcileAssets

(***************************************************************************)
(* RecordInv holds of every reachable state: in particular the locals of   *)
(* the requests and the rows they inserted agree, whatever interleaving,   *)
(* crash, failed query or lost answer happened.                            *)
(***************************************************************************)
THEOREM RecordInvariant == Spec => []RecordInv
<1> QED
  BY RecordInit, RecordStep, PTL DEF Spec

(***************************************************************************)
(* Rows, requests, passes and transactions have their types in every       *)
(* reachable state, and an idle request holds nothing.                     *)
(***************************************************************************)
THEOREM TypeCorrect == Spec => []TypeOK
<1>1. RecordInv => TypeOK
  BY DEF RecordInv
<1> QED
  BY <1>1, RecordInvariant, PTL

(***************************************************************************)
(* No document is sent to the contract twice (ContractService.notarize,    *)
(* AssetService.notarize).                                                 *)
(***************************************************************************)
THEOREM DocumentsSentOnce == Spec => []NotarizedOnce
<1>1. RecordInv => NotarizedOnce
  BY DEF RecordInv
<1> QED
  BY <1>1, RecordInvariant, PTL

(***************************************************************************)
(* A document answered 201 keeps its hash and is never marked FAILED.      *)
(***************************************************************************)
THEOREM AcceptedStaysTracked == Spec => []AcceptedIsTracked
<1>1. RecordInv => AcceptedIsTracked
  BY DEF RecordInv
<1> QED
  BY <1>1, RecordInvariant, PTL

(***************************************************************************)
(* markConfirmed is only ever called for a row whose own transaction is    *)
(* NOTARY_CONFIRMATIONS deep.                                              *)
(***************************************************************************)
THEOREM ConfirmedOnlyWhenDeep == Spec => []ConfirmedIsDeep
<1>1. RecordInv => ConfirmedIsDeep
  BY DEF RecordInv, TypeOK, RowShape, RowHash, ConfirmedIsDeep, SentFor, Row
<1> QED
  BY <1>1, RecordInvariant, PTL

(* What a step of a request means for the rows.                            *)
LEMMA RequestRefines ==
  ASSUME RecordInv, NEW q \in Requests, Doc(q) \in Docs, NotarizeStep(q)
  PROVE  [Record!Next]_rows
<1> DEFINE d == Doc(q)
<1>t. rows \in [Docs -> Row]
  BY DEF RecordInv, TypeOK
<1>1. CASE Create(q) /\ rows[d].status = "absent"
  <2>1. rows[d] = Record!Absent
    BY <1>1 DEF RecordInv, RowShape, NoRow, Record!Absent
  <2>2. Record!Create(d)
    BY <1>1, <2>1 DEF Create, SetRow, NoRow, Record!Create, Record!Set
  <2> QED
    BY <2>2 DEF Record!Next
<1>2. CASE Mark(q)
  <2> DEFINE h == request[q].hash
  <2>1. h \in Tx /\ SentFor(h, d) /\ rows[d] = [status |-> "PENDING", tx |-> NoTx]
    BY <1>2 DEF Mark, Owns, At, RecordInv, HashInHand, OwnersApart
  <2>2. ASSUME NEW e \in Docs, rows[e].tx = h PROVE FALSE
    <3>1. h # NoTx
      BY <2>1 DEF Tx, NoTx
    <3>2. SentFor(h, e)
      BY <2>2, <3>1 DEF RecordInv, RowHash
    <3>3. e = d
      BY <2>1, <3>2 DEF SentFor
    <3> QED
      BY <2>1, <2>2, <3>1, <3>3
  <2>3. rows' = [rows EXCEPT ![d] = [status |-> "PENDING", tx |-> h]]
    <3>1. Submitted(rows[d], h) = [status |-> "PENDING", tx |-> h]
      BY <2>1 DEF Submitted
    <3>2. rows' = [rows EXCEPT ![d] = Submitted(rows[d], h)]
      BY <1>2 DEF Mark, SetRow
    <3> QED
      BY <3>1, <3>2
  <2>4. Record!Submit(d, h)
    BY <2>1, <2>2, <2>3 DEF Record!Submit, Record!Set
  <2> QED
    BY <2>1, <2>4 DEF Record!Next
<1>3. CASE Fail(q)
  <2>1. rows[d] = [status |-> "PENDING", tx |-> NoTx]
    BY <1>3 DEF Fail, Owns, At, RecordInv, OwnersApart
  <2>2. rows' = [rows EXCEPT ![d] = [status |-> "FAILED", tx |-> NoTx]]
    <3>1. [rows[d] EXCEPT !.status = "FAILED"] = [status |-> "FAILED", tx |-> NoTx]
      BY <2>1
    <3>2. rows' = [rows EXCEPT ![d] = [rows[d] EXCEPT !.status = "FAILED"]]
      BY <1>3 DEF Fail, SetRow
    <3> QED
      BY <3>1, <3>2
  <2>3. Record!Fail(d)
    BY <2>1, <2>2 DEF Record!Fail, Record!Set
  <2> QED
    BY <2>3 DEF Record!Next
<1>4. CASE UNCHANGED rows
  BY <1>4
<1> QED
  BY <1>1, <1>2, <1>3, <1>4
  DEF NotarizeStep, Create, SendRefused, MarkError, Abort, Send, SendLost

(* markConfirmed confirms a row that is PENDING, or writes what is there.  *)
LEMMA ConfirmRefines ==
  ASSUME RecordInv, NEW r \in Passes, NEW w \in pass[r], Confirm(r, w)
  PROVE  [Record!Next]_rows
<1> DEFINE d == w[1]
<1>t. rows \in [Docs -> Row] /\ w \in Docs \X Tx
  BY DEF RecordInv, TypeOK, PassLocals
<1>1. d \in Docs /\ w[2] \in Tx /\ rows[d].tx = w[2] /\ rows[d].status \in {"PENDING", "CONFIRMED"}
  BY <1>t DEF RecordInv, PassesTracked, Tracked
<1>2. rows' = [rows EXCEPT ![d] = [status |-> "CONFIRMED", tx |-> rows[d].tx]]
  <2>1. [rows[d] EXCEPT !.status = "CONFIRMED"] = [status |-> "CONFIRMED", tx |-> rows[d].tx]
    BY <1>t, <1>1 DEF Row
  <2>2. rows' = [rows EXCEPT ![d] = [rows[d] EXCEPT !.status = "CONFIRMED"]]
    BY DEF Confirm, SetRow
  <2> QED
    BY <2>1, <2>2
<1>3. CASE rows[d].status = "PENDING"
  <2>1. rows[d].tx # NoTx
    BY <1>1 DEF Tx, NoTx
  <2>2. Record!Confirm(d)
    BY <1>2, <1>3, <2>1 DEF Record!Confirm, Record!Set
  <2> QED
    BY <1>1, <2>2 DEF Record!Next
<1>4. CASE rows[d].status = "CONFIRMED"
  <2>1. rows' = rows
    BY <1>t, <1>1, <1>2, <1>4 DEF Row
  <2> QED
    BY <2>1
<1> QED
  BY <1>1, <1>3, <1>4

(***************************************************************************)
(* The contracts and assets tables implement NotarizationRecord: no        *)
(* UPDATE of the repositories, none of which looks at what it overwrites,  *)
(* leaves CONFIRMED or FAILED or replaces a hash.                          *)
(***************************************************************************)
THEOREM ImplementsRecord == Spec => RefinesRecord
<1>1. Init => Record!Init
  BY DEF Init, NoRow, Record!Init, Record!Absent
<1>2. RecordInv /\ [Next]_vars => [Record!Next]_rows
  <2> SUFFICES ASSUME RecordInv, [Next]_vars PROVE [Record!Next]_rows
    OBVIOUS
  <2>1. ASSUME NEW q \in Requests, NEW ids \in {Contracts, Assets}, Notarize(q, ids)
        PROVE  [Record!Next]_rows
    <3>1. CASE \E d \in ids : Find(q, d)
      BY <3>1 DEF Find
    <3>2. CASE Doc(q) \in ids /\ NotarizeStep(q)
      <4>1. Doc(q) \in Docs
        BY <3>2 DEF Docs
      <4> QED
        BY <3>2, <4>1, RequestRefines
    <3> QED
      BY <2>1, <3>1, <3>2 DEF Notarize
  <2>2. ASSUME NEW r \in Passes, NEW w \in pass[r], Confirm(r, w) PROVE [Record!Next]_rows
    BY <2>2, ConfirmRefines
  <2>3. CASE UNCHANGED rows
    BY <2>3
  <2> QED
    BY <2>1, <2>2, <2>3
    DEF Next, NotarizeContract, NotarizeAsset, ReconcileContracts, ReconcileAssets, StartPass,
        Skip, Mine, Deepen, Revert, Drop, Reorg, SetTx, Crash, vars
<1> QED
  BY <1>1, <1>2, RecordInvariant, PTL DEF Spec, RefinesRecord, Record!Spec
=============================================================================
