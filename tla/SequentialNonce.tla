--------------------------- MODULE SequentialNonce ---------------------------
(***************************************************************************)
(* SequentialNonceManager: how the transactions of the attester get their  *)
(* nonces.  One manager (LocalSignerProvider.getSigner) serves every       *)
(* notarize request and every BatchJob tick of the process.                *)
(*                                                                         *)
(* ethers.NonceManager keeps a promise of the pending transaction count    *)
(* and a delta.  getNonce('pending') creates the promise if there is none, *)
(* reads delta and only then awaits; increment adds one to delta; reset    *)
(* forgets both.  Calls waiting for a promise go on waiting for that one   *)
(* after a reset.  When a promise settles, the continuations of all the    *)
(* calls waiting for it run before anything else of the process does, and  *)
(* a call that finds a settled promise goes on at once.                    *)
(***************************************************************************)
EXTENDS Integers, FiniteSets

CONSTANTS
  Senders,   \* sendTransaction calls that may be in flight together
  MaxReads,  \* bound: eth_getTransactionCount requests ever made
  MaxNonce,  \* bound: nonces ever assigned
  Env        \* what may go wrong, a subset of Hardships

(***************************************************************************)
(* refused: populateTransaction (its gas estimation) or the node rejects a *)
(* call; lost: the node accepts one and the answer is lost; rpcDown: a     *)
(* read of the pending count fails; restart: the process restarts.         *)
(***************************************************************************)
Hardships == {"refused", "lost", "rpcDown", "restart"}

ASSUME NonceAssumption ==
  /\ MaxReads \in Nat /\ MaxNonce \in Nat
  /\ IsFiniteSet(Senders) /\ Env \subseteq Hardships

VARIABLES
  reads,    \* the promises of the pending count, in order of creation
  cached,   \* #noncePromise: an index in reads, 0 for null
  delta,    \* #delta
  call,     \* locals of the calls in flight
  accepted, \* nonces of the transactions the node took, queued ones included
  burst     \* history: what happened since no call was in flight

manager == <<reads, cached, delta>>
vars    == <<manager, call, accepted, burst>>

Read  == 1..MaxReads
Nonce == 0..MaxNonce

ReadState  == [state : {"unused", "pending", "known", "failed"}, count : Nonce]
UnusedRead == [state |-> "unused", count |-> 0]

(* delta and nonce: what getNonce read, and what it returned.              *)
Locals   == [pc : {"idle", "nonce", "send"}, read : Read \cup {0}, delta : Nat, nonce : Nonce]
IdleCall == [pc |-> "idle", read |-> 0, delta |-> 0, nonce |-> 0]

(* eth_getTransactionCount(attester, "pending"): the first nonce missing.  *)
PendingCount == CHOOSE n \in 0..(MaxNonce + 1) : n \notin accepted /\ 0..(n - 1) \subseteq accepted

Waiting(q) == {c \in Senders : call[c].pc = "nonce" /\ call[c].read = q}

Quiet == \A c \in Senders : call[c].pc = "idle"

(* No two calls shared a read, and nothing failed while calls overlapped.  *)
Calm == "shared" \notin burst /\ ~({"overlap", "reset"} \subseteq burst)
Note(events) ==
  burst' = IF Quiet /\ Calm THEN events ELSE burst \cup events
Overlap == IF Quiet THEN {} ELSE {"overlap"}

Init ==
  /\ reads = [q \in Read |-> UnusedRead]
  /\ cached = 0
  /\ delta = 0
  /\ call = [c \in Senders |-> IdleCall]
  /\ accepted = {}
  /\ burst = {}

(* getNonce finds no promise: it makes one, reads delta and awaits.        *)
CallCold(c, q) ==
  /\ call[c].pc = "idle" /\ cached = 0
  /\ reads[q].state = "unused" /\ \A r \in Read : r < q => reads[r].state # "unused"
  /\ reads' = [reads EXCEPT ![q].state = "pending"]
  /\ cached' = q
  /\ call' = [call EXCEPT ![c] = [IdleCall EXCEPT !.pc = "nonce", !.read = q, !.delta = delta]]
  /\ Note(Overlap)
  /\ UNCHANGED <<delta, accepted>>

(* getNonce finds a promise another call is waiting for.                   *)
CallJoin(c) ==
  /\ call[c].pc = "idle" /\ cached # 0
  /\ reads[cached].state = "pending"
  /\ call' = [call EXCEPT ![c] = [IdleCall EXCEPT !.pc = "nonce", !.read = cached, !.delta = delta]]
  /\ Note({"overlap", "shared"})
  /\ UNCHANGED <<manager, accepted>>

(* getNonce finds a count: nonce and increment in one go.                  *)
CallWarm(c) ==
  /\ call[c].pc = "idle" /\ cached # 0
  /\ reads[cached].state = "known"
  /\ reads[cached].count + delta <= MaxNonce
  /\ call' = [call EXCEPT ![c] =
       [IdleCall EXCEPT !.pc = "send", !.nonce = reads[cached].count + delta]]
  /\ delta' = delta + 1
  /\ Note(Overlap)
  /\ UNCHANGED <<reads, cached, accepted>>

(* The node answers: every waiting call takes count plus the delta it read *)
(* and increments.                                                         *)
ReadAnswered(q) ==
  /\ reads[q].state = "pending"
  /\ PendingCount \in Nonce
  /\ \A c \in Waiting(q) : PendingCount + call[c].delta \in Nonce
  /\ reads' = [reads EXCEPT ![q] = [state |-> "known", count |-> PendingCount]]
  /\ call' = [c \in Senders |->
       IF c \in Waiting(q)
       THEN [IdleCall EXCEPT !.pc = "send", !.nonce = PendingCount + call[c].delta]
       ELSE call[c]]
  /\ delta' = delta + Cardinality(Waiting(q))
  /\ UNCHANGED <<cached, accepted, burst>>

(* The read fails: the waiting calls reject outside their try, so nothing  *)
(* is reset, and so does every later call that finds this promise.         *)
ReadFailed(q) ==
  /\ "rpcDown" \in Env
  /\ reads[q].state = "pending"
  /\ reads' = [reads EXCEPT ![q].state = "failed"]
  /\ call' = [c \in Senders |-> IF c \in Waiting(q) THEN IdleCall ELSE call[c]]
  /\ UNCHANGED <<cached, delta, accepted, burst>>

(* The node takes the transaction: any nonce not used yet, queued if there *)
(* is a gap before it.                                                     *)
SendAccepted(c) ==
  /\ call[c].pc = "send"
  /\ call[c].nonce \notin accepted
  /\ accepted' = accepted \cup {call[c].nonce}
  /\ call' = [call EXCEPT ![c] = IdleCall]
  /\ UNCHANGED <<manager, burst>>

(* Mutant: one increment is taken back, whoever made it.                   *)
Reset_Decrement == delta' = delta - 1 /\ cached' = 0

Reset == delta' = 0 /\ cached' = 0

(* Mutant: the catch takes back its increment and keeps the read.          *)
Catch_Decrement(c) ==
  /\ delta' = delta - 1
  /\ call' = [call EXCEPT ![c] = IdleCall]
  /\ Note({"reset"})
  /\ UNCHANGED <<reads, cached>>

(* Mutant: the catch does not touch the manager.                           *)
Catch_NoReset(c) ==
  /\ call' = [call EXCEPT ![c] = IdleCall]
  /\ Note({"reset"})
  /\ UNCHANGED manager

(* The catch: reset and rethrow.                                           *)
Catch(c) ==
  /\ Reset
  /\ call' = [call EXCEPT ![c] = IdleCall]
  /\ Note({"reset"})
  /\ UNCHANGED reads

(* populateTransaction or sendTransaction rejects and nothing went out: a  *)
(* used nonce, or any other refusal.                                       *)
SendRefused(c) ==
  /\ call[c].pc = "send"
  /\ call[c].nonce \in accepted \/ "refused" \in Env
  /\ Catch(c)
  /\ UNCHANGED accepted

(* The node took the transaction and sendTransaction rejects all the same. *)
SendLost(c) ==
  /\ "lost" \in Env
  /\ call[c].pc = "send"
  /\ call[c].nonce \notin accepted
  /\ accepted' = accepted \cup {call[c].nonce}
  /\ Catch(c)

Restart ==
  /\ "restart" \in Env
  /\ Reset
  /\ call' = [c \in Senders |-> IdleCall]
  /\ Note(IF Quiet THEN {} ELSE {"reset"})
  /\ UNCHANGED <<reads, accepted>>

Next ==
  \/ Restart
  \/ \E c \in Senders :
       \/ CallJoin(c) \/ CallWarm(c)
       \/ SendAccepted(c) \/ SendRefused(c) \/ SendLost(c)
       \/ \E q \in Read : CallCold(c, q)
  \/ \E q \in Read : ReadAnswered(q) \/ ReadFailed(q)

Spec == Init /\ [][Next]_vars

-----------------------------------------------------------------------------
(* Every variable has its type.                                            *)
TypeOK ==
  /\ reads \in [Read -> ReadState]
  /\ cached \in Read \cup {0}
  /\ delta \in Nat
  /\ call \in [Senders -> Locals]
  /\ accepted \subseteq Nonce
  /\ burst \subseteq {"overlap", "shared", "reset"}

(***************************************************************************)
(* When no call is in flight the count the manager would hand out next is  *)
(* the one the node expects ("il contatore locale resta correttamente      *)
(* allineato"), as long as no two calls shared a read and no call of a     *)
(* burst of overlapping ones failed.                                       *)
(***************************************************************************)
AlignedWhenQuiet ==
  (Calm /\ Quiet /\ cached # 0 /\ reads[cached].state = "known")
    => reads[cached].count + delta = PendingCount

(***************************************************************************)
(* Under the same condition every transaction the node took can be         *)
(* executed: none of them is queued behind a nonce that nobody will use.   *)
(***************************************************************************)
NoGapWhenQuiet == (Calm /\ Quiet) => \A n \in accepted : n < PendingCount

(***************************************************************************)
(* Whatever calls overlap or fail: once all have ended, the next call is   *)
(* given the nonce the node expects ("il contatore locale resta            *)
(* correttamente allineato"; after a failure "reset() scarta la cache      *)
(* locale").  A manager without a promise reads the count anew.            *)
(***************************************************************************)
NextNonceIsExpected ==
  (Quiet /\ cached # 0)
    => /\ reads[cached].state = "known"
       /\ reads[cached].count + delta = PendingCount
=============================================================================
