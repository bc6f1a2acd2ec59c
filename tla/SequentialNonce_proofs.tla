----------------------- MODULE SequentialNonce_proofs -----------------------
(***************************************************************************)
(* Proofs about SequentialNonce, for any number of senders.                *)
(***************************************************************************)
EXTENDS SequentialNonce, FiniteSetTheorems, TLAPS

(* The node took the nonces from 0 on and no other one.                    *)
Even == \E n \in Nat : accepted = 0..(n - 1)

(* No promise, or a rejected one: nobody is in flight.                     *)
AtRest ==
  (cached = 0 \/ reads[cached].state = "failed") => Quiet /\ delta = 0 /\ Even

(* The count is being read: for one call, alone in flight.                 *)
ReadsAlone(c) ==
  /\ call[c].pc = "nonce" /\ call[c].read = cached /\ call[c].delta = 0
  /\ \A b \in Senders : b # c => call[b].pc = "idle"
Reading ==
  (cached # 0 /\ reads[cached].state = "pending") =>
    delta = 0 /\ Even /\ \E c \in Senders : ReadsAlone(c)

(* The count is known: the nonces below the next one were taken by the     *)
(* node or are each in the hands of one call, the last one if no call of   *)
(* this burst overlapped it.                                               *)
Upcoming == reads[cached].count + delta
Sending(c) == call[c].pc = "send"
HandedOut ==
  /\ accepted \subseteq 0..(Upcoming - 1)
  /\ \A c \in Senders : call[c].pc # "nonce"
  /\ \A c \in Senders : Sending(c) => call[c].nonce \in (0..(Upcoming - 1)) \ accepted
  /\ \A b, c \in Senders : Sending(b) /\ Sending(c) /\ b # c => call[b].nonce # call[c].nonce
  /\ \A n \in 0..(Upcoming - 1) :
       n \in accepted \/ \E c \in Senders : Sending(c) /\ call[c].nonce = n
  /\ "overlap" \notin burst =>
       \A c \in Senders : Sending(c) => call[c].nonce = Upcoming - 1
Counting == (cached # 0 /\ reads[cached].state = "known") => HandedOut

NonceInv ==
  /\ TypeOK
  /\ Calm => /\ cached # 0 => reads[cached].state # "unused"
             /\ AtRest
             /\ Reading
             /\ Counting

-----------------------------------------------------------------------------
(* Types.                                                                  *)

LEMMA ConstantTypes ==
  /\ Read \subseteq Nat /\ 0 \notin Read
  /\ Nonce \subseteq Nat /\ 0 \in Nonce
  /\ IdleCall \in Locals /\ UnusedRead \in ReadState
BY NonceAssumption DEF NonceAssumption, Read, Nonce, IdleCall, Locals, UnusedRead, ReadState

LEMMA WaitingType ==
  ASSUME NEW q
  PROVE  Cardinality(Waiting(q)) \in Nat
<1>1. IsFiniteSet(Waiting(q))
  BY NonceAssumption, FS_Subset DEF NonceAssumption, Waiting
<1>. QED
  BY <1>1, FS_CardinalityType

LEMMA NoteType ==
  ASSUME TypeOK, NEW events \in SUBSET {"overlap", "shared", "reset"}, Note(events)
  PROVE  burst' \subseteq {"overlap", "shared", "reset"}
BY DEF TypeOK, Note

LEMMA InitTypeOK == Init => TypeOK
BY ConstantTypes DEF Init, TypeOK

LEMMA CallUpdate ==
  ASSUME TypeOK, NEW c \in Senders, NEW k \in Locals, call' = [call EXCEPT ![c] = k]
  PROVE  call' \in [Senders -> Locals]
BY DEF TypeOK

(* The locals a call gets in getNonce, and when it goes on to send.        *)
LEMMA LocalsType ==
  /\ \A q \in Read, d \in Nat :
       /\ [IdleCall EXCEPT !.pc = "nonce", !.read = q, !.delta = d] \in Locals
       /\ [IdleCall EXCEPT !.pc = "nonce", !.read = q, !.delta = d].pc = "nonce"
       /\ [IdleCall EXCEPT !.pc = "nonce", !.read = q, !.delta = d].read = q
       /\ [IdleCall EXCEPT !.pc = "nonce", !.read = q, !.delta = d].delta = d
  /\ \A n \in Nonce :
       /\ [IdleCall EXCEPT !.pc = "send", !.nonce = n] \in Locals
       /\ [IdleCall EXCEPT !.pc = "send", !.nonce = n].pc = "send"
       /\ [IdleCall EXCEPT !.pc = "send", !.nonce = n].nonce = n
  /\ IdleCall.pc = "idle"
<1>1. ASSUME NEW q \in Read, NEW d \in Nat
      PROVE  LET k == [IdleCall EXCEPT !.pc = "nonce", !.read = q, !.delta = d]
             IN  k \in Locals /\ k.pc = "nonce" /\ k.read = q /\ k.delta = d
  BY ConstantTypes DEF IdleCall, Locals
<1>2. ASSUME NEW n \in Nonce
      PROVE  LET k == [IdleCall EXCEPT !.pc = "send", !.nonce = n]
             IN  k \in Locals /\ k.pc = "send" /\ k.nonce = n
  <2>1. n \in Nat
    BY ConstantTypes
  <2>. QED
    BY <2>1 DEF IdleCall, Locals
<1>. QED
  BY <1>1, <1>2 DEF IdleCall

LEMMA CatchType ==
  ASSUME TypeOK, NEW c \in Senders, Catch(c), accepted' \subseteq Nonce
  PROVE  TypeOK'
<1>1. call' \in [Senders -> Locals]
  BY ConstantTypes, CallUpdate DEF Catch
<1>2. burst' \subseteq {"overlap", "shared", "reset"}
  BY NoteType DEF Catch
<1>. QED
  BY <1>1, <1>2 DEF TypeOK, Catch, Reset

LEMMA NextType == TypeOK /\ [Next]_vars => TypeOK'
<1>. SUFFICES ASSUME TypeOK, [Next]_vars PROVE TypeOK'
  OBVIOUS
<1>o. Overlap \in SUBSET {"overlap", "shared", "reset"}
  BY DEF Overlap
<1>1. ASSUME NEW c \in Senders, NEW q \in Read, CallCold(c, q)
      PROVE  TypeOK'
  <2>1. call' \in [Senders -> Locals]
    BY <1>1, CallUpdate, LocalsType DEF CallCold, TypeOK
  <2>2. burst' \subseteq {"overlap", "shared", "reset"}
    BY <1>1, <1>o, NoteType DEF CallCold
  <2>3. reads' \in [Read -> ReadState]
    BY <1>1 DEF CallCold, TypeOK, ReadState
  <2>. QED
    BY <1>1, <2>1, <2>2, <2>3 DEF CallCold, TypeOK
<1>2. ASSUME NEW c \in Senders, CallJoin(c)
      PROVE  TypeOK'
  <2>1. call' \in [Senders -> Locals]
    BY <1>2, CallUpdate, LocalsType DEF CallJoin, TypeOK
  <2>2. burst' \subseteq {"overlap", "shared", "reset"}
    BY <1>2, NoteType DEF CallJoin
  <2>. QED
    BY <1>2, <2>1, <2>2 DEF CallJoin, TypeOK, manager
<1>3. ASSUME NEW c \in Senders, CallWarm(c)
      PROVE  TypeOK'
  <2>1. reads[cached].count + delta \in Nonce
    BY <1>3, NonceAssumption DEF NonceAssumption, CallWarm, TypeOK, ReadState, Nonce, Read
  <2>2. call' \in [Senders -> Locals]
    BY <1>3, <2>1, CallUpdate, LocalsType DEF CallWarm
  <2>3. burst' \subseteq {"overlap", "shared", "reset"}
    BY <1>3, <1>o, NoteType DEF CallWarm
  <2>. QED
    BY <1>3, <2>2, <2>3 DEF CallWarm, TypeOK
<1>4. ASSUME NEW q \in Read, ReadAnswered(q)
      PROVE  TypeOK'
  <2>1. call' \in [Senders -> Locals]
    BY <1>4, LocalsType DEF ReadAnswered, TypeOK
  <2>2. reads' \in [Read -> ReadState]
    BY <1>4 DEF ReadAnswered, TypeOK, ReadState
  <2>3. delta' \in Nat
    <3>1. delta' = delta + Cardinality(Waiting(q)) /\ delta \in Nat
      BY <1>4 DEF ReadAnswered, TypeOK
    <3>. QED
      BY <3>1, WaitingType
  <2>. QED
    BY <1>4, <2>1, <2>2, <2>3 DEF ReadAnswered, TypeOK
<1>5. ASSUME NEW q \in Read, ReadFailed(q)
      PROVE  TypeOK'
  <2>1. reads' \in [Read -> ReadState]
    BY <1>5 DEF ReadFailed, TypeOK, ReadState
  <2>. QED
    BY <1>5, <2>1, ConstantTypes DEF ReadFailed, TypeOK
<1>6. ASSUME NEW c \in Senders, SendAccepted(c) \/ SendRefused(c) \/ SendLost(c)
      PROVE  TypeOK'
  <2>1. accepted' \subseteq Nonce
    BY <1>6 DEF SendAccepted, SendRefused, SendLost, TypeOK, Locals
  <2>2. CASE SendAccepted(c)
    BY <2>1, <2>2, ConstantTypes DEF SendAccepted, TypeOK, manager
  <2>. QED
    BY <1>6, <2>1, <2>2, CatchType DEF SendRefused, SendLost
<1>7. CASE Restart
  <2>1. burst' \subseteq {"overlap", "shared", "reset"}
    <3>1. (IF Quiet THEN {} ELSE {"reset"}) \in SUBSET {"overlap", "shared", "reset"}
      OBVIOUS
    <3>. QED
      BY <1>7, <3>1, NoteType DEF Restart
  <2>. QED
    BY <1>7, <2>1, ConstantTypes DEF Restart, Reset, TypeOK
<1>8. CASE UNCHANGED vars
  BY <1>8 DEF vars, manager, TypeOK
<1>. QED
  BY <1>1, <1>2, <1>3, <1>4, <1>5, <1>6, <1>7, <1>8 DEF Next

(***************************************************************************)
(* Every variable of the nonce manager has its type, and the nonces the    *)
(* node took stay within the bound, whatever calls overlap and fail.       *)
(***************************************************************************)
THEOREM TypeCorrect == Spec => []TypeOK
BY InitTypeOK, NextType, PTL DEF Spec

-----------------------------------------------------------------------------
(* Calm bursts.                                                            *)

LEMMA PendingCountIs ==
  ASSUME TypeOK, NEW n \in Nat, accepted = 0..(n - 1)
  PROVE  PendingCount = n
<1>1. n \in 0..(MaxNonce + 1)
  <2>1. MaxNonce \in Nat /\ accepted \subseteq 0..MaxNonce
    BY NonceAssumption DEF NonceAssumption, TypeOK, Nonce
  <2>2. CASE n = 0
    BY <2>1, <2>2
  <2>3. CASE n # 0
    <3>1. n - 1 \in accepted
      BY <2>3
    <3>. QED
      BY <2>1, <3>1
  <2>. QED
    BY <2>2, <2>3
<1>2. n \notin accepted /\ 0..(n - 1) \subseteq accepted
  OBVIOUS
<1>3. ASSUME NEW m \in 0..(MaxNonce + 1), m \notin accepted, 0..(m - 1) \subseteq accepted
      PROVE  m = n
  <2>1. m \in Nat
    BY <1>3, NonceAssumption DEF NonceAssumption
  <2>2. ~(m < n)
    BY <1>3, <2>1
  <2>3. ~(n < m)
    <3>. SUFFICES ASSUME n < m PROVE FALSE
      OBVIOUS
    <3>1. n \in 0..(m - 1)
      BY <2>1
    <3>. QED
      BY <1>2, <1>3, <3>1
  <2>. QED
    BY <2>1, <2>2, <2>3
<1>. QED
  BY <1>1, <1>2, <1>3 DEF PendingCount

(* A burst that is not calm stays so: what a calm step notes.              *)
LEMMA CalmNote ==
  ASSUME NEW events, Note(events), Calm'
  PROVE  /\ Calm
         /\ events \subseteq burst'
         /\ Quiet => burst' = events
         /\ ~Quiet => burst' = burst \cup events
BY DEF Note, Calm

LEMMA CalmKept ==
  ASSUME burst' = burst
  PROVE  Calm' = Calm
BY DEF Calm

(* getNonce of a call that makes the promise: it is alone.                 *)
LEMMA ColdStep ==
  ASSUME NonceInv, Calm, Calm', TypeOK', NEW c \in Senders, NEW q \in Read, CallCold(c, q)
  PROVE  NonceInv'
<1>t. TypeOK
  BY DEF NonceInv
<1>1. Quiet /\ delta = 0 /\ Even
  BY DEF NonceInv, AtRest, CallCold
<1>2. cached' = q /\ q # 0 /\ reads'[q].state = "pending"
  BY <1>t, ConstantTypes DEF CallCold, TypeOK, ReadState
<1>3. ReadsAlone(c)'
  <2>1. call'[c] = [IdleCall EXCEPT !.pc = "nonce", !.read = q, !.delta = delta]
    BY <1>t DEF CallCold, TypeOK
  <2>2. \A b \in Senders : b # c => call'[b].pc = "idle"
    BY <1>t, <1>1 DEF CallCold, TypeOK, Quiet
  <2>3. call'[c].pc = "nonce" /\ call'[c].read = q /\ call'[c].delta = 0
    <3>. DEFINE k == [IdleCall EXCEPT !.pc = "nonce", !.read = q, !.delta = delta]
    <3>1. k.pc = "nonce" /\ k.read = q /\ k.delta = delta
      BY DEF IdleCall
    <3>. QED
      BY <1>1, <2>1, <3>1
  <2>. QED
    BY <1>2, <2>2, <2>3 DEF ReadsAlone
<1>4. delta' = 0 /\ Even'
  BY <1>1 DEF CallCold, Even
<1>. QED
  BY <1>2, <1>3, <1>4 DEF NonceInv, AtRest, Reading, Counting

(* getNonce finds the count: the call takes the next nonce.                *)
LEMMA WarmStep ==
  ASSUME NonceInv, Calm, Calm', TypeOK', NEW c \in Senders, CallWarm(c)
  PROVE  NonceInv'
<1>t. TypeOK
  BY DEF NonceInv
<1>1. cached # 0 /\ reads[cached].state = "known" /\ HandedOut
  BY DEF NonceInv, Counting, CallWarm
<1>2. /\ reads' = reads /\ cached' = cached /\ accepted' = accepted
      /\ Upcoming \in Nat /\ Upcoming' = Upcoming + 1
  <2>1. reads[cached].count \in Nat /\ delta \in Nat
    BY <1>t, <1>1, ConstantTypes DEF TypeOK, ReadState
  <2>. QED
    BY <2>1 DEF CallWarm, Upcoming
<1>3. /\ call'[c].pc = "send" /\ call'[c].nonce = Upcoming
      /\ \A b \in Senders : b # c => call'[b] = call[b]
      /\ call[c].pc = "idle"
  <2>1. reads[cached].count + delta \in Nonce
    BY <1>t, <1>1, NonceAssumption, ConstantTypes
    DEF NonceAssumption, CallWarm, TypeOK, ReadState, Nonce, Read
  <2>2. call'[c] = [IdleCall EXCEPT !.pc = "send", !.nonce = reads[cached].count + delta]
    BY <1>t DEF CallWarm, TypeOK
  <2>. QED
    <3>. DEFINE k == [IdleCall EXCEPT !.pc = "send", !.nonce = reads[cached].count + delta]
    <3>1. k.pc = "send" /\ k.nonce = reads[cached].count + delta
      BY <2>1, LocalsType
    <3>. QED
      BY <1>t, <2>2, <3>1 DEF CallWarm, TypeOK, Upcoming
<1>4. /\ accepted' \subseteq 0..(Upcoming' - 1)
      /\ \A b \in Senders : call'[b].pc # "nonce"
  BY <1>1, <1>2, <1>3 DEF HandedOut
<1>5. \A b \in Senders : Sending(b)' => call'[b].nonce \in (0..(Upcoming' - 1)) \ accepted'
  BY <1>1, <1>2, <1>3 DEF HandedOut, Sending
<1>6. \A b, d \in Senders : Sending(b)' /\ Sending(d)' /\ b # d => call'[b].nonce # call'[d].nonce
  BY <1>1, <1>2, <1>3 DEF HandedOut, Sending
<1>7. ASSUME NEW n \in 0..(Upcoming' - 1)
      PROVE  n \in accepted' \/ \E b \in Senders : Sending(b)' /\ call'[b].nonce = n
  <2>1. CASE n = Upcoming
    BY <1>3, <2>1 DEF Sending
  <2>2. CASE n # Upcoming
    <3>1. n \in 0..(Upcoming - 1)
      BY <1>2, <2>2
    <3>2. n \in accepted \/ \E b \in Senders : Sending(b) /\ call[b].nonce = n
      BY <1>1, <3>1 DEF HandedOut
    <3>3. \A b \in Senders : Sending(b) => b # c
      BY <1>3 DEF Sending
    <3>. QED
      BY <1>2, <1>3, <3>2, <3>3 DEF Sending
  <2>. QED
    BY <2>1, <2>2
<1>8. ASSUME "overlap" \notin burst', NEW b \in Senders, Sending(b)'
      PROVE  call'[b].nonce = Upcoming' - 1
  <2>1. Quiet
    BY <1>8, CalmNote DEF CallWarm, Overlap
  <2>2. b = c
    BY <1>3, <1>8, <2>1 DEF Quiet, Sending
  <2>. QED
    BY <1>2, <1>3, <2>2
<1>9. HandedOut'
  BY <1>4, <1>5, <1>6, <1>7, <1>8 DEF HandedOut, Sending
<1>. QED
  BY <1>1, <1>2, <1>9 DEF NonceInv, AtRest, Reading, Counting


(* A promise nobody waits for settles: a restart left it behind.           *)
LEMMA StrayRead ==
  ASSUME TypeOK, Calm, Calm', NonceInv, TypeOK', NEW q \in Read, q # cached,
         \A p \in Read : p # q => reads'[p] = reads[p],
         UNCHANGED <<cached, delta, call, accepted, burst>>
  PROVE  NonceInv'
<1>1. cached # 0 => cached \in Read /\ reads'[cached] = reads[cached]
  BY DEF TypeOK
<1>2. /\ cached # 0 => reads'[cached].state # "unused"
      /\ AtRest'
  BY <1>1 DEF NonceInv, AtRest, Quiet, Even
<1>3. Reading'
  BY <1>1 DEF NonceInv, Reading, ReadsAlone, Even
<1>4. ASSUME cached # 0, reads[cached].state = "known"
      PROVE  HandedOut'
  <2>1. Upcoming' = Upcoming /\ HandedOut
    BY <1>1, <1>4 DEF Upcoming, NonceInv, Counting
  <2>. QED
    BY <2>1 DEF HandedOut, Sending
<1>. QED
  BY <1>1, <1>2, <1>3, <1>4 DEF NonceInv, Counting

LEMMA NobodyWaits ==
  ASSUME NonceInv, Calm, NEW q \in Read, q # cached
  PROVE  Waiting(q) = {} /\ Cardinality(Waiting(q)) = 0
<1>1. \A c \in Senders : call[c].pc = "nonce" => call[c].read # q
  <2>. SUFFICES ASSUME NEW c \in Senders, call[c].pc = "nonce" PROVE call[c].read = cached
    OBVIOUS
  <2>1. cached # 0 /\ reads[cached].state \notin {"unused", "failed"}
    BY DEF NonceInv, AtRest, Quiet
  <2>2. reads[cached].state \in {"pending", "known"}
    BY <2>1 DEF NonceInv, TypeOK, ReadState
  <2>3. reads[cached].state = "pending"
    BY <2>1, <2>2 DEF NonceInv, Counting, HandedOut
  <2>. QED
    BY <2>1, <2>3 DEF NonceInv, Reading, ReadsAlone
<1>2. Waiting(q) = {}
  BY <1>1 DEF Waiting
<1>. QED
  BY <1>2, FS_EmptySet

(* The node answers: the one call that waited takes the count.             *)
LEMMA AnsweredStep ==
  ASSUME NonceInv, Calm, Calm', TypeOK', NEW q \in Read, ReadAnswered(q)
  PROVE  NonceInv'
<1>t. TypeOK
  BY DEF NonceInv
<1>1. CASE q # cached
  <2>1. Waiting(q) = {} /\ Cardinality(Waiting(q)) = 0
    BY <1>1, NobodyWaits
  <2>2. call' = call /\ delta' = delta
    BY <1>t, <2>1 DEF ReadAnswered, TypeOK
  <2>3. \A p \in Read : p # q => reads'[p] = reads[p]
    BY <1>t DEF ReadAnswered, TypeOK
  <2>. QED
    BY <1>t, <1>1, <2>2, <2>3, StrayRead DEF ReadAnswered
<1>2. CASE q = cached
  <2>0. cached # 0 /\ reads[cached].state = "pending"
    BY <1>2, ConstantTypes DEF ReadAnswered
  <2>1. PICK c \in Senders : ReadsAlone(c)
    BY <2>0 DEF NonceInv, Reading
  <2>2. PICK n \in Nat : accepted = 0..(n - 1)
    BY <2>0 DEF NonceInv, Reading, Even
  <2>3. delta = 0 /\ PendingCount = n
    BY <1>t, <2>0, <2>2, PendingCountIs DEF NonceInv, Reading
  <2>4. Waiting(q) = {c}
    BY <1>2, <2>1 DEF Waiting, ReadsAlone
  <2>5. delta' = 1
    <3>1. Cardinality(Waiting(q)) = 1
      BY <2>4, FS_Singleton
    <3>2. delta' = delta + Cardinality(Waiting(q))
      BY DEF ReadAnswered
    <3>. QED
      BY <2>3, <3>1, <3>2
  <2>6. /\ call'[c].pc = "send" /\ call'[c].nonce = n
        /\ \A b \in Senders : b # c => call'[b].pc = "idle"
    <3>. DEFINE k == [IdleCall EXCEPT !.pc = "send", !.nonce = n]
    <3>1. n \in Nonce
      BY <2>3 DEF ReadAnswered
    <3>2. k.pc = "send" /\ k.nonce = n
      BY <3>1, LocalsType
    <3>3. call[c].delta = 0 /\ n + 0 = n
      BY <2>1 DEF ReadsAlone
    <3>4. call'[c] = k
      BY <2>3, <2>4, <3>3 DEF ReadAnswered
    <3>. QED
      BY <2>1, <2>4, <3>2, <3>4 DEF ReadAnswered, ReadsAlone
  <2>7. /\ cached' = cached /\ accepted' = accepted
        /\ reads'[cached].state = "known" /\ Upcoming' = n + 1
    BY <1>t, <1>2, <2>3, <2>5 DEF ReadAnswered, TypeOK, Upcoming
  <2>8. HandedOut'
    <3>1. accepted' \subseteq 0..(Upcoming' - 1) /\ n \in 0..(Upcoming' - 1) /\ n \notin accepted'
      BY <2>2, <2>7
    <3>2. \A b \in Senders : Sending(b)' => b = c
      BY <2>6 DEF Sending
    <3>3. \A m \in 0..(Upcoming' - 1) : m \in accepted' \/ m = n
      BY <2>2, <2>7
    <3>4. n = Upcoming' - 1
      BY <2>7
    <3>. QED
      BY <2>6, <3>1, <3>2, <3>3, <3>4 DEF HandedOut, Sending
  <2>. QED
    BY <2>0, <2>7, <2>8 DEF NonceInv, AtRest, Reading, Counting
<1>. QED
  BY <1>1, <1>2

(* The read fails: the one call that waited rejects.                       *)
LEMMA FailedStep ==
  ASSUME NonceInv, Calm, Calm', TypeOK', NEW q \in Read, ReadFailed(q)
  PROVE  NonceInv'
<1>t. TypeOK
  BY DEF NonceInv
<1>1. CASE q # cached
  <2>1. Waiting(q) = {}
    BY <1>1, NobodyWaits
  <2>2. call' = call
    BY <1>t, <2>1 DEF ReadFailed, TypeOK
  <2>3. \A p \in Read : p # q => reads'[p] = reads[p]
    BY <1>t DEF ReadFailed, TypeOK
  <2>. QED
    BY <1>t, <1>1, <2>2, <2>3, StrayRead DEF ReadFailed
<1>2. CASE q = cached
  <2>0. cached # 0 /\ reads[cached].state = "pending"
    BY <1>2, ConstantTypes DEF ReadFailed
  <2>1. PICK c \in Senders : ReadsAlone(c)
    BY <2>0 DEF NonceInv, Reading
  <2>2. delta = 0 /\ Even
    BY <2>0 DEF NonceInv, Reading
  <2>3. Quiet'
    BY <1>2, <2>1, LocalsType DEF ReadFailed, Waiting, ReadsAlone, Quiet
  <2>4. reads'[cached].state = "failed"
    BY <1>t, <1>2 DEF ReadFailed, TypeOK, ReadState
  <2>. QED
    BY <2>0, <2>2, <2>3, <2>4 DEF ReadFailed, NonceInv, AtRest, Reading, Counting, Even
<1>. QED
  BY <1>1, <1>2

(* A call that sends holds a nonce counted from a known read.              *)
LEMMA SendsOnKnown ==
  ASSUME NonceInv, Calm, NEW c \in Senders, Sending(c)
  PROVE  /\ cached # 0 /\ reads[cached].state = "known" /\ HandedOut
         /\ call[c].nonce \notin accepted
<1>1. cached # 0 /\ reads[cached].state \notin {"unused", "failed"}
  BY DEF NonceInv, AtRest, Quiet, Sending
<1>2. reads[cached].state \in {"pending", "known"}
  BY <1>1 DEF NonceInv, TypeOK, ReadState
<1>3. reads[cached].state # "pending"
  BY <1>1 DEF NonceInv, Reading, ReadsAlone, Sending
<1>. QED
  BY <1>1, <1>2, <1>3 DEF NonceInv, Counting, HandedOut

(* The node takes the transaction of a call.                               *)
LEMMA AcceptedStep ==
  ASSUME NonceInv, Calm, Calm', TypeOK', NEW c \in Senders, SendAccepted(c)
  PROVE  NonceInv'
<1>t. TypeOK
  BY DEF NonceInv
<1>1. /\ cached # 0 /\ reads[cached].state = "known" /\ HandedOut /\ Sending(c)
  BY SendsOnKnown DEF SendAccepted, Sending
<1>2. /\ UNCHANGED <<reads, cached, burst>> /\ Upcoming' = Upcoming
      /\ accepted' = accepted \cup {call[c].nonce}
  BY DEF SendAccepted, manager, Upcoming
<1>3. call'[c].pc = "idle" /\ \A b \in Senders : b # c => call'[b] = call[b]
  <2>1. call' = [call EXCEPT ![c] = IdleCall]
    BY DEF SendAccepted
  <2>. QED
    BY <1>t, <2>1 DEF IdleCall, TypeOK
<1>4. HandedOut'
  <2>1. accepted' \subseteq 0..(Upcoming' - 1)
    BY <1>1, <1>2 DEF HandedOut
  <2>2. \A b \in Senders : call'[b].pc # "nonce"
    BY <1>1, <1>3 DEF HandedOut
  <2>3. \A b \in Senders : Sending(b)' => b # c /\ Sending(b) /\ call'[b].nonce = call[b].nonce
    BY <1>3 DEF Sending
  <2>4. \A b \in Senders : Sending(b)' => call'[b].nonce \in (0..(Upcoming' - 1)) \ accepted'
    BY <1>1, <1>2, <2>3 DEF HandedOut
  <2>5. \A b, d \in Senders : Sending(b)' /\ Sending(d)' /\ b # d => call'[b].nonce # call'[d].nonce
    BY <1>1, <2>3 DEF HandedOut
  <2>6. \A n \in 0..(Upcoming' - 1) :
          n \in accepted' \/ \E b \in Senders : Sending(b)' /\ call'[b].nonce = n
    BY <1>1, <1>2, <1>3 DEF HandedOut, Sending
  <2>7. "overlap" \notin burst' =>
          \A b \in Senders : Sending(b)' => call'[b].nonce = Upcoming' - 1
    BY <1>1, <1>2, <2>3 DEF HandedOut
  <2>. QED
    BY <2>1, <2>2, <2>4, <2>5, <2>6, <2>7 DEF HandedOut, Sending
<1>. QED
  BY <1>1, <1>2, <1>4 DEF NonceInv, AtRest, Reading, Counting

(* Without an overlap one call at most is sending, with the last nonce.    *)
LEMMA EvenOnKnown ==
  ASSUME NonceInv, Calm, cached # 0, reads[cached].state = "known",
         Quiet \/ "overlap" \notin burst
  PROVE  /\ Even
         /\ \A c \in Senders : Sending(c) =>
              /\ \E n \in Nat : accepted \cup {call[c].nonce} = 0..(n - 1)
              /\ \A b \in Senders : b # c => call[b].pc = "idle"
<1>1. HandedOut /\ TypeOK
  BY DEF NonceInv, Counting
<1>2. PICK m \in Nat : m = Upcoming
  <2>1. reads[cached].count \in Nat /\ delta \in Nat
    BY <1>1, ConstantTypes DEF TypeOK, ReadState
  <2>. QED
    BY <2>1 DEF Upcoming
<1>3. /\ accepted \subseteq 0..(m - 1)
      /\ \A b \in Senders : call[b].pc \in {"idle", "send"}
      /\ \A b \in Senders : Sending(b) => call[b].nonce \in (0..(m - 1)) \ accepted
      /\ \A n \in 0..(m - 1) : n \in accepted \/ \E b \in Senders : Sending(b) /\ call[b].nonce = n
  BY <1>1, <1>2 DEF HandedOut, TypeOK, Locals
<1>4. CASE \A c \in Senders : ~Sending(c)
  <2>1. accepted = 0..(m - 1)
    BY <1>3, <1>4
  <2>. QED
    BY <1>4, <2>1 DEF Even
<1>5. ASSUME NEW c \in Senders, Sending(c)
      PROVE  /\ Even
             /\ \E n \in Nat : accepted \cup {call[c].nonce} = 0..(n - 1)
             /\ \A b \in Senders : b # c => call[b].pc = "idle"
  <2>1. "overlap" \notin burst
    BY <1>5 DEF Quiet, Sending
  <2>2. call[c].nonce = m - 1 /\ m - 1 \in (0..(m - 1)) \ accepted
    BY <1>1, <1>2, <1>3, <1>5, <2>1 DEF HandedOut
  <2>3. \A b \in Senders : Sending(b) => b = c
    BY <1>1, <1>2, <1>5, <2>1, <2>2 DEF HandedOut
  <2>4. \A n \in 0..(m - 1) : n \in accepted \/ n = m - 1
    BY <1>3, <2>2, <2>3
  <2>5. accepted \cup {m - 1} = 0..(m - 1)
    <3>1. \A n \in accepted \cup {m - 1} : n \in 0..(m - 1)
      BY <1>3, <2>2
    <3>2. \A n \in 0..(m - 1) : n \in accepted \cup {m - 1}
      BY <2>4
    <3>. QED
      BY <3>1, <3>2
  <2>6. PICK k \in Nat : m = k + 1
    BY <2>2
  <2>7. accepted = 0..(k - 1)
    <3>1. \A n \in accepted : n \in 0..(k - 1)
      BY <1>3, <2>2, <2>6
    <3>2. \A n \in 0..(k - 1) : n \in accepted
      BY <2>4, <2>6
    <3>. QED
      BY <3>1, <3>2
  <2>. QED
    BY <1>3, <2>2, <2>3, <2>5, <2>7 DEF Even, Sending
<1>. QED
  BY <1>4, <1>5

(* The reset of a failed call: it was alone, and its nonce the last one.   *)
LEMMA ResetStep ==
  ASSUME NonceInv, Calm, Calm', TypeOK', NEW c \in Senders, Sending(c), Catch(c),
         accepted' = accepted \/ accepted' = accepted \cup {call[c].nonce}
  PROVE  NonceInv'
<1>t. TypeOK
  BY DEF NonceInv
<1>1. cached # 0 /\ reads[cached].state = "known"
  BY SendsOnKnown
<1>2. "overlap" \notin burst
  <2>1. ~Quiet
    BY DEF Quiet, Sending
  <2>2. burst' = burst \cup {"reset"}
    BY <2>1, CalmNote DEF Catch
  <2>. QED
    BY <2>2 DEF Calm
<1>3. /\ Even /\ \E n \in Nat : accepted \cup {call[c].nonce} = 0..(n - 1)
      /\ \A b \in Senders : b # c => call[b].pc = "idle"
  BY <1>1, <1>2, EvenOnKnown
<1>4. Quiet'
  <2>1. call' = [call EXCEPT ![c] = IdleCall]
    BY DEF Catch
  <2>. QED
    BY <1>t, <1>3, <2>1 DEF IdleCall, Quiet, TypeOK
<1>5. Even'
  BY <1>3 DEF Even
<1>. QED
  BY <1>4, <1>5 DEF Catch, Reset, NonceInv, AtRest, Reading, Counting

LEMMA RestartStep ==
  ASSUME NonceInv, Calm, Calm', TypeOK', Restart
  PROVE  NonceInv'
<1>1. Quiet'
  BY LocalsType DEF Restart, Quiet
<1>2. Quiet \/ "overlap" \notin burst
  <2>1. ~Quiet => burst' = burst \cup {"reset"}
    BY CalmNote DEF Restart
  <2>. QED
    BY <2>1 DEF Calm
<1>3. Even
  <2>1. CASE cached = 0 \/ reads[cached].state \in {"failed", "pending"}
    BY <2>1 DEF NonceInv, AtRest, Reading
  <2>2. CASE cached # 0 /\ reads[cached].state \notin {"failed", "pending"}
    <3>1. reads[cached].state = "known"
      BY <2>2 DEF NonceInv, TypeOK, ReadState
    <3>. QED
      BY <1>2, <2>2, <3>1, EvenOnKnown
  <2>. QED
    BY <2>1, <2>2
<1>4. Even'
  BY <1>3 DEF Restart, Even
<1>. QED
  BY <1>1, <1>4 DEF Restart, Reset, NonceInv, AtRest, Reading, Counting

LEMMA InitNonce == Init => NonceInv
<1>. SUFFICES ASSUME Init PROVE NonceInv
  OBVIOUS
<1>1. Quiet /\ delta = 0 /\ cached = 0
  BY LocalsType DEF Init, Quiet
<1>2. Even
  <2>1. accepted = 0..(0 - 1)
    BY DEF Init
  <2>. QED
    BY <2>1 DEF Even
<1>. QED
  BY <1>1, <1>2, InitTypeOK DEF NonceInv, AtRest, Reading, Counting

LEMMA NextNonce == NonceInv /\ [Next]_vars => NonceInv'
<1>. SUFFICES ASSUME NonceInv, [Next]_vars PROVE NonceInv'
  OBVIOUS
<1>t. TypeOK /\ TypeOK'
  BY NextType DEF NonceInv
<1>c. CASE ~Calm'
  BY <1>t, <1>c DEF NonceInv
<1>1. ASSUME NEW c \in Senders, NEW q \in Read, CallCold(c, q), Calm'
      PROVE  NonceInv'
  BY <1>t, <1>1, CalmNote, ColdStep DEF CallCold
<1>2. ASSUME NEW c \in Senders, CallJoin(c), Calm'
      PROVE  NonceInv'
  <2>1. "shared" \in burst'
    BY <1>2, CalmNote DEF CallJoin
  <2>. QED
    BY <1>2, <2>1 DEF Calm
<1>3. ASSUME NEW c \in Senders, CallWarm(c), Calm'
      PROVE  NonceInv'
  BY <1>t, <1>3, CalmNote, WarmStep DEF CallWarm
<1>4. ASSUME NEW q \in Read, ReadAnswered(q) \/ ReadFailed(q), Calm'
      PROVE  NonceInv'
  BY <1>t, <1>4, CalmKept, AnsweredStep, FailedStep DEF ReadAnswered, ReadFailed
<1>5. ASSUME NEW c \in Senders, SendAccepted(c), Calm'
      PROVE  NonceInv'
  BY <1>t, <1>5, CalmKept, AcceptedStep DEF SendAccepted
<1>6. ASSUME NEW c \in Senders, SendRefused(c) \/ SendLost(c), Calm'
      PROVE  NonceInv'
  <2>1. Sending(c) /\ Catch(c)
    BY <1>6 DEF SendRefused, SendLost, Sending
  <2>2. Calm
    BY <1>6, <2>1, CalmNote DEF Catch
  <2>. QED
    BY <1>t, <1>6, <2>1, <2>2, ResetStep DEF SendRefused, SendLost
<1>7. CASE Restart /\ Calm'
  BY <1>t, <1>7, CalmNote, RestartStep DEF Restart
<1>8. CASE UNCHANGED vars
  BY <1>8 DEF vars, manager, NonceInv, TypeOK, Calm, AtRest, Reading, Counting, Quiet, Even,
              ReadsAlone, HandedOut, Upcoming, Sending
<1>. QED
  BY <1>c, <1>1, <1>2, <1>3, <1>4, <1>5, <1>6, <1>7, <1>8 DEF Next

(***************************************************************************)
(* In calm bursts every nonce below the next one is taken by the node or   *)
(* in the hands of one call.                                               *)
(***************************************************************************)
THEOREM NonceInvariant == Spec => []NonceInv
BY InitNonce, NextNonce, PTL DEF Spec

LEMMA QuietCount ==
  ASSUME NonceInv, Calm, Quiet
  PROVE  /\ \E n \in Nat : accepted = 0..(n - 1) /\ PendingCount = n
         /\ cached # 0 /\ reads[cached].state = "known" => accepted = 0..(Upcoming - 1)
<1>t. TypeOK
  BY DEF NonceInv
<1>1. Even
  <2>1. CASE cached # 0 /\ reads[cached].state = "known"
    BY <2>1, EvenOnKnown
  <2>2. CASE cached # 0 /\ reads[cached].state = "pending"
    BY <2>2 DEF NonceInv, Reading
  <2>3. CASE cached = 0 \/ reads[cached].state \notin {"known", "pending"}
    BY <2>3 DEF NonceInv, TypeOK, ReadState, AtRest
  <2>. QED
    BY <2>1, <2>2, <2>3
<1>2. cached # 0 /\ reads[cached].state = "known" => accepted = 0..(Upcoming - 1)
  BY DEF NonceInv, Counting, HandedOut, Quiet, Sending
<1>. QED
  BY <1>t, <1>1, <1>2, PendingCountIs DEF Even

(***************************************************************************)
(* After a calm burst the manager would hand out the nonce that the node   *)
(* expects, for any number of senders.                                     *)
(***************************************************************************)
THEOREM ManagerIsAligned == Spec => []AlignedWhenQuiet
<1>1. NonceInv => AlignedWhenQuiet
  <2>. SUFFICES ASSUME NonceInv, Calm, Quiet, cached # 0, reads[cached].state = "known"
                PROVE  reads[cached].count + delta = PendingCount
    BY DEF AlignedWhenQuiet
  <2>1. accepted = 0..(Upcoming - 1) /\ TypeOK
    BY QuietCount DEF NonceInv
  <2>2. Upcoming \in Nat
    <3>1. reads[cached].count \in Nat /\ delta \in Nat
      BY <2>1, ConstantTypes DEF TypeOK, ReadState
    <3>. QED
      BY <3>1 DEF Upcoming
  <2>3. PendingCount = Upcoming
    BY <2>1, <2>2, PendingCountIs
  <2>. QED
    BY <2>3 DEF Upcoming
<1>. QED
  BY <1>1, NonceInvariant, PTL

(***************************************************************************)
(* After a calm burst no transaction the node took waits for a nonce that  *)
(* nobody will use.                                                        *)
(***************************************************************************)
THEOREM NobodyIsStuck == Spec => []NoGapWhenQuiet
<1>1. NonceInv => NoGapWhenQuiet
  <2>. SUFFICES ASSUME NonceInv, Calm, Quiet, NEW n \in accepted
                PROVE  n < PendingCount
    BY DEF NoGapWhenQuiet
  <2>. QED
    BY QuietCount
<1>. QED
  BY <1>1, NonceInvariant, PTL
=============================================================================
