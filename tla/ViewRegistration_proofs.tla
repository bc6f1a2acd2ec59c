----------------------- MODULE ViewRegistration_proofs -----------------------
(***************************************************************************)
(* Proofs about ViewRegistration: type correctness, that an event is       *)
(* counted once, and that register implements ViewLog.                     *)
(***************************************************************************)
EXTENDS ViewRegistration, TLAPS

(* The inductive invariant: a uuid names one row, and a request that is    *)
(* about to insert has seen the asset of its event.                        *)
IdsApart    == \A v, w \in views : v.id = w.id => v = w
AssetsKnown == \A q \in Requests : request[q].pc = "create" => request[q].key \in notarized

ViewsInv == TypeOK /\ CountedOnce /\ IdsApart /\ AssetsKnown

(* The table starts empty.                                                 *)
LEMMA ViewsInit == Init => ViewsInv
  BY ViewsAssumption
  DEF Init, ViewsInv, TypeOK, CountedOnce, IdsApart, AssetsKnown, IdleRequest, Locals

(* What the moves of a request do to its locals.                           *)
LEMMA FinishMove ==
  ASSUME ViewsInv, NEW q \in Requests, Finish(q)
  PROVE  /\ request' \in [Requests -> Locals]
         /\ request'[q] = IdleRequest
         /\ \A z \in Requests \ {q} : request'[z] = request[z]
  BY DEF ViewsInv, TypeOK, Finish, IdleRequest, Locals

LEMMA NextMove ==
  ASSUME ViewsInv, NEW q \in Requests, NEW pc \in {"exists", "create"}, SetRequest(q, pc)
  PROVE  /\ request' \in [Requests -> Locals]
         /\ request'[q].pc = pc /\ request'[q].key = request[q].key
         /\ \A z \in Requests \ {q} : request'[z] = request[z]
  BY DEF ViewsInv, TypeOK, SetRequest, Locals

(* A 202 for a request in flight is well typed.                            *)
LEMMA AnswerTyped ==
  ASSUME ViewsInv, NEW q \in Requests, request[q].pc # "idle",
         NEW id \in Ids, NEW duplicate \in BOOLEAN, Accepted(q, id, duplicate)
  PROVE  /\ answers' \subseteq [key : Keys, id : Ids, duplicate : BOOLEAN]
         /\ acked' \subseteq Keys
         /\ faults' \in 0..MaxFaults
<1>1. request[q].key \in Keys /\ answers \subseteq [key : Keys, id : Ids, duplicate : BOOLEAN]
      /\ acked \subseteq Keys /\ faults \in 0..MaxFaults
  BY DEF ViewsInv, TypeOK
<1>2. faults' \in 0..MaxFaults
  BY <1>1, ViewsAssumption DEF Accepted, Fault
<1> QED
  BY <1>1, <1>2 DEF Accepted

(* A request that inserts nothing leaves the table as it was.              *)
LEMMA ReadStep ==
  ASSUME ViewsInv, NEW q \in Requests, UNCHANGED <<views, notarized>>,
         answers' \subseteq [key : Keys, id : Ids, duplicate : BOOLEAN],
         acked' \subseteq Keys, faults' \in 0..MaxFaults,
         request' \in [Requests -> Locals],
         \A z \in Requests \ {q} : request'[z] = request[z],
         \/ request'[q] = IdleRequest
         \/ /\ request'[q].pc \in {"lookup", "exists", "create"} /\ request'[q].key \in Keys
            /\ request'[q].pc = "create" => request'[q].key \in notarized
  PROVE  ViewsInv'
<1>1. TypeOK'
  BY DEF ViewsInv, TypeOK, IdleRequest
<1>2. CountedOnce' /\ IdsApart'
  BY DEF ViewsInv, CountedOnce, IdsApart
<1>3. AssetsKnown'
  BY DEF ViewsInv, AssetsKnown, IdleRequest
<1> QED
  BY <1>1, <1>2, <1>3 DEF ViewsInv

(* The insert that the unique index lets through.                          *)
LEMMA InsertStep ==
  ASSUME ViewsInv, NEW q \in Requests, NEW id \in Ids, Create(q, id)
  PROVE  ViewsInv'
<1> DEFINE k == request[q].key
           v == [id |-> id, key |-> k]
<1>1. /\ request' \in [Requests -> Locals]
      /\ request'[q] = IdleRequest
      /\ \A z \in Requests \ {q} : request'[z] = request[z]
  BY FinishMove DEF Create
<1>2. k \in Keys /\ k \in notarized /\ notarized \subseteq Keys /\ views \subseteq View
  BY DEF Create, ViewsInv, TypeOK, AssetsKnown
<1>3. /\ answers' \subseteq [key : Keys, id : Ids, duplicate : BOOLEAN]
      /\ acked' \subseteq Keys /\ faults' \in 0..MaxFaults
  BY AnswerTyped DEF Create
<1>4. views' = views \cup {v} /\ notarized' = notarized
  BY DEF Create
<1>5. \A w \in views : w.key # k /\ w.id # id
  BY DEF Create, UniqueIndex, Rows, IsFresh
<1>6. TypeOK'
  BY <1>1, <1>2, <1>3, <1>4 DEF ViewsInv, TypeOK, View, IdleRequest
<1>7. CountedOnce' /\ IdsApart'
  BY <1>2, <1>4, <1>5 DEF ViewsInv, CountedOnce, IdsApart
<1>8. AssetsKnown'
  BY <1>1, <1>4 DEF ViewsInv, AssetsKnown, IdleRequest
<1> QED
  BY <1>6, <1>7, <1>8 DEF ViewsInv

(* Every step preserves ViewsInv.                                          *)
LEMMA ViewsStep == ViewsInv /\ [Next]_vars => ViewsInv'
<1> SUFFICES ASSUME ViewsInv, [Next]_vars PROVE ViewsInv'
  OBVIOUS
<1>t. /\ request \in [Requests -> Locals] /\ notarized \subseteq Keys
      /\ answers \subseteq [key : Keys, id : Ids, duplicate : BOOLEAN]
      /\ acked \subseteq Keys /\ faults \in 0..MaxFaults
      /\ \A q \in Requests : request[q].pc # "idle" => request[q].key \in Keys
  BY DEF ViewsInv, TypeOK
<1>f. Fault => faults' \in 0..MaxFaults
  BY <1>t, ViewsAssumption DEF Fault
<1>1. CASE Crash
  <2>1. TypeOK'
    BY <1>1, <1>f DEF Crash, ViewsInv, TypeOK, IdleRequest, Locals
  <2>2. CountedOnce' /\ IdsApart' /\ AssetsKnown'
    BY <1>1 DEF Crash, ViewsInv, CountedOnce, IdsApart, AssetsKnown, IdleRequest
  <2> QED
    BY <2>1, <2>2 DEF ViewsInv
<1>2. ASSUME NEW k \in Keys, NotarizeAsset(k) PROVE ViewsInv'
  <2>1. TypeOK'
    BY <1>2 DEF NotarizeAsset, ViewsInv, TypeOK
  <2>2. CountedOnce' /\ IdsApart' /\ AssetsKnown'
    BY <1>2 DEF NotarizeAsset, ViewsInv, CountedOnce, IdsApart, AssetsKnown
  <2> QED
    BY <2>1, <2>2 DEF ViewsInv
<1>3. ASSUME NEW k \in Keys, NEW q \in Requests, Arrive(q, k) PROVE ViewsInv'
  <2>1. /\ request' \in [Requests -> Locals]
        /\ request'[q] = [pc |-> "lookup", key |-> k]
        /\ \A z \in Requests \ {q} : request'[z] = request[z]
    BY <1>3, <1>t DEF Arrive, Locals
  <2> QED
    BY <1>3, <1>t, <2>1, ReadStep DEF Arrive
<1>4. ASSUME NEW q \in Requests, Lookup(q) PROVE ViewsInv'
  <2>a. CASE Rows(request[q].key) # {}
    <3>1. PICK v \in Rows(request[q].key) : Accepted(q, v.id, TRUE)
      BY <1>4, <2>a DEF Lookup, Replay
    <3>2. v.id \in Ids
      BY DEF Rows, View, ViewsInv, TypeOK
    <3>3. /\ answers' \subseteq [key : Keys, id : Ids, duplicate : BOOLEAN]
          /\ acked' \subseteq Keys /\ faults' \in 0..MaxFaults
      BY <1>4, <3>1, <3>2, AnswerTyped DEF Lookup
    <3> QED
      BY <1>4, <2>a, <3>3, FinishMove, ReadStep DEF Lookup
  <2>b. CASE Rows(request[q].key) = {}
    <3>1. SetRequest(q, "exists") /\ UNCHANGED <<views, notarized, answers, acked, faults>>
      BY <1>4, <2>b DEF Lookup
    <3>2. request[q].key \in Keys
      BY <1>4, <1>t DEF Lookup
    <3> QED
      BY <1>t, <3>1, <3>2, NextMove, ReadStep
  <2> QED
    BY <2>a, <2>b
<1>5. ASSUME NEW q \in Requests, RequireExists(q) PROVE ViewsInv'
  <2>1. request[q].key \in Keys
    BY <1>5, <1>t DEF RequireExists
  <2>a. CASE request[q].key \in notarized
    BY <1>5, <1>t, <2>1, <2>a, NextMove, ReadStep DEF RequireExists
  <2>b. CASE request[q].key \notin notarized
    BY <1>5, <1>t, <2>b, FinishMove, ReadStep DEF RequireExists
  <2> QED
    BY <2>a, <2>b
<1>6. ASSUME NEW q \in Requests, CreateConflict(q) \/ DbError(q) PROVE ViewsInv'
  BY <1>6, <1>t, <1>f, FinishMove, ReadStep DEF CreateConflict, DbError
<1>7. ASSUME NEW q \in Requests, NEW id \in Ids, Create(q, id) PROVE ViewsInv'
  BY <1>7, InsertStep
<1>8. CASE UNCHANGED vars
  <2>1. TypeOK'
    BY <1>8 DEF vars, ViewsInv, TypeOK
  <2>2. CountedOnce' /\ IdsApart' /\ AssetsKnown'
    BY <1>8 DEF vars, ViewsInv, CountedOnce, IdsApart, AssetsKnown
  <2> QED
    BY <2>1, <2>2 DEF ViewsInv
<1> QED
  BY <1>1, <1>2, <1>3, <1>4, <1>5, <1>6, <1>7, <1>8 DEF Next, Register

(* ViewsInv holds of every reachable state.                                *)
LEMMA ViewsInvariant == Spec => []ViewsInv
<1> QED
  BY ViewsInit, ViewsStep, PTL DEF Spec

(***************************************************************************)
(* Type correctness of ViewRegistration.                                   *)
(***************************************************************************)
THEOREM TypeCorrect == Spec => []TypeOK
<1>1. ViewsInv => TypeOK
  BY DEF ViewsInv
<1> QED
  BY <1>1, ViewsInvariant, PTL

(***************************************************************************)
(* However many requests for one Idempotency-Key overlap, the views table  *)
(* holds the event once, and only for an asset that is known.              *)
(***************************************************************************)
THEOREM EventsCountedOnce == Spec => []CountedOnce
<1>1. ViewsInv => CountedOnce
  BY DEF ViewsInv
<1> QED
  BY <1>1, ViewsInvariant, PTL

-----------------------------------------------------------------------------
(* The log shows the one row of a key.                                     *)
LEMMA LoggedRow ==
  ASSUME CountedOnce, views \subseteq View, NEW k, NEW v \in Rows(k)
  PROVE  LoggedId(k) = v.id
<1>1. Rows(k) = {v}
  BY DEF CountedOnce, Rows
<1>2. (CHOOSE w \in Rows(k) : TRUE) = v
  BY <1>1
<1> QED
  BY <1>1, <1>2 DEF LoggedId

(* A 202 with the id of the row of its key is a replay.                    *)
LEMMA ReplayRefines ==
  ASSUME ViewsInv, NEW q \in Requests, request[q].pc # "idle",
         NEW v \in Rows(request[q].key), Accepted(q, v.id, TRUE), UNCHANGED views
  PROVE  \E k \in Keys : Log!Replay(k)
<1> DEFINE k == request[q].key
<1>1. k \in Keys /\ v.id \in Ids
  BY DEF ViewsInv, TypeOK, View, Rows
<1>2. LoggedId(k) = v.id
  BY LoggedRow DEF ViewsInv, TypeOK
<1>3. LoggedId(k) # NoId
  BY <1>1, <1>2, ViewsAssumption
<1>4. \A j \in Keys : LoggedId(j)' = LoggedId(j)
  BY DEF LoggedId, Rows
<1>5. answers' = answers \cup {Log!Answer(k, LoggedId(k), TRUE)}
  BY <1>2 DEF Accepted, Log!Answer
<1>6. Log!Replay(k)
  BY <1>1, <1>3, <1>4, <1>5 DEF Log!Replay
<1> QED
  BY <1>1, <1>6

(* The insert records the event and answers with its id.                   *)
LEMMA CreateRefines ==
  ASSUME ViewsInv, NEW q \in Requests, NEW id \in Ids, Create(q, id),
         NEW k \in Keys, k = request[q].key
  PROVE  Log!Record(k, id)
<1> DEFINE v == [id |-> id, key |-> k]
<1>1. views \subseteq View
  BY DEF ViewsInv, TypeOK
<1>2. views' = views \cup {v} /\ Rows(k) = {} /\ IsFresh(id)
  BY DEF Create, UniqueIndex
<1>3. LoggedId(k) = NoId
  BY <1>2 DEF LoggedId
<1>4. ASSUME NEW j \in Keys PROVE LoggedId(j) # id
  <2>1. CASE Rows(j) = {}
    BY <2>1, ViewsAssumption DEF LoggedId
  <2>2. ASSUME NEW w \in Rows(j) PROVE LoggedId(j) # id
    <3>1. LoggedId(j) = w.id
      BY LoggedRow, <1>1 DEF ViewsInv
    <3> QED
      BY <1>2, <3>1 DEF IsFresh, Rows
  <2> QED
    BY <2>1, <2>2
<1>5. LoggedId(k)' = id
  <2>1. Rows(k)' = {v}
    BY <1>2 DEF Rows
  <2>2. (CHOOSE w \in Rows(k)' : TRUE) = v
    BY <2>1
  <2> QED
    BY <2>1, <2>2 DEF LoggedId
<1>6. ASSUME NEW j \in Keys, j # k PROVE LoggedId(j)' = LoggedId(j)
  <2>1. Rows(j)' = Rows(j)
    BY <1>2, <1>6 DEF Rows
  <2> QED
    BY <2>1 DEF LoggedId
<1>7. [j \in Keys |-> LoggedId(j)'] = [[j \in Keys |-> LoggedId(j)] EXCEPT ![k] = id]
  BY <1>5, <1>6
<1>8. answers' = answers \cup {Log!Answer(k, id, FALSE)}
  BY DEF Create, Accepted, Log!Answer
<1> QED
  BY <1>3, <1>4, <1>7, <1>8 DEF Log!Record

(***************************************************************************)
(* register implements ViewLog: the lookup, the check of the asset and the *)
(* insert look like one step, and all 202 answers for a key name one id.   *)
(***************************************************************************)
THEOREM ImplementsViewLog == Spec => RefinesViewLog
<1>1. Init => Log!Init
  BY DEF Init, Log!Init, LoggedId, Rows
<1>2. ViewsInv /\ [Next]_vars => [Log!Next]_<<[k \in Keys |-> LoggedId(k)], answers>>
  <2> SUFFICES ASSUME ViewsInv, [Next]_vars
               PROVE  Log!Next \/ UNCHANGED <<[k \in Keys |-> LoggedId(k)], answers>>
    OBVIOUS
  <2>1. ASSUME NEW q \in Requests, Lookup(q), Rows(request[q].key) # {} PROVE Log!Next
    <3>1. PICK v \in Rows(request[q].key) : Accepted(q, v.id, TRUE)
      BY <2>1 DEF Lookup, Replay
    <3>2. request[q].pc # "idle" /\ UNCHANGED views
      BY <2>1 DEF Lookup
    <3> QED
      BY <3>1, <3>2, ReplayRefines DEF Log!Next
  <2>2. ASSUME NEW q \in Requests, NEW id \in Ids, Create(q, id) PROVE Log!Next
    <3>1. request[q].key \in Keys
      BY <2>2 DEF Create, ViewsInv, TypeOK
    <3> QED
      BY <2>2, <3>1, CreateRefines DEF Log!Next
  <2>3. CASE UNCHANGED <<views, answers>>
    BY <2>3 DEF LoggedId, Rows
  <2> QED
    BY <2>1, <2>2, <2>3
    DEF Next, Register, Crash, NotarizeAsset, Arrive, Lookup, RequireExists, CreateConflict,
        DbError, vars
<1> QED
  BY <1>1, <1>2, ViewsInvariant, PTL DEF Spec, RefinesViewLog, Log!Spec
==============================================================================
