--------------------------- MODULE ViewRegistration ---------------------------
(***************************************************************************)
(* POST /views: ViewService.register, called by a core that sends an event *)
(* again, with the same Idempotency-Key and the same body, until it gets a *)
(* 202.  Each awaited query is an action, so requests for one key may      *)
(* overlap: a retry does not wait for the request that timed out.          *)
(*                                                                         *)
(* The period of an event comes from the occurredAt in its body, so it is  *)
(* the same in every request for a key and is left out here.               *)
(***************************************************************************)
EXTENDS Naturals, FiniteSets

CONSTANTS
  Keys,       \* the events of the core, by idempotency key
  Ids,        \* bound: uuids that may be drawn
  NoId,       \* no uuid
  Requests,   \* requests that may be in flight
  MaxFaults   \* bound: crashes, database errors and lost answers

ASSUME ViewsAssumption == NoId \notin Ids /\ MaxFaults \in Nat /\ IsFiniteSet(Keys)

VARIABLES
  views,      \* the views table
  notarized,  \* events whose asset has a row in the assets table
  request,    \* locals of the register calls in flight
  answers,    \* history: the 202 answers given
  acked,      \* events whose core has got one
  faults      \* crashes, database errors and lost answers so far

vars == <<views, notarized, request, answers, acked, faults>>

View        == [id : Ids, key : Keys]
NoKey       == "none"
Locals      == [pc : {"idle", "lookup", "exists", "create"}, key : Keys \cup {NoKey}]
IdleRequest == [pc |-> "idle", key |-> NoKey]

Init ==
  /\ views = {}
  /\ notarized = {}
  /\ request = [q \in Requests |-> IdleRequest]
  /\ answers = {}
  /\ acked = {}
  /\ faults = 0

SetRequest(q, pc) == request' = [request EXCEPT ![q].pc = pc]

(* Mutant: the key of a settled call lingers.                              *)
Finish_Keep(q) == request' = [request EXCEPT ![q].pc = "idle"]

Finish(q) == request' = [request EXCEPT ![q] = IdleRequest]
Rows(k) == {v \in views : v.key = k}
Fault == faults < MaxFaults /\ faults' = faults + 1

(* AssetRepository.create for the asset of the event.                      *)
NotarizeAsset(k) ==
  /\ k \notin notarized
  /\ notarized' = notarized \cup {k}
  /\ UNCHANGED <<views, request, answers, acked, faults>>

(* The core sends an event, for the first time or again.                   *)
Arrive(q, k) ==
  /\ request[q] = IdleRequest
  /\ k \notin acked
  /\ request' = [request EXCEPT ![q] = [pc |-> "lookup", key |-> k]]
  /\ UNCHANGED <<views, notarized, answers, acked, faults>>

(* The 202 for request q, which may get lost on its way.                   *)
Accepted(q, id, duplicate) ==
  /\ answers' = answers \cup {[key |-> request[q].key, id |-> id, duplicate |-> duplicate]}
  /\ \/ acked' = acked \cup {request[q].key} /\ UNCHANGED faults
     \/ Fault /\ UNCHANGED acked

(* Mutant: a known key is a conflict.                                      *)
Replay_Conflict(q) == UNCHANGED <<answers, acked, faults>>

(* The early return: the id of the row, duplicate = true.                  *)
Replay(q) == \E v \in Rows(request[q].key) : Accepted(q, v.id, TRUE)

(* findByIdempotencyKey.                                                   *)
Lookup(q) ==
  /\ request[q].pc = "lookup"
  /\ IF Rows(request[q].key) # {}
     THEN Replay(q) /\ Finish(q)
     ELSE SetRequest(q, "exists") /\ UNCHANGED <<answers, acked, faults>>
  /\ UNCHANGED <<views, notarized>>

(* requireExists: an unknown asset is answered 404.                        *)
RequireExists(q) ==
  /\ request[q].pc = "exists"
  /\ IF request[q].key \in notarized THEN SetRequest(q, "create") ELSE Finish(q)
  /\ UNCHANGED <<views, notarized, answers, acked, faults>>

(* Mutant: the table has no unique index on the key.                       *)
UniqueIndex_None(k) == TRUE

(* views_idempotency_unique lets a row with key k in.                      *)
UniqueIndex(k) == Rows(k) = {}

IsFresh(id) == \A v \in views : v.id # id

(* Mutant: the answer comes before the insert, which may then fail.        *)
Create_AnswerFirst(q, id) ==
  /\ request[q].pc = "create" /\ IsFresh(id)
  /\ Accepted(q, id, FALSE)
  /\ views' = IF UniqueIndex(request[q].key)
              THEN views \cup {[id |-> id, key |-> request[q].key]} ELSE views
  /\ Finish(q)
  /\ UNCHANGED notarized

(* randomUUID and create.                                                  *)
Create(q, id) ==
  /\ request[q].pc = "create" /\ IsFresh(id)
  /\ UniqueIndex(request[q].key)
  /\ views' = views \cup {[id |-> id, key |-> request[q].key]}
  /\ Accepted(q, id, FALSE)
  /\ Finish(q)
  /\ UNCHANGED notarized

(* A row with this key was inserted since the lookup: the index makes the  *)
(* insert fail, and nobody turns that into a replay (500).                 *)
CreateConflict(q) ==
  /\ request[q].pc = "create"
  /\ ~UniqueIndex(request[q].key)
  /\ Finish(q)
  /\ UNCHANGED <<views, notarized, answers, acked, faults>>

(* A query throws: 500.                                                    *)
DbError(q) ==
  /\ request[q] # IdleRequest
  /\ Fault
  /\ Finish(q)
  /\ UNCHANGED <<views, notarized, answers, acked>>

(* The process dies and restarts.                                          *)
Crash ==
  /\ Fault
  /\ request' = [q \in Requests |-> IdleRequest]
  /\ UNCHANGED <<views, notarized, answers, acked>>

Register(q) ==
  \/ Lookup(q) \/ RequireExists(q) \/ CreateConflict(q)
  \/ \E id \in Ids : Create(q, id)

Next ==
  \/ Crash
  \/ \E k \in Keys : NotarizeAsset(k) \/ \E q \in Requests : Arrive(q, k)
  \/ \E q \in Requests : Register(q) \/ DbError(q)

Spec == Init /\ [][Next]_vars

(***************************************************************************)
(* Queries settle; the core goes on sending what was not acknowledged, and *)
(* its requests are served although others arrive (Requests is a bound of  *)
(* the model, not of the server).                                          *)
(***************************************************************************)
Fairness ==
  /\ \A q \in Requests : WF_vars(Register(q))
  /\ \A k \in Keys : SF_vars(\E q \in Requests : Arrive(q, k))

FairSpec == Spec /\ Fairness

-----------------------------------------------------------------------------
(* Every variable has its type; the locals of idle requests are reset.     *)
TypeOK ==
  /\ views \subseteq View
  /\ notarized \subseteq Keys
  /\ request \in [Requests -> Locals]
  /\ answers \subseteq [key : Keys, id : Ids, duplicate : BOOLEAN]
  /\ acked \subseteq Keys
  /\ faults \in 0..MaxFaults
  /\ \A q \in Requests : IF request[q].pc = "idle" THEN request[q] = IdleRequest
                                                   ELSE request[q].key \in Keys

(***************************************************************************)
(* However many requests for one key overlap, get lost or are sent again,  *)
(* aggregatesForPeriod counts the event once, and only if it was for an    *)
(* asset that is known.                                                    *)
(***************************************************************************)
CountedOnce ==
  \A v \in views : v.key \in notarized /\ \A w \in views : w.key = v.key => w = v

(***************************************************************************)
(* Seen from outside the three queries of register are one step, and every *)
(* 202 for a key names the one event recorded for it ("un retry con la     *)
(* stessa Idempotency-Key e' un replay sicuro").                           *)
(***************************************************************************)
LoggedId(k) == IF Rows(k) = {} THEN NoId ELSE (CHOOSE v \in Rows(k) : TRUE).id
Log == INSTANCE ViewLog WITH log <- [k \in Keys |-> LoggedId(k)]
RefinesViewLog == Log!Spec

(***************************************************************************)
(* The core gets its 202 in the end, whichever of its requests reached the *)
(* insert and whatever became of the answer.                               *)
(***************************************************************************)
EventuallyAcknowledged == \A k \in Keys : (k \in notarized) ~> (k \in acked)
=============================================================================
