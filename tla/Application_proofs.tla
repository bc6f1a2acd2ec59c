------------------------ MODULE Application_proofs ------------------------
(***************************************************************************)
(* The shutdown properties of Application, for any number of connections,  *)
(* drains, jobs and configurations.  ShutdownInv is inductive with TypeOK. *)
(***************************************************************************)
EXTENDS Application, TLAPS

\* The error mapping stays within the statuses of the table.
LEMMA HandledStatus == \A err : Handled(err) \in Statuses
  BY DEF Handled, AppErrors, StatusCode, Statuses

\* Whatever a handler answers is a status of the table.
LEMMA AnswerStatus ==
  ASSUME NEW cfg \in Configs, NEW ep \in DOMAIN Routes, NEW open \in BOOLEAN
  PROVE  Answers(cfg, ep, open) \subseteq Statuses
<1>1. Routes[ep].success \in Statuses
  BY DEF Routes, Statuses, Protected, Public, NotarizeAsset, GetAsset, NotarizeContract,
         GetContract, RegisterView, GetBatch, ChainInfo, Live, ReadyProbe, OpenApi
<1>2. ReadyStatuses(cfg, open) \subseteq Statuses
  BY DEF ReadyStatuses, Statuses
<1>3. {Handled(e) : e \in Routes[ep].errors} \subseteq Statuses
  BY HandledStatus
<1>4. 500 \in Statuses
  BY DEF Statuses
<1> QED
  BY <1>1, <1>2, <1>3, <1>4 DEF Answers

\* A request that no middleware refuses has a route.
LEMMA AcceptedHasRoute ==
  ASSUME NEW cfg, NEW req \in Requests, Refusal(cfg, req) = "none"
  PROVE  req.endpoint \in DOMAIN Routes
  BY RequestAssumption DEF Refusal, BodyTooLarge, BodyGarbled, NoRoute

\* Nothing has begun to shut down at first.
LEMMA ShutdownInit == Init => TypeOK /\ ShutdownInv
<1> SUFFICES ASSUME Init PROVE TypeOK /\ ShutdownInv
  OBVIOUS
<1>1. TypeOK
  BY DEF Init, TypeOK, Errors, NoConn, NoDrain
<1>2. ShutdownInv
  BY DEF Init, ShutdownInv, ServerShape, PoolLast, DrainShape, ExitShape, ConnShape,
         NoConn, NoDrain, NoEarlyDrain, Draining, CloseFailed
<1> QED
  BY <1>1, <1>2

(***************************************************************************)
(* The steps of the process other than its drains.                         *)
(***************************************************************************)
LEMMA BootStep ==
  ASSUME TypeOK, ShutdownInv, Construct \/ Connected \/ ConnectFails
  PROVE  TypeOK' /\ ShutdownInv'
<1>1. CASE Construct
  BY <1>1 DEF Construct, TypeOK, ShutdownInv, ServerShape, PoolLast, DrainShape, ExitShape,
              ConnShape, NoEarlyDrain, Draining, CloseFailed, Running
<1>2. CASE Connected
  BY <1>2 DEF Connected, TypeOK, ShutdownInv, ServerShape, PoolLast, DrainShape, ExitShape,
              ConnShape, NoEarlyDrain, Draining, CloseFailed, Running
<1>3. CASE ConnectFails
  BY <1>3 DEF ConnectFails, TypeOK, ShutdownInv, ServerShape, PoolLast, DrainShape, ExitShape,
              ConnShape, NoEarlyDrain, Draining, CloseFailed, Running
<1> QED
  BY <1>1, <1>2, <1>3

\* A connection moves only while the server is there and has not closed.
LEMMA ConnStep ==
  ASSUME TypeOK, ShutdownInv, NEW c \in Conns,
         Connect(c) \/ Answer(c) \/ Release(c) \/ \E req \in Requests : Receive(c, req)
  PROVE  TypeOK' /\ ShutdownInv'
<1> DEFINE Conn == [at : {"closed", "idle"}] \cup [at : {"service"}, req : Requests]
                   \cup [at : {"answered"}, req : Requests, status : Statuses]
<1> DEFINE Shaped(k) ==
             /\ k.at = "service" => Refusal(config, k.req) = "none"
             /\ k.at = "answered" =>
                  LET err == Refusal(config, k.req) IN
                  IF err # "none" THEN k.status = Handled(err)
                  ELSE \E open \in BOOLEAN : k.status \in Answers(config, k.req.endpoint, open)
<1>0. conns \in [Conns -> Conn] /\ config \in Configs
  BY DEF TypeOK
<1>1. PICK k \in Conn : conns' = [conns EXCEPT ![c] = k]
  <2>1. CASE Connect(c)
    BY <2>1 DEF Connect, Idle
  <2>2. CASE Answer(c)
    <3>1. conns[c].req \in Requests /\ conns[c].req.endpoint \in DOMAIN Routes
      BY <1>0, <2>2, AcceptedHasRoute DEF Answer, ShutdownInv, ConnShape
    <3>2. PICK status \in Answers(config, conns[c].req.endpoint, pool = "open") :
            conns' = [conns EXCEPT ![c] = Answered(conns[c].req, status)]
      BY <2>2 DEF Answer
    <3>3. status \in Statuses
      BY <1>0, <3>1, <3>2, AnswerStatus
    <3> QED
      BY <3>1, <3>2, <3>3 DEF Answered
  <2>3. CASE Release(c)
    BY <2>3 DEF Release, Idle, NoConn
  <2>4. ASSUME NEW req \in Requests, Receive(c, req)
        PROVE  \E k \in Conn : conns' = [conns EXCEPT ![c] = k]
    <3>1. conns' = [conns EXCEPT ![c] =
                      IF Refusal(config, req) = "none" THEN InService(req)
                      ELSE Answered(req, Handled(Refusal(config, req)))]
      BY <2>4 DEF Receive
    <3>2. InService(req) \in Conn
      BY DEF InService
    <3>3. Answered(req, Handled(Refusal(config, req))) \in Conn
      BY HandledStatus DEF Answered
    <3> QED
      BY <3>1, <3>2, <3>3
  <2> QED
    BY <2>1, <2>2, <2>3, <2>4
<1>2. UNCHANGED <<config, boot, server, jobs, ticks, pool, drains, exit>>
  <2>1. ASSUME NEW req \in Requests, Receive(c, req)
        PROVE  UNCHANGED <<config, boot, server, jobs, ticks, pool, drains, exit>>
    BY <2>1 DEF Receive
  <2> QED
    BY <2>1 DEF Connect, Answer, Release
<1>3. server \notin {"none", "closed"}
  <2>1. server = "open" \/ conns[c].at # "closed"
    BY DEF Connect, Answer, Release, Receive, Idle
  <2> QED
    BY <2>1 DEF ShutdownInv, ServerShape
<1>4. TypeOK'
  BY <1>0, <1>1, <1>2 DEF TypeOK
<1>5. ConnShape'
  <2>1. \A e \in Conns \ {c} : conns'[e] = conns[e]
    BY <1>0, <1>1
  <2>2. Shaped(conns'[c])
    <3>1. CASE Connect(c)
      BY <1>0, <3>1 DEF Connect, Idle
    <3>2. CASE Answer(c)
      <4>1. PICK status \in Answers(config, conns[c].req.endpoint, pool = "open") :
              conns' = [conns EXCEPT ![c] = Answered(conns[c].req, status)]
        BY <3>2 DEF Answer
      <4>2. conns'[c] = Answered(conns[c].req, status)
        BY <1>0, <4>1
      <4>3. Refusal(config, conns[c].req) = "none"
        BY <3>2 DEF Answer, ShutdownInv, ConnShape
      <4>4. /\ conns'[c].at = "answered" /\ conns'[c].req = conns[c].req
            /\ conns'[c].status \in Answers(config, conns[c].req.endpoint, pool = "open")
        BY <4>1, <4>2 DEF Answered
      <4>5. \E open \in BOOLEAN :
              conns'[c].status \in Answers(config, conns'[c].req.endpoint, open)
        BY <4>4
      <4> QED
        BY <4>3, <4>4, <4>5
    <3>3. CASE Release(c)
      BY <1>0, <3>3 DEF Release, Idle, NoConn
    <3>4. ASSUME NEW req \in Requests, Receive(c, req)
          PROVE  Shaped(conns'[c])
      BY <1>0, <3>4 DEF Receive, InService, Answered
    <3> QED
      BY <3>1, <3>2, <3>3, <3>4
  <2> QED
    BY <1>2, <2>1, <2>2 DEF ShutdownInv, ConnShape
<1> QED
  BY <1>2, <1>3, <1>4, <1>5
  DEF ShutdownInv, ServerShape, PoolLast, DrainShape, ExitShape, NoEarlyDrain, Draining, CloseFailed

LEMMA TickStep ==
  ASSUME TypeOK, ShutdownInv, NEW j \in Jobs, TickStarts(j) \/ TickEnds(j)
  PROVE  TypeOK' /\ ShutdownInv'
<1>1. /\ ticks' \subseteq Jobs
      /\ UNCHANGED <<config, boot, server, conns, jobs, pool, drains, exit>>
  BY DEF TickStarts, TickEnds, TypeOK
<1> QED
  BY <1>1 DEF TypeOK, ShutdownInv, ServerShape, PoolLast, DrainShape, ExitShape,
              ConnShape, NoEarlyDrain, Draining, CloseFailed

\* The steps of Node itself.
LEMMA NodeStep ==
  ASSUME TypeOK, ShutdownInv, ServerCloses \/ PoolEnds \/ PoolFails \/ NaturalExit
  PROVE  TypeOK' /\ ShutdownInv'
<1>1. CASE ServerCloses
  BY <1>1 DEF ServerCloses, NoConn, TypeOK, ShutdownInv, ServerShape, PoolLast, DrainShape,
              ExitShape, ConnShape, NoEarlyDrain, Draining, CloseFailed, Running
<1>2. CASE PoolEnds
  BY <1>2 DEF PoolEnds, TypeOK, ShutdownInv, ServerShape, PoolLast, DrainShape, ExitShape,
              ConnShape, NoEarlyDrain, Draining, CloseFailed, Running
<1>3. CASE PoolFails
  BY <1>3 DEF PoolFails, TypeOK, ShutdownInv, ServerShape, PoolLast, DrainShape, ExitShape,
              ConnShape, NoEarlyDrain, Draining, CloseFailed, Running
<1>4. CASE NaturalExit
  BY <1>4 DEF NaturalExit, LoopEmpty, TypeOK, ShutdownInv, ServerShape, PoolLast, DrainShape,
              ExitShape, ConnShape, NoEarlyDrain, Draining, CloseFailed, Running
<1> QED
  BY <1>1, <1>2, <1>3, <1>4

(***************************************************************************)
(* The steps of a drain.                                                   *)
(***************************************************************************)
\* gracefulShutdown begins, before or after the server exists.
LEMMA BeginStep ==
  ASSUME TypeOK, ShutdownInv, NEW d \in Drains, NEW kind \in {"graceful", "fatal"}, Begin(d, kind)
  PROVE  TypeOK' /\ ShutdownInv'
<1>1. CASE server = "none"
  <2>1. drains' = [drains EXCEPT ![d] =
                     [kind |-> kind, pc |-> "pool", bare |-> TRUE, err |-> "none"]]
    BY <1>1 DEF Begin
  <2>2. /\ UNCHANGED <<config, boot, server, conns, ticks, exit>>
        /\ jobs' \in {"off", "stopped", jobs} /\ jobs' # "on" /\ pool' \in {"open", "ending", "ended", "failed"}
        /\ pool = "failed" <=> pool' = "failed"
        /\ jobs = "off" => jobs' = "off"
    BY <1>1 DEF Begin, StopJobsAndClosePool, TypeOK
  <2>3. TypeOK'
    BY <2>1, <2>2 DEF TypeOK, Errors
  <2>4. ~NoEarlyDrain'
    BY <2>1 DEF TypeOK, NoEarlyDrain
  <2>5. DrainShape' /\ ExitShape'
    BY <2>1, <2>2 DEF Begin, Running, TypeOK, ShutdownInv, DrainShape, ExitShape, Draining,
                      CloseFailed
  <2> QED
    BY <2>2, <2>3, <2>4, <2>5 DEF ShutdownInv, ServerShape, PoolLast, ConnShape
<1>2. CASE server # "none"
  <2>1. PICK e \in {"none", "ERR_SERVER_NOT_RUNNING"} :
          drains' = [drains EXCEPT ![d] =
                       [kind |-> kind, pc |-> "server", bare |-> FALSE, err |-> e]]
    BY <1>2 DEF Begin
  <2>2. /\ UNCHANGED <<config, boot, ticks, exit, jobs, pool>>
        /\ server' = (IF server = "open" THEN "closing" ELSE server)
        /\ conns' = [c \in Conns |-> IF conns[c] = Idle THEN NoConn ELSE conns[c]]
    BY <1>2 DEF Begin
  <2>3. TypeOK'
    BY <2>1, <2>2 DEF TypeOK, Errors, NoConn
  <2>4. DrainShape' /\ ExitShape'
    BY <2>1, <2>2 DEF Begin, Running, TypeOK, ShutdownInv, DrainShape, ExitShape, Draining,
                      CloseFailed
  <2>5. NoEarlyDrain' => NoEarlyDrain
    BY <2>1 DEF TypeOK, NoEarlyDrain, Begin, NoDrain
  <2>6. ConnShape'
    BY <2>2 DEF ShutdownInv, ConnShape, NoConn
  <2>7. ServerShape' /\ PoolLast'
    BY <1>2, <2>2, <2>5 DEF ShutdownInv, ServerShape, PoolLast, NoConn
  <2> QED
    BY <2>3, <2>4, <2>6, <2>7 DEF ShutdownInv
<1> QED
  BY <1>1, <1>2

\* The callback of server.close() ends the process with an error of its own, or
\* lets the drain go on to the pool.
LEMMA AfterServerStep ==
  ASSUME TypeOK, ShutdownInv, NEW d \in Drains, NEW err \in Errors, AfterServer(d, err)
  PROVE  TypeOK' /\ ShutdownInv'
<1> DEFINE DrainRecord == [kind : {"none", "graceful", "fatal"}, pc : {"idle", "server", "pool", "done"},
                           bare : BOOLEAN, err : Errors]
<1>0. /\ UNCHANGED <<config, boot, server, conns, ticks>> /\ Running /\ drains[d].pc = "server"
      /\ drains \in [Drains -> DrainRecord]
  BY DEF AfterServer, CloseReturns, TypeOK
<1>1. CASE Rejects(err)
  <2>1. /\ drains' = [drains EXCEPT ![d].err = "other"]
        /\ exit' = (IF drains[d].kind = "fatal" THEN "fatal" ELSE "drainError")
        /\ UNCHANGED <<jobs, pool>>
    BY <1>1 DEF AfterServer, Rejects, Errors
  <2>2. /\ drains' \in [Drains -> DrainRecord]
        /\ drains'[d].err = "other"
        /\ \A e \in Drains : /\ drains'[e].kind = drains[e].kind
                             /\ drains'[e].bare = drains[e].bare
                             /\ drains'[e].pc = drains[e].pc
                             /\ drains'[e].err = IF e = d THEN "other" ELSE drains[e].err
    BY <1>0, <2>1 DEF Errors
  <2>3. TypeOK'
    BY <1>0, <2>1, <2>2 DEF TypeOK
  <2>4. \A e \in Drains : ~(drains[e].kind = "fatal" /\ drains[e].pc = "done")
    BY <1>0 DEF Running, ShutdownInv, DrainShape
  <2>5. DrainShape' /\ ExitShape'
    BY <1>0, <2>1, <2>2, <2>4 DEF Running, ShutdownInv, DrainShape, ExitShape, Draining, CloseFailed
  <2> QED
    BY <1>0, <2>1, <2>2, <2>3, <2>5
    DEF ShutdownInv, ServerShape, PoolLast, ConnShape, NoEarlyDrain
<1>2. CASE ~Rejects(err)
  <2>1. /\ drains' = [drains EXCEPT ![d].pc = "pool"]
        /\ UNCHANGED exit
        /\ jobs' = (IF jobs = "on" THEN "stopped" ELSE jobs)
        /\ pool' = (IF pool = "open" THEN "ending" ELSE pool)
        /\ server = "closed"
    BY <1>2 DEF AfterServer, StopJobsAndClosePool, CloseReturns, Rejects
  <2>2. /\ drains' \in [Drains -> DrainRecord]
        /\ \A e \in Drains : /\ drains'[e].kind = drains[e].kind
                             /\ drains'[e].bare = drains[e].bare
                             /\ drains'[e].err = drains[e].err
                             /\ drains'[e].pc = IF e = d THEN "pool" ELSE drains[e].pc
    BY <1>0, <2>1
  <2>3. TypeOK'
    BY <1>0, <2>1, <2>2 DEF TypeOK
  <2>4. DrainShape' /\ ExitShape'
    BY <1>0, <2>1, <2>2 DEF Running, ShutdownInv, DrainShape, ExitShape, Draining, CloseFailed
  <2> QED
    BY <1>0, <2>1, <2>2, <2>3, <2>4
    DEF TypeOK, ShutdownInv, ServerShape, PoolLast, ConnShape, NoEarlyDrain
<1> QED
  BY <1>1, <1>2

\* The end of db.close() is the end of a fatal drain, and of the process when the
\* pool could not be closed.
LEMMA FinishStep ==
  ASSUME TypeOK, ShutdownInv, NEW d \in Drains, Finish(d)
  PROVE  TypeOK' /\ ShutdownInv'
<1>1. /\ drains' = [drains EXCEPT ![d].pc = "done"]
      /\ UNCHANGED <<config, boot, server, conns, jobs, ticks, pool>>
      /\ drains[d].pc = "pool" /\ Running
      /\ drains[d].kind = "fatal" => exit' = "fatal"
      /\ drains[d].kind # "fatal" => exit' = (IF pool = "failed" THEN "drainError" ELSE exit)
  BY DEF Finish
<1>2. /\ drains' \in [Drains -> [kind : {"none", "graceful", "fatal"},
                                 pc : {"idle", "server", "pool", "done"}, bare : BOOLEAN,
                                 err : Errors]]
      /\ \A e \in Drains : /\ drains'[e].kind = drains[e].kind
                           /\ drains'[e].bare = drains[e].bare
                           /\ drains'[e].err = drains[e].err
                           /\ drains'[e].pc = IF e = d THEN "done" ELSE drains[e].pc
  BY <1>1 DEF TypeOK
<1>3. TypeOK'
  BY <1>1, <1>2 DEF TypeOK
<1>4. \A e \in Drains : /\ ~(drains[e].kind = "fatal" /\ drains[e].pc = "done")
                        /\ drains[e].err # "other"
  BY <1>1 DEF Running, ShutdownInv, DrainShape
<1>5. DrainShape' /\ ExitShape'
  BY <1>1, <1>2, <1>4 DEF Running, ShutdownInv, DrainShape, ExitShape, Draining, CloseFailed
<1> QED
  BY <1>1, <1>2, <1>3, <1>5 DEF ShutdownInv, ServerShape, PoolLast, ConnShape, NoEarlyDrain

LEMMA ForceTimeoutStep ==
  ASSUME TypeOK, ShutdownInv, NEW d \in Drains, ForceTimeout(d)
  PROVE  TypeOK' /\ ShutdownInv'
  BY DEF ForceTimeout, Running, NoConn, TypeOK, ShutdownInv, ServerShape, PoolLast, DrainShape,
         ExitShape, ConnShape, NoEarlyDrain, Draining, CloseFailed

\* The invariant is inductive.
LEMMA ShutdownStep == TypeOK /\ ShutdownInv /\ [Next]_vars => TypeOK' /\ ShutdownInv'
<1> SUFFICES ASSUME TypeOK, ShutdownInv, [Next]_vars PROVE TypeOK' /\ ShutdownInv'
  OBVIOUS
<1>1. CASE Construct \/ Connected \/ ConnectFails
  BY <1>1, BootStep
<1>2. CASE ServerCloses \/ PoolEnds \/ PoolFails \/ NaturalExit
  BY <1>2, NodeStep
<1>3. ASSUME NEW c \in Conns,
             Connect(c) \/ Answer(c) \/ Release(c) \/ \E req \in Requests : Receive(c, req)
      PROVE  TypeOK' /\ ShutdownInv'
  BY <1>3, ConnStep
<1>4. ASSUME NEW j \in Jobs, TickStarts(j) \/ TickEnds(j)
      PROVE  TypeOK' /\ ShutdownInv'
  BY <1>4, TickStep
<1>5. ASSUME NEW d \in Drains, Signal(d) \/ Fatal(d)
      PROVE  TypeOK' /\ ShutdownInv'
  BY <1>5, BeginStep DEF Signal, Fatal
<1>6. ASSUME NEW d \in Drains, Finish(d) \/ ForceTimeout(d)
      PROVE  TypeOK' /\ ShutdownInv'
  BY <1>6, FinishStep, ForceTimeoutStep
<1>7. ASSUME NEW d \in Drains, NEW err \in Errors, AfterServer(d, err)
      PROVE  TypeOK' /\ ShutdownInv'
  BY <1>7, AfterServerStep
<1>8. CASE UNCHANGED vars
  BY <1>8 DEF vars, TypeOK, ShutdownInv, ServerShape, PoolLast, DrainShape, ExitShape,
              ConnShape, NoEarlyDrain, Draining, CloseFailed
<1> QED
  BY <1>1, <1>2, <1>3, <1>4, <1>5, <1>6, <1>7, <1>8 DEF Next

(***************************************************************************)
(* The theorems.                                                           *)
(***************************************************************************)
\* The process is always in a well-typed state that satisfies the invariant
\* of the drains: the type invariant and the strengthening of the runs.
THEOREM ShutdownSafe == Spec => [](TypeOK /\ ShutdownInv)
  BY ShutdownInit, ShutdownStep, PTL DEF Spec

\* Every value is of its type.
THEOREM TypeCorrect == Spec => []TypeOK
  BY ShutdownSafe, PTL

\* However many signals arrive, no request loses the database under it.
THEOREM PoolLastTheorem == Spec => []PoolOutlivesRequests
<1>1. ShutdownInv => PoolOutlivesRequests
  BY DEF ShutdownInv, ServerShape, PoolLast, PoolOutlivesRequests
<1> QED
  BY <1>1, ShutdownSafe, PTL

\* No cron tick begins on a pool that is being closed.
THEOREM TicksStopTheorem == Spec => TicksStopFirst
<1>1. TypeOK /\ ShutdownInv /\ [Next]_vars
        => [NoEarlyDrain /\ ticks' # ticks /\ ticks \subseteq ticks' => pool = "open"]_vars
  <2> SUFFICES ASSUME TypeOK, ShutdownInv, Next, NoEarlyDrain, ticks' # ticks,
                      ticks \subseteq ticks'
               PROVE  pool = "open"
    BY DEF vars
  <2>1. PICK j \in Jobs : TickStarts(j) \/ TickEnds(j)
    <3>1. \A c \in Conns, req \in Requests : Receive(c, req) => ticks' = ticks
      BY DEF Receive
    <3>2. \A c \in Conns : Connect(c) \/ Answer(c) \/ Release(c) => ticks' = ticks
      BY DEF Connect, Answer, Release
    <3>3. \A d \in Drains : Signal(d) \/ Fatal(d) => ticks' = ticks
      BY DEF Signal, Fatal, Begin
    <3>4. \A d \in Drains : Finish(d) \/ ForceTimeout(d) => ticks' = ticks
      BY DEF Finish, ForceTimeout
    <3>5. \A d \in Drains, err \in Errors : AfterServer(d, err) => ticks' = ticks
      BY DEF AfterServer
    <3>6. Construct \/ Connected \/ ConnectFails \/ ServerCloses \/ PoolEnds \/ PoolFails \/ NaturalExit
            => ticks' = ticks
      BY DEF Construct, Connected, ConnectFails, ServerCloses, PoolEnds, PoolFails, NaturalExit
    <3> QED
      BY <3>1, <3>2, <3>3, <3>4, <3>5, <3>6 DEF Next
  <2>2. TickStarts(j)
    BY <2>1 DEF TickEnds
  <2> QED
    BY <2>2 DEF TickStarts, TypeOK, ShutdownInv, PoolLast
<1> QED
  BY <1>1, ShutdownSafe, PTL DEF Spec, TicksStopFirst

\* How a started process ends under signals alone, however many, is what became
\* of closing its server and its pool.
THEOREM SignalsTheorem == Spec => []SignalsReportTheDrain
<1>1. TypeOK /\ ShutdownInv => SignalsReportTheDrain
  BY DEF TypeOK, ShutdownInv, ExitShape, SignalsReportTheDrain
<1> QED
  BY <1>1, ShutdownSafe, PTL

\* An uncaught error never ends as success.
THEOREM FatalTheorem == Spec => []FatalNeverExitsZero
<1>1. ShutdownInv => FatalNeverExitsZero
  BY DEF ShutdownInv, ExitShape, FatalNeverExitsZero
<1> QED
  BY <1>1, ShutdownSafe, PTL

\* No handler answers 401: only the authorizationChecker does.
LEMMA HandlersNever401 ==
  ASSUME NEW cfg \in Configs, NEW ep \in DOMAIN Routes, NEW open \in BOOLEAN
  PROVE  401 \notin Answers(cfg, ep, open)
<1>1. /\ Routes[ep].success # 401
      /\ \A e \in Routes[ep].errors : e \in {"Conflict", "NotFound"}
  BY DEF Routes, Protected, Public, NotarizeAsset, GetAsset, NotarizeContract, GetContract,
         RegisterView, GetBatch, ChainInfo, Live, ReadyProbe, OpenApi
<1>2. 401 \notin ReadyStatuses(cfg, open)
  BY DEF ReadyStatuses
<1>3. 401 \notin {Handled(e) : e \in Routes[ep].errors}
  BY <1>1 DEF Handled, AppErrors, StatusCode
<1> QED
  BY <1>1, <1>2, <1>3 DEF Answers

\* The routes behind @Authorized() are those documented with a 401.
LEMMA DocumentedRoutes ==
  \A ep \in Endpoints : 401 \in Documented(ep) <=> ep \in DOMAIN Routes /\ Routes[ep].authorized
  BY DEF Endpoints, Documented, Routes, Protected, Public, NotarizeAsset, GetAsset,
         NotarizeContract, GetContract, RegisterView, GetBatch, ChainInfo, Live, ReadyProbe, OpenApi

\* With authentication on, a caller without the token is answered 401 on the
\* routes documented with it and on no other.
THEOREM SecurityTheorem == Spec => []SecurityAsDocumented
<1>1. TypeOK /\ ShutdownInv => SecurityAsDocumented
  <2> SUFFICES ASSUME TypeOK, ShutdownInv, NEW c \in Conns, config.auth,
                      conns[c].at = "answered", conns[c].req.body = "ok", ~conns[c].req.token
               PROVE  conns[c].status = 401 <=> 401 \in Documented(conns[c].req.endpoint)
    BY DEF SecurityAsDocumented
  <2> DEFINE req == conns[c].req
  <2>1. req \in Requests /\ req.endpoint \in Endpoints /\ config \in Configs
    BY RequestAssumption DEF TypeOK
  <2>2. ~Principal(config, req)
    BY DEF Principal
  <2>3. CASE Refusal(config, req) = "none"
    <3>1. req.endpoint \in DOMAIN Routes /\ ~Routes[req.endpoint].authorized
      BY <2>1, <2>2, <2>3 DEF Refusal, BodyTooLarge, BodyGarbled, NoRoute, Unauthorized
    <3>2. conns[c].status # 401
      BY <2>1, <2>3, <3>1, HandlersNever401 DEF ShutdownInv, ConnShape
    <3> QED
      BY <2>1, <3>1, <3>2, DocumentedRoutes
  <2>4. CASE Refusal(config, req) # "none"
    <3>1. conns[c].status = Handled(Refusal(config, req))
      BY <2>4 DEF ShutdownInv, ConnShape
    <3>2. Refusal(config, req) = "Unauthorized"
            <=> req.endpoint \in DOMAIN Routes /\ Routes[req.endpoint].authorized
      BY <2>1, <2>2 DEF Refusal, BodyTooLarge, BodyGarbled, NoRoute, Unauthorized
    <3>3. Handled(Refusal(config, req)) = 401 <=> Refusal(config, req) = "Unauthorized"
      BY DEF Handled, AppErrors, StatusCode
    <3> QED
      BY <2>1, <3>1, <3>2, <3>3, DocumentedRoutes
  <2> QED
    BY <2>3, <2>4
<1> QED
  BY <1>1, ShutdownSafe, PTL
=============================================================================
