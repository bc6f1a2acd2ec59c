---------------------------- MODULE Application ----------------------------
(***************************************************************************)
(* The life of the backend process: configuration and wiring, boot, HTTP   *)
(* requests and cron ticks in flight, signals and uncaught errors, the     *)
(* drain of gracefulShutdown, the safety-net timer, and the way the        *)
(* process ends.                                                           *)
(*                                                                         *)
(* Every drain is one call of gracefulShutdown: several can be under way,  *)
(* since nothing keeps a second signal, or an uncaught error during a      *)
(* drain, from starting another.  The semantics of Node and postgres.js    *)
(* the code relies on: server.close() waits for every connection and calls *)
(* back with ERR_SERVER_NOT_RUNNING when the server was not listening any  *)
(* more, or with another error; end() waits for running queries but at     *)
(* most its timeout, and may reject; the end() of a pool that is ending    *)
(* settles as the first one does; and a process whose event loop holds     *)
(* nothing exits with process.exitCode.                                    *)
(***************************************************************************)
EXTENDS HttpSurface

CONSTANTS
  Conns,      \* client connections
  Drains,     \* calls of gracefulShutdown: signals and uncaught errors (a bound)
  Jobs,       \* BatchJob and ReconcileJob
  Configs,    \* the environments the process is started in
  Requests    \* the requests clients make (a bound)

ASSUME RequestAssumption ==
  Requests \subseteq [endpoint : Endpoints, body : {"ok", "tooLarge", "garbled"},
                     token : BOOLEAN, valid : BOOLEAN]

ASSUME ConfigAssumption ==
  Configs \subseteq [parses : BOOLEAN, auth : BOOLEAN, token : BOOLEAN,
                    chain : SUBSET {"RPC_URL", "PRIVATE_KEY", "CONTRACT_ADDRESS"}]

VARIABLES
  config,     \* AppConfig: auth, token and which of the NOTARY_* are set
  boot,       \* how far index.ts and Application.run have come
  server,     \* httpServer: "none" is null
  conns,      \* each client connection and the request it carries
  jobs,       \* the two Cron objects, started and stopped together
  ticks,      \* the jobs with a runOnce in flight
  pool,       \* the postgres connection pool
  drains,     \* the calls of gracefulShutdown
  exit        \* how the process ended

vars == <<config, boot, server, conns, jobs, ticks, pool, drains, exit>>

NoConn == [at |-> "closed"]
Idle == [at |-> "idle"]
InService(req) == [at |-> "service", req |-> req]
Answered(req, status) == [at |-> "answered", req |-> req, status |-> status]

\* `bare': httpServer was still null; `err': what server.close() reports.
Errors == {"none", "ERR_SERVER_NOT_RUNNING", "other"}
NoDrain == [kind |-> "none", pc |-> "idle", bare |-> FALSE, err |-> "none"]

Running == exit = "running"

\* `pc' of a drain: waiting for the server, waiting for the pool, over.
TypeOK ==
  /\ config \in Configs
  /\ boot \in {"loading", "connecting", "started"}
  /\ server \in {"none", "open", "closing", "closed"}
  /\ conns \in [Conns -> [at : {"closed", "idle"}] \cup [at : {"service"}, req : Requests]
                         \cup [at : {"answered"}, req : Requests, status : Statuses]]
  /\ jobs \in {"off", "on", "stopped"}
  /\ ticks \subseteq Jobs
  /\ pool \in {"open", "ending", "ended", "failed"}
  /\ drains \in [Drains -> [kind : {"none", "graceful", "fatal"},
                            pc : {"idle", "server", "pool", "done"},
                            bare : BOOLEAN,
                            err : Errors]]
  /\ exit \in {"running", "natural", "boot", "fatal", "timeout", "drainError"}

Init ==
  /\ config \in Configs
  /\ boot = "loading"
  /\ server = "none"
  /\ conns = [c \in Conns |-> NoConn]
  /\ jobs = "off"
  /\ ticks = {}
  /\ pool = "open"
  /\ drains = [d \in Drains |-> NoDrain]
  /\ exit = "running"

\* The environment parses, and AuthMiddleware accepts it.
Acceptable(cfg) == cfg.parses /\ (cfg.auth => cfg.token)

\* The three settings without which the gateway is the null one and the jobs
\* stay disabled.
OnChain(cfg) == {"RPC_URL", "PRIVATE_KEY", "CONTRACT_ADDRESS"} \subseteq cfg.chain

(***************************************************************************)
(* Boot                                                                    *)
(***************************************************************************)
\* createEnvConfig, the container, the constructors, setupProcessHandlers.
Construct ==
  /\ Running
  /\ boot = "loading"
  /\ IF Acceptable(config)
     THEN boot' = "connecting" /\ UNCHANGED exit
     ELSE exit' = "boot" /\ UNCHANGED boot
  /\ UNCHANGED <<config, server, conns, jobs, ticks, pool, drains>>

\* SELECT 1 answered: the jobs start and the server listens.  A drain that
\* started meanwhile found no server and no running job, and nothing here looks
\* at it.  Express calls the callback of listen() for the server's 'error' event
\* as well, so a port that is taken leaves a server that does not listen behind
\* the same message, and stops nothing.
Connected ==
  /\ Running
  /\ boot = "connecting"
  /\ boot' = "started"
  /\ jobs' = IF OnChain(config) THEN "on" ELSE "off"
  /\ server' \in {"open", "closed"}
  /\ UNCHANGED <<config, conns, ticks, pool, drains, exit>>

\* SELECT 1 failed: the catch of run().
ConnectFails ==
  /\ Running
  /\ boot = "connecting"
  /\ exit' = "boot"
  /\ UNCHANGED <<config, boot, server, conns, jobs, ticks, pool, drains>>

(***************************************************************************)
(* Requests and ticks                                                      *)
(***************************************************************************)
Connect(c) ==
  /\ Running
  /\ server = "open"
  /\ conns[c] = NoConn
  /\ conns' = [conns EXCEPT ![c] = Idle]
  /\ UNCHANGED <<config, boot, server, jobs, ticks, pool, drains, exit>>

\* A request on a connection that is still up, also one that was busy when
\* the server stopped listening, goes through the chain up to its handler.
Receive(c, req) ==
  /\ Running
  /\ conns[c] = Idle
  /\ LET err == Refusal(config, req) IN
     conns' = [conns EXCEPT ![c] = IF err = "none" THEN InService(req)
                                                   ELSE Answered(req, Handled(err))]
  /\ UNCHANGED <<config, boot, server, jobs, ticks, pool, drains, exit>>

Answer(c) ==
  /\ Running
  /\ conns[c].at = "service"
  /\ \E status \in Answers(config, conns[c].req.endpoint, pool = "open") :
       conns' = [conns EXCEPT ![c] = Answered(conns[c].req, status)]
  /\ UNCHANGED <<config, boot, server, jobs, ticks, pool, drains, exit>>

\* After the answer the connection is kept alive, or closed by either side.
Release(c) ==
  /\ Running
  /\ \/ conns[c].at = "answered" /\ \E next \in {Idle, NoConn} : conns' = [conns EXCEPT ![c] = next]
     \/ conns[c] = Idle /\ conns' = [conns EXCEPT ![c] = NoConn]
  /\ UNCHANGED <<config, boot, server, jobs, ticks, pool, drains, exit>>

\* The `protect' option does not hold back the next run, since runOnce
\* returns before its promise settles: a job is in `ticks' while one or more
\* of its runs are in flight.
TickStarts(j) ==
  /\ Running
  /\ jobs = "on"
  /\ ticks' = ticks \cup {j}
  /\ UNCHANGED <<config, boot, server, conns, jobs, pool, drains, exit>>

TickEnds(j) ==
  /\ Running
  /\ j \in ticks
  /\ ticks' = ticks \ {j}
  /\ UNCHANGED <<config, boot, server, conns, jobs, pool, drains, exit>>

(* Mutant: the pool is closed before the jobs are stopped. *)
ClosePoolFirst ==
  /\ jobs' = jobs
  /\ pool' = IF pool = "open" THEN "ending" ELSE pool

(***************************************************************************)
(* Shutdown                                                                *)
(***************************************************************************)
\* batchJob.stop(), reconcileJob.stop() and the call of db.close(), in one
\* turn of the event loop.
StopJobsAndClosePool ==
  /\ jobs' = IF jobs = "on" THEN "stopped" ELSE jobs
  /\ pool' = IF pool = "open" THEN "ending" ELSE pool

\* gracefulShutdown up to its first await.  Idle keep-alive connections are
\* closed at once; the others keep the server from closing.
Begin(d, kind) ==
  /\ Running
  /\ boot # "loading"
  /\ drains[d] = NoDrain
  /\ IF server = "none"
     THEN /\ drains' = [drains EXCEPT ![d] =
                          [kind |-> kind, pc |-> "pool", bare |-> TRUE, err |-> "none"]]
          /\ StopJobsAndClosePool
          /\ UNCHANGED <<server, conns>>
     ELSE /\ drains' = [drains EXCEPT ![d] =
                          [kind |-> kind, pc |-> "server", bare |-> FALSE,
                           err |-> IF server = "open" THEN "none" ELSE "ERR_SERVER_NOT_RUNNING"]]
          /\ server' = IF server = "open" THEN "closing" ELSE server
          /\ conns' = [c \in Conns |-> IF conns[c] = Idle THEN NoConn ELSE conns[c]]
          /\ UNCHANGED <<jobs, pool>>
  /\ UNCHANGED <<config, boot, ticks, exit>>

\* SIGTERM or SIGINT.
Signal(d) == Begin(d, "graceful")

\* An uncaught exception or an unhandled rejection.
Fatal(d) == Begin(d, "fatal")

\* The 'close' event: no connection is left.
ServerCloses ==
  /\ Running
  /\ server = "closing"
  /\ \A c \in Conns : conns[c] = NoConn
  /\ server' = "closed"
  /\ UNCHANGED <<config, boot, conns, jobs, ticks, pool, drains, exit>>

(* Mutant: no error of server.close() is tolerated. *)
RejectsAny(err) == err # "none"

\* The callback of server.close() rejects on an error other than this one.
Rejects(err) == err \notin {"none", "ERR_SERVER_NOT_RUNNING"}

(* Mutant: the close() of a second drain is taken to return at once. *)
CloseReturnsAtOnce(d, err) ==
  /\ drains[d].pc = "server"
  /\ \/ err = drains[d].err /\ (server = "closed" \/ err = "ERR_SERVER_NOT_RUNNING")
     \/ err = "other"

\* server.close() calls back: once the server has closed with what it owes this
\* call, or with an error of its own.
CloseReturns(d, err) ==
  /\ drains[d].pc = "server"
  /\ \/ err = drains[d].err /\ server = "closed"
     \/ err = "other"

\* The drain goes on, or fails into the catch of its caller.
AfterServer(d, err) ==
  /\ Running
  /\ CloseReturns(d, err)
  /\ IF Rejects(err)
     THEN /\ exit' = IF drains[d].kind = "fatal" THEN "fatal" ELSE "drainError"
          /\ drains' = [drains EXCEPT ![d].err = err]
          /\ UNCHANGED <<jobs, pool>>
     ELSE /\ drains' = [drains EXCEPT ![d].pc = "pool"]
          /\ StopJobsAndClosePool
          /\ UNCHANGED exit
  /\ UNCHANGED <<config, boot, server, conns, ticks>>

\* Every query is over, or the timeout of end() has passed.
PoolEnds ==
  /\ Running
  /\ pool = "ending"
  /\ pool' = "ended"
  /\ UNCHANGED <<config, boot, server, conns, jobs, ticks, drains, exit>>

\* end() rejects.
PoolFails ==
  /\ Running
  /\ pool = "ending"
  /\ pool' = "failed"
  /\ UNCHANGED <<config, boot, server, conns, jobs, ticks, drains, exit>>

(* Mutant: a fatal drain leaves the exit to Node as a graceful one does. *)
FinishQuietly(d) ==
  /\ Running
  /\ drains[d].pc = "pool"
  /\ pool \in {"ended", "failed"}
  /\ drains' = [drains EXCEPT ![d].pc = "done"]
  /\ exit' = IF pool = "failed" THEN "drainError" ELSE exit
  /\ UNCHANGED <<config, boot, server, conns, jobs, ticks, pool>>

\* db.close() settled.  A graceful drain sets process.exitCode = 0 and leaves the
\* exit to Node, or exits with 1 when the pool could not be closed; a fatal one
\* exits with 1 in either case.
Finish(d) ==
  /\ Running
  /\ drains[d].pc = "pool"
  /\ pool \in {"ended", "failed"}
  /\ drains' = [drains EXCEPT ![d].pc = "done"]
  /\ exit' = CASE drains[d].kind = "fatal"                       -> "fatal"
               [] drains[d].kind # "fatal" /\ pool = "failed" -> "drainError"
               [] OTHER                                        -> exit
  /\ UNCHANGED <<config, boot, server, conns, jobs, ticks, pool>>

\* Nothing is left in the event loop.  The timers are unref'd and do not count;
\* before the server exists the boot itself is still going on.
LoopEmpty ==
  /\ boot = "started"
  /\ server = "closed"
  /\ jobs # "on"
  /\ ticks = {}
  /\ pool = "ended"
  /\ \A d \in Drains : drains[d].pc \in {"idle", "done"}

NaturalExit ==
  /\ Running
  /\ LoopEmpty
  /\ exit' = "natural"
  /\ UNCHANGED <<config, boot, server, conns, jobs, ticks, pool, drains>>

(* Mutant: the timer of a drain is cleared once its gracefulShutdown is over. *)
ArmedWhileDraining(d) == drains[d].pc \in {"server", "pool"}

\* The timer of drain d: armed first thing, and only a fatal drain clears its
\* own, when it is about to exit.
Armed(d) == drains[d].kind # "none"

\* SHUTDOWN_TIMEOUT_MS has passed: closeAllConnections() and exit(1).
ForceTimeout(d) ==
  /\ Running
  /\ Armed(d)
  /\ ~LoopEmpty
  /\ exit' = "timeout"
  /\ conns' = [c \in Conns |-> NoConn]
  /\ UNCHANGED <<config, boot, server, jobs, ticks, pool, drains>>

Next ==
  \/ Construct \/ Connected \/ ConnectFails
  \/ ServerCloses \/ PoolEnds \/ PoolFails \/ NaturalExit
  \/ \E c \in Conns : Connect(c) \/ Answer(c) \/ Release(c)
  \/ \E c \in Conns, req \in Requests : Receive(c, req)
  \/ \E j \in Jobs : TickStarts(j) \/ TickEnds(j)
  \/ \E d \in Drains : Signal(d) \/ Fatal(d) \/ Finish(d) \/ ForceTimeout(d)
  \/ \E d \in Drains, err \in Errors : AfterServer(d, err)

Spec == Init /\ [][Next]_vars

\* Node delivers events, runs callbacks and fires timers.  Nothing is assumed
\* of clients, of handlers, of ticks, of the database or of who sends signals,
\* and no failure is owed.
Fairness ==
  /\ WF_vars(ServerCloses) /\ WF_vars(PoolEnds) /\ WF_vars(NaturalExit)
  /\ \A d \in Drains : WF_vars(Finish(d)) /\ WF_vars(ForceTimeout(d))
  /\ \A d \in Drains, err \in Errors \ {"other"} : WF_vars(AfterServer(d, err))

FairSpec == Spec /\ Fairness

(***************************************************************************)
(* Properties                                                              *)
(***************************************************************************)
NoEarlyDrain == \A d \in Drains : ~drains[d].bare

Draining(kind) == \E d \in Drains : drains[d].kind = kind

\* However many signals and uncaught errors arrive, and in whatever state the
\* first drain is, no request that reached its handler loses the database:
\* the pool is not closed while a connection is open (application.ts:89-107).
\* A drain that began before the server existed is left out: it closes the
\* pool under the requests the server takes afterwards.
PoolOutlivesRequests ==
  NoEarlyDrain /\ pool # "open" => \A c \in Conns : conns[c].at = "closed"

\* Nor does a cron tick begin on a pool that is being closed: the jobs are
\* stopped before end() is called (application.ts:105-107).
TicksStopFirst ==
  [][NoEarlyDrain /\ ticks' # ticks /\ ticks \subseteq ticks' => pool = "open"]_vars

\* server.close() or db.close() failed under a drain.
CloseFailed == pool = "failed" \/ \E d \in Drains : drains[d].err = "other"

\* However many signals reach a started process, how it ends is what became of
\* closing the server and the pool: by itself with code 0 when both went well,
\* with an error when one failed, unless SHUTDOWN_TIMEOUT_MS passes first.  A
\* second signal, whose close() finds a server that is closing already, does not
\* turn a good end into a bad one, nor hide a bad one (application.ts:63-99).
SignalsReportTheDrain ==
  boot = "started" /\ ~Draining("fatal")
    => exit \in {"running", "timeout", IF CloseFailed THEN "drainError" ELSE "natural"}

\* After an uncaught error the process never reports success, whatever
\* graceful drain is under way or completes beside it (application.ts:48-61).
FatalNeverExitsZero == Draining("fatal") => exit # "natural"

\* The announced security is the enforced one: with authentication on, a
\* request without the token is answered 401 exactly on the routes whose
\* documented statuses hold 401, whatever is wrong with its path or its fields; a
\* body the parser refuses is answered before the token is asked for
\* (openapi-document.ts:96-197, express.api.ts:48-58 and 84-94, @Authorized).
SecurityAsDocumented ==
  \A c \in Conns :
    LET k == conns[c] IN
    config.auth /\ k.at = "answered" /\ k.req.body = "ok" /\ ~k.req.token
      => (k.status = 401 <=> 401 \in Documented(k.req.endpoint))

\* A signal, at any moment from boot on, ends the process: also when a
\* request, a tick or a query never ends, and also when it came before the
\* server and the jobs were started (application.ts:63-75).
SignalEndsProcess == Draining("graceful") ~> ~Running

(***************************************************************************)
(* The inductive strengthening behind the safety properties.               *)
(***************************************************************************)
\* How far the boot is decides whether there is a server, and a server that
\* does not exist or has closed has no connection.
ServerShape ==
  /\ (server = "none") <=> (boot # "started")
  /\ server \in {"none", "closed"} => \A c \in Conns : conns[c].at = "closed"
  /\ boot # "started" => jobs = "off"

\* Without an early drain, the pool is touched after the server has closed
\* and after the jobs have stopped.
PoolLast ==
  NoEarlyDrain /\ pool # "open" => server = "closed" /\ jobs # "on"

\* A fatal drain is over only when the process is, and so is a drain that failed.
DrainShape ==
  \A d \in Drains :
    /\ (drains[d].kind = "none") <=> (drains[d].pc = "idle")
    /\ drains[d].kind = "fatal" /\ drains[d].pc = "done" => exit = "fatal"
    /\ drains[d].err = "other" => exit \in {"fatal", "drainError"}
    /\ drains[d].err = "other" /\ exit = "fatal" => Draining("fatal")

ExitShape ==
  /\ exit = "fatal" => Draining("fatal")
  /\ exit = "boot" => boot # "started"
  /\ exit = "drainError" => CloseFailed
  /\ exit = "natural" => ~Draining("fatal") /\ ~CloseFailed

\* What a connection carries went through the chain.
ConnShape ==
  \A c \in Conns :
    /\ conns[c].at = "service" => Refusal(config, conns[c].req) = "none"
    /\ conns[c].at = "answered" =>
         LET err == Refusal(config, conns[c].req) IN
         IF err # "none" THEN conns[c].status = Handled(err)
         ELSE \E open \in BOOLEAN :
                conns[c].status \in Answers(config, conns[c].req.endpoint, open)

ShutdownInv == ServerShape /\ PoolLast /\ DrainShape /\ ExitShape /\ ConnShape
=============================================================================
