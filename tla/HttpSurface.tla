---------------------------- MODULE HttpSurface ----------------------------
(***************************************************************************)
(* The HTTP surface of the backend as a function from requests to status   *)
(* codes: the middleware chain of ExpressApi (body parser, bearer token,   *)
(* route table, authorizationChecker, input validation), what each handler *)
(* can answer, and the mapping of thrown errors to statuses.  The OpenAPI  *)
(* document is kept beside it as the statuses it announces.                *)
(*                                                                         *)
(* A request is [endpoint, body, token, valid]: `token' says whether the   *)
(* header carries the shared bearer token, `valid' whether path, body and  *)
(* headers satisfy the zod schemas.                                        *)
(***************************************************************************)
EXTENDS Naturals

Statuses == {200, 201, 202, 400, 401, 404, 409, 413, 500, 503}

(* Mutant: a conflict answers with a status of its own. *)
StatusCodeGone(err) ==
  CASE err = "Conflict"        -> 410
    [] err = "NotFound"        -> 404
    [] err = "PayloadTooLarge" -> 413
    [] err = "Unauthorized"    -> 401
    [] err = "Validation"      -> 400

\* The subclasses of BaseAppError and what they answer with.
StatusCode(err) ==
  CASE err = "Conflict"        -> 409
    [] err = "NotFound"        -> 404
    [] err = "PayloadTooLarge" -> 413
    [] err = "Unauthorized"    -> 401
    [] err = "Validation"      -> 400

AppErrors == {"Conflict", "NotFound", "PayloadTooLarge", "Unauthorized", "Validation"}

\* Every other error (a failing query, a failing send, the SyntaxError of
\* express.json, a response that breaks its schema) answers 500.
Handled(err) == IF err \in AppErrors THEN StatusCode(err) ELSE 500

(***************************************************************************)
(* The routes: the status of @HttpCode, the errors of the service behind   *)
(* the handler, whether the controller is @Authorized() and its input      *)
(* validated, and whether the handler queries the database.                *)
(***************************************************************************)
Protected(status, errors) ==
  [success |-> status, errors |-> errors, authorized |-> TRUE, validated |-> TRUE, queries |-> TRUE]

Public(queries) ==
  [success |-> 200, errors |-> {}, authorized |-> FALSE, validated |-> FALSE, queries |-> queries]

NotarizeAsset    == Protected(201, {"Conflict"})
GetAsset         == Protected(200, {"NotFound"})
NotarizeContract == Protected(201, {"Conflict"})
GetContract      == Protected(200, {"NotFound"})
RegisterView     == Protected(202, {"NotFound"})
GetBatch         == Protected(200, {"NotFound"})
ChainInfo        == Public(FALSE)
Live             == Public(FALSE)
ReadyProbe       == Public(TRUE)
OpenApi          == Public(FALSE)

Routes == [notarizeAsset |-> NotarizeAsset, asset |-> GetAsset,
           notarizeContract |-> NotarizeContract, contract |-> GetContract,
           view |-> RegisterView, batch |-> GetBatch, chainInfo |-> ChainInfo,
           live |-> Live, ready |-> ReadyProbe, openapi |-> OpenApi]

Endpoints == DOMAIN Routes \cup {"unknown"}

(***************************************************************************)
(* What stops a request before its handler.                                *)
(***************************************************************************)
BodyTooLarge(req) == req.body = "tooLarge"

BodyGarbled(req) == req.body = "garbled"

NoRoute(req) == req.endpoint \notin DOMAIN Routes

\* AuthMiddleware marks the request; it never refuses one.
Principal(config, req) ==
  \/ ~config.auth
  \/ config.token /\ req.token

Unauthorized(config, req) == Routes[req.endpoint].authorized /\ ~Principal(config, req)

Invalid(req) == Routes[req.endpoint].validated /\ ~req.valid

(* Mutant: the input is validated before the caller is authorized. *)
RefusalValidateFirst(config, req) ==
  CASE BodyTooLarge(req) -> "PayloadTooLarge"
    [] BodyGarbled(req)  -> "SyntaxError"
    [] req.body = "ok" /\ NoRoute(req) -> "NotFound"
    [] req.body = "ok" /\ ~NoRoute(req) /\ Invalid(req) -> "Validation"
    [] req.body = "ok" /\ ~NoRoute(req) /\ ~Invalid(req) /\ Unauthorized(config, req) -> "Unauthorized"
    [] OTHER -> "none"

\* The error the chain throws at a request, "none" when it reaches its handler:
\* parser, route table, authorizationChecker, parameter decorators.
Refusal(config, req) ==
  CASE BodyTooLarge(req) -> "PayloadTooLarge"
    [] BodyGarbled(req)  -> "SyntaxError"
    [] req.body = "ok" /\ NoRoute(req) -> "NotFound"
    [] req.body = "ok" /\ ~NoRoute(req) /\ Unauthorized(config, req) -> "Unauthorized"
    [] req.body = "ok" /\ ~NoRoute(req) /\ ~Unauthorized(config, req) /\ Invalid(req) -> "Validation"
    [] OTHER -> "none"

(***************************************************************************)
(* What a handler answers.                                                 *)
(***************************************************************************)
\* The database check and, when a URL is configured, the RPC ping: a missing
\* URL is a "skip", not a failure.
Ready(config, dbOk, rpcOk) == dbOk /\ ("RPC_URL" \in config.chain => rpcOk)

ReadyStatuses(config, poolOpen) ==
  {IF Ready(config, dbOk, rpcOk) THEN 200 ELSE 503 :
     dbOk \in {b \in BOOLEAN : b => poolOpen}, rpcOk \in BOOLEAN}

\* The statuses the handler of a route can answer with.  A query can always
\* fail while the pool is open, and always fails once it is not.
Answers(config, endpoint, poolOpen) ==
  LET route == Routes[endpoint] IN
  CASE endpoint = "ready" -> ReadyStatuses(config, poolOpen)
    [] ~route.queries     -> {route.success}
    [] OTHER -> {500} \cup (IF poolOpen THEN {route.success} \cup {Handled(e) : e \in route.errors}
                                        ELSE {})

\* The statuses openapi-document.ts announces; two routes are not in it.
Documented(endpoint) ==
  CASE endpoint \in {"notarizeAsset", "notarizeContract"} -> {201, 400, 401, 409}
    [] endpoint \in {"asset", "contract", "batch"}        -> {200, 401, 404}
    [] endpoint = "view"                                  -> {202, 400, 401, 409}
    [] endpoint \in {"chainInfo", "live"}                 -> {200}
    [] endpoint = "ready"                                 -> {200, 503}
    [] endpoint \in {"openapi", "unknown"}                -> {}
=============================================================================
