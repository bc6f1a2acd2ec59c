--------------------------- MODULE MCApplication ---------------------------
(* Instances of Application for TLC. *)
EXTENDS Application

MCConfigs ==
  {[parses |-> TRUE, auth |-> a, token |-> t, chain |-> ch] :
     a \in BOOLEAN, t \in BOOLEAN,
     ch \in {{}, {"RPC_URL"}, {"RPC_URL", "PRIVATE_KEY", "CONTRACT_ADDRESS"}}}
  \cup {[parses |-> FALSE, auth |-> FALSE, token |-> FALSE, chain |-> {}]}

\* Every route with and without the token, and each thing that can be wrong
\* with the input.
MCRequests ==
  [endpoint : Endpoints, body : {"ok"}, token : BOOLEAN, valid : {TRUE}]
  \cup [endpoint : {"notarizeAsset", "batch"}, body : {"ok"}, token : BOOLEAN, valid : {FALSE}]
  \cup [endpoint : {"view"}, body : {"tooLarge", "garbled"}, token : {TRUE}, valid : {TRUE}]
=============================================================================
