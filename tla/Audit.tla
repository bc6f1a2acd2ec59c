-------------------------------- MODULE Audit --------------------------------
(***************************************************************************)
(* Auditors at work beside the pipeline: verify.ts on the command line and *)
(* the browser prototype (verifier.ts) compare what the API reports of an  *)
(* asset or a contract with what the chain holds.                          *)
(*                                                                         *)
(* An audit reads the API, then the chain, in two awaits, while ticks,     *)
(* views and blocks go on: BatchPipeline runs in between.  Audits change   *)
(* nothing that others see, so one client auditing one document over and   *)
(* over is enough.                                                         *)
(***************************************************************************)
EXTENDS BatchPipelineProps

CONSTANTS
  Contracts,  \* contracts with a row in the contracts table
  Missing,    \* those of them that are not notarized on chain
  Altered,    \* documents whose row and record on chain differ in the hash
  Audits      \* who audits what: pairs of a client and a document

Documents == Assets \cup Contracts

ASSUME AuditAssumption ==
  /\ Contracts \cap Assets = {}
  /\ Missing \subseteq Contracts
  /\ Altered \subseteq Documents
  /\ Audits \subseteq {"browser", "script"} \X Documents

VARIABLE audit  \* the audit in flight, or the last one

allVars == <<vars, audit>>

\* of: who audits what; reported: the total views in the API's answer; relation:
\* history, how that compared with the contract's total when the API answered.
NoAudit(v) == [of |-> v, pc |-> "idle", reported |-> 0, relation |-> "unread", outcome |-> "none"]

AuditInit == \E v \in Audits : audit = NoAudit(v)

Client(v)   == v[1]
Document(v) == v[2]

\* The arguments and the environment are there, or the page has /chain/info:
\* the outcome before is forgotten.
Begin ==
  /\ audit.pc = "idle"
  /\ audit' = [NoAudit(audit.of) EXCEPT !.pc = "api"]

Relation(reported, total) ==
  CASE reported < total -> "behind"
    [] reported = total -> "equal"
    [] reported > total -> "ahead"

\* GET /assets/:id answers with the mirror, GET /contracts/:id without counter.
ReadApi ==
  LET d == Document(audit.of) IN
  /\ audit.pc = "api"
  /\ audit' = [audit EXCEPT !.pc = "chain",
                            !.reported = IF d \in Assets THEN mirror[d] ELSE 0,
                            !.relation = IF d \in Assets THEN Relation(mirror[d], totalViews[d])
                                                         ELSE "equal"]

SameHash(d) == d \notin Altered

\* verifyAsset of the browser, given what both reads returned.
AssetVerdict(d, reported, total) ==
  CASE d \in Orphans -> "NOT_ON_CHAIN"
    [] d \notin Orphans /\ ~SameHash(d) -> "MISMATCH"
    [] d \notin Orphans /\ SameHash(d) /\ reported # total -> "WARN"
    [] OTHER -> "MATCH"

\* verifyContract of the browser.
ContractVerdict(d) ==
  CASE d \in Missing -> "NOT_ON_CHAIN"
    [] d \notin Missing /\ ~SameHash(d) -> "MISMATCH"
    [] OTHER -> "MATCH"

\* Mutant: different totals are reported but do not count as a failure.
AssetExit_WarnOnly(d, reported, total) ==
  IF d \notin Orphans /\ SameHash(d) THEN "exit 0" ELSE "exit 1"

\* Mutant: the counter, a bigint, is compared with a number.
AssetExit_NoBigInt(d, reported, total) == "exit 1"

\* The exit code of verify.ts asset: totals that differ are a failure too.
AssetExit(d, reported, total) ==
  IF d \notin Orphans /\ SameHash(d) /\ reported = total THEN "exit 0" ELSE "exit 1"

\* The exit code of verify.ts contract.
ContractExit(d) == IF d \notin Missing /\ SameHash(d) THEN "exit 0" ELSE "exit 1"

Outcome ==
  LET v == audit.of
      d == Document(v) IN
  CASE v \in {"browser"} \X Assets    -> AssetVerdict(d, audit.reported, totalViews[d])
    [] v \in {"browser"} \X Contracts -> ContractVerdict(d)
    [] v \in {"script"} \X Assets     -> AssetExit(d, audit.reported, totalViews[d])
    [] v \in {"script"} \X Contracts  -> ContractExit(d)

\* The call of the contract's getter at the latest block, and the verdict.
ReadChain ==
  /\ audit.pc = "chain"
  /\ audit' = [audit EXCEPT !.pc = "idle", !.reported = 0, !.outcome = Outcome]

\* The network, the API or the RPC fails: an error panel, or exit code 1.
Fail ==
  /\ audit.pc \in {"api", "chain"}
  /\ audit' = [NoAudit(audit.of) EXCEPT
                 !.outcome = IF Client(audit.of) = "script" THEN "exit 1" ELSE "error"]

AuditNext ==
  \/ Next /\ UNCHANGED audit
  \/ (Begin \/ ReadApi \/ ReadChain \/ Fail) /\ UNCHANGED vars

AuditSpec == Init /\ AuditInit /\ [][AuditNext]_allVars

\* The auditor tries again, and reads that may fail do not fail every time.
AuditFairness ==
  /\ WF_allVars(Begin /\ UNCHANGED vars)
  /\ SF_allVars(ReadApi /\ UNCHANGED vars)
  /\ SF_allVars(ReadChain /\ UNCHANGED vars)

AuditFairSpec == AuditSpec /\ Fairness /\ AuditFairness

-----------------------------------------------------------------------------
Clean == {"MATCH", "exit 0"}

Founded == Document(audit.of) \notin Altered \cup Orphans \cup Missing

\* Where reconciliations neither overlap nor crash, a clean verdict on an asset
\* means that the total the API reported was the contract's total at the very
\* moment it was reported, although the chain is read later and moves meanwhile:
\* the mirror does not run ahead of a counter that only grows (verifier.ts:26-27,
\* verify.ts:84-94).
CleanIsGenuine == audit.outcome \in Clean => audit.relation = "equal" /\ Founded

\* Whatever becomes of the mirror, a clean verdict never passes over views that
\* the contract had counted and the API did not report when it answered, and it
\* is given of a record that is there with the hash of the row: waiting between
\* the two reads does not make a report that was behind look complete
\* (verifier.ts:26-67, verify.ts:84-117).
CleanNeverHidesViews ==
  audit.outcome \in Clean => audit.relation \in {"equal", "ahead"} /\ Founded

WhoAndWhat == {"browser", "script"} \X Documents

Verdicts == {"NOT_ON_CHAIN", "MISMATCH", "WARN", "MATCH", "exit 0", "exit 1", "error"}

Outcomes == Verdicts \cup {"none"}

AuditRecord == [of : WhoAndWhat, pc : {"idle", "api", "chain"}, reported : Int,
                relation : {"unread", "behind", "equal", "ahead"}, outcome : Outcomes]

\* What an audit has in hand: a total that was behind the counter when it was
\* read stays behind it.
AuditInv ==
  /\ audit \in AuditRecord
  /\ audit.pc # "idle" => audit.outcome = "none"
  /\ audit.pc = "chain" => audit.relation # "unread"
  /\ audit.pc = "chain" /\ audit.relation = "behind" =>
       /\ Document(audit.of) \in Assets
       /\ audit.reported < totalViews[Document(audit.of)]
  /\ CleanNeverHidesViews

\* A discrepancy of the totals alone is transient: an auditor who goes on gets
\* a clean verdict, unless an asset the contract does not know was viewed
\* (verify.ts:112 "puo' essere transiente", verifier.ts:64).
WarnIsTransient ==
  \A d \in Assets \ (Altered \cup Orphans) :
    (Document(audit.of) = d /\ audit.outcome \in {"WARN", "exit 1"})
      ~> (audit.outcome \in Clean \/ OrphanViewed)
=============================================================================
