---------------------------- MODULE EvidenceChain ----------------------------
(***************************************************************************)
(* The protocol's evidence service (iat/api/protocol_evidence.py): eight   *)
(* records per purchase, each unique and computed from the one before,     *)
(* from the signed evidence of a finished journey to the permit to execute *)
(* its settlement.  Every POST first returns the record if there is one;   *)
(* otherwise it evaluates the facts and inserts.                           *)
(*                                                                         *)
(* An operation is the set of responses the service may give to a request  *)
(* on the row c of one purchase: the row it leaves and its answer.  A      *)
(* request that loses the race for a unique record gets an error and       *)
(* leaves the winner's row, like a request refused for any other reason.   *)
(***************************************************************************)
EXTENDS Naturals

CONSTANTS
  Decisions     \* the purchases, by their intent decision

VARIABLE
  chain         \* the records of each purchase

\* evidence holds the signature that was published, 0 when there is none.
NoRecords == [evidence      |-> 0,
              binding       |-> "none",
              quality       |-> "none",
              eligibility   |-> "none",
              plan          |-> FALSE,
              authorization |-> FALSE,
              simulation    |-> "none",
              permit        |-> "none"]

ChainRecords == [evidence      : Nat,
                 binding       : {"none", "verified", "rejected"},
                 quality       : {"none", "accepted", "rejected"},
                 eligibility   : {"none", "release", "compensation"},
                 plan          : BOOLEAN,
                 authorization : BOOLEAN,
                 simulation    : {"none", "fresh", "expired"},
                 permit        : {"none", "issued", "expired", "claimed"}]

Response(row, answer) == [row |-> row, answer |-> answer]

\* A second publication is a replay when it is signed alike, else a conflict.
PublishProtocolEvidence(c, signature) ==
  IF c.evidence = 0
  THEN {Response([c EXCEPT !.evidence = signature], "ok")}
  ELSE {Response(c, IF c.evidence = signature THEN "ok" ELSE "error")}

\* The verdict compares the checkout, the delivery and the opened inbox.
ValidateDeliveryBinding(c) ==
  IF c.binding # "none" THEN {Response(c, c.binding)}
  ELSE IF c.evidence = 0 THEN {Response(c, "error")}
  ELSE {Response([c EXCEPT !.binding = v], v) : v \in {"verified", "rejected"}}

\* The intent may declare no acceptance criteria: no record, a refusal.
ValidateDeliveryQuality(c) ==
  IF c.quality # "none" THEN {Response(c, c.quality)}
  ELSE IF c.binding # "verified" THEN {Response(c, "error")}
  ELSE {Response([c EXCEPT !.quality = v], v) : v \in {"accepted", "rejected"}}
         \cup {Response(c, "undeclared")}

\* (Not the code: every quality on record is eligible for release.)
EvaluateWithoutVerdict(c) ==
  IF c.quality = "none" THEN {Response(c, "error")}
  ELSE {Response([c EXCEPT !.eligibility = "release"], "release")}

EvaluateSettlementEligibility(c) ==
  IF c.eligibility # "none" THEN {Response(c, c.eligibility)}
  ELSE CASE c.quality = "none" -> {Response(c, "error")}
         [] c.quality = "accepted" ->
              {Response([c EXCEPT !.eligibility = "release"], "release")}
         [] c.quality = "rejected" ->
              {Response([c EXCEPT !.eligibility = "compensation"], "compensation")}

PlanSettlementExecution(c) ==
  IF ~c.plan /\ c.eligibility # "release" THEN {Response(c, "error")}
  ELSE {Response([c EXCEPT !.plan = TRUE], "ok")}

AuthorizeSettlementPlan(c) ==
  IF ~c.authorization /\ ~c.plan THEN {Response(c, "error")}
  ELSE {Response([c EXCEPT !.authorization = TRUE], "ok")}

\* The simulation on record is returned however old it is.
SimulateSettlement(c) ==
  IF c.simulation # "none" THEN {Response(c, "ok")}
  ELSE IF ~c.authorization THEN {Response(c, "error")}
  ELSE {Response([c EXCEPT !.simulation = "fresh"], "ok")}

\* A permit needs a simulation of the last 300 seconds and lives as long; one
\* that is no longer valid is returned too, and the buyer refuses it.
IssueSettlementExecutionPermit(c) ==
  IF c.permit # "none"
  THEN {Response(c, IF c.permit = "issued" THEN "ok" ELSE "error")}
  ELSE IF c.simulation # "fresh" THEN {Response(c, "error")}
  ELSE {Response([c EXCEPT !.permit = "issued"], "ok")}

\* 300 seconds pass.
SimulationExpires(d) ==
  /\ chain[d].simulation = "fresh"
  /\ chain' = [chain EXCEPT ![d].simulation = "expired"]

PermitExpires(d) ==
  /\ chain[d].permit = "issued"
  /\ chain' = [chain EXCEPT ![d].permit = "expired"]

\* The settlement's execution consumes the permit.
ClaimPermit(d) ==
  /\ chain[d].permit = "issued"
  /\ chain' = [chain EXCEPT ![d].permit = "claimed"]

-----------------------------------------------------------------------------
\* Every record rests on the ones before it: a permit exists only for a
\* purchase whose delivery was verified, whose quality was accepted by the
\* criteria the buyer declared, and whose plan the Foundation authorized.
RecordsAreChained(c) ==
  /\ c.permit # "none" => c.simulation # "none"
  /\ c.simulation # "none" => c.authorization
  /\ c.authorization => c.plan
  /\ c.plan => c.eligibility = "release"
  /\ c.eligibility = "release" => c.quality = "accepted"
  /\ c.eligibility = "compensation" => c.quality = "rejected"
  /\ c.quality # "none" => c.binding = "verified"
  /\ c.binding # "none" => c.evidence # 0
=============================================================================
