-------------------------- MODULE ReleaseAuthority --------------------------
(***************************************************************************)
(* How the foundation decides about an order and what it lets its payment  *)
(* do: its agents research the query and verify the claims they find, the  *)
(* package of their evidence is evaluated, a search of its own may stand   *)
(* in for it, and from the claims comes a verdict with a confidence        *)
(* (iat/api/db.py, iat/api/multi_exec.py).  A delivery takes the verdict   *)
(* (iat/action_engine/protocol_runtime.py); a release takes a decision of  *)
(* its own and a policy of risk (iat/api/agent_b_api.py).                  *)
(*                                                                         *)
(* Nothing of it is stored, so a behaviour is one run of a decision, each  *)
(* function of the chain a step, and another run.  Confidences are in      *)
(* hundredths.  Of a consensus it is kept how it ended and how many agents *)
(* answered, of the claims how many there are of each kind.                *)
(***************************************************************************)
EXTENDS Integers, FiniteSetsExt

CONSTANTS
  VerifiedClaims,       \* bounds: how many claims there are of each kind,
  RejectedClaims,
  UncertainClaims,
  Deductions,           \* the adjustments that are not ignored, without their sign,
  FinalConfidences      \* and the confidences that verifications end with

ASSUME AuthorityAssumption ==
  /\ VerifiedClaims \cup RejectedClaims \cup UncertainClaims \cup Deductions \subseteq Nat
  /\ FinalConfidences \subseteq 0 .. 100

VARIABLES
  evaluation,    \* of the package of evidence
  signals,       \* of the verification that the decision rests on
  support,       \* what the contributions of sellers come to
  ruling,        \* foundation_verdict and decision_confidence
  outcome        \* what came of it

authorityVars == <<evaluation, signals, support, ruling, outcome>>

Least(a, b) == Min({a, b})
Most(a, b) == Max({a, b})

-----------------------------------------------------------------------------

\* compute_consensus of two agents: how it ended, and the agents that answered.
Consensus(status, valid) == [status |-> status, valid |-> valid]

Consensuses ==
  {Consensus("failed", n) : n \in 0 .. 2} \cup
  {Consensus("single", 1), Consensus("suspicious", 2), Consensus("passed", 2)}

\* final_confidence, when the verification gives none.
Unsaid == -1

\* foundation_verification_engine
Signals ==
  [verified : VerifiedClaims, rejected : RejectedClaims, uncertain : UncertainClaims,
   quality : {"high", "medium", "low"}, adjustment : {-n : n \in Deductions},
   final : {Unsaid} \cup FinalConfidences]

NoSignals ==
  [verified |-> 0, rejected |-> 0, uncertain |-> 0, quality |-> "unknown",
   adjustment |-> 0, final |-> Unsaid]

\* The agents found claims, and rejected none.
ClaimsHold(s) == s.verified > 0 /\ s.rejected = 0

Evaluation(given, ready, cap, caution) ==
  [given |-> given, ready |-> ready, cap |-> cap, caution |-> caution]

\* The plan lacks agents or its execution has failed: there is no package.
NoEvaluation == Evaluation(FALSE, FALSE, 100, FALSE)

ResearchWorth(c) ==
  CASE c.status = "failed" -> 0 [] c.status = "passed" -> 20 [] OTHER -> 10

VerificationWorth(c) ==
  CASE c.status = "passed" -> 25 [] c.status = "single" -> 10 [] OTHER -> 0

\* confidence_cap; high says whose score is high.
Cap(research, verification, high) ==
  LET worth == 40 + ResearchWorth(research) + VerificationWorth(verification)
                  + 5 * Cardinality(high)
  IN Min({worth, 90} \cup (IF verification.valid = 1 THEN {65} ELSE {})
                     \cup (IF research.valid < 2 THEN {55} ELSE {}))

\* foundation_decision_ready: claims that hold make up for a consensus that failed.
Ready(research, verification, s) ==
  /\ verification.valid >= 1
  /\ "failed" \in {research.status, verification.status} => ClaimsHold(s)

\* What compute_release_policy is wary of: the evaluation has warnings, or is ready
\* "with caution", which a package that has none is.
Caution(research, verification) ==
  \/ "passed" # research.status \/ "passed" # verification.status
  \/ research.valid >= 2 /\ verification.valid >= 1

\* evaluate_foundation_evidence_package_db
EvaluationOf(research, verification, high, s) ==
  Evaluation(TRUE, Ready(research, verification, s), Cap(research, verification, high),
             Caution(research, verification))

AuthorityInit ==
  /\ evaluation = NoEvaluation /\ signals = NoSignals
  /\ support = "none"
  /\ ruling = [verdict |-> "none", confidence |-> 0]
  /\ outcome = "begun"

\* execute_foundation_plan_db
Gather ==
  /\ outcome = "begun"
  /\ \E research, verification \in Consensuses,
        high \in SUBSET {"research", "verification"} :
     \E s \in IF verification.valid = 0 THEN {NoSignals} ELSE Signals :
       /\ evaluation' = EvaluationOf(research, verification, high, s)
       /\ signals' = s
  /\ outcome' = "gathered"
  /\ UNCHANGED <<support, ruling>>

GatherNothing ==
  /\ outcome = "begun"
  /\ outcome' = "gathered"
  /\ UNCHANGED <<evaluation, signals, support, ruling>>

\* foundation_local_claim_verification
LocalConfidence(verified, uncertain) ==
  45 + Least(35, 8 * verified) - Least(15, uncertain)

\* A claim is verified that two sources support, uncertain otherwise, and none is
\* rejected.
LocalClaims == {s \in Signals : s.rejected = 0 /\ s.adjustment = 0}

\* foundation_direct_evidence_readiness: titles are claims that their own sources
\* support, and every source is there twice.
DirectSignals ==
  {[s EXCEPT !.final = LocalConfidence(s.verified, s.uncertain)] :
     s \in {s \in LocalClaims : s.verified > 0 /\ s.quality = "high"}}

\* run_foundation_decision_db: evidence that is not ready is replaced by that of the
\* direct search, and its warnings stay;
SearchDirectly ==
  /\ outcome = "gathered" /\ ~evaluation.ready
  /\ \E s \in DirectSignals : signals' = s
  /\ evaluation' = Evaluation(TRUE, TRUE, 75, evaluation.caution)
  /\ outcome' = "supported"
  /\ UNCHANGED <<support, ruling>>

\* a failure of the search leaves no signals;
SearchFails ==
  /\ outcome = "gathered" /\ ~evaluation.ready
  /\ signals' = NoSignals
  /\ evaluation' = Evaluation(TRUE, FALSE, 50, FALSE)
  /\ outcome' = "supported"
  /\ UNCHANGED <<support, ruling>>

\* or it is ready, or the search is not.
KeepEvidence ==
  /\ outcome = "gathered"
  /\ outcome' = "supported"
  /\ UNCHANGED <<evaluation, signals, support, ruling>>

-----------------------------------------------------------------------------

\* The confidence that the contributions of sellers give.  (One that was verified
\* has passed every check, and its quality is the highest.)
Supports == [none |-> 25, single |-> 50, divided |-> 55, agreed |-> 75]

Positive(e, s) ==
  /\ e.ready /\ s.quality = "high"
  /\ s.verified > s.rejected /\ s.verified >= s.uncertain

Partial(e, s) ==
  /\ e.ready /\ s.quality = "high"
  /\ ClaimsHold(s) /\ s.uncertain > s.verified

Verdict(e, s) ==
  IF e.given /\ ~e.ready THEN "not_ready"
  ELSE IF s.rejected > 0 THEN "rejected_claims"
  ELSE IF Positive(e, s) THEN "verified"
  ELSE IF Partial(e, s) THEN "partial"
  ELSE IF s.uncertain > s.verified THEN "uncertain"
  ELSE "seller_inputs"

\* What claims that are verified raise the confidence of the sellers to,
Supported(e, s, sellers) ==
  LET base == Supports[sellers]
      final == Most(s.final, 0)
  IN CASE Positive(e, s) -> Most(base, final)
       [] Partial(e, s) -> Most(base, Least(65, final))
       [] OTHER -> base

\* and what else there is lowers it to.
Limited(e, s, raised) ==
  LET said == IF s.final = Unsaid THEN raised ELSE Least(raised, s.final) IN
  Min({Most(0, said + s.adjustment), e.cap}
        \cup (IF s.quality = "low" THEN {45} ELSE {})
        \cup (IF s.rejected > 0 THEN {35}
              ELSE IF s.uncertain > s.verified /\ ~Partial(e, s) THEN {50} ELSE {}))

Ruling(e, s, sellers) ==
  [verdict |-> Verdict(e, s),
   confidence |-> Limited(e, s, Supported(e, s, sellers))]

\* What SupportOf in FoundationRulings comes to may be any of these.
Decide ==
  /\ outcome = "supported"
  /\ \E sellers \in DOMAIN Supports :
       /\ support' = sellers
       /\ ruling' = Ruling(evaluation, signals, sellers)
  /\ outcome' = "decided"
  /\ UNCHANGED <<evaluation, signals>>

\* run_foundation_supplier_pipeline
MayDeliver(e, r) == e.given /\ e.ready /\ r.verdict \in {"verified", "partial"}

Deliver ==
  /\ outcome = "decided"
  /\ outcome' = IF MayDeliver(evaluation, ruling) THEN "delivered" ELSE "held"
  /\ UNCHANGED <<evaluation, signals, support, ruling>>

-----------------------------------------------------------------------------

VerificationConfidence(s, r) == IF s.final = Unsaid THEN r.confidence ELSE s.final

RiskOfClaims(s) ==
  (IF s.rejected > 0 THEN 40 ELSE 0)
    + (CASE s.verified = 0 -> 30 [] s.verified >= 5 -> -10 [] OTHER -> 0)

\* Of the claims, the part that is uncertain.
RiskOfDoubt(s) ==
  LET total == Most(s.verified + s.rejected + s.uncertain, 1) IN
  IF 10 * s.uncertain >= 6 * total THEN 20
  ELSE IF 10 * s.uncertain >= 4 * total THEN 10
  ELSE IF 10 * s.uncertain <= 2 * total THEN -5
  ELSE 0

\* compute_financial_release_risk
Risk(s, r) ==
  LET trusted == VerificationConfidence(s, r)
      sum == 50
        + (CASE r.verdict = "verified" -> -20 [] r.verdict = "partial" -> -10 [] OTHER -> 25)
        + RiskOfClaims(s) + RiskOfDoubt(s)
        + (CASE r.confidence < 50 -> 25 [] r.confidence \in 50 .. 69 -> 10 [] OTHER -> -10)
        + (CASE trusted < 50 -> 20 [] trusted >= 70 -> -10 [] OTHER -> 0)
  IN Least(Most(sum, 0), 100)

Policy(mode, minimum, cap) == [mode |-> mode, minimum |-> minimum, cap |-> cap]

\* compute_release_policy, by the verdict and the risk,
PolicyOfRisk(s, r, risk) ==
  IF s.rejected > 0 THEN Policy("blocked", 70, r.confidence)
  ELSE IF r.verdict = "verified" /\ risk <= 20 THEN Policy("automatic", 70, Most(r.confidence, 85))
  ELSE IF r.verdict = "verified" /\ risk <= 45 THEN Policy("caution", 60, Most(r.confidence, 75))
  ELSE IF r.verdict = "partial" /\ risk <= 35 /\ s.verified >= 3
  THEN Policy("caution", 65, Most(r.confidence, 68))
  ELSE IF r.verdict \in {"verified", "partial"}
  THEN Policy("manual_review", 75, Least(r.confidence, 55))
  ELSE Policy("blocked", 70, Least(r.confidence, 40))

\* and by the caution of the foundation.
PolicyOf(e, s, r) ==
  LET policy == PolicyOfRisk(s, r, Risk(s, r)) IN
  IF e.caution /\ policy.mode = "automatic"
  THEN Policy("caution", 70, Least(policy.cap, 75))
  ELSE policy

\* authorize_settlement_release: in ten-thousandths.
Bonus(s) ==
  (IF s.verified >= 5 /\ s.rejected = 0 THEN 500 ELSE 0)
    + (IF s.uncertain = 0 THEN 300
       ELSE IF s.uncertain <= Most(1, s.verified \div 5) THEN 100
       ELSE 0)

ReleaseConfidence(s, r, cap) ==
  LET trusted == VerificationConfidence(s, r) IN
  Min({10000, 40 * r.confidence + 60 * trusted + Bonus(s), 100 * cap, 100 * trusted})

\* (Not the code: any policy that may release, without the other reasons to block.)
AuthorizedOnce(e, s, r) ==
  LET policy == PolicyOf(e, s, r) IN
  /\ policy.mode \in {"automatic", "caution"}
  /\ ReleaseConfidence(s, r, policy.cap) >= 100 * policy.minimum

\* authorize_release_from_risk: by a policy that is automatic, or with caution.
Authorized(e, s, r) ==
  LET policy == PolicyOf(e, s, r)
      risk == Risk(s, r)
  IN /\ ReleaseConfidence(s, r, policy.cap) >= 100 * policy.minimum
     /\ ClaimsHold(s)
     /\ \/ /\ policy.mode = "automatic"
           /\ r.verdict \in {"verified", "partial"} /\ risk <= 45
        \/ /\ policy.mode = "caution"
           /\ r.verdict = "verified" /\ s.verified >= 5 /\ risk <= 20

\* Of the release it is left out that the receipt of the delivery opens it, as in
\* DeliveryReceipts.
AuthorizeRelease ==
  /\ outcome = "decided"
  /\ outcome' = IF Authorized(evaluation, signals, ruling) THEN "released" ELSE "refused"
  /\ UNCHANGED <<evaluation, signals, support, ruling>>

\* Another run decides anew.
DecideAgain ==
  /\ outcome \in {"delivered", "held", "released", "refused"}
  /\ evaluation' = NoEvaluation /\ signals' = NoSignals
  /\ support' = "none"
  /\ ruling' = [verdict |-> "none", confidence |-> 0]
  /\ outcome' = "begun"

AuthorityNext ==
  \/ Gather \/ GatherNothing
  \/ SearchDirectly \/ SearchFails \/ KeepEvidence
  \/ Decide \/ Deliver \/ AuthorizeRelease \/ DecideAgain

AuthoritySpec == AuthorityInit /\ [][AuthorityNext]_authorityVars

AuthorityTypeOK ==
  /\ evaluation \in [given : BOOLEAN, ready : BOOLEAN, cap : 40 .. 100, caution : BOOLEAN]
  /\ signals \in Signals \cup DirectSignals \cup {NoSignals}
  /\ support \in DOMAIN Supports
  /\ ruling.confidence \in 0 .. 100
  /\ outcome \in {"begun", "gathered", "supported", "decided", "delivered", "held",
                  "released", "refused"}

-----------------------------------------------------------------------------
\* Evidence that is worse in one respect.
Worse(s) ==
  {[s EXCEPT !.rejected = @ + 1], [s EXCEPT !.uncertain = @ + 1],
   [s EXCEPT !.verified = Most(@ - 1, 0)], [s EXCEPT !.quality = "low"],
   [s EXCEPT !.adjustment = @ - 10]}
  \cup (IF s.final < 10 THEN {} ELSE {[s EXCEPT !.final = @ - 10]})

Stricter(e) ==
  {[e EXCEPT !.cap = @ - 10], [e EXCEPT !.caution = TRUE], [e EXCEPT !.ready = FALSE]}

Grants(e, s) == Authorized(e, s, Ruling(e, s, support))

\* compute_release_policy, authorize_release_from_risk: a payment is released only
\* on evidence that is ready, of high quality, with no claim rejected and no more
\* uncertain than verified, five of them when the foundation was cautious; and the
\* same decision lets the order be delivered.
ReleaseRestsOnClaims ==
  outcome = "released" =>
    /\ MayDeliver(evaluation, ruling) /\ ruling.verdict = "verified"
    /\ signals.quality = "high" /\ ClaimsHold(signals)
    /\ signals.verified >= signals.uncertain
    /\ VerificationConfidence(signals, ruling) >= 70
    /\ evaluation.caution => signals.verified >= 5

\* run_foundation_decision_db and the functions of the release override each other's
\* verdicts and confidences in turn: evidence that is worse in any respect never
\* gets a release that is refused to better evidence, and is never more confident.
WorseIsNeverBetter ==
  outcome = "decided" =>
    /\ \A s \in Worse(signals) :
         Grants(evaluation, s) => Grants(evaluation, signals)
    /\ \A e \in Stricter(evaluation) :
         Grants(e, signals) => Grants(evaluation, signals)
    /\ \A s \in Worse(signals) : Ruling(evaluation, s, support).confidence <= ruling.confidence

\* A release is earned by its evidence, in both senses.
ReleaseIsEarned == ReleaseRestsOnClaims /\ WorseIsNeverBetter
=============================================================================
