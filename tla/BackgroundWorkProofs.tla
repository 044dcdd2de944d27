------------------------ MODULE BackgroundWorkProofs -----------------------
(***************************************************************************)
(* Theorems about background work, for any number of processes, rows and   *)
(* faults: the buyer's scheduler with its evidence chain, the hosted jobs, *)
(* the action engine, the collection of offers, and the final receipt.     *)
(*                                                                         *)
(* Two facts carry the proofs about the scheduler.  The service never      *)
(* takes a record back (ChainGrows), so what a run or an anchor has seen on*)
(* record stays there, however late the run writes.  And an answer is only *)
(* given for what is on record (OnRecord).  Those about the hosted jobs    *)
(* rest on this: an event that another one names as its predecessor is     *)
(* itself kept by the walk (HeadsKept), wherever a late one is sorted in.  *)
(* Those about the action engine rest on the order of its statements: a    *)
(* claim is made after its action was completed (Performed).  Those about  *)
(* the collection rest on what a collector or the operator has read still  *)
(* being true when they decide, unless another decided in between          *)
(* (DecidersSeePending), and on the keys of the jobs, which number the     *)
(* retries without a gap (RetryInv).                                       *)
(*                                                                         *)
(* Those about the receipt are not inductive, since a write trusts what    *)
(* its request read before.  RowSound says what the row and the decisions  *)
(* imply for each other, RequestSound what a request's copy still implies  *)
(* about them; with these as parameters one lemma speaks of the state      *)
(* before a step and of the one after.                                     *)
(*                                                                         *)
(* The last part is about the systems as the run composes them.            *)
(***************************************************************************)
EXTENDS MCBackgroundWork, Sums, FiniteSetTheorems, FunctionTheorems, SequenceTheorems,
        TLAPS

JobRows == [state : JobStates, lease : Leases,
            error : {"none", "maximum_attempts_reached", "other"},
            attempts : Nat, budget : Nat, events : Nat, joined : BOOLEAN]

AnchorRows == [state : AnchorStates, lease : Leases, evidence : Nat, signature : Nat,
               quality : {"none", "accepted", "rejected"},
               attempts : [Phases -> 0 .. PhaseAttempts]]

Turns == [work : Phases \cup {"none"} \cup JobWork, on : Decisions \cup {NoDecision},
          answer : Answers, attempts : 0 .. PhaseAttempts,
          signature : Nat, owns : BOOLEAN]

\* The records of a purchase are never taken back.
ChainGrows(b, c) ==
  /\ b.evidence # 0 => c.evidence = b.evidence
  /\ b.binding # "none" => c.binding = b.binding
  /\ b.quality # "none" => c.quality = b.quality
  /\ b.eligibility # "none" => c.eligibility = b.eligibility
  /\ b.plan => c.plan
  /\ b.authorization => c.authorization
  /\ b.simulation # "none" => c.simulation # "none"
  /\ b.permit # "none" => c.permit # "none"

\* What the answer a in phase k says is on record in c.
OnRecord(k, a, c) ==
  CASE k = "attest"      -> TRUE
    [] k = "publish"     -> a = "ok" => c.evidence # 0
    [] k = "validate"    -> a \in {"verified", "rejected"} => c.binding = a
    [] k = "quality"     -> a \in {"accepted", "rejected"} => c.quality = a
    [] k = "eligibility" -> a \in {"release", "compensation"} => c.eligibility = a
    [] k = "plan"        -> a = "ok" => c.plan
    [] k = "authorize"   -> a = "ok" => c.authorization
    [] k = "simulate"    -> a = "ok" => c.simulation # "none"
    [] k = "permit"      -> a = "ok" => c.permit # "none"

\* The service's responses to the request of phase k, with signature s.
Responses(k, c, s) ==
  CASE k = "publish"     -> PublishProtocolEvidence(c, s)
    [] k = "validate"    -> ValidateDeliveryBinding(c)
    [] k = "quality"     -> ValidateDeliveryQuality(c)
    [] k = "eligibility" -> EvaluateSettlementEligibility(c)
    [] k = "plan"        -> PlanSettlementExecution(c)
    [] k = "authorize"   -> AuthorizeSettlementPlan(c)
    [] k = "simulate"    -> SimulateSettlement(c)
    [] k = "permit"      -> IssueSettlementExecutionPermit(c)

ServicePhases == Phases \ {"attest"}

\* What every response keeps: b is the row before, x the response.
Serves(k, b, s, x) ==
  /\ x.row \in ChainRecords
  /\ x.answer \in Answers
  /\ ChainGrows(b, x.row)
  /\ RecordsAreChained(b) => RecordsAreChained(x.row)
  /\ (k = "publish" => s # 0) => OnRecord(k, x.answer, x.row)
  /\ \/ x.row.evidence = b.evidence
     \/ (k = "publish" /\ b.evidence = 0 /\ x.row.evidence = s)

SchedulerInv ==
  /\ SchedulerTypeOK
  /\ \A r \in Runners : turn[r].work # "none" => turn[r].on \in Decisions

-----------------------------------------------------------------------------
LEMMA TypeParts ==
  SchedulerTypeOK <=>
    /\ chain \in [Decisions -> ChainRecords]
    /\ job \in [Decisions -> JobRows]
    /\ anchor \in [Decisions -> AnchorRows]
    /\ turn \in [Runners -> Turns]
    /\ overruns \in 0 .. MaxOverruns
    /\ faults \in 0 .. MaxFaults
BY DEF SchedulerTypeOK, JobRows, AnchorRows, Turns

LEMMA TypePartsPrimed ==
  ASSUME chain' \in [Decisions -> ChainRecords], job' \in [Decisions -> JobRows],
         anchor' \in [Decisions -> AnchorRows], turn' \in [Runners -> Turns],
         overruns' \in 0 .. MaxOverruns, faults' \in 0 .. MaxFaults
  PROVE  SchedulerTypeOK'
BY DEF SchedulerTypeOK, JobRows, AnchorRows, Turns

\* (The service.)
LEMMA ServiceServes ==
  ASSUME NEW k \in ServicePhases, NEW c \in ChainRecords, NEW s \in Nat,
         NEW x \in Responses(k, c, s)
  PROVE  Serves(k, c, s, x)
<1> USE DEF Response, ChainRecords, Answers, ChainGrows, RecordsAreChained, Serves
<1>1. CASE k = "publish"
  <2>1. x \in PublishProtocolEvidence(c, s)
    BY <1>1 DEF Responses
  <2> QED
    BY <1>1, <2>1 DEF PublishProtocolEvidence, OnRecord
<1>2. CASE k = "validate"
  <2>1. x \in ValidateDeliveryBinding(c)
    BY <1>2 DEF Responses
  <2> QED
    BY <1>2, <2>1 DEF ValidateDeliveryBinding, OnRecord
<1>3. CASE k = "quality"
  <2>1. x \in ValidateDeliveryQuality(c)
    BY <1>3 DEF Responses
  <2> QED
    BY <1>3, <2>1 DEF ValidateDeliveryQuality, OnRecord
<1>4. CASE k = "eligibility"
  <2>1. x \in EvaluateSettlementEligibility(c)
    BY <1>4 DEF Responses
  <2> QED
    BY <1>4, <2>1 DEF EvaluateSettlementEligibility, OnRecord
<1>5. CASE k = "plan"
  <2>1. x \in PlanSettlementExecution(c)
    BY <1>5 DEF Responses
  <2> QED
    <3> DEFINE row == [c EXCEPT !.plan = TRUE]
    <3>1. \/ x.row = c /\ x.answer = "error"
          \/ x.row = row /\ x.answer = "ok" /\ (c.plan \/ c.eligibility = "release")
      <4> HIDE DEF row, Response
      <4>1. \/ x = Response(c, "error")
            \/ x = Response([c EXCEPT !.plan = TRUE], "ok") /\ (c.plan \/ c.eligibility = "release")
        <5>1. CASE c.plan \/ c.eligibility = "release"
          BY <2>1, <5>1, Zenon DEF PlanSettlementExecution
        <5>2. CASE ~(c.plan \/ c.eligibility = "release")
          BY <2>1, <5>2, Zenon DEF PlanSettlementExecution
        <5> QED
          BY <5>1, <5>2
      <4>2. x = Response(c, "error") => x.row = c /\ x.answer = "error"
        BY DEF Response
      <4>3. x = Response(row, "ok") => x.row = row /\ x.answer = "ok"
        BY DEF Response
      <4> QED
        BY <4>1, <4>2, <4>3, Zenon DEF row
    <3>2. /\ row \in ChainRecords /\ row.plan
          /\ row.evidence = c.evidence /\ ChainGrows(c, row)
      OBVIOUS
    <3>3. (c.plan \/ c.eligibility = "release") /\ RecordsAreChained(c) => RecordsAreChained(row)
      <4>1. /\ row.evidence = c.evidence /\ row.binding = c.binding /\ row.quality = c.quality /\ row.eligibility = c.eligibility
            /\ row.authorization = c.authorization /\ row.simulation = c.simulation /\ row.permit = c.permit
        OBVIOUS
      <4> HIDE DEF row
      <4> QED
        BY <3>2, <4>1, Zenon DEF RecordsAreChained
    <3> QED
      BY <1>5, <3>1, <3>2, <3>3 DEF OnRecord
<1>6. CASE k = "authorize"
  <2>1. x \in AuthorizeSettlementPlan(c)
    BY <1>6 DEF Responses
  <2> QED
    <3> DEFINE row == [c EXCEPT !.authorization = TRUE]
    <3>1. \/ x.row = c /\ x.answer = "error"
          \/ x.row = row /\ x.answer = "ok" /\ (c.authorization \/ c.plan)
      <4> HIDE DEF row, Response
      <4>1. \/ x = Response(c, "error")
            \/ x = Response([c EXCEPT !.authorization = TRUE], "ok") /\ (c.authorization \/ c.plan)
        <5>1. CASE c.authorization \/ c.plan
          BY <2>1, <5>1, Zenon DEF AuthorizeSettlementPlan
        <5>2. CASE ~(c.authorization \/ c.plan)
          BY <2>1, <5>2, Zenon DEF AuthorizeSettlementPlan
        <5> QED
          BY <5>1, <5>2
      <4>2. x = Response(c, "error") => x.row = c /\ x.answer = "error"
        BY DEF Response
      <4>3. x = Response(row, "ok") => x.row = row /\ x.answer = "ok"
        BY DEF Response
      <4> QED
        BY <4>1, <4>2, <4>3, Zenon DEF row
    <3>2. /\ row \in ChainRecords /\ row.authorization
          /\ row.evidence = c.evidence /\ ChainGrows(c, row)
      OBVIOUS
    <3>3. (c.authorization \/ c.plan) /\ RecordsAreChained(c) => RecordsAreChained(row)
      <4>1. /\ row.evidence = c.evidence /\ row.binding = c.binding /\ row.quality = c.quality /\ row.eligibility = c.eligibility
            /\ row.plan = c.plan /\ row.simulation = c.simulation /\ row.permit = c.permit
        OBVIOUS
      <4> HIDE DEF row
      <4> QED
        BY <3>2, <4>1, Zenon DEF RecordsAreChained
    <3> QED
      BY <1>6, <3>1, <3>2, <3>3 DEF OnRecord
<1>7. CASE k = "simulate"
  <2>1. x \in SimulateSettlement(c)
    BY <1>7 DEF Responses
  <2> QED
    BY <1>7, <2>1 DEF SimulateSettlement, OnRecord
<1>8. CASE k = "permit"
  <2>1. x \in IssueSettlementExecutionPermit(c)
    BY <1>8 DEF Responses
  <2> QED
    BY <1>8, <2>1 DEF IssueSettlementExecutionPermit, OnRecord
<1> QED
  BY <1>1, <1>2, <1>3, <1>4, <1>5, <1>6, <1>7, <1>8 DEF ServicePhases, Phases

\* A request leaves a row and an answer that the service may have given, or an
\* answer that is none of its own.
LEMMA AskingServes ==
  ASSUME SchedulerInv, NEW r \in Runners, NEW k \in ServicePhases,
         AskService(r, k, Responses(k, chain[turn[r].on], turn[r].signature))
  PROVE  \E row \in ChainRecords, a \in Answers :
           LET d == turn[r].on IN
           /\ turn[r].work = k /\ d \in Decisions
           /\ chain' = [chain EXCEPT ![d] = row]
           /\ turn' = [turn EXCEPT ![r].answer = a]
           /\ UNCHANGED <<job, anchor, overruns>>
           /\ faults' \in 0 .. MaxFaults
           /\ Serves(k, chain[d], turn[r].signature, Response(row, a))
<1> DEFINE d == turn[r].on
           s == turn[r].signature
<1>1. /\ turn[r].work = k /\ d \in Decisions /\ s \in Nat /\ chain[d] \in ChainRecords
      /\ faults \in 0 .. MaxFaults
  <2>1. turn[r].work = k
    BY DEF AskService
  <2>2. d \in Decisions
    BY <2>1 DEF SchedulerInv, ServicePhases, Phases
  <2> QED
    BY <2>1, <2>2, TypeParts DEF SchedulerInv, Turns
<1>2. UNCHANGED <<job, anchor, overruns>>
  BY DEF AskService
<1>3. ASSUME NEW x \in Responses(k, chain[d], s)
      PROVE  /\ x.row \in ChainRecords /\ x.answer \in Answers
             /\ Serves(k, chain[d], s, Response(x.row, x.answer))
  <2>1. Serves(k, chain[d], s, x)
    BY <1>1, <1>3, ServiceServes
  <2> QED
    BY <2>1 DEF Serves, Response
<1>4. ASSUME NEW x \in Responses(k, chain[d], s) \cup {Response(chain[d], "error")},
             NEW a \in {"error", "unexpected"}
      PROVE  /\ x.row \in ChainRecords /\ a \in Answers
             /\ Serves(k, chain[d], s, Response(x.row, a))
  <2>1. /\ x.row \in ChainRecords /\ ChainGrows(chain[d], x.row)
        /\ RecordsAreChained(chain[d]) => RecordsAreChained(x.row)
        /\ \/ x.row.evidence = chain[d].evidence
           \/ (k = "publish" /\ chain[d].evidence = 0 /\ x.row.evidence = s)
    <3>1. CASE x \in Responses(k, chain[d], s)
      BY <3>1, <1>3 DEF Serves, Response
    <3>2. CASE x = Response(chain[d], "error")
      BY <3>2, <1>1 DEF Response, ChainGrows
    <3> QED
      BY <3>1, <3>2
  <2>2. OnRecord(k, a, x.row)
    BY DEF OnRecord, ServicePhases, Phases
  <2> QED
    BY <2>1, <2>2 DEF Serves, Response, Answers
<1>5. CASE \E x \in Responses(k, chain[d], s) :
             /\ chain' = [chain EXCEPT ![d] = x.row]
             /\ turn' = [turn EXCEPT ![r].answer = x.answer]
             /\ UNCHANGED faults
  BY <1>1, <1>2, <1>3, <1>5, ZenonT(40)
<1>6. CASE \E x \in Responses(k, chain[d], s) \cup {Response(chain[d], "error")},
              failure \in {"error", "unexpected"} :
             /\ Fault
             /\ chain' = [chain EXCEPT ![d] = x.row]
             /\ turn' = [turn EXCEPT ![r].answer = failure]
  <2>1. faults' \in 0 .. MaxFaults
    BY <1>1, <1>6, FaultsAssumption DEF Fault
  <2> QED
    BY <1>1, <1>2, <1>4, <1>6, <2>1
<1> QED
  BY <1>5, <1>6 DEF AskService

\* The wallet signs, refuses or raises an exception: only the turn changes.
Signs(r) ==
  /\ turn[r].work = "attest" /\ turn[r].answer = "none"
  /\ \E a \in {"ok", "error", "unexpected"} :
       turn' = [turn EXCEPT ![r].answer = a,
                            ![r].signature = IF a = "ok" THEN turn[r].attempts ELSE @]
  /\ UNCHANGED <<chain, job, anchor, overruns>>
  /\ faults' \in 0 .. MaxFaults

\* The steps a run at work takes, phase by phase.
LEMMA WorkSplits ==
  ASSUME SchedulerInv, NEW r \in Runners, SchedulerWork(r)
  PROVE  \/ RunClaimed(r)
         \/ Signs(r)
         \/ \E k \in ServicePhases :
              AskService(r, k, Responses(k, chain[turn[r].on], turn[r].signature))
         \/ \E k \in Phases : Advance(r, k) \/ GiveBack(r, k)
<1> DEFINE d == turn[r].on
           Asks(k) == AskService(r, k, Responses(k, chain[d], turn[r].signature))
<1>1. CASE RunClaimed(r)
  BY <1>1
<1>2. CASE RunAnchor(r)
  <2>1. CASE Advance(r, "attest") \/ GiveBack(r, "attest")
    BY <2>1 DEF Phases
  <2>2. CASE ~(Advance(r, "attest") \/ GiveBack(r, "attest"))
    <3>1. /\ turn[r].work = "attest" /\ turn[r].answer = "none"
          /\ UNCHANGED <<chain, job, anchor, overruns>>
      BY <1>2, <2>2 DEF RunAnchor
    <3>2. turn[r] \in Turns /\ turn \in [Runners -> Turns] /\ faults \in 0 .. MaxFaults
      BY TypeParts DEF SchedulerInv
    <3>3. /\ \/ turn' = [turn EXCEPT ![r].answer = "unexpected"]
             \/ turn' = [turn EXCEPT ![r].answer = "ok", ![r].signature = turn[r].attempts]
             \/ turn' = [turn EXCEPT ![r].answer = "error"]
          /\ faults' = faults \/ Fault
      BY <1>2, <2>2 DEF RunAnchor
    <3>4. faults' \in 0 .. MaxFaults
      BY <3>2, <3>3, FaultsAssumption DEF Fault
    <3>5. \E a \in {"ok", "error", "unexpected"} :
            turn' = [turn EXCEPT ![r].answer = a,
                                 ![r].signature = IF a = "ok" THEN turn[r].attempts ELSE @]
      BY <3>2, <3>3 DEF Turns
    <3> QED
      BY <3>1, <3>4, <3>5 DEF Signs
  <2> QED
    BY <2>1, <2>2
<1>3. CASE RunPublication(r)
  BY <1>3, "publish" \in ServicePhases DEF RunPublication, Responses, ServicePhases, Phases
<1>4. CASE RunValidation(r)
  BY <1>4 DEF RunValidation, Responses, ServicePhases, Phases
<1>5. CASE RunQualityValidation(r)
  BY <1>5 DEF RunQualityValidation, Responses, ServicePhases, Phases
<1>6. CASE RunSettlementEligibility(r)
  BY <1>6 DEF RunSettlementEligibility, Responses, ServicePhases, Phases
<1>7. CASE RunSettlementPlan(r)
  BY <1>7 DEF RunSettlementPlan, Responses, ServicePhases, Phases
<1>8. CASE RunSettlementAuthorization(r)
  BY <1>8 DEF RunSettlementAuthorization, Responses, ServicePhases, Phases
<1>9. CASE RunSettlementSimulation(r)
  BY <1>9 DEF RunSettlementSimulation, Responses, ServicePhases, Phases
<1>10. CASE RunSettlementPermit(r)
  BY <1>10 DEF RunSettlementPermit, Responses, ServicePhases, Phases
<1> QED
  BY <1>1, <1>2, <1>3, <1>4, <1>5, <1>6, <1>7, <1>8, <1>9, <1>10 DEF SchedulerWork

\* Every step, for the proofs below.
LEMMA StepSplits ==
  ASSUME SchedulerInv, [SchedulerNext]_schedulerVars
  PROVE  \/ \E d \in Decisions : Schedule(d) \/ Resume(d) \/ LeaseEnds(d) \/ ServiceTime(d)
         \/ \E r \in Runners : \E d \in Decisions : ClaimOne(r, d)
         \/ \E r \in Runners : \E d \in Decisions : \E k \in Phases : ClaimPhase(k, r, d)
         \/ \E r \in Runners : RunClaimed(r)
         \/ \E r \in Runners : Signs(r)
         \/ \E r \in Runners : \E k \in ServicePhases :
              AskService(r, k, Responses(k, chain[turn[r].on], turn[r].signature))
         \/ \E r \in Runners : \E k \in Phases : Advance(r, k)
         \/ \E r \in Runners : \E k \in Phases : GiveBack(r, k)
         \/ \E r \in Runners : LeaseOverrun(r) \/ SchedulerCrash(r)
         \/ UNCHANGED schedulerVars
<1>1. ASSUME NEW r \in Runners, RunDueOnce(r)
      PROVE  \E d \in Decisions : ClaimOne(r, d) \/ \E k \in Phases : ClaimPhase(k, r, d)
  <2>1. PICK d \in Decisions :
          \/ ClaimOne(r, d) \/ ClaimAnchor(r, d) \/ ClaimPublication(r, d)
          \/ ClaimValidation(r, d) \/ ClaimQualityValidation(r, d)
          \/ ClaimSettlementEligibility(r, d) \/ ClaimSettlementPhase(r, d)
    BY <1>1 DEF RunDueOnce
  <2>2. ClaimOne(r, d) \/ \E k \in Phases : ClaimPhase(k, r, d)
    BY <2>1 DEF ClaimAnchor, ClaimPublication, ClaimValidation, ClaimQualityValidation,
                ClaimSettlementEligibility, ClaimSettlementPhase, Phases, SettlementPhases
  <2> QED
    BY <2>2
<1>2. CASE SchedulerNext
  <2>1. CASE \E d \in Decisions : Schedule(d) \/ Resume(d) \/ LeaseEnds(d) \/ ServiceTime(d)
    BY <2>1
  <2>2. CASE \E r \in Runners : RunDueOnce(r)
    BY <1>1, <2>2
  <2>3. CASE \E r \in Runners : SchedulerWork(r)
    BY <2>3, WorkSplits
  <2>4. CASE \E r \in Runners : LeaseOverrun(r) \/ SchedulerCrash(r)
    BY <2>4
  <2> QED
    BY <1>2, <2>1, <2>2, <2>3, <2>4 DEF SchedulerNext
<1> QED
  BY <1>2
-----------------------------------------------------------------------------
(* Types.                                                                  *)

\* What Claim, Wait, Finish and the others write in a row keeps its type.
LEMMA NoneTyped == "none" \in AnchorStates /\ "none" \in Leases
BY DEF AnchorStates, Leases

LEMMA InitTyped == SchedulerInit => SchedulerInv
<1> SUFFICES ASSUME SchedulerInit PROVE SchedulerInv
  OBVIOUS
<1> USE DEF SchedulerInit
<1>1. chain \in [Decisions -> ChainRecords]
  BY DEF NoRecords, ChainRecords
<1>2. job \in [Decisions -> JobRows]
  BY DEF JobRows, JobStates, Leases
<1>3. anchor \in [Decisions -> AnchorRows]
  <2>1. 0 \in 0 .. PhaseAttempts
    BY SchedulerBounds
  <2>2. [k \in Phases |-> 0] \in [Phases -> 0 .. PhaseAttempts]
    BY <2>1
  <2>4. anchor = [d \in Decisions |->
          [state |-> "none", lease |-> "none", evidence |-> 0, signature |-> 0,
           quality |-> "none", attempts |-> [k \in Phases |-> 0]]]
    OBVIOUS
  <2> DEFINE none == [k \in Phases |-> 0]
  <2>3. none \in [Phases -> 0 .. PhaseAttempts]
    BY <2>2
  <2>5. [state |-> "none", lease |-> "none", evidence |-> 0, signature |-> 0,
         quality |-> "none", attempts |-> none] \in AnchorRows
    <3> HIDE DEF none
    <3> QED
      BY <2>3, NoneTyped DEF AnchorRows
  <2> QED
    BY <2>4, <2>5
<1>4. turn \in [Runners -> Turns] /\ \A r \in Runners : turn[r].work = "none"
  BY SchedulerBounds DEF IdleTurn, Turns, Answers
<1>5. overruns \in 0 .. MaxOverruns /\ faults \in 0 .. MaxFaults
  BY SchedulerBounds, FaultsAssumption
<1> QED
  BY <1>1, <1>2, <1>3, <1>4, <1>5, TypeParts DEF SchedulerInv

LEMMA IdleTurnTyped == IdleTurn \in Turns /\ IdleTurn.work = "none" /\ ~IdleTurn.owns
BY SchedulerBounds DEF IdleTurn, Turns, Answers

\* A run comes to rest, or takes a row.
LEMMA TurnEnds ==
  ASSUME SchedulerInv, NEW r \in Runners, turn' = [turn EXCEPT ![r] = IdleTurn]
  PROVE  /\ turn' \in [Runners -> Turns]
         /\ \A s \in Runners : turn'[s].work # "none" => s # r /\ turn'[s] = turn[s]
         /\ \A s \in Runners : turn'[s].work # "none" => turn'[s].on \in Decisions
BY IdleTurnTyped, TypeParts DEF SchedulerInv

LEMMA TurnTakes ==
  ASSUME SchedulerInv, NEW r \in Runners, NEW d \in Decisions,
         NEW work \in Phases \cup JobWork, NEW n \in 0 .. PhaseAttempts, NEW s \in Nat,
         Take(r, work, d, n, s)
  PROVE  /\ turn' \in [Runners -> Turns]
         /\ turn'[r] = [work |-> work, on |-> d, answer |-> "none", attempts |-> n,
                        signature |-> s, owns |-> TRUE]
         /\ \A t \in Runners \ {r} :
              \/ turn'[t] = turn[t]
              \/ /\ turn'[t] = [turn[t] EXCEPT !.owns = FALSE]
                 /\ turn[t].on = d /\ (turn[t].work \in JobWork <=> work \in JobWork)
         /\ \A t \in Runners : turn'[t].work # "none" => turn'[t].on \in Decisions
<1>1. turn \in [Runners -> Turns]
      /\ \A t \in Runners : turn[t].work # "none" => turn[t].on \in Decisions
  BY TypeParts DEF SchedulerInv
<1> DEFINE new == [work |-> work, on |-> d, answer |-> "none", attempts |-> n,
                   signature |-> s, owns |-> TRUE]
<1>2. new \in Turns
  BY DEF Turns, Answers, JobWork
<1>3. turn'[r] = new
  BY DEF Take
<1>4. ASSUME NEW t \in Runners \ {r}
      PROVE  \/ turn'[t] = turn[t]
             \/ /\ turn'[t] = [turn[t] EXCEPT !.owns = FALSE]
                /\ turn[t].on = d /\ (turn[t].work \in JobWork <=> work \in JobWork)
  BY DEF Take
<1>5. ASSUME NEW t \in Runners
      PROVE  turn'[t] \in Turns /\ (turn'[t].work # "none" => turn'[t].on \in Decisions)
  <2>1. CASE t = r
    BY <1>2, <1>3, <2>1
  <2>2. CASE t # r
    <3>1. turn[t] \in Turns /\ (turn[t].work # "none" => turn[t].on \in Decisions)
      BY <1>1
    <3>2. /\ [turn[t] EXCEPT !.owns = FALSE] \in Turns
          /\ [turn[t] EXCEPT !.owns = FALSE].work = turn[t].work
          /\ [turn[t] EXCEPT !.owns = FALSE].on = turn[t].on
      BY <3>1 DEF Turns
    <3> QED
      BY <1>4, <2>2, <3>1, <3>2
  <2> QED
    BY <2>1, <2>2
<1>6. DOMAIN turn' = Runners /\ turn' = [t \in Runners |-> turn'[t]]
  BY DEF Take
<1> QED
  BY <1>3, <1>4, <1>5, <1>6

\* The states the phases lead to.
LEMMA StatesTyped ==
  ASSUME NEW k \in Phases
  PROVE  /\ Working[k] \in AnchorStates /\ Failed[k] \in AnchorStates
         /\ Ready[k] \subseteq AnchorStates
         /\ \A a \in DOMAIN Reached[k] : Reached[k][a] \in AnchorStates
         /\ \A q : StatesBefore(k, q) \subseteq AnchorStates
<1>1. /\ Working[k] \in AnchorStates /\ Failed[k] \in AnchorStates
      /\ Ready[k] \subseteq AnchorStates
  BY DEF AnchorStates, FinalStates
<1>2. \A a \in DOMAIN Reached[k] : Reached[k][a] \in AnchorStates
  <2> USE DEF Reached, AnchorStates, FinalStates, Ready
  <2>0. {"pending", "attested", "published", "delivery_verified", "quality_accepted",
         "quality_rejected", "release_eligible", "settlement_planned",
         "settlement_authorized", "settlement_simulated"} \subseteq AnchorStates
    <3>1. \A j \in Phases : Ready[j] \subseteq AnchorStates
      BY DEF AnchorStates
    <3> QED
      BY <3>1 DEF Phases, Ready
  <2> HIDE DEF AnchorStates
  <2>9. {"delivery_rejected", "quality_not_configured", "compensation_review_eligible",
         "settlement_execution_permitted"} \subseteq AnchorStates
    BY DEF AnchorStates, FinalStates
  <2>1. CASE k \in {"attest", "publish", "validate"}
    BY <2>0, <2>9, <2>1
  <2>2. CASE k \in {"quality", "eligibility", "plan"}
    BY <2>0, <2>9, <2>2
  <2>3. CASE k \in {"authorize", "simulate", "permit"}
    BY <2>0, <2>9, <2>3
  <2> QED
    BY <2>1, <2>2, <2>3 DEF Phases
<1>3. \A q : StatesBefore(k, q) \subseteq Ready[k]
  BY DEF StatesBefore, Ready, Phases
<1> QED
  BY <1>1, <1>2, <1>3

\* The three writes of a run on a job, as one.
JobEnds(r) ==
  LET d == turn[r].on IN
  /\ turn[r].work = "job"
  /\ \E s \in {"waiting", "stopped", "completed"}, e \in {"none", "maximum_attempts_reached", "other"} :
       /\ job' = [job EXCEPT ![d].state = s, ![d].lease = "none", ![d].error = e,
                             ![d].events = @ + 1]
       /\ \/ UNCHANGED anchor
          \/ /\ s = "completed" /\ anchor[d].state = "none"
             /\ anchor' = [anchor EXCEPT ![d].state = "pending",
                                         ![d].evidence = job[d].events + 1]
       /\ s = "completed" => anchor'[d].state # "none"
  /\ turn' = [turn EXCEPT ![r] = IdleTurn]
  /\ UNCHANGED <<chain, overruns, faults>>

LEMMA RunClaimedEnds ==
  ASSUME SchedulerInv, NEW r \in Runners, RunClaimed(r)
  PROVE  JobEnds(r) \/ ReadClaimed(r)
<1>1. CASE Wait(r)
  BY <1>1 DEF Wait, JobEnds
<1>2. CASE Stop(r)
  BY <1>2 DEF Stop, JobEnds
<1>3. CASE Finish(r)
  <2>1. turn[r].on \in Decisions /\ anchor \in [Decisions -> AnchorRows]
    BY <1>3, TypeParts DEF Finish, SchedulerInv
  <2>2. CASE anchor[turn[r].on].state # "none"
    BY <1>3, <2>2, ZenonT(40) DEF Finish, JobEnds
  <2>3. CASE anchor[turn[r].on].state = "none"
    BY <1>3, <2>1, <2>3 DEF Finish, JobEnds, HeadAtFinish, AnchorRows
  <2> QED
    BY <2>2, <2>3
<1> QED
  BY <1>1, <1>2, <1>3 DEF RunClaimed

\* The second look at a job leaves it alone, but for the mark of the model.
LEMMA ReadingKeeps ==
  ASSUME SchedulerInv, NEW r \in Runners, ReadClaimed(r)
  PROVE  /\ turn[r].work = "claimed" /\ turn[r].on \in Decisions
         /\ job' \in [Decisions -> JobRows] /\ turn' \in [Runners -> Turns]
         /\ \A e \in Decisions :
              /\ job'[e].state = job[e].state /\ job'[e].lease = job[e].lease
              /\ job'[e].events = job[e].events
              /\ job[e].joined => job'[e].joined
         /\ \A t \in Runners \ {r} : turn'[t] = turn[t]
         /\ \/ turn'[r] = IdleTurn
            \/ /\ turn'[r].work = "job" /\ turn'[r].on = turn[r].on
               /\ turn'[r].owns = turn[r].owns
               /\ ~turn[r].owns => job'[turn[r].on].joined
         /\ UNCHANGED <<chain, anchor, overruns, faults>>
<1> DEFINE d == turn[r].on
<1>1. /\ turn[r].work = "claimed" /\ d \in Decisions
      /\ job \in [Decisions -> JobRows] /\ turn \in [Runners -> Turns]
  BY TypeParts DEF ReadClaimed, SchedulerInv
<1>2. UNCHANGED <<chain, anchor, overruns, faults>>
  BY DEF ReadClaimed
<1>3. CASE turn' = [turn EXCEPT ![r] = IdleTurn] /\ UNCHANGED job
  BY <1>1, <1>2, <1>3, IdleTurnTyped
<1>4. CASE /\ turn' = [turn EXCEPT ![r].work = "job"]
           /\ job' = [job EXCEPT ![d].joined = @ \/ ~turn[r].owns]
  <2> DEFINE mark == job[d].joined \/ ~turn[r].owns
             row == [job[d] EXCEPT !.joined = mark]
             next == [turn[r] EXCEPT !.work = "job"]
  <2>1. job[d] \in JobRows /\ turn[r] \in Turns /\ turn[r].owns \in BOOLEAN
    BY <1>1 DEF Turns
  <2>2. job' = [job EXCEPT ![d] = row] /\ turn' = [turn EXCEPT ![r] = next]
    BY <1>1, <1>4
  <2>3. mark \in BOOLEAN
    BY <2>1 DEF JobRows
  <2>4. /\ next \in Turns /\ next.work = "job" /\ next.on = d /\ next.owns = turn[r].owns
    BY <2>1 DEF Turns, JobWork
  <2> HIDE DEF mark, next
  <2>5. /\ row \in JobRows /\ row.state = job[d].state /\ row.lease = job[d].lease
        /\ row.events = job[d].events /\ row.joined = mark
    BY <2>1, <2>3 DEF JobRows
  <2> HIDE DEF row, d
  <2>6. /\ job' \in [Decisions -> JobRows] /\ job'[d] = row
        /\ \A e \in Decisions \ {d} : job'[e] = job[e]
    BY <1>1, <2>2, <2>5
  <2>7. /\ turn' \in [Runners -> Turns] /\ turn'[r] = next
        /\ \A t \in Runners \ {r} : turn'[t] = turn[t]
    BY <1>1, <2>2, <2>4
  <2>8. ASSUME NEW e \in Decisions
        PROVE  /\ job'[e].state = job[e].state /\ job'[e].lease = job[e].lease
               /\ job'[e].events = job[e].events
               /\ job[e].joined => job'[e].joined
    BY <2>5, <2>6 DEF mark
  <2>9. ~turn[r].owns => job'[d].joined
    BY <2>5, <2>6 DEF mark
  <2> QED
    BY <1>1, <1>2, <2>4, <2>6, <2>7, <2>8, <2>9 DEF d
<1> QED
  BY <1>3, <1>4 DEF ReadClaimed

\* A run that has stopped a job is told its name.
LEMMA StopsAndReads ==
  ASSUME SchedulerInv, NEW r \in Runners, NEW d \in Decisions,
         turn' = [turn EXCEPT ![r] = [IdleTurn EXCEPT !.work = "claimed", !.on = d]]
  PROVE  /\ turn' \in [Runners -> Turns]
         /\ turn'[r].work = "claimed" /\ turn'[r].on = d /\ ~turn'[r].owns
         /\ \A t \in Runners \ {r} : turn'[t] = turn[t]
<1> DEFINE next == [IdleTurn EXCEPT !.work = "claimed", !.on = d]
<1>1. turn \in [Runners -> Turns]
  BY TypeParts DEF SchedulerInv
<1>2. next \in Turns /\ next.work = "claimed" /\ next.on = d /\ ~next.owns
  <2>1. IdleTurn \in Turns /\ ~IdleTurn.owns /\ "claimed" \in JobWork
    BY IdleTurnTyped DEF JobWork
  <2> QED
    BY <2>1 DEF Turns
<1> HIDE DEF next
<1>3. turn' = [turn EXCEPT ![r] = next]
  BY DEF next
<1>4. turn' \in [Runners -> Turns] /\ turn'[r] = next
      /\ \A t \in Runners \ {r} : turn'[t] = turn[t]
  BY <1>1, <1>2, <1>3
<1> QED
  BY <1>2, <1>4

\* Writes of one row keep its type.
LEMMA JobLeased ==
  ASSUME SchedulerInv, NEW d \in Decisions, job' = [job EXCEPT ![d].lease = "ended"]
  PROVE  job' \in [Decisions -> JobRows]
BY TypeParts DEF SchedulerInv, JobRows, Leases

LEMMA AnchorWritten ==
  ASSUME SchedulerInv, NEW d \in Decisions, NEW row \in AnchorRows,
         anchor' = [anchor EXCEPT ![d] = row]
  PROVE  anchor' \in [Decisions -> AnchorRows]
BY TypeParts DEF SchedulerInv

\* A phase that fails, or is given back, leaves its anchor in a state, released.
LEMMA AnchorReleased ==
  ASSUME SchedulerInv, NEW d \in Decisions, NEW s \in AnchorStates,
         anchor' = [anchor EXCEPT ![d].state = s, ![d].lease = "none"]
  PROVE  anchor' \in [Decisions -> AnchorRows]
<1> DEFINE row == [anchor[d] EXCEPT !.state = s, !.lease = "none"]
<1>1. anchor \in [Decisions -> AnchorRows] /\ "none" \in Leases
  BY TypeParts, NoneTyped DEF SchedulerInv
<1>2. anchor[d] \in AnchorRows
  BY <1>1
<1>3. row \in AnchorRows
  BY <1>1, <1>2 DEF AnchorRows
<1>4. anchor' = [anchor EXCEPT ![d] = row]
  BY <1>1
<1> HIDE DEF row
<1> QED
  BY <1>3, <1>4, AnchorWritten

LEMMA AnchorLeased ==
  ASSUME SchedulerInv, NEW d \in Decisions, anchor' = [anchor EXCEPT ![d].lease = "ended"]
  PROVE  anchor' \in [Decisions -> AnchorRows]
<1>1. anchor[d] \in AnchorRows /\ "ended" \in Leases
  BY TypeParts DEF SchedulerInv, Leases
<1>2. anchor' = [anchor EXCEPT ![d] = [anchor[d] EXCEPT !.lease = "ended"]]
  BY TypeParts DEF SchedulerInv
<1>3. [anchor[d] EXCEPT !.lease = "ended"] \in AnchorRows
  BY <1>1 DEF AnchorRows
<1> QED
  BY <1>2, <1>3, AnchorWritten

\* The service's clock moves one record of the chain on, and nothing else.
LEMMA ServiceTimeMoves ==
  ASSUME SchedulerInv, NEW d \in Decisions, ServiceTime(d)
  PROVE  /\ \E row \in ChainRecords :
              /\ chain' = [chain EXCEPT ![d] = row]
              /\ ChainGrows(chain[d], row) /\ row.evidence = chain[d].evidence
              /\ RecordsAreChained(chain[d]) => RecordsAreChained(row)
         /\ UNCHANGED <<job, anchor, turn, overruns, faults>>
<1>1. chain \in [Decisions -> ChainRecords] /\ chain[d] \in ChainRecords
  BY TypeParts DEF SchedulerInv
<1>2. CASE SimulationExpires(d)
  <2> DEFINE row == [chain[d] EXCEPT !.simulation = "expired"]
  <2>1. chain' = [chain EXCEPT ![d] = row] /\ chain[d].simulation = "fresh"
    BY <1>1, <1>2 DEF SimulationExpires
  <2>2. row \in ChainRecords /\ ChainGrows(chain[d], row) /\ row.evidence = chain[d].evidence
    BY <1>1 DEF ChainRecords, ChainGrows
  <2>3. RecordsAreChained(chain[d]) => RecordsAreChained(row)
    BY <1>1, <2>1 DEF ChainRecords, RecordsAreChained
  <2> QED
    BY <2>1, <2>2, <2>3 DEF ServiceTime
<1>3. ASSUME NEW p \in {"expired", "claimed"}, chain[d].permit = "issued",
             chain' = [chain EXCEPT ![d].permit = p]
      PROVE  \E row \in ChainRecords :
               /\ chain' = [chain EXCEPT ![d] = row]
               /\ ChainGrows(chain[d], row) /\ row.evidence = chain[d].evidence
               /\ RecordsAreChained(chain[d]) => RecordsAreChained(row)
  <2> DEFINE row == [chain[d] EXCEPT !.permit = p]
  <2>1. chain' = [chain EXCEPT ![d] = row]
    BY <1>1, <1>3
  <2>2. row \in ChainRecords /\ ChainGrows(chain[d], row) /\ row.evidence = chain[d].evidence
    BY <1>1, <1>3 DEF ChainRecords, ChainGrows
  <2>3. RecordsAreChained(chain[d]) => RecordsAreChained(row)
    BY <1>1, <1>3 DEF ChainRecords, RecordsAreChained
  <2> QED
    BY <2>1, <2>2, <2>3
<1>4. CASE PermitExpires(d) \/ ClaimPermit(d)
  BY <1>3, <1>4 DEF PermitExpires, ClaimPermit, ServiceTime
<1> QED
  BY <1>2, <1>4 DEF ServiceTime

LEMMA InvStep ==
  ASSUME SchedulerInv, [SchedulerNext]_schedulerVars
  PROVE  SchedulerInv'
<1> DEFINE Named == \A r \in Runners : turn'[r].work # "none" => turn'[r].on \in Decisions
<1>0. /\ chain \in [Decisions -> ChainRecords] /\ job \in [Decisions -> JobRows]
      /\ anchor \in [Decisions -> AnchorRows] /\ turn \in [Runners -> Turns]
      /\ overruns \in 0 .. MaxOverruns /\ faults \in 0 .. MaxFaults
      /\ \A r \in Runners : turn[r].work # "none" => turn[r].on \in Decisions
  BY TypeParts DEF SchedulerInv
<1>q. ASSUME chain' \in [Decisions -> ChainRecords], job' \in [Decisions -> JobRows],
             anchor' \in [Decisions -> AnchorRows], turn' \in [Runners -> Turns],
             overruns' \in 0 .. MaxOverruns, faults' \in 0 .. MaxFaults, Named
      PROVE  SchedulerInv'
  BY <1>q, TypePartsPrimed DEF SchedulerInv
<1>1. ASSUME NEW d \in Decisions, Schedule(d) \/ Resume(d)
      PROVE  SchedulerInv'
  <2>1. job' \in [Decisions -> JobRows]
    <3>0. /\ job[d] \in JobRows /\ "scheduled" \in JobStates /\ "none" \in Leases
          /\ MaxAttempts \in Nat /\ 1 \in Nat
      BY <1>0, SchedulerBounds DEF JobStates, Leases
    <3>1. CASE Schedule(d)
      <4> DEFINE row == [job[d] EXCEPT !.state = "scheduled", !.budget = MaxAttempts,
                                       !.events = 1]
      <4>1. row \in JobRows
        BY <3>0 DEF JobRows
      <4>2. job' = [job EXCEPT ![d] = row]
        BY <1>0, <3>1 DEF Schedule
      <4> HIDE DEF row
      <4> QED
        BY <1>0, <4>1, <4>2
    <3>2. CASE Resume(d)
      <4> DEFINE budget == job[d].attempts + 1
                 events == job[d].events + 1
                 row == [job[d] EXCEPT !.state = "scheduled", !.lease = "none",
                                       !.error = "none", !.budget = budget,
                                       !.events = events]
      <4>1. budget \in Nat /\ events \in Nat
        BY <3>0 DEF JobRows
      <4>2. job' = [job EXCEPT ![d] = row]
        BY <1>0, <3>2 DEF Resume
      <4> HIDE DEF budget, events
      <4>3. row \in JobRows
        BY <3>0, <4>1 DEF JobRows
      <4> HIDE DEF row
      <4> QED
        BY <1>0, <4>2, <4>3
    <3> QED
      BY <1>1, <3>1, <3>2
  <2> QED
    BY <1>0, <1>1, <1>q, <2>1 DEF Schedule, Resume
<1>2. ASSUME NEW d \in Decisions, LeaseEnds(d)
      PROVE  SchedulerInv'
  <2>1. job' \in [Decisions -> JobRows] /\ anchor' \in [Decisions -> AnchorRows]
    BY <1>0, <1>2, JobLeased, AnchorLeased DEF LeaseEnds
  <2> QED
    BY <1>0, <1>2, <1>q, <2>1 DEF LeaseEnds
<1>3. ASSUME NEW d \in Decisions, ServiceTime(d)
      PROVE  SchedulerInv'
  <2>1. chain' \in [Decisions -> ChainRecords]
    BY <1>0, <1>3, ServiceTimeMoves
  <2> QED
    BY <1>0, <1>3, <1>q, <2>1, ServiceTimeMoves
<1>4. ASSUME NEW r \in Runners, NEW d \in Decisions, ClaimOne(r, d)
      PROVE  SchedulerInv'
  <2>1. job' \in [Decisions -> JobRows]
    BY <1>0, <1>4 DEF ClaimOne, JobRows, JobStates, Leases
  <2>2. turn' \in [Runners -> Turns] /\ Named
    <3>1. CASE turn' = [turn EXCEPT ![r] = [IdleTurn EXCEPT !.work = "claimed", !.on = d]]
      BY <1>0, <3>1, StopsAndReads
    <3>2. CASE Take(r, "claimed", d, 0, 0)
      <4>1. 0 \in 0 .. PhaseAttempts /\ "claimed" \in Phases \cup JobWork
        BY SchedulerBounds DEF JobWork
      <4> QED
        BY <3>2, <4>1, TurnTakes
    <3> QED
      BY <1>4, <3>1, <3>2 DEF ClaimOne
  <2> QED
    BY <1>0, <1>4, <1>q, <2>1, <2>2 DEF ClaimOne
<1>5. ASSUME NEW r \in Runners, NEW d \in Decisions, NEW k \in Phases, ClaimPhase(k, r, d)
      PROVE  SchedulerInv'
  <2>0. anchor[d] \in AnchorRows /\ anchor[d].attempts[k] \in 0 .. PhaseAttempts
    BY <1>0 DEF AnchorRows
  <2>1. CASE UNCHANGED turn /\ anchor' = [anchor EXCEPT ![d].state = Failed[k], ![d].lease = "none"]
    <3>1. anchor' \in [Decisions -> AnchorRows]
      BY <1>0, <2>1, StatesTyped, AnchorReleased
    <3> QED
      BY <1>0, <1>5, <1>q, <2>1, <3>1 DEF ClaimPhase
  <2>2. CASE /\ ~AttemptsSpent(k, d)
             /\ anchor' = [anchor EXCEPT ![d].state = Working[k], ![d].lease = "held",
                                         ![d].attempts[k] = @ + 1]
             /\ Take(r, k, d, anchor[d].attempts[k] + 1, anchor[d].signature)
    <3>1. anchor[d].attempts[k] + 1 \in 0 .. PhaseAttempts /\ anchor[d].signature \in Nat
      BY <2>0, <2>2, SchedulerBounds DEF AttemptsSpent, AnchorRows
    <3>2. [anchor[d].attempts EXCEPT ![k] = @ + 1] \in [Phases -> 0 .. PhaseAttempts]
      BY <2>0, <3>1 DEF AnchorRows
    <3>3. anchor' = [anchor EXCEPT ![d] =
            [anchor[d] EXCEPT !.state = Working[k], !.lease = "held",
                              !.attempts = [anchor[d].attempts EXCEPT ![k] = @ + 1]]]
      BY <1>0, <2>2 DEF AnchorRows
    <3>4. anchor' \in [Decisions -> AnchorRows]
      <4> DEFINE more == [anchor[d].attempts EXCEPT ![k] = @ + 1]
      <4>1. more \in [Phases -> 0 .. PhaseAttempts]
        BY <3>2
      <4>2. anchor' = [anchor EXCEPT ![d] =
              [anchor[d] EXCEPT !.state = Working[k], !.lease = "held", !.attempts = more]]
        BY <3>3
      <4> HIDE DEF more
      <4>3. "held" \in Leases /\ Working[k] \in AnchorStates
        BY StatesTyped DEF Leases
      <4>4. [anchor[d] EXCEPT !.state = Working[k], !.lease = "held", !.attempts = more]
              \in AnchorRows
        BY <2>0, <4>1, <4>3 DEF AnchorRows
      <4> QED
        BY <1>0, <4>2, <4>4
    <3>5. turn' \in [Runners -> Turns] /\ Named
      BY <2>2, <3>1, TurnTakes
    <3> QED
      BY <1>0, <1>5, <1>q, <3>4, <3>5 DEF ClaimPhase
  <2> QED
    BY <1>5, <2>1, <2>2 DEF ClaimPhase
<1>15. ASSUME NEW r \in Runners, ReadClaimed(r)
       PROVE  SchedulerInv'
  <2>1. Named
    BY <1>0, <1>15, ReadingKeeps, IdleTurnTyped
  <2> QED
    BY <1>0, <1>15, <1>q, <2>1, ReadingKeeps
<1>6. ASSUME NEW r \in Runners, JobEnds(r)
      PROVE  SchedulerInv'
  <2>1. JobEnds(r)
    BY <1>6
  <2>2. turn[r].on \in Decisions
    BY <1>0, <2>1 DEF JobEnds
  <2>3. job' \in [Decisions -> JobRows]
    <3> DEFINE d == turn[r].on
    <3>1. PICK s \in {"waiting", "stopped", "completed"},
               e \in {"none", "maximum_attempts_reached", "other"} :
            job' = [job EXCEPT ![d].state = s, ![d].lease = "none", ![d].error = e,
                               ![d].events = @ + 1]
      BY <2>1 DEF JobEnds
    <3> DEFINE n == job[d].events + 1
               row == [job[d] EXCEPT !.state = s, !.lease = "none", !.error = e,
                                     !.events = n]
    <3>2. job[d] \in JobRows
      BY <1>0, <2>2
    <3>3. s \in JobStates /\ "none" \in Leases /\ n \in Nat
      BY <3>2 DEF JobStates, Leases, JobRows
    <3>4. job' = [job EXCEPT ![d] = row]
      BY <1>0, <2>2, <3>1
    <3> HIDE DEF d, n
    <3>5. row \in JobRows
      BY <3>2, <3>3 DEF JobRows
    <3> HIDE DEF row
    <3> QED
      BY <1>0, <3>5, <3>4
  <2>4. anchor' \in [Decisions -> AnchorRows]
    <3>1. "pending" \in AnchorStates
      BY StatesTyped DEF Phases, Ready
    <3>2. job[turn[r].on].events + 1 \in Nat
      BY <1>0, <2>2 DEF JobRows
    <3> QED
      <4> DEFINE row == [anchor[turn[r].on] EXCEPT !.state = "pending",
                                                   !.evidence = job[turn[r].on].events + 1]
      <4>1. row \in AnchorRows
        BY <1>0, <2>2, <3>1, <3>2 DEF AnchorRows
      <4>2. anchor' = anchor \/ anchor' = [anchor EXCEPT ![turn[r].on] = row]
        BY <1>0, <2>1, <2>2 DEF JobEnds
      <4> HIDE DEF row
      <4> QED
        BY <1>0, <2>2, <4>1, <4>2, AnchorWritten
  <2> QED
    BY <1>0, <1>q, <2>1, <2>3, <2>4, TurnEnds DEF JobEnds
<1>7. ASSUME NEW r \in Runners, Signs(r)
      PROVE  SchedulerInv'
  <2>1. turn' \in [Runners -> Turns] /\ Named
    <3>1. PICK a \in {"ok", "error", "unexpected"} :
            turn' = [turn EXCEPT ![r].answer = a,
                                 ![r].signature = IF a = "ok" THEN turn[r].attempts ELSE @]
      BY <1>7 DEF Signs
    <3> DEFINE s == IF a = "ok" THEN turn[r].attempts ELSE turn[r].signature
    <3>2. turn[r] \in Turns /\ s \in Nat /\ a \in Answers
      BY <1>0 DEF Turns, Answers
    <3>3. turn' = [turn EXCEPT ![r] = [turn[r] EXCEPT !.answer = a, !.signature = s]]
      BY <1>0, <3>1
    <3> HIDE DEF s
    <3>4. /\ [turn[r] EXCEPT !.answer = a, !.signature = s] \in Turns
          /\ [turn[r] EXCEPT !.answer = a, !.signature = s].work = turn[r].work
          /\ [turn[r] EXCEPT !.answer = a, !.signature = s].on = turn[r].on
      BY <3>2 DEF Turns
    <3> QED
      BY <1>0, <3>3, <3>4
  <2> QED
    BY <1>0, <1>7, <1>q, <2>1 DEF Signs
<1>8. ASSUME NEW r \in Runners, NEW k \in ServicePhases,
             AskService(r, k, Responses(k, chain[turn[r].on], turn[r].signature))
      PROVE  SchedulerInv'
  <2>1. PICK row \in ChainRecords, a \in Answers :
          /\ chain' = [chain EXCEPT ![turn[r].on] = row]
          /\ turn' = [turn EXCEPT ![r].answer = a]
          /\ UNCHANGED <<job, anchor, overruns>>
          /\ faults' \in 0 .. MaxFaults
    BY <1>8, AskingServes
  <2>2. turn' \in [Runners -> Turns] /\ Named
    BY <1>0, <2>1, SMTT(30) DEF Turns
  <2> QED
    BY <1>0, <1>q, <2>1, <2>2
<1>9. ASSUME NEW r \in Runners, NEW k \in Phases, Advance(r, k)
      PROVE  SchedulerInv'
  <2>1. turn[r].on \in Decisions /\ turn[r].signature \in Nat
    BY <1>0, <1>9 DEF Advance, Phases, Turns
  <2>2. Reached[k][turn[r].answer] \in AnchorStates
    BY <1>9, StatesTyped DEF Advance
  <2>3. k = "quality" /\ turn[r].answer # "undeclared"
          => turn[r].answer \in {"none", "accepted", "rejected"}
    <3> SUFFICES ASSUME k = "quality", turn[r].answer # "undeclared"
                 PROVE  turn[r].answer \in {"none", "accepted", "rejected"}
      OBVIOUS
    <3>1. turn[r].answer \in DOMAIN Reached[k]
      BY <1>9 DEF Advance
    <3>2. DOMAIN Reached["quality"] = {"accepted", "rejected", "undeclared"}
      BY DEF Reached
    <3> QED
      BY <3>1, <3>2
  <2>4. anchor' \in [Decisions -> AnchorRows]
    <3> DEFINE d == turn[r].on
               g == IF k = "attest" THEN turn[r].signature ELSE anchor[d].signature
               q == IF k = "quality" /\ turn[r].answer # "undeclared"
                    THEN turn[r].answer ELSE anchor[d].quality
               row == [anchor[d] EXCEPT !.state = Reached[k][turn[r].answer], !.lease = "none",
                                        !.signature = g, !.quality = q]
    <3>1. anchor[d] \in AnchorRows
      BY <1>0, <2>1
    <3>2. g \in Nat /\ q \in {"none", "accepted", "rejected"}
      BY <2>1, <2>3, <3>1 DEF AnchorRows
    <3>3. anchor' = [anchor EXCEPT ![d] = row]
      BY <1>0, <1>9, <2>1 DEF Advance
    <3>4. row \in AnchorRows
      <4> HIDE DEF g, q
      <4> QED
        BY <2>2, <3>1, <3>2, NoneTyped DEF AnchorRows
    <3> HIDE DEF row
    <3> QED
      BY <2>1, <3>3, <3>4, AnchorWritten
  <2> QED
    BY <1>0, <1>9, <1>q, <2>4, TurnEnds DEF Advance
<1>10. ASSUME NEW r \in Runners, NEW k \in Phases, GiveBack(r, k)
       PROVE  SchedulerInv'
  <2>1. turn[r].on \in Decisions
    BY <1>0, <1>10 DEF GiveBack, Phases
  <2>2. PICK s \in AnchorStates :
          anchor' = [anchor EXCEPT ![turn[r].on].state = s, ![turn[r].on].lease = "none"]
    BY <1>10, StatesTyped DEF GiveBack
  <2>3. anchor' \in [Decisions -> AnchorRows]
    BY <1>0, <2>1, <2>2, AnchorReleased
  <2> QED
    BY <1>0, <1>10, <1>q, <2>3, TurnEnds DEF GiveBack
<1>11. ASSUME NEW r \in Runners, LeaseOverrun(r)
       PROVE  SchedulerInv'
  <2>1. overruns' \in 0 .. MaxOverruns
    BY <1>0, <1>11, SchedulerBounds DEF LeaseOverrun
  <2>2. turn' \in [Runners -> Turns] /\ Named
    <3>1. [turn[r] EXCEPT !.owns = FALSE] \in Turns
      BY <1>0 DEF Turns
    <3>2. turn' = [turn EXCEPT ![r] = [turn[r] EXCEPT !.owns = FALSE]]
      BY <1>0, <1>11 DEF LeaseOverrun
    <3>3. /\ [turn[r] EXCEPT !.owns = FALSE].work = turn[r].work
          /\ [turn[r] EXCEPT !.owns = FALSE].on = turn[r].on
      BY <1>0 DEF Turns
    <3> QED
      BY <1>0, <3>1, <3>2, <3>3
  <2>3. job' \in [Decisions -> JobRows] /\ anchor' \in [Decisions -> AnchorRows]
    <3>1. CASE turn[r].on \in Decisions
      BY <1>0, <1>11, <3>1, JobLeased, AnchorLeased DEF LeaseOverrun
    <3>2. CASE turn[r].on \notin Decisions
      <4>1. job' = job \/ job' = [job EXCEPT ![turn[r].on].lease = "ended"]
        BY <1>11 DEF LeaseOverrun
      <4>2. anchor' = anchor \/ anchor' = [anchor EXCEPT ![turn[r].on].lease = "ended"]
        BY <1>11 DEF LeaseOverrun
      <4> QED
        BY <1>0, <3>2, <4>1, <4>2
    <3> QED
      BY <3>1, <3>2
  <2> QED
    BY <1>0, <1>11, <1>q, <2>1, <2>2, <2>3 DEF LeaseOverrun
<1>12. ASSUME NEW r \in Runners, SchedulerCrash(r)
       PROVE  SchedulerInv'
  <2>1. faults' \in 0 .. MaxFaults
    BY <1>0, <1>12, FaultsAssumption DEF SchedulerCrash, Fault
  <2> QED
    BY <1>0, <1>12, <1>q, <2>1, TurnEnds DEF SchedulerCrash
<1>13. CASE UNCHANGED schedulerVars
  BY <1>0, <1>13, <1>q DEF schedulerVars
<1> QED
  BY <1>1, <1>2, <1>3, <1>4, <1>5, <1>6, <1>7, <1>8, <1>9, <1>10, <1>11, <1>12, <1>13,
     <1>15, RunClaimedEnds, StepSplits

\* buyer_agent_scheduler.py, protocol_evidence.py: every row and every run keeps
\* its type, for any number of purchases, processes, attempts, faults and
\* overruns.
THEOREM SchedulerTypeCorrect == SchedulerSpec => []SchedulerTypeOK
<1>1. SchedulerInv /\ [SchedulerNext]_schedulerVars => SchedulerInv'
  BY InvStep
<1>2. SchedulerInv => SchedulerTypeOK
  BY DEF SchedulerInv
<1> QED
  BY <1>1, <1>2, InitTyped, PTL DEF SchedulerSpec

-----------------------------------------------------------------------------
(* The chain.                                                              *)

\* Every step leaves each purchase a row that grew out of the one before.
LEMMA ChainStep ==
  ASSUME SchedulerInv, [SchedulerNext]_schedulerVars, NEW d \in Decisions
  PROVE  /\ ChainGrows(chain[d], chain'[d])
         /\ RecordsAreChained(chain[d]) => RecordsAreChained(chain'[d])
<1>0. chain \in [Decisions -> ChainRecords]
  BY TypeParts DEF SchedulerInv
<1>1. ASSUME UNCHANGED chain
      PROVE  /\ ChainGrows(chain[d], chain'[d])
             /\ RecordsAreChained(chain[d]) => RecordsAreChained(chain'[d])
  BY <1>1 DEF ChainGrows
<1>2. ASSUME NEW e \in Decisions, NEW row \in ChainRecords, chain' = [chain EXCEPT ![e] = row],
             ChainGrows(chain[e], row), RecordsAreChained(chain[e]) => RecordsAreChained(row)
      PROVE  /\ ChainGrows(chain[d], chain'[d])
             /\ RecordsAreChained(chain[d]) => RecordsAreChained(chain'[d])
  <2>1. CASE e = d
    <3>1. chain'[d] = row
      BY <1>0, <1>2, <2>1
    <3> QED
      BY <1>2, <2>1, <3>1
  <2>2. CASE e # d
    <3>1. chain'[d] = chain[d]
      BY <1>0, <1>2, <2>2
    <3> QED
      BY <3>1 DEF ChainGrows
  <2> QED
    BY <2>1, <2>2
<1>3. ASSUME NEW e \in Decisions, ServiceTime(e)
      PROVE  /\ ChainGrows(chain[d], chain'[d])
             /\ RecordsAreChained(chain[d]) => RecordsAreChained(chain'[d])
  BY <1>2, <1>3, ServiceTimeMoves
<1>4. ASSUME NEW r \in Runners, NEW k \in ServicePhases,
             AskService(r, k, Responses(k, chain[turn[r].on], turn[r].signature))
      PROVE  /\ ChainGrows(chain[d], chain'[d])
             /\ RecordsAreChained(chain[d]) => RecordsAreChained(chain'[d])
  <2>1. PICK row \in ChainRecords, a \in Answers :
          /\ turn[r].on \in Decisions
          /\ chain' = [chain EXCEPT ![turn[r].on] = row]
          /\ Serves(k, chain[turn[r].on], turn[r].signature, Response(row, a))
    BY <1>4, AskingServes
  <2>2. /\ ChainGrows(chain[turn[r].on], row)
        /\ RecordsAreChained(chain[turn[r].on]) => RecordsAreChained(row)
    BY <2>1 DEF Serves, Response
  <2> QED
    BY <1>2, <2>1, <2>2
<1>5. CASE \E e \in Decisions : Schedule(e) \/ Resume(e) \/ LeaseEnds(e)
  BY <1>1, <1>5 DEF Schedule, Resume, LeaseEnds
<1>6. CASE \E r \in Runners : \E e \in Decisions :
             ClaimOne(r, e) \/ \E k \in Phases : ClaimPhase(k, r, e)
  <2>1. CASE \E r \in Runners : \E e \in Decisions : ClaimOne(r, e)
    BY <1>1, <2>1 DEF ClaimOne
  <2>2. CASE \E r \in Runners : \E e \in Decisions : \E k \in Phases : ClaimPhase(k, r, e)
    BY <1>1, <2>2 DEF ClaimPhase
  <2> QED
    BY <1>6, <2>1, <2>2
<1>7. CASE \E r \in Runners :
             \/ RunClaimed(r) \/ Signs(r) \/ LeaseOverrun(r) \/ SchedulerCrash(r)
             \/ \E k \in Phases : Advance(r, k) \/ GiveBack(r, k)
  <2>1. CASE \E r \in Runners : RunClaimed(r)
    BY <1>1, <2>1, ZenonT(40) DEF RunClaimed, ReadClaimed, Wait, Stop, Finish
  <2>2. CASE \E r \in Runners : Signs(r) \/ LeaseOverrun(r) \/ SchedulerCrash(r)
    BY <1>1, <2>2 DEF Signs, LeaseOverrun, SchedulerCrash
  <2>3. CASE \E r \in Runners : \E k \in Phases : Advance(r, k) \/ GiveBack(r, k)
    <3>1. ASSUME NEW r \in Runners, NEW k \in Phases, Advance(r, k) PROVE UNCHANGED chain
      BY <3>1 DEF Advance
    <3>2. ASSUME NEW r \in Runners, NEW k \in Phases, GiveBack(r, k) PROVE UNCHANGED chain
      BY <3>2 DEF GiveBack
    <3> QED
      BY <1>1, <2>3, <3>1, <3>2
  <2> QED
    BY <1>7, <2>1, <2>2, <2>3
<1>8. CASE UNCHANGED schedulerVars
  BY <1>1, <1>8 DEF schedulerVars
<1> QED
  BY <1>3, <1>4, <1>5, <1>6, <1>7, <1>8, StepSplits

\* protocol_evidence.py: a permit, and every record before it, rests on the
\* ones before, whoever asks, however often and in whatever order.
THEOREM SchedulerPermitIsEarned == SchedulerSpec => []PermitIsEarned
<1>1. SchedulerInit => PermitIsEarned
  <2>1. RecordsAreChained(NoRecords)
    <3>1. /\ NoRecords.evidence = 0 /\ NoRecords.binding = "none" /\ NoRecords.quality = "none"
          /\ NoRecords.eligibility = "none" /\ NoRecords.plan = FALSE
          /\ NoRecords.authorization = FALSE /\ NoRecords.simulation = "none"
          /\ NoRecords.permit = "none"
      BY DEF NoRecords
    <3> QED
      BY <3>1 DEF RecordsAreChained
  <2> QED
    BY <2>1 DEF SchedulerInit, PermitIsEarned
<1>2. SchedulerInv /\ PermitIsEarned /\ [SchedulerNext]_schedulerVars => PermitIsEarned'
  BY ChainStep DEF PermitIsEarned
<1>3. SchedulerInv /\ [SchedulerNext]_schedulerVars => SchedulerInv'
  BY InvStep
<1> QED
  BY <1>1, <1>2, <1>3, InitTyped, PTL DEF SchedulerSpec

-----------------------------------------------------------------------------
(* What anchors claim.                                                     *)

\* What the state s of an anchor claims is on record in c.
Backed(s, c) ==
  /\ \A k \in Phases : s \in Ready[k] \cup {Working[k], Failed[k]} => Rests(k, c)
  /\ s = "quality_accepted" => c.quality = "accepted"
  /\ s = "quality_rejected" => c.quality = "rejected"
  /\ s = "delivery_rejected" => c.binding = "rejected"
  /\ s = "compensation_review_eligible" => c.eligibility = "compensation"
  /\ s = "settlement_execution_permitted" => c.permit # "none"

\* The row a of an anchor, with the records c: it remembers the verdict on the
\* quality, and the signature it publishes.
AnchorSound(a, c) ==
  /\ Backed(a.state, c)
  /\ a.quality # "none" => c.quality = a.quality
  /\ a.state \in {"attested", "publishing"} => a.signature # 0
  /\ a.state \in {"quality_accepted", "quality_rejected", "eligibility_evaluating"}
       => a.quality # "none"

\* The run t on the anchor a, with the records c: what its phase rests on is on
\* record, and so is what it has been answered.
TurnSound(t, a, c) ==
  /\ t.work \in Phases => Rests(t.work, c) /\ OnRecord(t.work, t.answer, c)
  /\ t.work = "attest" => t.attempts # 0 /\ (t.answer = "ok" => t.signature # 0)
  /\ t.work = "publish" => t.signature # 0 /\ a.signature # 0
  /\ t.work = "eligibility" => a.quality # "none"

BackedInv ==
  /\ \A d \in Decisions : AnchorSound(anchor[d], chain[d])
  /\ \A r \in Runners : turn[r].work # "none" =>
       TurnSound(turn[r], anchor[turn[r].on], chain[turn[r].on])

LEMMA BackedIsBacked == BackedInv => AnchorIsBacked
BY DEF BackedInv, AnchorSound, Backed, AnchorIsBacked

LEMMA RestsStay ==
  ASSUME NEW b \in ChainRecords, NEW c \in ChainRecords, ChainGrows(b, c), NEW k \in Phases
  PROVE  Rests(k, b) => Rests(k, c)
<1>1. CASE k \in {"attest", "publish", "validate", "quality", "eligibility"}
  BY <1>1 DEF Rests, ChainGrows, ChainRecords
<1>2. CASE k = "plan"
  BY <1>2 DEF Rests, ChainGrows, ChainRecords
<1>3. CASE k = "authorize"
  BY <1>3, Zenon DEF Rests, ChainGrows
<1>4. CASE k = "simulate"
  BY <1>4, Zenon DEF Rests, ChainGrows
<1>5. CASE k = "permit"
  BY <1>5 DEF Rests, ChainGrows
<1> QED
  BY <1>1, <1>2, <1>3, <1>4, <1>5 DEF Phases

LEMMA RecordStays ==
  ASSUME NEW b \in ChainRecords, NEW c \in ChainRecords, ChainGrows(b, c), NEW k \in Phases,
         NEW a
  PROVE  OnRecord(k, a, b) => OnRecord(k, a, c)
<1>1. CASE k \in {"attest", "publish"}
  BY <1>1 DEF OnRecord, ChainGrows
<1>2. CASE k = "validate"
  BY <1>2 DEF OnRecord, ChainGrows
<1>3. CASE k = "quality"
  BY <1>3 DEF OnRecord, ChainGrows
<1>4. CASE k = "eligibility"
  BY <1>4 DEF OnRecord, ChainGrows
<1>5. CASE k = "plan"
  BY <1>5, Zenon DEF OnRecord, ChainGrows
<1>6. CASE k = "authorize"
  BY <1>6, Zenon DEF OnRecord, ChainGrows
<1>7. CASE k \in {"simulate", "permit"}
  BY <1>7 DEF OnRecord, ChainGrows
<1> QED
  BY <1>1, <1>2, <1>3, <1>4, <1>5, <1>6, <1>7 DEF Phases

LEMMA BackedStays ==
  ASSUME NEW b \in ChainRecords, NEW c \in ChainRecords, ChainGrows(b, c), NEW s, Backed(s, b)
  PROVE  Backed(s, c)
<1>1. \A k \in Phases : s \in Ready[k] \cup {Working[k], Failed[k]} => Rests(k, c)
  BY RestsStay DEF Backed
<1> QED
  BY <1>1 DEF Backed, ChainGrows

LEMMA AnchorStaysSound ==
  ASSUME NEW b \in ChainRecords, NEW c \in ChainRecords, ChainGrows(b, c), NEW a,
         AnchorSound(a, b)
  PROVE  AnchorSound(a, c)
<1>1. Backed(a.state, c)
  BY BackedStays DEF AnchorSound
<1> QED
  BY <1>1 DEF AnchorSound, ChainGrows

LEMMA TurnStaysSound ==
  ASSUME NEW b \in ChainRecords, NEW c \in ChainRecords, ChainGrows(b, c), NEW t, NEW a,
         TurnSound(t, a, b)
  PROVE  TurnSound(t, a, c)
<1>1. t.work \in Phases => Rests(t.work, c) /\ OnRecord(t.work, t.answer, c)
  BY RestsStay, RecordStays DEF TurnSound
<1> QED
  BY <1>1 DEF TurnSound

\* The state in which phase k is at work, or was given up.
LEMMA BackedAtWork ==
  ASSUME NEW k \in Phases, NEW c, Rests(k, c)
  PROVE  Backed(Working[k], c) /\ Backed(Failed[k], c)
<1> USE DEF Backed, Working, Failed, Ready, Phases
<1>1. CASE k = "attest"
  BY <1>1
<1>2. CASE k = "publish"
  BY <1>2
<1>3. CASE k = "validate"
  BY <1>3
<1>4. CASE k = "quality"
  BY <1>4
<1>5. CASE k = "eligibility"
  BY <1>5
<1>6. CASE k = "plan"
  BY <1>6
<1>7. CASE k = "authorize"
  BY <1>7
<1>8. CASE k = "simulate"
  BY <1>8
<1>9. CASE k = "permit"
  BY <1>9
<1> QED
  BY <1>1, <1>2, <1>3, <1>4, <1>5, <1>6, <1>7, <1>8, <1>9

\* The state from which phase k is claimed.
LEMMA BackedWhenReady ==
  ASSUME NEW k \in Phases, NEW c, Rests(k, c), NEW s \in Ready[k],
         s = "quality_accepted" => c.quality = "accepted",
         s = "quality_rejected" => c.quality = "rejected"
  PROVE  Backed(s, c)
<1> USE DEF Backed, Working, Failed, Ready, Phases
<1>1. CASE k = "attest"
  BY <1>1
<1>2. CASE k = "publish"
  BY <1>2
<1>3. CASE k = "validate"
  BY <1>3
<1>4. CASE k = "quality"
  BY <1>4
<1>5. CASE k = "eligibility"
  BY <1>5
<1>6. CASE k = "plan"
  BY <1>6
<1>7. CASE k = "authorize"
  BY <1>7
<1>8. CASE k = "simulate"
  BY <1>8
<1>9. CASE k = "permit"
  BY <1>9
<1> QED
  BY <1>1, <1>2, <1>3, <1>4, <1>5, <1>6, <1>7, <1>8, <1>9

\* The state the answer a leads to.
LEMMA BackedWhenReached ==
  ASSUME NEW k \in Phases, NEW c, NEW a \in DOMAIN Reached[k], OnRecord(k, a, c)
  PROVE  Backed(Reached[k][a], c)
<1> USE DEF Backed, Working, Failed, Ready, Reached, Phases, OnRecord, Rests
<1>1. CASE k = "attest"
  BY <1>1
<1>2. CASE k = "publish"
  BY <1>2
<1>3. CASE k = "validate"
  BY <1>3
<1>4. CASE k = "quality"
  BY <1>4
<1>5. CASE k = "eligibility"
  BY <1>5
<1>6. CASE k = "plan"
  BY <1>6
<1>7. CASE k = "authorize"
  BY <1>7
<1>8. CASE k = "simulate"
  BY <1>8
<1>9. CASE k = "permit"
  BY <1>9
<1> QED
  BY <1>1, <1>2, <1>3, <1>4, <1>5, <1>6, <1>7, <1>8, <1>9

\* A write of one anchor that is sound, and forgets neither the signature nor
\* the verdict, leaves all anchors and all runs sound.
LEMMA AnchorWriteSound ==
  ASSUME SchedulerInv, BackedInv, UNCHANGED chain, NEW d \in Decisions, NEW row,
         anchor' = [anchor EXCEPT ![d] = row], AnchorSound(row, chain[d]),
         anchor[d].signature # 0 => row.signature # 0,
         anchor[d].quality # "none" => row.quality # "none"
  PROVE  /\ \A e \in Decisions : AnchorSound(anchor'[e], chain'[e])
         /\ \A r \in Runners : turn[r].work # "none" =>
              TurnSound(turn[r], anchor'[turn[r].on], chain'[turn[r].on])
<1>0. anchor \in [Decisions -> AnchorRows]
      /\ \A r \in Runners : turn[r].work # "none" => turn[r].on \in Decisions
  BY TypeParts DEF SchedulerInv
<1>1. anchor'[d] = row /\ \A e \in Decisions \ {d} : anchor'[e] = anchor[e]
  BY <1>0
<1>2. ASSUME NEW e \in Decisions
      PROVE  AnchorSound(anchor'[e], chain'[e])
  BY <1>1 DEF BackedInv
<1>3. ASSUME NEW r \in Runners, turn[r].work # "none"
      PROVE  TurnSound(turn[r], anchor'[turn[r].on], chain'[turn[r].on])
  <2>1. turn[r].on \in Decisions /\ TurnSound(turn[r], anchor[turn[r].on], chain[turn[r].on])
    BY <1>0, <1>3 DEF BackedInv
  <2>2. CASE turn[r].on = d
    BY <1>1, <2>1, <2>2 DEF TurnSound
  <2>3. CASE turn[r].on # d
    BY <1>1, <2>1, <2>3
  <2> QED
    BY <2>2, <2>3
<1> QED
  BY <1>2, <1>3

\* The same when no anchor is written.
LEMMA NoWriteSound ==
  ASSUME BackedInv, UNCHANGED <<chain, anchor>>
  PROVE  /\ \A e \in Decisions : AnchorSound(anchor'[e], chain'[e])
         /\ \A r \in Runners : turn[r].work # "none" =>
              TurnSound(turn[r], anchor'[turn[r].on], chain'[turn[r].on])
BY DEF BackedInv

\* The two, when only the lease changes.
LEMMA LeaseWriteSound ==
  ASSUME SchedulerInv, BackedInv, UNCHANGED chain, NEW d \in Decisions,
         anchor' = [anchor EXCEPT ![d].lease = "ended"]
  PROVE  /\ \A e \in Decisions : AnchorSound(anchor'[e], chain'[e])
         /\ \A r \in Runners : turn[r].work # "none" =>
              TurnSound(turn[r], anchor'[turn[r].on], chain'[turn[r].on])
<1> DEFINE row == [anchor[d] EXCEPT !.lease = "ended"]
<1>1. anchor \in [Decisions -> AnchorRows] /\ anchor[d] \in AnchorRows
  BY TypeParts DEF SchedulerInv
<1>2. anchor' = [anchor EXCEPT ![d] = row]
  BY <1>1
<1>3. row.state = anchor[d].state /\ row.signature = anchor[d].signature
      /\ row.quality = anchor[d].quality
  BY <1>1 DEF AnchorRows
<1> HIDE DEF row
<1>4. AnchorSound(row, chain[d])
  BY <1>3 DEF BackedInv, AnchorSound
<1> QED
  BY <1>2, <1>3, <1>4, AnchorWriteSound

LEMMA BackedInit == SchedulerInit => BackedInv
<1> SUFFICES ASSUME SchedulerInit PROVE BackedInv
  OBVIOUS
<1>1. ASSUME NEW c PROVE Backed("none", c)
  <2>1. \A k \in Phases : "none" \notin Ready[k] \cup {Working[k], Failed[k]}
    BY DEF Phases, Ready, Working, Failed
  <2> QED
    BY <2>1 DEF Backed
<1>2. ASSUME NEW d \in Decisions
      PROVE  anchor[d].state = "none" /\ anchor[d].quality = "none"
  BY DEF SchedulerInit
<1>3. ASSUME NEW d \in Decisions
      PROVE  AnchorSound(anchor[d], chain[d])
  BY <1>1, <1>2 DEF AnchorSound
<1>4. \A r \in Runners : turn[r].work = "none"
  BY DEF SchedulerInit, IdleTurn
<1> QED
  BY <1>3, <1>4 DEF BackedInv

LEMMA BackedStep ==
  ASSUME SchedulerInv, BackedInv, [SchedulerNext]_schedulerVars
  PROVE  BackedInv'
<1> DEFINE AnchorsSound == \A e \in Decisions : AnchorSound(anchor'[e], chain'[e])
           RunsSound == \A r \in Runners : turn[r].work # "none" =>
                          TurnSound(turn[r], anchor'[turn[r].on], chain'[turn[r].on])
<1>0. /\ chain \in [Decisions -> ChainRecords] /\ job \in [Decisions -> JobRows]
      /\ anchor \in [Decisions -> AnchorRows] /\ turn \in [Runners -> Turns]
      /\ \A r \in Runners : turn[r].work # "none" => turn[r].on \in Decisions
  BY TypeParts DEF SchedulerInv
<1>i. chain' \in [Decisions -> ChainRecords]
      /\ \A r \in Runners : turn'[r].work # "none" => turn'[r].on \in Decisions
  <2>1. SchedulerInv'
    BY InvStep
  <2> QED
    BY <2>1 DEF SchedulerInv, SchedulerTypeOK
<1>q. ASSUME AnchorsSound, RunsSound, UNCHANGED turn
      PROVE  BackedInv'
  BY <1>q DEF BackedInv
<1>e. ASSUME AnchorsSound, RunsSound, NEW r \in Runners, turn' = [turn EXCEPT ![r] = IdleTurn]
      PROVE  BackedInv'
  BY <1>e, TurnEnds DEF BackedInv
<1>t. ASSUME AnchorsSound, RunsSound, NEW r \in Runners, NEW d \in Decisions,
             NEW work \in Phases \cup JobWork, NEW n \in 0 .. PhaseAttempts, NEW s \in Nat,
             Take(r, work, d, n, s),
             TurnSound([work |-> work, on |-> d, answer |-> "none", attempts |-> n,
                        signature |-> s, owns |-> TRUE], anchor'[d], chain'[d])
      PROVE  BackedInv'
  <2>1. ASSUME NEW t \in Runners, turn'[t].work # "none"
        PROVE  TurnSound(turn'[t], anchor'[turn'[t].on], chain'[turn'[t].on])
    <3>1. CASE t = r
      BY <1>t, <3>1, TurnTakes
    <3>2. CASE t # r
      <4>1. turn[t] \in Turns /\ (turn'[t] = turn[t] \/ turn'[t] = [turn[t] EXCEPT !.owns = FALSE])
        BY <1>0, <1>t, <3>2, TurnTakes, SMTT(30)
      <4>2. /\ turn'[t].work = turn[t].work /\ turn'[t].on = turn[t].on
            /\ turn'[t].answer = turn[t].answer /\ turn'[t].attempts = turn[t].attempts
            /\ turn'[t].signature = turn[t].signature
        BY <4>1 DEF Turns
      <4>3. TurnSound(turn[t], anchor'[turn[t].on], chain'[turn[t].on])
        BY <1>t, <2>1, <4>2
      <4> QED
        BY <4>2, <4>3 DEF TurnSound
    <3> QED
      BY <3>1, <3>2
  <2> QED
    BY <1>t, <2>1 DEF BackedInv
<1>1. ASSUME NEW d \in Decisions, Schedule(d) \/ Resume(d)
      PROVE  BackedInv'
  BY <1>1, <1>q, NoWriteSound DEF Schedule, Resume
<1>2. ASSUME NEW d \in Decisions, LeaseEnds(d)
      PROVE  BackedInv'
  <2>1. AnchorsSound /\ RunsSound
    BY <1>2, NoWriteSound, LeaseWriteSound DEF LeaseEnds
  <2> QED
    BY <1>2, <1>q, <2>1 DEF LeaseEnds
<1>3. ASSUME UNCHANGED <<anchor, turn>>
      PROVE  BackedInv'
  <2>1. ASSUME NEW d \in Decisions
        PROVE  chain[d] \in ChainRecords /\ chain'[d] \in ChainRecords
               /\ ChainGrows(chain[d], chain'[d])
    BY <1>0, <1>i, ChainStep
  <2>2. AnchorsSound
    BY <1>3, <2>1, AnchorStaysSound DEF BackedInv
  <2>3. RunsSound
    BY <1>0, <1>3, <2>1, TurnStaysSound DEF BackedInv
  <2> QED
    BY <1>3, <1>q, <2>2, <2>3
<1>4. ASSUME NEW r \in Runners, NEW d \in Decisions, ClaimOne(r, d)
      PROVE  BackedInv'
  <2>1. AnchorsSound /\ RunsSound
    BY <1>4, NoWriteSound DEF ClaimOne
  <2>2. CASE Take(r, "claimed", d, 0, 0)
    <3>1. 0 \in 0 .. PhaseAttempts /\ "claimed" \in Phases \cup JobWork
      BY SchedulerBounds DEF JobWork
    <3>2. TurnSound([work |-> "claimed", on |-> d, answer |-> "none", attempts |-> 0,
                     signature |-> 0, owns |-> TRUE], anchor'[d], chain'[d])
      BY DEF TurnSound, Phases
    <3> QED
      BY <1>t, <2>1, <2>2, <3>1, <3>2
  <2>3. CASE turn' = [turn EXCEPT ![r] = [IdleTurn EXCEPT !.work = "claimed", !.on = d]]
    <3>1. ASSUME NEW t \in Runners, turn'[t].work # "none"
          PROVE  TurnSound(turn'[t], anchor'[turn'[t].on], chain'[turn'[t].on])
      <4>1. CASE t = r
        BY <2>3, <4>1, StopsAndReads DEF TurnSound, Phases
      <4>2. CASE t # r
        BY <2>1, <2>3, <3>1, <4>2, StopsAndReads
      <4> QED
        BY <4>1, <4>2
    <3> QED
      BY <2>1, <3>1 DEF BackedInv
  <2> QED
    BY <1>4, <2>2, <2>3 DEF ClaimOne
<1>5. ASSUME NEW r \in Runners, NEW d \in Decisions, NEW k \in Phases, ClaimPhase(k, r, d)
      PROVE  BackedInv'
  <2>0. /\ anchor[d] \in AnchorRows /\ anchor[d].attempts[k] \in 0 .. PhaseAttempts
        /\ AnchorSound(anchor[d], chain[d]) /\ UNCHANGED chain
    BY <1>0, <1>5 DEF AnchorRows, BackedInv, ClaimPhase
  <2>1. Rests(k, chain[d])
    BY <1>5, <2>0 DEF ClaimPhase, AnchorIsDue, AnchorSound, Backed
  <2>2. /\ k = "publish" => anchor[d].signature # 0
        /\ k = "eligibility" => anchor[d].quality # "none"
    <3>1. anchor[d].state \in Ready[k] \/ anchor[d].state = Working[k]
      BY <1>5 DEF ClaimPhase, AnchorIsDue
    <3> QED
      BY <2>0, <3>1 DEF AnchorSound, Ready, Working
  <2>3. /\ Working[k] \in {"attested", "publishing"} => k = "publish"
        /\ Working[k] \in {"quality_accepted", "quality_rejected", "eligibility_evaluating"}
             => k = "eligibility"
        /\ Failed[k] \notin {"attested", "publishing", "quality_accepted", "quality_rejected",
                             "eligibility_evaluating"}
    BY DEF Working, Failed, Phases
  <2>4. ASSUME NEW row, row.state \in {Working[k], Failed[k]},
               row.signature = anchor[d].signature, row.quality = anchor[d].quality
        PROVE  AnchorSound(row, chain[d])
    BY <2>0, <2>1, <2>2, <2>3, <2>4, BackedAtWork DEF AnchorSound
  <2>5. CASE UNCHANGED turn /\ anchor' = [anchor EXCEPT ![d].state = Failed[k], ![d].lease = "none"]
    <3> DEFINE row == [anchor[d] EXCEPT !.state = Failed[k], !.lease = "none"]
    <3>1. anchor' = [anchor EXCEPT ![d] = row]
      BY <1>0, <2>5
    <3>2. row.state = Failed[k] /\ row.signature = anchor[d].signature
          /\ row.quality = anchor[d].quality
      BY <2>0 DEF AnchorRows
    <3>3. AnchorsSound /\ RunsSound
      <4> HIDE DEF row
      <4>1. AnchorSound(row, chain[d])
        BY <2>4, <3>2
      <4> QED
        BY <2>0, <3>1, <3>2, <4>1, AnchorWriteSound
    <3> QED
      BY <1>q, <2>5, <3>3
  <2>6. CASE /\ anchor' = [anchor EXCEPT ![d].state = Working[k], ![d].lease = "held",
                                         ![d].attempts[k] = @ + 1]
             /\ ~AttemptsSpent(k, d)
             /\ Take(r, k, d, anchor[d].attempts[k] + 1, anchor[d].signature)
    <3> DEFINE n == anchor[d].attempts[k] + 1
               more == [anchor[d].attempts EXCEPT ![k] = n]
               row == [anchor[d] EXCEPT !.state = Working[k], !.lease = "held",
                                        !.attempts = more]
               new == [work |-> k, on |-> d, answer |-> "none", attempts |-> n,
                       signature |-> anchor[d].signature, owns |-> TRUE]
    <3>1. anchor' = [anchor EXCEPT ![d] = row]
      BY <1>0, <2>0, <2>6 DEF AnchorRows
    <3>2. row.state = Working[k] /\ row.signature = anchor[d].signature
          /\ row.quality = anchor[d].quality
      <4> HIDE DEF more
      <4> QED
        BY <2>0 DEF AnchorRows
    <3>3. AnchorsSound /\ RunsSound
      <4> HIDE DEF row
      <4>1. AnchorSound(row, chain[d])
        BY <2>4, <3>2
      <4> QED
        BY <2>0, <3>1, <3>2, <4>1, AnchorWriteSound
    <3>4. n \in 0 .. PhaseAttempts /\ n # 0 /\ anchor[d].signature \in Nat
      BY <2>0, <2>6, SchedulerBounds DEF AttemptsSpent, AnchorRows
    <3>5. anchor'[d].signature = anchor[d].signature /\ anchor'[d].quality = anchor[d].quality
      BY <1>0, <3>1, <3>2
    <3>6. TurnSound(new, anchor'[d], chain'[d])
      <4>1. OnRecord(k, "none", chain[d])
        BY DEF OnRecord, Phases
      <4> HIDE DEF n
      <4> QED
        BY <2>0, <2>1, <2>2, <3>4, <3>5, <4>1 DEF TurnSound
    <3> HIDE DEF n
    <3> QED
      BY <1>t, <2>6, <3>3, <3>4, <3>6 DEF n
  <2> QED
    BY <1>5, <2>5, <2>6 DEF ClaimPhase
<1>15. ASSUME NEW r \in Runners, ReadClaimed(r)
       PROVE  BackedInv'
  <2>1. AnchorsSound /\ RunsSound
    BY <1>15, NoWriteSound, ReadingKeeps
  <2>2. ASSUME NEW t \in Runners, turn'[t].work # "none"
        PROVE  TurnSound(turn'[t], anchor'[turn'[t].on], chain'[turn'[t].on])
    <3>1. CASE t = r
      BY <1>15, <2>2, <3>1, ReadingKeeps, IdleTurnTyped DEF TurnSound, Phases
    <3>2. CASE t # r
      BY <1>15, <2>1, <2>2, <3>2, ReadingKeeps
    <3> QED
      BY <3>1, <3>2
  <2> QED
    BY <2>1, <2>2 DEF BackedInv
<1>6. ASSUME NEW r \in Runners, JobEnds(r)
      PROVE  BackedInv'
  <2>1. JobEnds(r)
    BY <1>6
  <2> DEFINE d == turn[r].on
             row == [anchor[d] EXCEPT !.state = "pending", !.evidence = job[d].events + 1]
  <2>2. d \in Decisions /\ anchor[d] \in AnchorRows /\ AnchorSound(anchor[d], chain[d])
    BY <1>0, <2>1 DEF JobEnds, BackedInv
  <2>3. anchor' = anchor \/ anchor' = [anchor EXCEPT ![d] = row]
    BY <1>0, <2>1, <2>2 DEF JobEnds
  <2>4. row.state = "pending" /\ row.signature = anchor[d].signature
        /\ row.quality = anchor[d].quality
    BY <2>2 DEF AnchorRows
  <2>5. AnchorSound(row, chain[d])
    <3>1. Backed("pending", chain[d])
      <4>1. /\ "attest" \in Phases /\ "pending" \in Ready["attest"]
            /\ Rests("attest", chain[d])
        BY DEF Phases, Rests, Ready
      <4> QED
        BY ONLY <4>1, BackedWhenReady
    <3> QED
      BY <2>2, <2>4, <3>1 DEF AnchorSound
  <2>6. AnchorsSound /\ RunsSound
    <3> HIDE DEF row
    <3> QED
      BY <2>1, <2>2, <2>3, <2>4, <2>5, NoWriteSound, AnchorWriteSound DEF JobEnds
  <2> QED
    BY <1>e, <2>1, <2>6 DEF JobEnds
<1>7. ASSUME NEW r \in Runners, Signs(r)
      PROVE  BackedInv'
  <2>1. PICK a \in {"ok", "error", "unexpected"} :
          turn' = [turn EXCEPT ![r].answer = a,
                               ![r].signature = IF a = "ok" THEN turn[r].attempts ELSE @]
    BY <1>7 DEF Signs
  <2>2. /\ turn[r].work = "attest" /\ turn[r].attempts # 0
    BY <1>7, "attest" # "none" DEF Signs, BackedInv, TurnSound
  <2>3. /\ turn'[r].work = "attest" /\ turn'[r].on = turn[r].on
        /\ turn'[r].attempts = turn[r].attempts
        /\ turn'[r].answer = "ok" => turn'[r].signature = turn[r].attempts
    BY <1>0, <2>1, <2>2 DEF Turns
  <2>4. \A s \in Runners \ {r} : turn'[s] = turn[s]
    BY <1>0, <2>1
  <2>5. TurnSound(turn'[r], anchor[turn[r].on], chain[turn[r].on])
    BY <2>2, <2>3 DEF TurnSound, Rests, OnRecord
  <2>6. UNCHANGED <<anchor, chain>>
    BY <1>7 DEF Signs
  <2> QED
    BY <2>3, <2>4, <2>5, <2>6 DEF BackedInv
<1>8. ASSUME NEW r \in Runners, NEW k \in ServicePhases,
             AskService(r, k, Responses(k, chain[turn[r].on], turn[r].signature))
      PROVE  BackedInv'
  <2>1. PICK row \in ChainRecords, a \in Answers :
          /\ turn[r].work = k /\ turn[r].on \in Decisions
          /\ chain' = [chain EXCEPT ![turn[r].on] = row]
          /\ turn' = [turn EXCEPT ![r].answer = a]
          /\ UNCHANGED <<job, anchor, overruns>>
          /\ Serves(k, chain[turn[r].on], turn[r].signature, Response(row, a))
    BY <1>8, AskingServes
  <2>2. ASSUME NEW d \in Decisions
        PROVE  chain[d] \in ChainRecords /\ chain'[d] \in ChainRecords
               /\ ChainGrows(chain[d], chain'[d])
    BY <1>0, <1>i, ChainStep
  <2>3. AnchorsSound
    BY <2>1, <2>2, AnchorStaysSound DEF BackedInv
  <2>4. RunsSound
    BY <1>0, <2>1, <2>2, TurnStaysSound DEF BackedInv
  <2>5. /\ turn'[r].work = k /\ turn'[r].on = turn[r].on /\ turn'[r].answer = a
        /\ turn'[r].attempts = turn[r].attempts /\ turn'[r].signature = turn[r].signature
        /\ \A s \in Runners \ {r} : turn'[s] = turn[s]
    BY <1>0, <2>1 DEF Turns
  <2>6. k \in Phases /\ k # "none" /\ k # "attest"
    BY DEF ServicePhases, Phases
  <2>7. TurnSound(turn[r], anchor'[turn[r].on], chain'[turn[r].on])
    BY <2>1, <2>4, <2>6
  <2>8. OnRecord(k, a, chain'[turn[r].on])
    <3>1. chain'[turn[r].on] = row
      BY <1>0, <2>1
    <3>2. (k = "publish" => turn[r].signature # 0) => OnRecord(k, a, row)
      BY <2>1 DEF Serves, Response
    <3>3. k = "publish" => turn[r].signature # 0
      BY <2>1, <2>7 DEF TurnSound
    <3> QED
      BY <3>1, <3>2, <3>3
  <2>9. TurnSound(turn'[r], anchor'[turn[r].on], chain'[turn[r].on])
    BY <2>1, <2>5, <2>6, <2>7, <2>8 DEF TurnSound
  <2> QED
    BY <2>3, <2>4, <2>5, <2>9 DEF BackedInv
<1>9. ASSUME NEW r \in Runners, NEW k \in Phases, Advance(r, k)
      PROVE  BackedInv'
  <2> DEFINE d == turn[r].on
             a == turn[r].answer
             g == IF k = "attest" THEN turn[r].signature ELSE anchor[d].signature
             q == IF k = "quality" /\ a # "undeclared" THEN a ELSE anchor[d].quality
             row == [anchor[d] EXCEPT !.state = Reached[k][a], !.lease = "none",
                                      !.signature = g, !.quality = q]
  <2>1. /\ turn[r].work = k /\ a \in DOMAIN Reached[k] /\ UNCHANGED chain
        /\ k # "none" /\ turn' = [turn EXCEPT ![r] = IdleTurn]
    BY <1>9 DEF Advance, Phases
  <2>2. /\ d \in Decisions /\ anchor[d] \in AnchorRows /\ AnchorSound(anchor[d], chain[d])
        /\ TurnSound(turn[r], anchor[d], chain[d])
    BY <1>0, <2>1, SMTT(30) DEF BackedInv
  <2>3. anchor' = [anchor EXCEPT ![d] = row]
    BY <1>0, <1>9, <2>2 DEF Advance
  <2>4. row.state = Reached[k][a] /\ row.signature = g /\ row.quality = q
    <3> HIDE DEF g, q
    <3> QED
      BY <2>2 DEF AnchorRows
  <2>5. OnRecord(k, a, chain[d])
    BY <2>1, <2>2 DEF TurnSound
  <2>6. Backed(row.state, chain[d])
    BY <2>1, <2>4, <2>5, BackedWhenReached
  <2>7. q # "none" => chain[d].quality = q
    <3>1. CASE k = "quality" /\ a # "undeclared"
      <4>1. a \in {"accepted", "rejected"}
        BY <2>1, <3>1 DEF Reached
      <4> QED
        BY <2>5, <3>1, <4>1 DEF OnRecord
    <3>2. CASE ~(k = "quality" /\ a # "undeclared")
      <4>1. q = anchor[d].quality
        BY <3>2
      <4> QED
        BY <2>2, <4>1 DEF AnchorSound
    <3> QED
      BY <3>1, <3>2
  <2>8. /\ anchor[d].signature # 0 => g # 0
        /\ anchor[d].quality # "none" => q # "none"
    BY <2>1, <2>2 DEF TurnSound, Reached
  <2>9. Reached[k][a] \in {"attested", "publishing"} => g # 0
    <3>1. Reached[k][a] \in {"attested", "publishing"} => k = "attest" /\ a = "ok"
      <4>1. CASE k \in {"attest", "publish", "validate", "quality"}
        BY <2>1, <4>1 DEF Reached
      <4>2. CASE k \in {"eligibility", "plan", "authorize", "simulate", "permit"}
        BY <2>1, <4>2 DEF Reached
      <4> QED
        BY <4>1, <4>2 DEF Phases
    <3> QED
      BY <2>1, <2>2, <3>1 DEF TurnSound
  <2>10. Reached[k][a] \in {"quality_accepted", "quality_rejected", "eligibility_evaluating"}
           => q # "none"
    <3>1. Reached[k][a] \in {"quality_accepted", "quality_rejected", "eligibility_evaluating"}
            => k = "quality" /\ a \in {"accepted", "rejected"}
      <4>1. CASE k \in {"attest", "publish", "validate", "quality"}
        BY <2>1, <4>1 DEF Reached
      <4>2. CASE k \in {"eligibility", "plan", "authorize", "simulate", "permit"}
        BY <2>1, <4>2 DEF Reached
      <4> QED
        BY <4>1, <4>2 DEF Phases
    <3> QED
      BY <3>1
  <2> HIDE DEF row, g, q
  <2>11. AnchorSound(row, chain[d])
    BY <2>4, <2>6, <2>7, <2>9, <2>10 DEF AnchorSound
  <2>12. AnchorsSound /\ RunsSound
    BY <2>1, <2>2, <2>3, <2>4, <2>8, <2>11, AnchorWriteSound
  <2> QED
    BY <1>e, <2>1, <2>12
<1>10. ASSUME NEW r \in Runners, NEW k \in Phases, GiveBack(r, k)
       PROVE  BackedInv'
  <2> DEFINE d == turn[r].on
  <2>1. /\ turn[r].work = k /\ UNCHANGED chain
        /\ k # "none" /\ turn' = [turn EXCEPT ![r] = IdleTurn]
    BY <1>10 DEF GiveBack, Phases
  <2>2. /\ d \in Decisions /\ anchor[d] \in AnchorRows /\ AnchorSound(anchor[d], chain[d])
        /\ TurnSound(turn[r], anchor[d], chain[d])
    BY <1>0, <2>1, SMTT(30) DEF BackedInv
  <2>3. PICK s \in StatesBefore(k, anchor[d].quality) \cup {Failed[k]} :
          anchor' = [anchor EXCEPT ![d].state = s, ![d].lease = "none"]
    BY <1>10 DEF GiveBack
  <2> DEFINE row == [anchor[d] EXCEPT !.state = s, !.lease = "none"]
  <2>4. anchor' = [anchor EXCEPT ![d] = row]
    BY <1>0, <2>2, <2>3
  <2>5. row.state = s /\ row.signature = anchor[d].signature /\ row.quality = anchor[d].quality
    BY <2>2 DEF AnchorRows
  <2>6. Rests(k, chain[d])
    BY <2>1, <2>2 DEF TurnSound
  <2>7. /\ k = "publish" => anchor[d].signature # 0
        /\ k = "eligibility" => anchor[d].quality # "none"
    BY <2>1, <2>2 DEF TurnSound
  <2>8. /\ s \in {"attested", "publishing"} => k = "publish"
        /\ s \in {"quality_accepted", "quality_rejected", "eligibility_evaluating"}
             => k = "eligibility"
    BY DEF StatesBefore, Ready, Failed, Phases
  <2>9. Backed(s, chain[d])
    <3>1. CASE s = Failed[k]
      BY <2>6, <3>1, BackedAtWork
    <3>2. CASE s # Failed[k]
      <4>1. s \in StatesBefore(k, anchor[d].quality) /\ s \in Ready[k]
        BY <3>2 DEF StatesBefore, Ready
      <4>2. s = "quality_accepted" => anchor[d].quality = "accepted"
        <5>1. s = "quality_accepted" => k = "eligibility"
          BY <2>8
        <5> QED
          BY <4>1, <5>1 DEF StatesBefore
      <4>3. s = "quality_rejected" => anchor[d].quality = "rejected"
        <5>1. s = "quality_rejected" => k = "eligibility"
          BY <2>8
        <5>2. anchor[d].quality \in {"none", "accepted", "rejected"}
          BY <2>2 DEF AnchorRows
        <5> QED
          BY <2>7, <4>1, <5>1, <5>2 DEF StatesBefore
      <4>4. /\ s = "quality_accepted" => chain[d].quality = "accepted"
            /\ s = "quality_rejected" => chain[d].quality = "rejected"
        BY <2>2, <4>2, <4>3 DEF AnchorSound
      <4> QED
        BY <2>6, <4>1, <4>4, BackedWhenReady
    <3> QED
      BY <3>1, <3>2
  <2> HIDE DEF row
  <2>10. AnchorSound(row, chain[d])
    BY <2>2, <2>5, <2>7, <2>8, <2>9 DEF AnchorSound
  <2>11. AnchorsSound /\ RunsSound
    BY <2>1, <2>2, <2>4, <2>5, <2>10, AnchorWriteSound
  <2> QED
    BY <1>e, <2>1, <2>11
<1>11. ASSUME NEW r \in Runners, LeaseOverrun(r)
       PROVE  BackedInv'
  <2>1. AnchorsSound /\ RunsSound
    <3>1. CASE UNCHANGED anchor
      BY <1>11, <3>1, NoWriteSound DEF LeaseOverrun
    <3>2. CASE turn[r].on \in Decisions
      BY <1>11, <3>2, NoWriteSound, LeaseWriteSound DEF LeaseOverrun
    <3>3. CASE turn[r].on \notin Decisions
      <4>1. anchor' = anchor \/ anchor' = [anchor EXCEPT ![turn[r].on].lease = "ended"]
        BY <1>11 DEF LeaseOverrun
      <4>2. UNCHANGED anchor
        BY <1>0, <3>3, <4>1
      <4> QED
        BY <3>1, <4>2
    <3> QED
      BY <3>2, <3>3
  <2>2. \A s \in Runners : /\ turn'[s].work = turn[s].work /\ turn'[s].on = turn[s].on
                           /\ turn'[s].answer = turn[s].answer
                           /\ turn'[s].attempts = turn[s].attempts
                           /\ turn'[s].signature = turn[s].signature
    BY <1>0, <1>11 DEF LeaseOverrun, Turns
  <2>3. ASSUME NEW s \in Runners, turn'[s].work # "none"
        PROVE  TurnSound(turn'[s], anchor'[turn'[s].on], chain'[turn'[s].on])
    <3>1. TurnSound(turn[s], anchor'[turn[s].on], chain'[turn[s].on])
      BY <2>1, <2>2, <2>3
    <3> QED
      BY <2>2, <3>1 DEF TurnSound
  <2> QED
    BY <2>1, <2>3 DEF BackedInv
<1>12. ASSUME NEW r \in Runners, SchedulerCrash(r)
       PROVE  BackedInv'
  BY <1>12, <1>e, NoWriteSound DEF SchedulerCrash
<1>13. ASSUME NEW d \in Decisions, ServiceTime(d)
       PROVE  BackedInv'
  BY <1>3, <1>13 DEF ServiceTime
<1>14. CASE UNCHANGED schedulerVars
  BY <1>3, <1>14 DEF schedulerVars
<1> QED
  BY <1>1, <1>2, <1>4, <1>5, <1>6, <1>7, <1>8, <1>9, <1>10, <1>11, <1>12, <1>13, <1>14,
     <1>15, RunClaimedEnds, StepSplits

\* buyer_agent_scheduler.py _run_*, _finish_*, _retry_settlement_phase: whatever
\* runs die, overlap or write late, an anchor never claims more than the
\* service has on record.
THEOREM SchedulerAnchorIsBacked == SchedulerSpec => []AnchorIsBacked
<1>1. SchedulerInv /\ [SchedulerNext]_schedulerVars => SchedulerInv'
  BY InvStep
<1>2. SchedulerInv /\ BackedInv /\ [SchedulerNext]_schedulerVars => BackedInv'
  BY BackedStep
<1> QED
  BY <1>1, <1>2, InitTyped, BackedInit, BackedIsBacked, PTL DEF SchedulerSpec

\* buyer_agent_scheduler.py, protocol_evidence.py: an anchor claims what is on
\* record, and what is on record rests on the records before it.
THEOREM SchedulerClaimsAreBacked == SchedulerSpec => []ClaimsAreBacked
<1>1. AnchorIsBacked /\ PermitIsEarned => ClaimsAreBacked
  BY DEF ClaimsAreBacked
<1> QED
  BY <1>1, SchedulerAnchorIsBacked, SchedulerPermitIsEarned, PTL

-----------------------------------------------------------------------------
(* The journal, as long as no lease ends under its run.                    *)

\* The run t, on the job j and the anchor a of its purchase, holds the lease
\* of the row it works on.  One that has stopped the job holds none, and works on
\* it only when it has been resumed in between.
RunSole(t, j, a) ==
  /\ t.work \in JobWork /\ ~j.joined =>
       /\ t.owns => j.state = "running" /\ j.lease = "held"
       /\ t.work = "job" => t.owns
  /\ t.work \in Phases => t.owns /\ a.state = Working[t.work] /\ a.lease = "held"
  /\ t.work = "publish" => t.signature = a.signature

\* No two runs hold one job, or one anchor.
Apart(f) ==
  \A r, s \in Runners :
    /\ f[r].work # "none" /\ f[s].work # "none" /\ f[r].on = f[s].on
    /\ f[r].owns /\ f[s].owns
    /\ f[r].work \in JobWork <=> f[s].work \in JobWork
    => r = s

\* The job j, the anchor a and the records c of one purchase.
RowSealed(j, a, c) ==
  /\ a.state \in {"none", "pending", "attesting"} => c.evidence = 0
  /\ a.state # "none" /\ ~j.joined => j.state = "completed" /\ j.events = a.evidence
  /\ a.state # "none" => c.evidence \in {0, a.signature}

LEMMA JobIsNoPhase ==
  /\ JobWork \cap Phases = {} /\ "none" \notin JobWork /\ "none" \notin Phases
  /\ {"claimed", "job"} = JobWork /\ "publish" \in Phases
BY DEF JobWork, Phases

SealedInv ==
  overruns = 0 =>
    /\ Apart(turn)
    /\ \A r \in Runners : turn[r].work # "none" =>
         RunSole(turn[r], job[turn[r].on], anchor[turn[r].on])
    /\ \A d \in Decisions : RowSealed(job[d], anchor[d], chain[d])

LEMMA SealedIsSealed == SealedInv => JournalIsSealed
BY DEF SealedInv, RowSealed, JournalIsSealed

LEMMA SealedInit == SchedulerInit => SealedInv
<1> SUFFICES ASSUME SchedulerInit PROVE SealedInv
  OBVIOUS
<1>1. \A r \in Runners : turn[r].work = "none"
  BY DEF SchedulerInit, IdleTurn
<1>2. ASSUME NEW d \in Decisions
      PROVE  RowSealed(job[d], anchor[d], chain[d])
  <2>1. anchor[d].state = "none" /\ chain[d].evidence = 0
    BY DEF SchedulerInit, NoRecords
  <2> QED
    BY <2>1 DEF RowSealed
<1> QED
  BY <1>1, <1>2 DEF SealedInv, Apart

\* The states at work differ from those that are ready, and from each other.
LEMMA WorkingIsApart ==
  /\ \A k \in Phases : Working[k] # "none" /\ Working[k] # "pending"
                       /\ (Working[k] = "attesting" => k = "attest")
                       /\ Failed[k] \notin {"none", "pending", "attesting"}
  /\ \A k \in Phases, w \in Phases : Working[w] \notin Ready[k]
  /\ \A k \in Phases : \A s \in Ready[k] :
       s # "none" /\ (s \in {"pending", "attesting"} => k = "attest")
  /\ \A k \in Phases : \A a \in DOMAIN Reached[k] :
       Reached[k][a] \notin {"none", "pending", "attesting"}
<1>1. \A k \in Phases : Working[k] # "none" /\ Working[k] # "pending"
                       /\ (Working[k] = "attesting" => k = "attest")
                       /\ Failed[k] \notin {"none", "pending", "attesting"}
  BY DEF Phases, Working, Failed
<1>2. \A k \in Phases, w \in Phases : Working[w] \notin Ready[k]
  BY DEF Phases, Working, Ready
<1>3. \A k \in Phases : \A s \in Ready[k] :
        s # "none" /\ (s \in {"pending", "attesting"} => k = "attest")
  BY DEF Phases, Ready
<1>4. ASSUME NEW k \in Phases, NEW a \in DOMAIN Reached[k]
      PROVE  Reached[k][a] \notin {"none", "pending", "attesting"}
  <2>1. CASE k \in {"attest", "publish", "validate", "quality"}
    BY <2>1 DEF Reached
  <2>2. CASE k \in {"eligibility", "plan", "authorize", "simulate", "permit"}
    BY <2>2 DEF Reached
  <2> QED
    BY <2>1, <2>2 DEF Phases
<1> QED
  BY <1>1, <1>2, <1>3, <1>4

LEMMA EndsApart ==
  ASSUME SchedulerInv, NEW r \in Runners, turn' = [turn EXCEPT ![r] = IdleTurn], Apart(turn)
  PROVE  Apart(turn')
BY TurnEnds DEF Apart

\* A row is taken; who held it does not any more.
LEMMA TakesApart ==
  ASSUME SchedulerInv, NEW r \in Runners, NEW d \in Decisions,
         NEW work \in Phases \cup JobWork, NEW n \in 0 .. PhaseAttempts, NEW g \in Nat,
         Take(r, work, d, n, g), Apart(turn)
  PROVE  /\ Apart(turn')
         /\ turn'[r] = [work |-> work, on |-> d, answer |-> "none", attempts |-> n,
                        signature |-> g, owns |-> TRUE]
         /\ \A t \in Runners \ {r} :
              /\ turn'[t].work = turn[t].work /\ turn'[t].on = turn[t].on
              /\ turn'[t].owns => turn[t].owns
              /\ ~(turn[t].on = d /\ (turn[t].work \in JobWork <=> work \in JobWork))
                   => turn'[t] = turn[t]
<1>1. turn'[r] = [work |-> work, on |-> d, answer |-> "none", attempts |-> n,
                  signature |-> g, owns |-> TRUE]
  BY TurnTakes
<1>2. turn'[r].work = work /\ turn'[r].on = d
  BY <1>1
<1>3. ASSUME NEW t \in Runners \ {r}
      PROVE  /\ turn'[t].work = turn[t].work /\ turn'[t].on = turn[t].on
             /\ turn'[t].owns => turn[t].owns
             /\ turn[t].on = d /\ (turn[t].work \in JobWork <=> work \in JobWork)
                  => ~turn'[t].owns
             /\ ~(turn[t].on = d /\ (turn[t].work \in JobWork <=> work \in JobWork))
                  => turn'[t] = turn[t]
  <2>1. turn[t] \in Turns
    BY TypeParts DEF SchedulerInv
  <2>2. /\ [turn[t] EXCEPT !.owns = FALSE].work = turn[t].work
        /\ [turn[t] EXCEPT !.owns = FALSE].on = turn[t].on
        /\ [turn[t] EXCEPT !.owns = FALSE].owns = FALSE
    BY <2>1 DEF Turns
  <2>3. turn'[t] = IF turn[t].on = d /\ (turn[t].work \in JobWork <=> work \in JobWork)
                   THEN [turn[t] EXCEPT !.owns = FALSE] ELSE turn[t]
    BY DEF Take
  <2> QED
    BY <2>2, <2>3
<1>4. ASSUME NEW s \in Runners, NEW t \in Runners,
             turn'[s].work # "none", turn'[t].work # "none", turn'[s].on = turn'[t].on,
             turn'[s].owns, turn'[t].owns,
             turn'[s].work \in JobWork <=> turn'[t].work \in JobWork
      PROVE  s = t
  <2>1. CASE s = r \/ t = r
    BY <1>2, <1>3, <1>4, <2>1
  <2>2. CASE s # r /\ t # r
    <3>1. /\ turn'[s].work = turn[s].work /\ turn'[s].on = turn[s].on /\ turn[s].owns
          /\ turn'[t].work = turn[t].work /\ turn'[t].on = turn[t].on /\ turn[t].owns
      BY <1>3, <1>4, <2>2
    <3> QED
      BY <1>4, <3>1 DEF Apart
  <2> QED
    BY <2>1, <2>2
<1>5. Apart(turn')
  BY <1>4 DEF Apart
<1> QED
  BY <1>1, <1>3, <1>5

LEMMA PhasesDiffer ==
  \A k \in Phases, w \in Phases : Working[k] = Working[w] => k = w
<1>1. \A w \in Phases : Working["attest"] = Working[w] => "attest" = w
  BY DEF Phases, Working
<1>2. \A w \in Phases : Working["publish"] = Working[w] => "publish" = w
  BY DEF Phases, Working
<1>3. \A w \in Phases : Working["validate"] = Working[w] => "validate" = w
  BY DEF Phases, Working
<1>4. \A w \in Phases : Working["quality"] = Working[w] => "quality" = w
  BY DEF Phases, Working
<1>5. \A w \in Phases : Working["eligibility"] = Working[w] => "eligibility" = w
  BY DEF Phases, Working
<1>6. \A w \in Phases : Working["plan"] = Working[w] => "plan" = w
  BY DEF Phases, Working
<1>7. \A w \in Phases : Working["authorize"] = Working[w] => "authorize" = w
  BY DEF Phases, Working
<1>8. \A w \in Phases : Working["simulate"] = Working[w] => "simulate" = w
  BY DEF Phases, Working
<1>9. \A w \in Phases : Working["permit"] = Working[w] => "permit" = w
  BY DEF Phases, Working
<1>10. Phases = {"attest", "publish", "validate", "quality", "eligibility",
                 "plan", "authorize", "simulate", "permit"}
  BY DEF Phases
<1> QED
  BY ONLY <1>1, <1>2, <1>3, <1>4, <1>5, <1>6, <1>7, <1>8, <1>9, <1>10, ZenonT(60)

\* A claim writes the state, the lease and the attempts.
LEMMA ClaimKeeps ==
  ASSUME SchedulerInv, NEW r \in Runners, NEW d \in Decisions, NEW k \in Phases,
         ClaimPhase(k, r, d)
  PROVE  /\ anchor'[d].evidence = anchor[d].evidence
         /\ anchor'[d].signature = anchor[d].signature
         /\ anchor'[d].state \in {Working[k], Failed[k]}
         /\ \/ UNCHANGED turn
            \/ /\ ~AttemptsSpent(k, d)
               /\ anchor'[d].state = Working[k] /\ anchor'[d].lease = "held"
               /\ Take(r, k, d, anchor[d].attempts[k] + 1, anchor[d].signature)
<1>1. anchor \in [Decisions -> AnchorRows] /\ anchor[d] \in AnchorRows
  BY TypeParts DEF SchedulerInv
<1>2. CASE /\ UNCHANGED turn
           /\ anchor' = [anchor EXCEPT ![d].state = Failed[k], ![d].lease = "none"]
  BY <1>1, <1>2 DEF AnchorRows
<1>3. CASE /\ ~AttemptsSpent(k, d)
           /\ anchor' = [anchor EXCEPT ![d].state = Working[k], ![d].lease = "held",
                                       ![d].attempts[k] = @ + 1]
           /\ Take(r, k, d, anchor[d].attempts[k] + 1, anchor[d].signature)
  <2> DEFINE more == [anchor[d].attempts EXCEPT ![k] = @ + 1]
  <2>1. anchor' = [anchor EXCEPT ![d] = [anchor[d] EXCEPT !.state = Working[k], !.lease = "held",
                                                          !.attempts = more]]
    BY <1>1, <1>3 DEF AnchorRows
  <2> HIDE DEF more
  <2>2. anchor'[d] = [anchor[d] EXCEPT !.state = Working[k], !.lease = "held", !.attempts = more]
    BY <1>1, <2>1
  <2>3. /\ anchor'[d].state = Working[k] /\ anchor'[d].lease = "held"
        /\ anchor'[d].evidence = anchor[d].evidence
        /\ anchor'[d].signature = anchor[d].signature
    BY <1>1, <2>2, SMTT(30) DEF AnchorRows
  <2> QED
    BY <1>3, <2>3
<1> QED
  BY <1>2, <1>3 DEF ClaimPhase

\* A run of a phase writes what came of it and comes to rest.
LEMMA PhaseEndsSealed ==
  ASSUME SchedulerInv, SealedInv, NEW r \in Runners, turn[r].work \in Phases,
         NEW row, UNCHANGED <<chain, job, overruns>>,
         turn' = [turn EXCEPT ![r] = IdleTurn],
         anchor' = [anchor EXCEPT ![turn[r].on] = row],
         overruns = 0 =>
           LET d == turn[r].on IN
           /\ row.state # "none" /\ row.evidence = anchor[d].evidence
           /\ row.state \in {"pending", "attesting"} => chain[d].evidence = 0
           /\ chain[d].evidence \in {0, row.signature}
  PROVE  SealedInv'
<1> DEFINE d == turn[r].on
<1>1. /\ anchor \in [Decisions -> AnchorRows] /\ turn[r].work # "none" /\ turn[r].work \notin JobWork
      /\ \A t \in Runners : turn[t].work # "none" => turn[t].on \in Decisions
      /\ turn \in [Runners -> Turns]
  BY TypeParts, JobIsNoPhase DEF SchedulerInv
<1>2. SUFFICES ASSUME overruns = 0
               PROVE  /\ Apart(turn')
                      /\ \A t \in Runners : turn'[t].work # "none" =>
                           RunSole(turn'[t], job'[turn'[t].on], anchor'[turn'[t].on])
                      /\ \A e \in Decisions : RowSealed(job'[e], anchor'[e], chain'[e])
  BY DEF SealedInv
<1>3. /\ Apart(turn)
      /\ \A t \in Runners : turn[t].work # "none" =>
           RunSole(turn[t], job[turn[t].on], anchor[turn[t].on])
      /\ \A e \in Decisions : RowSealed(job[e], anchor[e], chain[e])
  BY <1>2 DEF SealedInv
<1>4. /\ d \in Decisions /\ RunSole(turn[r], job[d], anchor[d]) /\ RowSealed(job[d], anchor[d], chain[d])
      /\ anchor'[d] = row /\ \A e \in Decisions \ {d} : anchor'[e] = anchor[e]
  BY <1>1, <1>3
<1>5. Apart(turn')
  BY <1>3, EndsApart
<1>6. RowSealed(job'[d], anchor'[d], chain'[d])
  <2>1. anchor[d].state # "none"
    BY <1>4, WorkingIsApart DEF RunSole
  <2> QED
    BY <1>2, <1>4, <2>1 DEF RowSealed
<1>7. ASSUME NEW t \in Runners, turn'[t].work # "none"
      PROVE  RunSole(turn'[t], job'[turn'[t].on], anchor'[turn'[t].on])
  <2>1. t # r /\ turn'[t] = turn[t]
    BY <1>7, TurnEnds
  <2>2. turn[t].on \in Decisions /\ RunSole(turn[t], job[turn[t].on], anchor[turn[t].on])
    BY <1>1, <1>3, <1>7, <2>1
  <2>3. CASE turn[t].on # d
    BY <1>4, <2>1, <2>2, <2>3
  <2>4. CASE turn[t].on = d
    <3>1. turn[t].work \in JobWork
      <4>1. turn[r].owns /\ turn[t].work # "none"
        BY <1>4, <1>7, <2>1 DEF RunSole
      <4>2. ASSUME turn[t].work \notin JobWork PROVE turn[t].owns
        BY <1>1, <2>2, <4>1, <4>2 DEF RunSole, Turns
      <4> QED
        BY <1>1, <1>3, <2>1, <2>4, <4>1, <4>2 DEF Apart
    <3>2. turn[t].work \notin Phases /\ turn[t].work # "publish"
      BY <3>1, JobIsNoPhase
    <3>3. job'[turn[t].on] = job[turn[t].on]
      OBVIOUS
    <3> QED
      BY <2>1, <2>2, <3>1, <3>2, <3>3 DEF RunSole
  <2> QED
    BY <2>3, <2>4
<1> QED
  BY <1>3, <1>4, <1>5, <1>6, <1>7

LEMMA SealedStep ==
  ASSUME SchedulerInv, SealedInv, [SchedulerNext]_schedulerVars
  PROVE  SealedInv'
<1> DEFINE RunsSole == \A t \in Runners : turn'[t].work # "none" =>
                         RunSole(turn'[t], job'[turn'[t].on], anchor'[turn'[t].on])
           RowsSealed == \A e \in Decisions : RowSealed(job'[e], anchor'[e], chain'[e])
<1>0. /\ chain \in [Decisions -> ChainRecords] /\ job \in [Decisions -> JobRows]
      /\ anchor \in [Decisions -> AnchorRows] /\ turn \in [Runners -> Turns]
      /\ overruns \in Nat
      /\ \A t \in Runners : turn[t].work # "none" => turn[t].on \in Decisions
  BY TypeParts, SchedulerBounds DEF SchedulerInv
<1>s. ASSUME overruns = 0
      PROVE  /\ Apart(turn)
             /\ \A t \in Runners : turn[t].work # "none" =>
                  RunSole(turn[t], job[turn[t].on], anchor[turn[t].on])
             /\ \A e \in Decisions : RowSealed(job[e], anchor[e], chain[e])
  BY <1>s DEF SealedInv
<1>q. ASSUME UNCHANGED overruns, overruns = 0 => Apart(turn') /\ RunsSole /\ RowsSealed
      PROVE  SealedInv'
  BY <1>q DEF SealedInv
<1>w. ASSUME NEW d \in Decisions, anchor[d].state # "none", ~job[d].joined, overruns = 0
      PROVE  job[d].state = "completed"
  BY <1>s, <1>w DEF RowSealed
<1>1. ASSUME NEW d \in Decisions, Schedule(d) \/ Resume(d)
      PROVE  SealedInv'
  <2>1. /\ job[d].state \in {"none", "stopped"} /\ \A e \in Decisions \ {d} : job'[e] = job[e]
        /\ UNCHANGED <<chain, anchor, turn, overruns>>
    BY <1>0, <1>1 DEF Schedule, Resume
  <2>3. job'[d].joined = job[d].joined
    BY <1>0, <1>1 DEF Schedule, Resume, JobRows
  <2>2. ASSUME overruns = 0
        PROVE  Apart(turn') /\ RunsSole /\ RowsSealed
    <3>1. anchor[d].state = "none" \/ job[d].joined
      BY <1>w, <2>1, <2>2
    <3>2. ASSUME NEW t \in Runners, turn'[t].work # "none"
          PROVE  RunSole(turn'[t], job'[turn'[t].on], anchor'[turn'[t].on])
      <4>1. turn[t].on \in Decisions /\ RunSole(turn[t], job[turn[t].on], anchor[turn[t].on])
        BY <1>0, <1>s, <2>1, <2>2, <3>2
      <4>2. CASE turn[t].on # d
        BY <2>1, <4>1, <4>2
      <4>3. CASE turn[t].on = d
        BY <2>1, <2>3, <4>1, <4>3 DEF RunSole
      <4> QED
        BY <4>2, <4>3
    <3>3. ASSUME NEW e \in Decisions
          PROVE  RowSealed(job'[e], anchor'[e], chain'[e])
      BY <1>s, <2>1, <2>2, <2>3, <3>1 DEF RowSealed
    <3> QED
      BY <1>s, <2>1, <2>2, <3>2, <3>3
  <2> QED
    BY <1>q, <2>1, <2>2
<1>2. ASSUME NEW d \in Decisions, LeaseEnds(d)
      PROVE  SealedInv'
  <2>1. UNCHANGED <<chain, turn, overruns>>
    BY <1>2 DEF LeaseEnds
  <2>2. CASE /\ ~Owned("job", d) /\ job' = [job EXCEPT ![d].lease = "ended"] /\ UNCHANGED anchor
    <3>1. /\ job'[d].state = job[d].state /\ job'[d].events = job[d].events
          /\ job'[d].joined = job[d].joined
          /\ \A e \in Decisions \ {d} : job'[e] = job[e]
      BY <1>0, <2>2 DEF JobRows
    <3>2. ASSUME overruns = 0
          PROVE  Apart(turn') /\ RunsSole /\ RowsSealed
      <4>1. ASSUME NEW t \in Runners, turn'[t].work # "none"
            PROVE  RunSole(turn'[t], job'[turn'[t].on], anchor'[turn'[t].on])
        <5>1. turn[t].on \in Decisions /\ RunSole(turn[t], job[turn[t].on], anchor[turn[t].on])
          BY <1>0, <1>s, <2>1, <3>2, <4>1
        <5>2. turn[t].work \in JobWork /\ turn[t].on = d => ~turn[t].owns
          BY <2>2, JobIsNoPhase DEF Owned
        <5>3. CASE turn[t].on # d
          BY <2>1, <2>2, <3>1, <5>1, <5>3
        <5>4. CASE turn[t].on = d
          BY <2>1, <2>2, <3>1, <5>1, <5>2, <5>4 DEF RunSole
        <5> QED
          BY <5>3, <5>4
      <4>2. RowsSealed
        BY <1>s, <2>1, <2>2, <3>1, <3>2 DEF RowSealed
      <4> QED
        BY <1>s, <2>1, <3>2, <4>1, <4>2
    <3> QED
      BY <1>q, <2>1, <3>2
  <2>3. CASE /\ ~Owned("anchor", d) /\ anchor' = [anchor EXCEPT ![d].lease = "ended"]
             /\ UNCHANGED job
    <3>1. /\ anchor'[d].state = anchor[d].state /\ anchor'[d].evidence = anchor[d].evidence
          /\ anchor'[d].signature = anchor[d].signature
          /\ \A e \in Decisions \ {d} : anchor'[e] = anchor[e]
      BY <1>0, <2>3 DEF AnchorRows
    <3>2. ASSUME overruns = 0
          PROVE  Apart(turn') /\ RunsSole /\ RowsSealed
      <4>1. ASSUME NEW t \in Runners, turn'[t].work # "none"
            PROVE  RunSole(turn'[t], job'[turn'[t].on], anchor'[turn'[t].on])
        <5>1. turn[t].on \in Decisions /\ RunSole(turn[t], job[turn[t].on], anchor[turn[t].on])
          BY <1>0, <1>s, <2>1, <3>2, <4>1
        <5>2. turn[t].work \in Phases => turn[t].on # d
          BY <2>3, <5>1, JobIsNoPhase, "anchor" \notin JobWork DEF RunSole, Owned, JobWork
        <5>3. "publish" \in Phases
          BY DEF Phases
        <5> QED
          BY <2>1, <2>3, <3>1, <5>1, <5>2, <5>3 DEF RunSole
      <4>2. RowsSealed
        BY <1>s, <2>1, <2>3, <3>1, <3>2 DEF RowSealed
      <4> QED
        BY <1>s, <2>1, <3>2, <4>1, <4>2
    <3> QED
      BY <1>q, <2>1, <3>2
  <2> QED
    BY <1>2, <2>2, <2>3 DEF LeaseEnds
<1>3. ASSUME NEW d \in Decisions, ServiceTime(d)
      PROVE  SealedInv'
  <2>1. UNCHANGED <<job, anchor, turn, overruns>> /\ \A e \in Decisions : chain'[e].evidence = chain[e].evidence
    BY <1>0, <1>3, ServiceTimeMoves
  <2>2. ASSUME overruns = 0
        PROVE  Apart(turn') /\ RunsSole /\ RowsSealed
    BY <1>s, <2>1, <2>2 DEF RowSealed
  <2> QED
    BY <1>q, <2>1, <2>2
<1>4. ASSUME NEW r \in Runners, NEW d \in Decisions, ClaimOne(r, d)
      PROVE  SealedInv'
  <2>1. /\ UNCHANGED <<chain, anchor, overruns>> /\ turn[r] = IdleTurn
        /\ job[d].state # "completed"
        /\ ~(job[d].state = "running" /\ job[d].lease = "held")
        /\ \A e \in Decisions \ {d} : job'[e] = job[e]
    BY <1>0, <1>4 DEF ClaimOne, JobIsDue
  <2>2. job'[d].joined = job[d].joined
    BY <1>0, <1>4 DEF ClaimOne, JobRows
  <2>3. ASSUME overruns = 0
        PROVE  Apart(turn') /\ RunsSole /\ RowsSealed
    <3>1. anchor[d].state = "none" \/ job[d].joined
      BY <1>w, <2>1, <2>3
    <3>2. RowsSealed
      BY <1>s, <2>1, <2>2, <2>3, <3>1 DEF RowSealed
    <3>3. ASSUME NEW t \in Runners, turn[t].work # "none"
          PROVE  /\ turn[t].on \in Decisions
                 /\ RunSole(turn[t], job[turn[t].on], anchor[turn[t].on])
                 /\ turn[t].on = d /\ turn[t].work \in JobWork /\ ~job[d].joined
                      => ~turn[t].owns /\ turn[t].work # "job"
      <4>1. turn[t].on \in Decisions /\ RunSole(turn[t], job[turn[t].on], anchor[turn[t].on])
        BY <1>0, <1>s, <2>3, <3>3
      <4> QED
        BY <2>1, <4>1 DEF RunSole
    <3>4. ASSUME NEW t \in Runners \ {r}, turn[t].work # "none",
                 turn'[t].work = turn[t].work, turn'[t].on = turn[t].on,
                 turn'[t].owns => turn[t].owns,
                 ~(turn[t].on = d /\ turn[t].work \in JobWork) => turn'[t] = turn[t]
          PROVE  RunSole(turn'[t], job'[turn'[t].on], anchor'[turn'[t].on])
      <4>1. CASE turn[t].on # d
        BY <2>1, <3>3, <3>4, <4>1
      <4>2. CASE turn[t].on = d /\ turn[t].work \notin JobWork
        <5>1. RunSole(turn[t], job[d], anchor[d]) /\ turn'[t] = turn[t]
          BY <3>3, <3>4, <4>2
        <5> QED
          BY <2>1, <4>2, <5>1 DEF RunSole
      <4>3. CASE turn[t].on = d /\ turn[t].work \in JobWork
        <5>1. turn[t].work \notin Phases /\ turn[t].work # "publish"
          BY <4>3, JobIsNoPhase
        <5> QED
          BY <2>2, <3>3, <3>4, <4>3, <5>1 DEF RunSole
      <4> QED
        BY <4>1, <4>2, <4>3
    <3>5. CASE turn' = [turn EXCEPT ![r] = [IdleTurn EXCEPT !.work = "claimed", !.on = d]]
      <4>1. /\ turn'[r].work = "claimed" /\ turn'[r].on = d /\ ~turn'[r].owns
            /\ \A t \in Runners \ {r} : turn'[t] = turn[t]
        BY <3>5, StopsAndReads
      <4>2. Apart(turn')
        BY <1>s, <2>3, <4>1 DEF Apart
      <4>3. RunSole(turn'[r], job'[turn'[r].on], anchor'[turn'[r].on])
        BY <4>1 DEF RunSole, Phases
      <4> QED
        BY <3>2, <3>4, <4>1, <4>2, <4>3
    <3>6. CASE /\ Take(r, "claimed", d, 0, 0)
               /\ job' = [job EXCEPT ![d].state = "running", ![d].lease = "held",
                                     ![d].attempts = @ + 1, ![d].events = @ + 1]
      <4>1. 0 \in 0 .. PhaseAttempts /\ "claimed" \in Phases \cup JobWork /\ 0 \in Nat
            /\ "claimed" \in JobWork
        BY SchedulerBounds, JobIsNoPhase
      <4>2. Apart(turn)
        BY <1>s, <2>3
      <4>3. /\ Apart(turn')
            /\ turn'[r] = [work |-> "claimed", on |-> d, answer |-> "none", attempts |-> 0,
                           signature |-> 0, owns |-> TRUE]
            /\ \A t \in Runners \ {r} :
                 /\ turn'[t].work = turn[t].work /\ turn'[t].on = turn[t].on
                 /\ turn'[t].owns => turn[t].owns
                 /\ ~(turn[t].on = d /\ turn[t].work \in JobWork) => turn'[t] = turn[t]
        <5>1. Take(r, "claimed", d, 0, 0)
          BY <3>6
        <5> QED
          BY <4>1, <4>2, <5>1, TakesApart
      <4>4. job'[d].state = "running" /\ job'[d].lease = "held"
        BY <1>0, <3>6 DEF JobRows
      <4>5. RunSole(turn'[r], job'[turn'[r].on], anchor'[turn'[r].on])
        BY <4>3, <4>4 DEF RunSole, Phases
      <4>6. RunsSole
        BY <3>4, <4>3, <4>5
      <4> QED
        BY <3>2, <4>3, <4>6
    <3> QED
      BY <1>4, <3>5, <3>6 DEF ClaimOne
  <2> QED
    BY <1>q, <2>1, <2>3

<1>5. ASSUME NEW r \in Runners, NEW d \in Decisions, NEW k \in Phases, ClaimPhase(k, r, d)
      PROVE  SealedInv'
  <2>1. /\ UNCHANGED <<chain, job, overruns>> /\ turn[r] = IdleTurn /\ AnchorIsDue(k, d)
        /\ \A e \in Decisions \ {d} : anchor'[e] = anchor[e]
    BY <1>0, <1>5 DEF ClaimPhase
  <2>2. /\ anchor[d].state # "none"
        /\ anchor[d].state \in {"pending", "attesting"} => k = "attest"
        /\ \A w \in Phases : ~(anchor[d].state = Working[w] /\ anchor[d].lease = "held")
    BY <2>1, WorkingIsApart, PhasesDiffer DEF AnchorIsDue
  <2>3. anchor'[d].evidence = anchor[d].evidence /\ anchor'[d].signature = anchor[d].signature
    BY <1>0, <1>5, ClaimKeeps
  <2>4. anchor'[d].state \in {Working[k], Failed[k]}
    BY <1>0, <1>5, ClaimKeeps
  <2>5. ASSUME overruns = 0
        PROVE  Apart(turn') /\ RunsSole /\ RowsSealed
    <3>1. anchor'[d].state # "none" /\ (anchor'[d].state \in {"pending", "attesting"} => k = "attest")
      BY <2>4, WorkingIsApart
    <3>2. k = "attest" => anchor[d].state \in {"pending", "attesting"}
      BY <2>1 DEF AnchorIsDue, Ready, Working
    <3>3. RowsSealed
      <4>1. RowSealed(job'[d], anchor'[d], chain'[d])
        <5>1. RowSealed(job[d], anchor[d], chain[d])
          BY <1>s, <2>5
        <5> QED
          BY <2>1, <2>2, <2>3, <3>1, <3>2, <5>1 DEF RowSealed
      <4> QED
        BY <1>s, <2>1, <2>5, <4>1
    <3>4. ASSUME NEW t \in Runners, turn[t].work # "none"
          PROVE  /\ turn[t].on = d => turn[t].work \in JobWork
                 /\ RunSole(turn[t], job'[turn[t].on], anchor'[turn[t].on])
      <4>1. turn[t].on \in Decisions /\ RunSole(turn[t], job[turn[t].on], anchor[turn[t].on])
        BY <1>0, <1>s, <2>5, <3>4
      <4>2. turn[t].work \in Phases => turn[t].on # d
        BY <2>2, <4>1 DEF RunSole
      <4>3. turn[t].work \in Phases \cup JobWork
        BY <1>0, <3>4 DEF Turns
      <4>4. JobWork \cap Phases = {}
        BY JobIsNoPhase
      <4>5. CASE turn[t].on # d
        BY <2>1, <4>1, <4>5
      <4>6. CASE turn[t].on = d
        <5>1. /\ turn[t].work \in JobWork /\ turn[t].work # "publish"
              /\ turn[t].work \notin Phases
          BY <4>2, <4>3, <4>4, <4>6, JobIsNoPhase
        <5>2. job'[turn[t].on] = job[turn[t].on]
          BY <2>1
        <5> QED
          BY <4>1, <5>1, <5>2 DEF RunSole
      <4> QED
        BY <4>5, <4>6, <4>2, <4>3
    <3>5. CASE UNCHANGED turn
      BY <1>s, <2>5, <3>3, <3>4, <3>5
    <3>6. CASE Take(r, k, d, anchor[d].attempts[k] + 1, anchor[d].signature)
               /\ anchor'[d].state = Working[k] /\ anchor'[d].lease = "held"
               /\ ~AttemptsSpent(k, d)
      <4> DEFINE n == anchor[d].attempts[k] + 1
                 g == anchor[d].signature
      <4>1. n \in 0 .. PhaseAttempts /\ g \in Nat
        <5>1. anchor[d].attempts[k] \in 0 .. PhaseAttempts /\ g \in Nat
          BY <1>0 DEF AnchorRows
        <5>2. PhaseAttempts \in Nat
          BY SchedulerBounds
        <5> QED
          BY <3>6, <5>1, <5>2 DEF AttemptsSpent
      <4>2. k \notin JobWork
        BY JobIsNoPhase
      <4>3. \A t \in Runners : turn[t].work # "none" /\ turn[t].on = d
              => ~(turn[t].work \in JobWork <=> k \in JobWork)
        BY <3>4, <4>2
      <4>4. Take(r, k, d, n, g)
        BY <3>6
      <4> HIDE DEF n
      <4>9. Apart(turn)
        BY <1>s, <2>5
      <4>5. Apart(turn') /\ \A t \in Runners \ {r} : turn'[t].work # "none" => turn'[t] = turn[t]
        <5>1. /\ Apart(turn')
              /\ \A t \in Runners \ {r} :
                   /\ turn'[t].work = turn[t].work
                   /\ ~(turn[t].on = d /\ (turn[t].work \in JobWork <=> k \in JobWork))
                        => turn'[t] = turn[t]
          <6> HIDE DEF g
          <6>1. k \in Phases \cup JobWork
            OBVIOUS
          <6> QED
            BY <4>1, <4>4, <4>9, <6>1, TakesApart
        <5> QED
          BY <4>3, <5>1
      <4>6. turn'[r] = [work |-> k, on |-> d, answer |-> "none", attempts |-> n,
                        signature |-> g, owns |-> TRUE]
        BY <4>1, <4>4, TurnTakes
      <4>7. RunSole(turn'[r], job'[turn'[r].on], anchor'[turn'[r].on])
        BY <2>3, <3>6, <4>2, <4>6 DEF RunSole
      <4>8. RunsSole
        BY <3>4, <4>5, <4>7
      <4> QED
        BY <3>3, <4>5, <4>8
    <3>7. \/ UNCHANGED turn
          \/ /\ ~AttemptsSpent(k, d) /\ anchor'[d].state = Working[k] /\ anchor'[d].lease = "held"
             /\ Take(r, k, d, anchor[d].attempts[k] + 1, anchor[d].signature)
      BY <1>0, <1>5, ClaimKeeps
    <3> QED
      BY <3>5, <3>6, <3>7
  <2> QED
    BY <1>q, <2>1, <2>5
<1>15. ASSUME NEW r \in Runners, ReadClaimed(r)
       PROVE  SealedInv'
  <2>1. ASSUME overruns = 0
        PROVE  Apart(turn') /\ RunsSole /\ RowsSealed
    <3>1. Apart(turn')
      BY <1>s, <1>15, <2>1, ReadingKeeps, IdleTurnTyped, JobIsNoPhase DEF Apart
    <3>2. RowsSealed
      BY <1>s, <1>15, <2>1, ReadingKeeps DEF RowSealed
    <3>3. ASSUME NEW t \in Runners, turn'[t].work # "none"
          PROVE  RunSole(turn'[t], job'[turn'[t].on], anchor'[turn'[t].on])
      <4>1. /\ turn[t].work # "none" /\ turn'[t].on = turn[t].on
            /\ turn[t].on \in Decisions
            /\ RunSole(turn[t], job[turn[t].on], anchor[turn[t].on])
        BY <1>0, <1>s, <1>15, <2>1, <3>3, ReadingKeeps, IdleTurnTyped
      <4>2. /\ job'[turn[t].on].state = job[turn[t].on].state
            /\ job'[turn[t].on].lease = job[turn[t].on].lease
            /\ job[turn[t].on].joined => job'[turn[t].on].joined
            /\ UNCHANGED anchor
        BY <1>15, <4>1, ReadingKeeps
      <4>3. CASE t # r
        BY <1>15, <4>1, <4>2, <4>3, ReadingKeeps DEF RunSole
      <4>4. CASE t = r
        <5>1. /\ turn'[r].work = "job" /\ turn'[r].owns = turn[r].owns
              /\ ~turn[r].owns => job'[turn[r].on].joined
              /\ turn[r].work \in JobWork
          BY <1>15, <3>3, <4>4, ReadingKeeps, IdleTurnTyped, JobIsNoPhase
        <5>2. "job" \notin Phases /\ "job" # "publish"
          BY JobIsNoPhase
        <5> QED
          BY <4>1, <4>2, <4>4, <5>1, <5>2 DEF RunSole
      <4> QED
        BY <4>3, <4>4
    <3> QED
      BY <3>1, <3>2, <3>3
  <2> QED
    BY <1>15, <1>q, <2>1, ReadingKeeps
<1>6. ASSUME NEW r \in Runners, JobEnds(r)
      PROVE  SealedInv'
  <2> DEFINE d == turn[r].on
  <2>1. JobEnds(r)
    BY <1>6
  <2>2. /\ turn[r].work = "job" /\ d \in Decisions
        /\ turn' = [turn EXCEPT ![r] = IdleTurn] /\ UNCHANGED <<chain, overruns>>
    BY <1>0, <2>1 DEF JobEnds
  <2>3. PICK s \in {"waiting", "stopped", "completed"},
             e \in {"none", "maximum_attempts_reached", "other"} :
          /\ job' = [job EXCEPT ![d].state = s, ![d].lease = "none", ![d].error = e,
                                ![d].events = @ + 1]
          /\ \/ UNCHANGED anchor
             \/ /\ s = "completed" /\ anchor[d].state = "none"
                /\ anchor' = [anchor EXCEPT ![d].state = "pending",
                                            ![d].evidence = job[d].events + 1]
          /\ s = "completed" => anchor'[d].state # "none"
    BY <2>1 DEF JobEnds
  <2>4. /\ job'[d].state = s /\ job'[d].events = job[d].events + 1
        /\ job'[d].joined = job[d].joined
        /\ \A f \in Decisions \ {d} : job'[f] = job[f] /\ anchor'[f] = anchor[f]
    <3> HIDE DEF d
    <3>1. /\ job'[d].state = s /\ job'[d].events = job[d].events + 1
          /\ job'[d].joined = job[d].joined
      BY <1>0, <2>2, <2>3 DEF JobRows
    <3>2. \A f \in Decisions \ {d} : job'[f] = job[f]
      BY <1>0, <2>3
    <3>3. \A f \in Decisions \ {d} : anchor'[f] = anchor[f]
      BY <1>0, <2>3
    <3> QED
      BY <3>1, <3>2, <3>3
  <2>5. ASSUME overruns = 0
        PROVE  Apart(turn') /\ RunsSole /\ RowsSealed
    <3>1. RunSole(turn[r], job[d], anchor[d]) /\ RowSealed(job[d], anchor[d], chain[d])
      BY <1>s, <2>2, <2>5
    <3>2. ~job[d].joined =>
            /\ turn[r].owns /\ anchor[d].state = "none" /\ chain[d].evidence = 0
      <4>1. ~job[d].joined => turn[r].owns /\ job[d].state = "running"
        BY <2>2, <3>1, JobIsNoPhase, SMTT(30) DEF RunSole
      <4> QED
        BY <1>w, <2>2, <2>5, <3>1, <4>1 DEF RowSealed
    <3>3. RowSealed(job'[d], anchor'[d], chain'[d])
      <4>1. CASE UNCHANGED anchor
        <5>1. anchor'[d] = anchor[d] /\ chain'[d] = chain[d] /\ job'[d].joined = job[d].joined
          BY <2>2, <2>4, <4>1
        <5>2. anchor[d].state = "none" \/ job[d].joined
          BY <3>2
        <5>3. RowSealed(job[d], anchor[d], chain[d])
          BY <3>1
        <5> HIDE DEF d
        <5> QED
          BY <5>1, <5>2, <5>3 DEF RowSealed
      <4>2. CASE /\ s = "completed"
                 /\ anchor[d].state = "none"
                 /\ anchor' = [anchor EXCEPT ![d].state = "pending",
                                             ![d].evidence = job[d].events + 1]
        <5>1. anchor'[d].state = "pending" /\ anchor'[d].evidence = job[d].events + 1
          BY <1>0, <2>2, <4>2 DEF AnchorRows
        <5>2. chain[d].evidence = 0
          BY <3>1, <4>2 DEF RowSealed
        <5> QED
          BY <2>2, <2>4, <4>2, <5>1, <5>2 DEF RowSealed
      <4> QED
        BY <2>3, <4>1, <4>2
    <3>4. Apart(turn')
      BY <1>s, <2>2, <2>5, EndsApart
    <3>5. ASSUME NEW t \in Runners, turn'[t].work # "none"
          PROVE  RunSole(turn'[t], job'[turn'[t].on], anchor'[turn'[t].on])
      <4>1. t # r /\ turn'[t] = turn[t]
        BY <2>2, <3>5, TurnEnds
      <4>2. turn[t].on \in Decisions /\ RunSole(turn[t], job[turn[t].on], anchor[turn[t].on])
        BY <1>0, <1>s, <2>5, <3>5, <4>1
      <4>3. CASE turn[t].on # d
        BY <2>4, <4>1, <4>2, <4>3
      <4>4. CASE turn[t].on = d
        <5>1. turn[t].work \in JobWork \/ turn[t].work \in Phases
          BY <1>0, <3>5, <4>1 DEF Turns
        <5>2. CASE turn[t].work \in Phases
          <6>1. anchor[d].state = Working[turn[t].work] /\ turn[t].work \notin JobWork
            BY <4>2, <4>4, <5>2, JobIsNoPhase DEF RunSole
          <6>2. anchor' = anchor
            BY <2>3, <5>2, <6>1, WorkingIsApart
          <6> QED
            BY <4>1, <4>2, <4>4, <6>1, <6>2 DEF RunSole
        <5>3. CASE turn[t].work \in JobWork
          <6>1. turn[t].work \notin Phases /\ turn[t].work # "publish" /\ turn[r].work \in JobWork
            BY <2>2, <5>3, JobIsNoPhase
          <6>2. ~job[d].joined => ~turn[t].owns
            BY <1>s, <2>2, <2>5, <3>2, <3>5, <4>1, <4>4, <5>3, <6>1 DEF Apart
          <6> QED
            BY <2>4, <4>1, <4>2, <4>4, <6>1, <6>2 DEF RunSole
        <5> QED
          BY <5>1, <5>2, <5>3
      <4> QED
        BY <4>3, <4>4
    <3>6. RowsSealed
      BY <1>s, <2>2, <2>4, <2>5, <3>3
    <3> QED
      BY <3>4, <3>5, <3>6
  <2> QED
    BY <1>q, <2>2, <2>5
<1>7. ASSUME NEW r \in Runners, Signs(r)
      PROVE  SealedInv'
  <2>1. /\ UNCHANGED <<chain, job, anchor, overruns>> /\ turn[r].work = "attest"
        /\ \A t \in Runners : /\ turn'[t].work = turn[t].work /\ turn'[t].on = turn[t].on
                              /\ turn'[t].owns = turn[t].owns
                              /\ t # r => turn'[t] = turn[t]
    BY <1>0, <1>7 DEF Signs, Turns
  <2>2. ASSUME overruns = 0
        PROVE  Apart(turn') /\ RunsSole /\ RowsSealed
    <3>1. Apart(turn') /\ RowsSealed
      BY <1>s, <2>1, <2>2 DEF Apart
    <3>2. ASSUME NEW t \in Runners, turn'[t].work # "none"
          PROVE  RunSole(turn'[t], job'[turn'[t].on], anchor'[turn'[t].on])
      BY <1>s, <2>1, <2>2, <3>2 DEF RunSole
    <3> QED
      BY <3>1, <3>2
  <2> QED
    BY <1>q, <2>1, <2>2
<1>8. ASSUME NEW r \in Runners, NEW k \in ServicePhases,
             AskService(r, k, Responses(k, chain[turn[r].on], turn[r].signature))
      PROVE  SealedInv'
  <2> DEFINE d == turn[r].on
  <2>1. PICK row \in ChainRecords, a \in Answers :
          /\ turn[r].work = k /\ d \in Decisions
          /\ chain' = [chain EXCEPT ![d] = row]
          /\ turn' = [turn EXCEPT ![r].answer = a]
          /\ UNCHANGED <<job, anchor, overruns>>
          /\ Serves(k, chain[d], turn[r].signature, Response(row, a))
    BY <1>8, AskingServes
  <2>2. /\ \A t \in Runners : /\ turn'[t].work = turn[t].work /\ turn'[t].on = turn[t].on
                              /\ turn'[t].owns = turn[t].owns
                              /\ turn'[t].signature = turn[t].signature
        /\ chain'[d] = row /\ \A e \in Decisions \ {d} : chain'[e] = chain[e]
    BY <1>0, <2>1 DEF Turns
  <2>3. \/ row.evidence = chain[d].evidence
        \/ (k = "publish" /\ row.evidence = turn[r].signature)
    BY <2>1 DEF Serves, Response
  <2>4. ASSUME overruns = 0
        PROVE  Apart(turn') /\ RunsSole /\ RowsSealed
    <3>1. Apart(turn')
      BY <1>s, <2>2, <2>4 DEF Apart
    <3>2. RunsSole
      BY <1>s, <2>1, <2>2, <2>4 DEF RunSole
    <3>3. RunSole(turn[r], job[d], anchor[d]) /\ RowSealed(job[d], anchor[d], chain[d])
      BY <1>s, <2>1, <2>4 DEF ServicePhases, Phases
    <3>4. k = "publish" => anchor[d].state = "publishing" /\ turn[r].signature = anchor[d].signature
      BY <2>1, <3>3 DEF RunSole, Phases, Working
    <3>5. RowSealed(job'[d], anchor'[d], chain'[d])
      BY <2>1, <2>2, <2>3, <3>3, <3>4 DEF RowSealed
    <3> QED
      BY <1>s, <2>1, <2>2, <2>4, <3>1, <3>2, <3>5
  <2> QED
    BY <1>q, <2>1, <2>4
<1>a. ASSUME NEW r \in Runners, NEW k \in Phases, turn[r].work = k, overruns = 0
      PROVE  LET d == turn[r].on IN
             /\ d \in Decisions /\ anchor[d] \in AnchorRows
             /\ anchor[d].state = Working[k] /\ anchor[d].state # "none"
             /\ k = "attest" => chain[d].evidence = 0
             /\ chain[d].evidence \in {0, anchor[d].signature}
  <2>1. /\ turn[r].on \in Decisions
        /\ RunSole(turn[r], job[turn[r].on], anchor[turn[r].on])
        /\ RowSealed(job[turn[r].on], anchor[turn[r].on], chain[turn[r].on])
    BY <1>0, <1>s, <1>a DEF Phases
  <2>2. anchor[turn[r].on].state = Working[k] /\ anchor[turn[r].on].state # "none"
    BY <1>a, <2>1, WorkingIsApart DEF RunSole
  <2>3. k = "attest" => Working[k] = "attesting"
    BY DEF Working
  <2> QED
    BY <1>0, <2>1, <2>2, <2>3 DEF RowSealed
<1>9. ASSUME NEW r \in Runners, NEW k \in Phases, Advance(r, k)
      PROVE  SealedInv'
  <2> DEFINE d == turn[r].on
             answer == turn[r].answer
             g == IF k = "attest" THEN turn[r].signature ELSE anchor[d].signature
             q == IF k = "quality" /\ answer # "undeclared" THEN answer ELSE anchor[d].quality
             s == Reached[k][answer]
             row == [anchor[d] EXCEPT !.state = s, !.lease = "none", !.signature = g, !.quality = q]
  <2>1. /\ turn[r].work = k /\ UNCHANGED <<chain, job, overruns>> /\ answer \in DOMAIN Reached[k]
        /\ turn' = [turn EXCEPT ![r] = IdleTurn] /\ k # "none"
    BY <1>9 DEF Advance, Phases
  <2>2. d \in Decisions /\ anchor[d] \in AnchorRows
    BY <1>0, <2>1, SMTT(30)
  <2>3. anchor' = [anchor EXCEPT ![d] = row]
    BY <1>0, <1>9, <2>2 DEF Advance
  <2>4. s \notin {"none", "pending", "attesting"}
    BY <2>1, WorkingIsApart
  <2>5. row.state = s /\ row.evidence = anchor[d].evidence /\ row.signature = g
    <3> HIDE DEF s, g, q
    <3> QED
      BY <2>2 DEF AnchorRows
  <2>6. ASSUME overruns = 0
        PROVE  chain[d].evidence \in {0, g}
    BY <1>a, <2>1, <2>6
  <2> HIDE DEF row, s, g, q
  <2> QED
    BY <2>1, <2>3, <2>4, <2>5, <2>6, PhaseEndsSealed
<1>10. ASSUME NEW r \in Runners, NEW k \in Phases, GiveBack(r, k)
       PROVE  SealedInv'
  <2> DEFINE d == turn[r].on
  <2>1. /\ turn[r].work = k /\ UNCHANGED <<chain, job, overruns>>
        /\ turn' = [turn EXCEPT ![r] = IdleTurn] /\ k # "none"
    BY <1>10 DEF GiveBack, Phases
  <2>2. d \in Decisions /\ anchor[d] \in AnchorRows
    BY <1>0, <2>1
  <2>3. PICK s \in StatesBefore(k, anchor[d].quality) \cup {Failed[k]} :
          anchor' = [anchor EXCEPT ![d].state = s, ![d].lease = "none"]
    BY <1>10 DEF GiveBack
  <2> DEFINE row == [anchor[d] EXCEPT !.state = s, !.lease = "none"]
  <2>4. anchor' = [anchor EXCEPT ![d] = row]
    BY <1>0, <2>2, <2>3
  <2>5. /\ row.state = s /\ row.evidence = anchor[d].evidence
        /\ row.signature = anchor[d].signature
    BY <2>2 DEF AnchorRows
  <2>6. s # "none" /\ (s \in {"pending", "attesting"} => k = "attest")
    <3>1. CASE s = Failed[k]
      BY <3>1, WorkingIsApart
    <3>2. CASE s # Failed[k]
      <4>1. s \in Ready[k]
        BY <3>2 DEF StatesBefore, Ready
      <4> QED
        BY <4>1, WorkingIsApart
    <3> QED
      BY <3>1, <3>2
  <2>7. ASSUME overruns = 0
        PROVE  /\ s \in {"pending", "attesting"} => chain[d].evidence = 0
               /\ chain[d].evidence \in {0, anchor[d].signature}
    BY <1>a, <2>1, <2>6, <2>7
  <2> HIDE DEF row
  <2> QED
    BY <2>1, <2>4, <2>5, <2>6, <2>7, PhaseEndsSealed
<1>11. ASSUME NEW r \in Runners, LeaseOverrun(r)
       PROVE  SealedInv'
  <2>1. overruns' # 0
    BY <1>0, <1>11 DEF LeaseOverrun
  <2> QED
    BY <2>1 DEF SealedInv
<1>12. ASSUME NEW r \in Runners, SchedulerCrash(r)
       PROVE  SealedInv'
  <2>1. UNCHANGED <<chain, job, anchor, overruns>> /\ turn' = [turn EXCEPT ![r] = IdleTurn]
    BY <1>12 DEF SchedulerCrash
  <2>2. ASSUME overruns = 0
        PROVE  Apart(turn') /\ RunsSole /\ RowsSealed
    <3>1. Apart(turn') /\ RowsSealed
      BY <1>s, <2>1, <2>2, EndsApart
    <3>2. ASSUME NEW t \in Runners, turn'[t].work # "none"
          PROVE  RunSole(turn'[t], job'[turn'[t].on], anchor'[turn'[t].on])
      <4>1. turn'[t] = turn[t]
        BY <2>1, <3>2, TurnEnds
      <4> QED
        BY <1>s, <2>1, <2>2, <3>2, <4>1
    <3> QED
      BY <3>1, <3>2
  <2> QED
    BY <1>q, <2>1, <2>2
<1>13. CASE UNCHANGED schedulerVars
  BY <1>s, <1>q, <1>13 DEF schedulerVars
<1> QED
  BY <1>1, <1>2, <1>3, <1>4, <1>5, <1>6, <1>7, <1>8, <1>9, <1>10, <1>11, <1>12, <1>13,
     <1>15, RunClaimedEnds, StepSplits

\* buyer_agent_scheduler.py _finish, _run_anchor: as long as no lease ends under
\* its run, the journal of an anchored job never grows again, and what was
\* published is the signature on record.
THEOREM SchedulerJournalIsSealed == SchedulerSpec => []JournalIsSealed
<1>1. SchedulerInv /\ [SchedulerNext]_schedulerVars => SchedulerInv'
  BY InvStep
<1>2. SchedulerInv /\ SealedInv /\ [SchedulerNext]_schedulerVars => SealedInv'
  BY SealedStep
<1> QED
  BY <1>1, <1>2, InitTyped, SealedInit, SealedIsSealed, PTL DEF SchedulerSpec

-----------------------------------------------------------------------------
(* The action engine.  A claim comes after its action was completed, so an  *)
(* action with a claim was taken and executed once, and one that is not     *)
(* completed any more was taken again.                                      *)

QueueRows == [status : {"none", "queued", "dequeued", "completed"}, attempts : Nat,
              spent : BOOLEAN]

ThreadRows == [pc : {"idle", "busy", "select", "take", "execute", "complete", "look",
                     "insert", "release", "result", "dead"},
               action : Actions \cup {NoAction}, worker : ActionWorkers \cup {NoWorker}]

\* What is true of an action that has, had, or is about to have a claim.
Performed(a) ==
  /\ queue[a].attempts >= 1 /\ history[a] >= 1
  /\ crowd = 0 => queue[a].status = "completed" \/ queue[a].attempts >= 2

\* What a thread at each statement knows of its action.
ThreadKnows(t) ==
  /\ thread[t].pc \in {"take", "execute", "complete", "look", "insert", "release"}
     => thread[t].action \in Actions
  /\ thread[t].pc \in {"execute", "complete"} => queue[thread[t].action].attempts >= 1
  /\ thread[t].pc = "complete" => history[thread[t].action] >= 1
  /\ thread[t].pc \in {"look", "insert", "release"} => Performed(thread[t].action)

ActionsInv ==
  /\ ActionsTypeOK
  /\ \A t \in Threads : ThreadKnows(t)
  /\ \A a \in Actions : \A t \in Threads : claims[a][t] # "none" => Performed(a)
  /\ \A a \in expired : Performed(a)
  /\ RequeueFollowsOverlap

\* Attempts and executions are counted up, crowds do not thin out, and a completed
\* action stays so until it is taken or the recovery plan puts it back.
QueueMoves(a) ==
  /\ queue'[a].attempts >= queue[a].attempts
  /\ history'[a] >= history[a]
  /\ crowd' = 0 => crowd = 0
  /\ \/ queue'[a].status = queue[a].status
     \/ queue'[a].status = "completed"
     \/ queue'[a].attempts > queue[a].attempts
     \/ a \in supervisor
     \/ queue[a].status = "none"

LEMMA PerformedStays ==
  ASSUME ActionsInv, ActionsTypeOK', NEW a \in Actions, QueueMoves(a), Performed(a)
  PROVE  Performed(a)'
  <1>1. /\ queue[a] \in QueueRows /\ queue'[a] \in QueueRows
        /\ history[a] \in Nat /\ history'[a] \in Nat
    BY DEF ActionsInv, ActionsTypeOK, QueueRows
  <1>2. crowd = 0 /\ a \in supervisor => queue[a].attempts >= 2
    BY <1>1 DEF ActionsInv, RequeueFollowsOverlap, QueueRows
  <1> QED
    BY <1>1, <1>2 DEF Performed, QueueMoves, QueueRows

\* What a step has to show, beside the moves of the queue.
ThreadMoves == \A t \in Threads : thread'[t] = thread[t] \/ ThreadKnows(t)'

ClaimsMove ==
  /\ \A a \in Actions : \A t \in Threads :
       claims'[a][t] # "none" => claims[a][t] # "none" \/ Performed(a)
  /\ \A a \in expired' : a \in expired \/ \E t \in Threads : claims[a][t] # "none"

PlansMove ==
  \A a \in supervisor' \cup dlq' :
    \/ a \in supervisor \cup dlq
    \/ crowd = 0 => queue[a].attempts >= 2 /\ history[a] >= 1

LEMMA StepKeepsActions ==
  ASSUME ActionsInv, ActionsTypeOK', \A a \in Actions : QueueMoves(a),
         ThreadMoves, ClaimsMove, PlansMove
  PROVE  ActionsInv'
  <1>1. \A a \in Actions : Performed(a) => Performed(a)'
    BY PerformedStays
  <1>2. \A a \in Actions :
          /\ queue[a] \in QueueRows /\ queue'[a] \in QueueRows
          /\ history[a] \in Nat /\ history'[a] \in Nat
    BY DEF ActionsInv, ActionsTypeOK, QueueRows
  <1>3. ASSUME NEW t \in Threads PROVE ThreadKnows(t)'
    <2>1. CASE thread'[t] = thread[t]
      <3>1. thread[t].action \in Actions =>
              /\ queue[thread[t].action].attempts >= 1
                 => queue'[thread[t].action].attempts >= 1
              /\ history[thread[t].action] >= 1 => history'[thread[t].action] >= 1
        BY <1>2 DEF QueueMoves, QueueRows
      <3> QED
        BY <2>1, <3>1, <1>1 DEF ActionsInv, ThreadKnows
    <2> QED
      BY <2>1 DEF ThreadMoves
  <1>4. \A a \in Actions : \A t \in Threads : claims'[a][t] # "none" => Performed(a)'
    BY <1>1 DEF ActionsInv, ClaimsMove
  <1>5. expired' \subseteq Actions /\ supervisor' \cup dlq' \subseteq Actions
    BY DEF ActionsTypeOK
  <1>6. \A a \in expired' : Performed(a)'
    BY <1>1, <1>5 DEF ActionsInv, ClaimsMove
  <1>7. RequeueFollowsOverlap'
    <2>1. ASSUME crowd' = 0, NEW a \in supervisor' \cup dlq'
          PROVE  queue'[a].attempts > 1 /\ history'[a] > 0
      <3>1. QueueMoves(a) /\ a \in Actions
        BY <1>5
      <3>2. queue[a].attempts >= 2 /\ history[a] >= 1
        BY <2>1, <1>2, <3>1
        DEF PlansMove, ActionsInv, RequeueFollowsOverlap, QueueMoves, QueueRows
      <3> QED
        BY <3>1, <3>2, <1>2 DEF QueueMoves, QueueRows
    <2> QED
      BY <2>1 DEF RequeueFollowsOverlap
  <1> QED
    BY <1>3, <1>4, <1>6, <1>7 DEF ActionsInv

-----------------------------------------------------------------------------
(* The action engine: types.                                                *)

LEMMA ThreadsTyped ==
  ActionsTypeOK => thread \in [Threads -> ThreadRows] /\ queue \in [Actions -> QueueRows]
                   /\ NoThread \in ThreadRows
  BY DEF ActionsTypeOK, ThreadRows, QueueRows, NoThread

LEMMA ExpiryTyped ==
  ASSUME ActionsTypeOK, ExpireStaleActionClaims
  PROVE  /\ claims' \in [Actions -> [Threads -> {"none", "live", "lapsed"}]]
         /\ expired' \subseteq Actions
         /\ ClaimsMove
  BY DEF ActionsTypeOK, ExpireStaleActionClaims, ClaimsMove

\* The steps of the queue's owners, of time and of the supervisor; a statement of
\* a thread.
QueueSteps ==
  \/ \E a \in Actions :
       \/ \E spent \in BOOLEAN : EnqueueAction(a, spent)
       \/ ExecuteRecoveryPlan(a)
       \/ \E t \in Threads : LeaseLapses(a, t) \/ HeartbeatActionClaim(a, t)
  \/ \E w \in ActionWorkers : HeartbeatActionWorker(w)
  \/ QueueCrowds \/ SuperviseExpiry \/ PlanRecoveryActions

ThreadSteps(t) ==
  \/ Process(t) \/ ProcessWithoutWorker(t) \/ ThreadDies(t)
  \/ \E w \in ActionWorkers : SelectWorker(t, w)

LEMMA QueueTyped ==
  ASSUME ActionsTypeOK, QueueSteps
  PROVE  ActionsTypeOK'
  <1>1. ASSUME NEW a \in Actions, NEW spent \in BOOLEAN, EnqueueAction(a, spent)
        PROVE  ActionsTypeOK'
    <2>1. queue' \in [Actions -> QueueRows]
      BY <1>1, ThreadsTyped DEF EnqueueAction, QueueRows
    <2> QED
      BY <1>1, <2>1 DEF ActionsTypeOK, EnqueueAction, QueueRows
  <1>2. ASSUME NEW a \in Actions, ExecuteRecoveryPlan(a) PROVE ActionsTypeOK'
    <2>1. dlq' \subseteq Actions /\ supervisor' \subseteq Actions
      BY <1>2 DEF ActionsTypeOK, ExecuteRecoveryPlan
    <2>2. \/ queue' = queue /\ requeues' = requeues
          \/ /\ queue' = [queue EXCEPT ![a].status = "queued"]
             /\ requeues < MaxRequeues /\ requeues' = requeues + 1
      BY <1>2 DEF ExecuteRecoveryPlan
    <2>3. requeues' \in 0 .. MaxRequeues
      BY <2>2, ActionsAssumption DEF ActionsTypeOK
    <2>4. queue' \in [Actions -> QueueRows]
      BY <2>2, ThreadsTyped DEF QueueRows
    <2> QED
      BY <1>2, <2>1, <2>3, <2>4 DEF ActionsTypeOK, ExecuteRecoveryPlan, QueueRows
  <1>3. ASSUME NEW a \in Actions, NEW t \in Threads, LeaseLapses(a, t) PROVE ActionsTypeOK'
    BY <1>3 DEF ActionsTypeOK, LeaseLapses
  <1>4. ASSUME NEW a \in Actions, NEW t \in Threads, HeartbeatActionClaim(a, t) PROVE ActionsTypeOK'
    BY <1>4 DEF ActionsTypeOK, HeartbeatActionClaim
  <1>5. ASSUME NEW w \in ActionWorkers, HeartbeatActionWorker(w) PROVE ActionsTypeOK'
    BY <1>5 DEF ActionsTypeOK, HeartbeatActionWorker
  <1>6. CASE QueueCrowds
    BY <1>6 DEF ActionsTypeOK, QueueCrowds
  <1>7. CASE SuperviseExpiry
    BY <1>7, ExpiryTyped DEF ActionsTypeOK, SuperviseExpiry
  <1>8. CASE PlanRecoveryActions
    BY <1>8 DEF ActionsTypeOK, PlanRecoveryActions
  <1> QED
    BY <1>1, <1>2, <1>3, <1>4, <1>5, <1>6, <1>7, <1>8 DEF QueueSteps

\* A statement of a thread.
LEMMA ThreadTyped ==
  ASSUME ActionsTypeOK, NEW t \in Threads,
         ThreadSteps(t)
  PROVE  ActionsTypeOK'
  <1>0. thread \in [Threads -> ThreadRows] /\ NoThread \in ThreadRows
    BY ThreadsTyped
  <1>1. CASE MarkBusy(t)
    <2>1. thread' \in [Threads -> ThreadRows]
      BY <1>0, <1>1 DEF MarkBusy, Goes, ThreadRows
    <2>2. workers' \in [ActionWorkers -> {"idle", "busy"}]
      BY <1>1 DEF MarkBusy, ActionsTypeOK
    <2> QED
      BY <1>1, <2>1, <2>2, ExpiryTyped DEF MarkBusy, ActionsTypeOK, ThreadRows
  <1>2. CASE SelectAction(t)
    <2>1. thread' \in [Threads -> ThreadRows]
      BY <1>0, <1>2 DEF SelectAction, ThreadRows
    <2> QED
      BY <1>2, <2>1 DEF SelectAction, ActionsTypeOK, ThreadRows
  <1>3. CASE TakeAction(t)
    <2>1. thread' \in [Threads -> ThreadRows]
      BY <1>0, <1>3 DEF TakeAction, Goes, ThreadRows
    <2>2. queue' \in [Actions -> QueueRows]
      <3>1. ASSUME NEW a \in Actions
            PROVE  [queue[a] EXCEPT !.status = "dequeued", !.attempts = @ + 1] \in QueueRows
        <4>1. queue[a] \in QueueRows /\ queue[a].attempts + 1 \in Nat
          BY ThreadsTyped DEF QueueRows
        <4> QED
          BY <4>1 DEF QueueRows
      <3>2. queue' = [a \in Actions |->
                       IF a = thread[t].action
                       THEN [queue[a] EXCEPT !.status = "dequeued", !.attempts = @ + 1]
                       ELSE queue[a]]
        BY <1>3, ThreadsTyped DEF TakeAction, QueueRows
      <3> QED
        BY <3>1, <3>2, ThreadsTyped
    <2> QED
      BY <1>3, <2>1, <2>2 DEF TakeAction, ActionsTypeOK, ThreadRows, QueueRows
  <1>4. CASE ExecuteAction(t)
    <2>1. thread' \in [Threads -> ThreadRows]
      BY <1>0, <1>4 DEF ExecuteAction, Goes, ThreadRows
    <2>2. history' \in [Actions -> Nat]
      <3>1. history \in [Actions -> Nat]
        BY DEF ActionsTypeOK
      <3>2. history' = [a \in Actions |->
                         IF a = thread[t].action THEN history[a] + 1 ELSE history[a]]
        BY <1>4, <3>1 DEF ExecuteAction
      <3> QED
        BY <3>1, <3>2
    <2> QED
      BY <1>4, <2>1, <2>2 DEF ExecuteAction, ActionsTypeOK, ThreadRows
  <1>5. CASE CompleteAction(t)
    <2>1. thread' \in [Threads -> ThreadRows]
      BY <1>0, <1>5 DEF CompleteAction, Goes, ThreadRows
    <2>2. queue' \in [Actions -> QueueRows]
      BY <1>5, ThreadsTyped DEF CompleteAction, QueueRows
    <2> QED
      BY <1>5, <2>1, <2>2 DEF CompleteAction, ActionsTypeOK, ThreadRows, QueueRows
  <1>6. CASE LookForClaim(t)
    <2>1. thread' \in [Threads -> ThreadRows]
      BY <1>0, <1>6 DEF LookForClaim, Goes, ThreadRows
    <2> QED
      BY <1>6, <2>1 DEF LookForClaim, ActionsTypeOK, ThreadRows
  <1>7. CASE InsertClaim(t) \/ ReleaseClaim(t)
    <2>1. thread' \in [Threads -> ThreadRows]
      BY <1>0, <1>7 DEF InsertClaim, ReleaseClaim, Goes, ThreadRows
    <2>2. claims' \in [Actions -> [Threads -> {"none", "live", "lapsed"}]]
      <3>1. claims \in [Actions -> [Threads -> {"none", "live", "lapsed"}]]
        BY DEF ActionsTypeOK
      <3>2. PICK c \in {"live", "none"} : claims' = [claims EXCEPT ![thread[t].action][t] = c]
        BY <1>7 DEF InsertClaim, ReleaseClaim
      <3> QED
        BY <3>1, <3>2
    <2> QED
      BY <1>7, <2>1, <2>2 DEF InsertClaim, ReleaseClaim, ActionsTypeOK, ThreadRows
  <1>8. CASE MarkWorkerResult(t)
    <2>1. thread' \in [Threads -> ThreadRows]
      BY <1>0, <1>8 DEF MarkWorkerResult
    <2> QED
      BY <1>8, <2>1 DEF MarkWorkerResult, ActionsTypeOK, ThreadRows
  <1>9. CASE ProcessWithoutWorker(t)
    <2>1. thread' \in [Threads -> ThreadRows]
      BY <1>0, <1>9 DEF ProcessWithoutWorker, ThreadRows
    <2> QED
      BY <1>9, <2>1 DEF ProcessWithoutWorker, ActionsTypeOK, ThreadRows
  <1>10. CASE ThreadDies(t)
    <2>1. thread' \in [Threads -> ThreadRows]
      BY <1>0, <1>10 DEF ThreadDies, Goes, ThreadRows
    <2>2. faults' \in 0 .. MaxFaults
      BY <1>10, FaultsAssumption DEF ThreadDies, Fault, ActionsTypeOK
    <2> QED
      BY <1>10, <2>1, <2>2 DEF ThreadDies, ActionsTypeOK, ThreadRows
  <1>11. ASSUME NEW w \in ActionWorkers, SelectWorker(t, w) PROVE ActionsTypeOK'
    <2>1. thread' \in [Threads -> ThreadRows]
      BY <1>0, <1>11 DEF SelectWorker, ThreadRows
    <2> QED
      BY <1>11, <2>1 DEF SelectWorker, ActionsTypeOK, ThreadRows
  <1> QED
    BY <1>1, <1>2, <1>3, <1>4, <1>5, <1>6, <1>7, <1>8, <1>9, <1>10, <1>11
       DEF ThreadSteps, Process

-----------------------------------------------------------------------------
(* The action engine: every step keeps the invariant.                       *)

LEMMA NothingMoves ==
  ASSUME ActionsTypeOK, UNCHANGED <<queue, history, crowd>>
  PROVE  \A a \in Actions : QueueMoves(a)
  <1>1. \A a \in Actions : queue[a].attempts \in Nat /\ history[a] \in Nat
    BY ThreadsTyped DEF QueueRows, ActionsTypeOK
  <1> QED
    BY <1>1 DEF QueueMoves

LEMMA QueueStep ==
  ASSUME ActionsInv, QueueSteps
  PROVE  ActionsInv'
  <1> USE DEF ThreadMoves
  <1>0. /\ ActionsTypeOK /\ ActionsTypeOK'
        /\ queue \in [Actions -> QueueRows] /\ history \in [Actions -> Nat]
        /\ claims \in [Actions -> [Threads -> {"none", "live", "lapsed"}]]
        /\ crowd \in Nat
    BY QueueTyped, ThreadsTyped DEF ActionsInv, ActionsTypeOK
  <1>1. ASSUME NEW a \in Actions, NEW spent \in BOOLEAN, EnqueueAction(a, spent)
        PROVE  ActionsInv'
    <2>1. \A b \in Actions : QueueMoves(b)
      <3> SUFFICES ASSUME NEW b \in Actions PROVE QueueMoves(b)
        OBVIOUS
      <3>1. /\ queue[a] \in QueueRows /\ queue[b] \in QueueRows /\ history[b] \in Nat
            /\ queue[a].status = "none" /\ history' = history /\ crowd' = crowd
        BY <1>0, <1>1 DEF EnqueueAction
      <3>2. queue'[b].attempts = queue[b].attempts /\ (a # b => queue'[b] = queue[b])
        BY <1>0, <1>1, <3>1 DEF EnqueueAction, QueueRows
      <3> QED
        BY <3>1, <3>2 DEF QueueMoves, QueueRows
    <2> QED
      BY <1>0, <1>1, <2>1, StepKeepsActions DEF EnqueueAction, ClaimsMove, PlansMove
  <1>2. ASSUME NEW a \in Actions, ExecuteRecoveryPlan(a) PROVE ActionsInv'
    <2>1. \/ queue' = queue
          \/ queue' = [queue EXCEPT ![a].status = "queued"]
      BY <1>2 DEF ExecuteRecoveryPlan
    <2>2. /\ a \in supervisor /\ UNCHANGED <<claims, expired, thread, crowd, history>>
          /\ supervisor' \cup dlq' \subseteq supervisor \cup dlq
      BY <1>2 DEF ExecuteRecoveryPlan
    <2>3. \A b \in Actions : QueueMoves(b)
      <3> SUFFICES ASSUME NEW b \in Actions PROVE QueueMoves(b)
        OBVIOUS
      <3>1. queue[a] \in QueueRows /\ queue[b] \in QueueRows /\ history[b] \in Nat
        BY <1>0
      <3>2. queue'[b].attempts = queue[b].attempts /\ (a # b => queue'[b] = queue[b])
        BY <1>0, <2>1, <3>1 DEF QueueRows
      <3> QED
        BY <2>2, <3>1, <3>2 DEF QueueMoves, QueueRows
    <2> QED
      BY <1>0, <2>2, <2>3, StepKeepsActions DEF ClaimsMove, PlansMove
  <1>3. ASSUME NEW a \in Actions, NEW t \in Threads,
               LeaseLapses(a, t) \/ HeartbeatActionClaim(a, t)
        PROVE  ActionsInv'
    <2>1. \A b \in Actions : \A u \in Threads :
            claims'[b][u] # "none" => claims[b][u] # "none"
      BY <1>0, <1>3 DEF LeaseLapses, HeartbeatActionClaim
    <2> QED
      BY <1>0, <1>3, <2>1, NothingMoves, StepKeepsActions
         DEF LeaseLapses, HeartbeatActionClaim, ClaimsMove, PlansMove
  <1>4. ASSUME NEW w \in ActionWorkers, HeartbeatActionWorker(w) PROVE ActionsInv'
    BY <1>0, <1>4, NothingMoves, StepKeepsActions
       DEF HeartbeatActionWorker, ClaimsMove, PlansMove
  <1>5. CASE QueueCrowds
    <2>1. \A b \in Actions : QueueMoves(b)
      BY <1>0, <1>5 DEF QueueCrowds, QueueMoves, QueueRows
    <2> QED
      BY <1>0, <1>5, <2>1, StepKeepsActions DEF QueueCrowds, ClaimsMove, PlansMove
  <1>6. CASE SuperviseExpiry
    BY <1>0, <1>6, ExpiryTyped, NothingMoves, StepKeepsActions DEF SuperviseExpiry, PlansMove
  <1>7. CASE PlanRecoveryActions
    <2>1. ASSUME NEW b \in supervisor', crowd = 0
          PROVE  queue[b].attempts >= 2 /\ history[b] >= 1
      <3>1. b \in expired /\ queue[b].status # "completed"
        BY <1>7, <2>1 DEF PlanRecoveryActions, Recoverable
      <3> QED
        BY <2>1, <3>1 DEF ActionsInv, Performed
    <2> QED
      BY <1>0, <1>7, <2>1, NothingMoves, StepKeepsActions
         DEF PlanRecoveryActions, ClaimsMove, PlansMove
  <1> QED
    BY <1>1, <1>2, <1>3, <1>4, <1>5, <1>6, <1>7 DEF QueueSteps

\* A thread's statement changes its own row.
LEMMA OtherThreads ==
  ASSUME ActionsTypeOK, NEW t \in Threads, NEW row,
         thread' = [thread EXCEPT ![t] = row]
  PROVE  thread'[t] = row /\ \A u \in Threads : u # t => thread'[u] = thread[u]
  BY DEF ActionsTypeOK

LEMMA GoesTo ==
  ASSUME ActionsTypeOK, NEW t \in Threads, NEW pc, Goes(t, pc)
  PROVE  /\ thread'[t].pc = pc /\ thread'[t].action = thread[t].action
         /\ \A u \in Threads : u # t => thread'[u] = thread[u]
  <1> DEFINE row == [thread[t] EXCEPT !.pc = pc]
  <1>1. thread[t] \in ThreadRows /\ thread' = [thread EXCEPT ![t] = row]
    BY ThreadsTyped DEF Goes
  <1>2. row.pc = pc /\ row.action = thread[t].action
    BY <1>1 DEF ThreadRows
  <1> HIDE DEF row
  <1> QED
    BY <1>1, <1>2, OtherThreads

LEMMA ThreadStep ==
  ASSUME ActionsInv, NEW t \in Threads,
         ThreadSteps(t)
  PROVE  ActionsInv'
  <1> DEFINE a == thread[t].action
  <1>0. /\ ActionsTypeOK /\ ActionsTypeOK' /\ ThreadKnows(t)
        /\ queue \in [Actions -> QueueRows] /\ history \in [Actions -> Nat]
        /\ claims \in [Actions -> [Threads -> {"none", "live", "lapsed"}]]
    BY ThreadTyped, ThreadsTyped DEF ActionsInv, ActionsTypeOK
  <1>00. NoThread.pc = "idle"
    BY DEF NoThread
  <1>1. CASE MarkBusy(t)
    <2>1. ThreadMoves
      BY <1>0, <1>1, GoesTo DEF MarkBusy, ThreadMoves, ThreadKnows
    <2> QED
      BY <1>0, <1>1, <2>1, ExpiryTyped, NothingMoves, StepKeepsActions DEF MarkBusy, PlansMove
  <1>2. CASE SelectAction(t)
    <2>1. ThreadMoves
      <3>1. CASE \E b \in Actions :
                   thread' = [thread EXCEPT ![t].pc = "take", ![t].action = b]
        <4>1. PICK b \in Actions : thread' = [thread EXCEPT ![t].pc = "take", ![t].action = b]
          BY <3>1
        <4>2. /\ thread'[t].pc = "take" /\ thread'[t].action = b
              /\ \A u \in Threads : u # t => thread'[u] = thread[u]
          BY <1>0, <4>1, ThreadsTyped DEF ThreadRows
        <4> QED
          BY <4>2 DEF ThreadMoves, ThreadKnows
      <3>2. CASE thread' = [thread EXCEPT ![t] = NoThread]
        BY <1>0, <1>00, <3>2, OtherThreads DEF ThreadMoves, ThreadKnows
      <3> QED
        BY <1>2, <3>1, <3>2 DEF SelectAction
    <2> QED
      BY <1>0, <1>2, <2>1, NothingMoves, StepKeepsActions
      DEF SelectAction, ClaimsMove, PlansMove
  <1>3. CASE TakeAction(t)
    <2>1. /\ a \in Actions /\ queue[a] \in QueueRows
          /\ UNCHANGED <<claims, expired, dlq, supervisor, crowd, history>>
      BY <1>0, <1>3 DEF TakeAction, ThreadKnows, On
    <2>2. /\ queue'[a].attempts = queue[a].attempts + 1
          /\ \A b \in Actions : b # a => queue'[b] = queue[b]
      BY <1>0, <1>3, <2>1 DEF TakeAction, QueueRows
    <2>3. ASSUME NEW b \in Actions PROVE QueueMoves(b)
      <3>1. queue[b] \in QueueRows /\ history[b] \in Nat
        BY <1>0
      <3> QED
        BY <2>1, <2>2, <3>1 DEF QueueMoves, QueueRows
    <2>4. ThreadMoves
      <3>1. queue'[a].attempts >= 1
        BY <2>1, <2>2 DEF QueueRows
      <3> QED
        BY <1>0, <1>3, <2>1, <3>1, GoesTo DEF TakeAction, ThreadMoves, ThreadKnows
    <2> QED
      BY <1>0, <2>1, <2>3, <2>4, StepKeepsActions DEF ClaimsMove, PlansMove
  <1>4. CASE ExecuteAction(t)
    <2>1. /\ a \in Actions /\ queue[a].attempts >= 1 /\ history[a] \in Nat
          /\ UNCHANGED <<queue, claims, expired, dlq, supervisor, crowd>>
      BY <1>0, <1>4 DEF ExecuteAction, ThreadKnows, On
    <2>2. /\ history'[a] = history[a] + 1
          /\ \A b \in Actions : b # a => history'[b] = history[b]
      BY <1>0, <1>4, <2>1 DEF ExecuteAction
    <2>3. ASSUME NEW b \in Actions PROVE QueueMoves(b)
      <3>1. queue[b] \in QueueRows /\ history[b] \in Nat
        BY <1>0
      <3> QED
        BY <2>1, <2>2, <3>1 DEF QueueMoves, QueueRows
    <2>4. ThreadMoves
      <3>1. history'[a] >= 1
        BY <2>1, <2>2
      <3> QED
        BY <1>0, <1>4, <2>1, <3>1, GoesTo DEF ExecuteAction, ThreadMoves, ThreadKnows
    <2> QED
      BY <1>0, <2>1, <2>3, <2>4, StepKeepsActions DEF ClaimsMove, PlansMove
  <1>5. CASE CompleteAction(t)
    <2>1. /\ a \in Actions /\ queue[a].attempts >= 1 /\ history[a] >= 1
          /\ queue[a] \in QueueRows
          /\ UNCHANGED <<claims, expired, dlq, supervisor, crowd, history>>
      BY <1>0, <1>5 DEF CompleteAction, ThreadKnows, On
    <2>2. /\ queue'[a].status = "completed" /\ queue'[a].attempts = queue[a].attempts
          /\ \A b \in Actions : b # a => queue'[b] = queue[b]
      BY <1>0, <1>5, <2>1 DEF CompleteAction, QueueRows
    <2>3. ASSUME NEW b \in Actions PROVE QueueMoves(b)
      <3>1. queue[b] \in QueueRows /\ history[b] \in Nat
        BY <1>0
      <3> QED
        BY <2>1, <2>2, <3>1 DEF QueueMoves, QueueRows
    <2>4. ThreadMoves
      <3>1. ASSUME NEW b \in Actions, b = a PROVE Performed(b)'
        BY <2>1, <2>2, <3>1 DEF Performed
      <3>2. CASE thread' = [thread EXCEPT ![t] = NoThread]
        BY <1>0, <1>00, <3>2, OtherThreads DEF ThreadMoves, ThreadKnows
      <3>3. CASE Goes(t, "look")
        BY <1>0, <2>1, <3>1, <3>3, GoesTo DEF ThreadMoves, ThreadKnows
      <3> QED
        BY <1>5, <3>2, <3>3 DEF CompleteAction
    <2> QED
      BY <1>0, <2>1, <2>3, <2>4, StepKeepsActions DEF ClaimsMove, PlansMove
  <1>6. CASE LookForClaim(t) \/ InsertClaim(t) \/ ReleaseClaim(t)
    <2>1. /\ a \in Actions /\ Performed(a)
          /\ UNCHANGED <<queue, expired, dlq, supervisor, crowd, history>>
      BY <1>0, <1>6 DEF LookForClaim, InsertClaim, ReleaseClaim, ThreadKnows, On
    <2>2. ASSUME NEW b \in Actions, b = a PROVE Performed(b)'
      BY <2>1, <2>2 DEF Performed
    <2>3. PICK pc \in {"insert", "release", "result"} : Goes(t, pc)
      BY <1>6 DEF LookForClaim, InsertClaim, ReleaseClaim
    <2>4. ThreadMoves
      BY <1>0, <2>1, <2>2, <2>3, GoesTo DEF ThreadMoves, ThreadKnows
    <2>5. ClaimsMove
      <3>1. \/ claims' = claims \/ claims' = [claims EXCEPT ![a][t] = "live"]
            \/ claims' = [claims EXCEPT ![a][t] = "none"]
        BY <1>6 DEF LookForClaim, InsertClaim, ReleaseClaim
      <3> QED
        BY <1>0, <2>1, <3>1 DEF ClaimsMove
    <2> QED
      BY <1>0, <2>1, <2>4, <2>5, NothingMoves, StepKeepsActions DEF PlansMove
  <1>7. CASE MarkWorkerResult(t)
    <2>1. ThreadMoves
      BY <1>0, <1>00, <1>7, OtherThreads DEF MarkWorkerResult, ThreadMoves, ThreadKnows
    <2> QED
      BY <1>0, <1>7, <2>1, NothingMoves, StepKeepsActions
         DEF MarkWorkerResult, ClaimsMove, PlansMove
  <1>8. CASE ProcessWithoutWorker(t) \/ \E w \in ActionWorkers : SelectWorker(t, w)
    <2>1. ASSUME NEW row, thread' = [thread EXCEPT ![t] = row], row.pc \in {"busy", "select"}
          PROVE  ThreadMoves
      BY <1>0, <2>1, OtherThreads DEF ThreadMoves, ThreadKnows
    <2>2. ThreadMoves
      <3>1. CASE ProcessWithoutWorker(t)
        <4>1. [NoThread EXCEPT !.pc = "select"].pc = "select"
          BY DEF NoThread
        <4> QED
          BY <2>1, <3>1, <4>1 DEF ProcessWithoutWorker
      <3>2. ASSUME NEW w \in ActionWorkers, SelectWorker(t, w) PROVE ThreadMoves
        <4>1. [NoThread EXCEPT !.pc = "busy", !.worker = w].pc = "busy"
          BY DEF NoThread
        <4> QED
          BY <2>1, <3>2, <4>1 DEF SelectWorker
      <3> QED
        BY <1>8, <3>1, <3>2
    <2> QED
      BY <1>0, <1>8, <2>2, NothingMoves, StepKeepsActions
         DEF ProcessWithoutWorker, SelectWorker, ClaimsMove, PlansMove
  <1>9. CASE ThreadDies(t)
    <2>1. ThreadMoves
      BY <1>0, <1>9, GoesTo DEF ThreadDies, ThreadMoves, ThreadKnows
    <2> QED
      BY <1>0, <1>9, <2>1, NothingMoves, StepKeepsActions DEF ThreadDies, ClaimsMove, PlansMove
  <1> QED
    BY <1>1, <1>2, <1>3, <1>4, <1>5, <1>6, <1>7, <1>8, <1>9 DEF ThreadSteps, Process

LEMMA ActionsBegin == ActionsInit => ActionsInv
  <1> SUFFICES ASSUME ActionsInit PROVE ActionsInv
    OBVIOUS
  <1>1. ActionsTypeOK
    BY FaultsAssumption, ActionsAssumption DEF ActionsInit, ActionsTypeOK, NoThread
  <1>2. \A t \in Threads : ThreadKnows(t)
    BY DEF ActionsInit, NoThread, ThreadKnows
  <1> QED
    BY <1>1, <1>2 DEF ActionsInit, ActionsInv, RequeueFollowsOverlap

LEMMA ActionsKept == ActionsInv /\ [ActionsNext]_actionVars => ActionsInv'
  <1> SUFFICES ASSUME ActionsInv, [ActionsNext]_actionVars PROVE ActionsInv'
    OBVIOUS
  <1>1. CASE UNCHANGED actionVars
    BY <1>1 DEF actionVars, ActionsInv, ActionsTypeOK, ThreadKnows, Performed,
       RequeueFollowsOverlap
  <1>2. CASE ActionsNext
    <2>1. QueueSteps \/ \E t \in Threads : ThreadSteps(t)
      BY <1>2 DEF ActionsNext, QueueSteps, ThreadSteps
    <2> QED
      BY <2>1, QueueStep, ThreadStep
  <1> QED
    BY <1>1, <1>2

\* As long as the listings hold the whole queue, the supervisor requeues, or buries,
\* only what was taken twice and executed, for any number of actions, threads,
\* workers, requeues and faults (plan_recovery_actions, execute_recovery_plan).
THEOREM RequeuesFollowOverlaps == ActionsSpec => []RequeueFollowsOverlap
  <1>1. ActionsInv => RequeueFollowsOverlap
    BY DEF ActionsInv
  <1> QED
    BY <1>1, ActionsBegin, ActionsKept, PTL DEF ActionsSpec

THEOREM ActionsTypeCorrect == ActionsSpec => []ActionsTypeOK
  <1>1. ActionsInv => ActionsTypeOK
    BY DEF ActionsInv
  <1> QED
    BY <1>1, ActionsBegin, ActionsKept, PTL DEF ActionsSpec

-----------------------------------------------------------------------------
\* The keys of the jobs: of a source, of a page of a sitemap, of a retry.
SourceKeys == {<<p>> : p \in Pages}

RetryKeys == {RetryKey(x, n) : x \in Candidates, n \in 1 .. PageRetries}

JobKeys == {<<>>} \cup SourceKeys \cup RetryKeys

\* The rows of the tables, and what a worker may be at.
PageRows == [kind : {"none", "sitemap", "catalog", "manifest", "page"},
             key : JobKeys,
             status : {"none", "queued", "processing", "completed", "failed"},
             attempts : 0 .. PageAttempts]

CandidateRows ==
  [status : {"none", "pending_review", "approved", "rejected", "quarantined",
             "quarantine_exhausted"},
   by : {"none", "policy", "operator"}, retries : 0 .. PageRetries]

WorkRows == [at : {"idle", "fetch", "review", "approve", "mark", "quarantine", "reject",
                   "finish", "fail"},
             with : {<<>>} \cup SourceKeys \cup Candidates]

\* Where a collector is, and what it then holds.
CollectorAtWork(w) ==
  /\ w.at # "reject"
  /\ w.at = "idle" <=> w.with = <<>>
  /\ w.at = "fetch" => w.with \in SourceKeys
  /\ w.at \in {"review", "approve", "mark", "quarantine"} => w.with \in Candidates

\* Where the operator is, and about what.
OperatorAtWork(w) ==
  /\ w.at \in {"idle", "approve", "mark", "reject"}
  /\ w.at = "idle" <=> w.with = <<>>
  /\ w.at # "idle" => w.with \in Candidates

\* The tables as functions with these rows.  A queued job has an attempt left.
CollectionTyped ==
  /\ page \in [Pages -> PageRows]
  /\ candidate \in [Candidates -> CandidateRows]
  /\ indexed \subseteq Candidates \X {"policy", "operator"}
  /\ collector \in [Collectors -> WorkRows]
  /\ operator \in WorkRows
  /\ refused \subseteq Candidates /\ contested \subseteq Candidates /\ cut \subseteq Candidates
  /\ faults \in 0 .. MaxFaults
  /\ \A p \in Pages : page[p].status = "queued" => page[p].attempts < PageAttempts
  /\ \A c \in Collectors : CollectorAtWork(collector[c])
  /\ OperatorAtWork(operator)

\* A candidate is a pair of a page and contents, and no key.
LEMMA CandidatesAreNoKeys ==
  ASSUME NEW x \in Candidates
  PROVE  /\ x # <<>> /\ x \notin SourceKeys
         /\ x = <<x[1], x[2]>> /\ x[1] \in Pages /\ x[2] \in Contents
  BY DEF Candidates, SourceKeys

\* The key of a retry tells the candidate and the number.
LEMMA KeysDiffer ==
  ASSUME NEW x \in Candidates, NEW n \in Nat, NEW y \in Candidates, NEW m \in Nat
  PROVE  /\ RetryKey(x, n) # <<>> /\ RetryKey(x, n) \notin SourceKeys
         /\ RetryKey(x, n) = RetryKey(y, m) => x = y /\ n = m
  BY DEF Candidates, SourceKeys, RetryKey

\* The key of a source tells its page.
LEMMA PageKeys ==
  /\ \A k \in SourceKeys : k[1] \in Pages /\ k = <<k[1]>> /\ k # <<>>
  /\ \A p \in Pages : <<p>> \in SourceKeys
  /\ \A p \in Pages, v \in Contents : <<p, v>> \in Candidates
  BY DEF SourceKeys, Candidates

\* The collector c is at w now, and the others where they were.
CollectorGoes(c, w) ==
  /\ collector' \in [Collectors -> WorkRows]
  /\ collector'[c] = w
  /\ \A d \in Collectors : d # c => collector'[d] = collector[d]

\* A collector that takes up something, and one that goes on with what it has.
LEMMA CollectorMoves ==
  ASSUME CollectionTyped, NEW c \in Collectors, NEW w \in WorkRows,
         collector' = [collector EXCEPT ![c] = w]
  PROVE  CollectorGoes(c, w)
  BY DEF CollectionTyped, CollectorGoes

LEMMA CollectorMovesTo ==
  ASSUME CollectionTyped, NEW c \in Collectors,
         NEW at \in {"approve", "mark", "quarantine", "finish", "fail"},
         CollectorAt(c, at)
  PROVE  CollectorGoes(c, [at |-> at, with |-> collector[c].with])
  BY DEF CollectionTyped, CollectorGoes, CollectorAt, WorkRows

\* What a new job is.
NewPage(p, key, kind) ==
  /\ page' = [page EXCEPT ![p] = [kind |-> kind, key |-> key, status |-> "queued", attempts |-> 0]]
  /\ page[p] = NoPage
  /\ key # <<>> => \A q \in Pages : page[q].key # key

\* A job is enqueued under a key that no other has, or it is there already.
LEMMA EnqueuedIsNew ==
  ASSUME NEW key, NEW kind, page' \in Enqueued(key, kind)
  PROVE  \/ page' = page /\ key # <<>> /\ \E p \in Pages : page[p].key = key
         \/ \E p \in Pages : NewPage(p, key, kind)
  <1>1. CASE key # <<>> /\ \E p \in Pages : page[p].key = key
    BY <1>1, Zenon DEF Enqueued
  <1>2. CASE ~(key # <<>> /\ \E p \in Pages : page[p].key = key)
    <2> DEFINE row == [kind |-> kind, key |-> key, status |-> "queued", attempts |-> 0]
    <2>1. PICK p \in {q \in Free : q = CHOOSE r \in Free : TRUE} : page' = [page EXCEPT ![p] = row]
      BY <1>2, Zenon DEF Enqueued
    <2>2. p \in Pages /\ page[p] = NoPage
      BY <2>1, Zenon DEF Free
    <2> QED
      BY <1>2, <2>1, <2>2, Zenon DEF NewPage
  <1> QED
    BY <1>1, <1>2

\* A new job has its type, and attempts left.
LEMMA NewPageTyped ==
  ASSUME CollectionTyped, NEW p \in Pages,
         NEW key \in JobKeys,
         NEW kind \in {"sitemap", "catalog", "manifest", "page"},
         NewPage(p, key, kind)
  PROVE  /\ page' \in [Pages -> PageRows]
         /\ \A q \in Pages : page'[q].status = "queued" => page'[q].attempts < PageAttempts
  <1>1. [kind |-> kind, key |-> key, status |-> "queued", attempts |-> 0] \in PageRows
    <2>1. 0 \in 0 .. PageAttempts
      BY CollectionAssumption
    <2> QED
      BY <2>1 DEF PageRows
  <1>2. [kind |-> kind, key |-> key, status |-> "queued", attempts |-> 0].attempts = 0
    OBVIOUS
  <1> QED
    BY <1>1, <1>2, CollectionAssumption DEF NewPage, CollectionTyped

LEMMA EnqueuedTyped ==
  ASSUME CollectionTyped, NEW key \in JobKeys,
         NEW kind \in {"sitemap", "catalog", "manifest", "page"},
         page' \in Enqueued(key, kind)
  PROVE  /\ page' \in [Pages -> PageRows]
         /\ \A q \in Pages : page'[q].status = "queued" => page'[q].attempts < PageAttempts
  <1>1. CASE page' = page
    BY <1>1 DEF CollectionTyped
  <1>2. CASE \E p \in Pages : NewPage(p, key, kind)
    BY <1>2, NewPageTyped
  <1> QED
    BY <1>1, <1>2, EnqueuedIsNew

\* The decision on x, as the step has taken it.
Decided(x, status, by, others) ==
  /\ candidate' \in [Candidates -> CandidateRows]
  /\ contested' \subseteq Candidates
  /\ \A y \in Candidates : y # x => candidate'[y] = candidate[y]
  /\ contested \subseteq contested' /\ contested' \subseteq contested \cup {x}
  /\ Pending(x) => /\ candidate'[x].status = status /\ candidate'[x].by = by
                   /\ candidate'[x].retries = candidate[x].retries
                   /\ others => x \in contested'
                   /\ ~others => contested' = contested
  /\ ~Pending(x) => candidate' = candidate /\ contested' = contested

\* Decide does what Decided says.
LEMMA DecideDecides ==
  ASSUME CollectionTyped, NEW x \in Candidates,
         NEW status \in {"approved", "rejected", "quarantined"},
         NEW by \in {"policy", "operator"}, NEW others \in BOOLEAN,
         Decide(x, status, by, others)
  PROVE  Decided(x, status, by, others)
  BY DEF CollectionTyped, Decide, Decided, CandidateRows

\* Only the row of c is new.
LEMMA CollectorGoesTyped ==
  ASSUME CollectionTyped, NEW c \in Collectors, NEW w \in WorkRows,
         CollectorGoes(c, w), CollectorAtWork(w)
  PROVE  /\ collector' \in [Collectors -> WorkRows]
         /\ \A d \in Collectors : CollectorAtWork(collector'[d])
  BY DEF CollectionTyped, CollectorGoes

\* The tables of which a step of a collector may keep the types one by one.
PagesTyped ==
  /\ page \in [Pages -> PageRows]
  /\ \A p \in Pages : page[p].status = "queued" => page[p].attempts < PageAttempts

CollectorsTyped ==
  /\ collector \in [Collectors -> WorkRows]
  /\ \A c \in Collectors : CollectorAtWork(collector[c])

CandidatesTyped ==
  /\ candidate \in [Candidates -> CandidateRows]
  /\ indexed \subseteq Candidates \X {"policy", "operator"}
  /\ operator \in WorkRows /\ OperatorAtWork(operator)
  /\ refused \subseteq Candidates /\ contested \subseteq Candidates /\ cut \subseteq Candidates
  /\ faults \in 0 .. MaxFaults

\* The types are those of the three groups of tables, now and after a step.
LEMMA CollectionParts == CollectionTyped <=> PagesTyped /\ CollectorsTyped /\ CandidatesTyped
  BY DEF CollectionTyped, PagesTyped, CollectorsTyped, CandidatesTyped

LEMMA CollectionFromParts ==
  ASSUME PagesTyped', CollectorsTyped', CandidatesTyped' PROVE CollectionTyped'
  BY DEF CollectionTyped, PagesTyped, CollectorsTyped, CandidatesTyped

\* A worker at rest holds nothing.
LEMMA AtRestTyped == AtRest \in WorkRows /\ CollectorAtWork(AtRest) /\ OperatorAtWork(AtRest)
  BY DEF AtRest, WorkRows, CollectorAtWork, OperatorAtWork

\* A fault stays within their bound.
LEMMA FaultCounted == ASSUME CandidatesTyped, Fault PROVE faults' \in 0 .. MaxFaults /\ faults' = faults + 1
  BY FaultsAssumption DEF CandidatesTyped, Fault

\* Where the moves of a collector lead.
LEMMA CollectorMoved ==
  ASSUME CollectionTyped, NEW c \in Collectors,
         NEW at \in {"approve", "mark", "quarantine", "finish", "fail"},
         CollectorAt(c, at), collector[c].at # "idle",
         at \in {"approve", "mark", "quarantine"} => collector[c].with \in Candidates
  PROVE  CollectorsTyped'
  <1> DEFINE w == [at |-> at, with |-> collector[c].with]
  <1>1. w \in WorkRows
    BY DEF CollectionTyped, WorkRows
  <1>2. CollectorAtWork(w)
    BY DEF CollectionTyped, CollectorAtWork
  <1> QED
    BY <1>1, <1>2, CollectorMovesTo, CollectorGoesTyped DEF CollectorsTyped

LEMMA CollectorPut ==
  ASSUME CollectionTyped, NEW c \in Collectors, NEW w \in WorkRows, CollectorAtWork(w),
         collector' = [collector EXCEPT ![c] = w]
  PROVE  CollectorsTyped'
  BY CollectorMoves, CollectorGoesTyped DEF CollectorsTyped

\* What a step leaves alone keeps its type.
LEMMA PagesKept ==
  ASSUME CollectionTyped, UNCHANGED page PROVE PagesTyped'
  BY DEF CollectionTyped, PagesTyped

LEMMA CollectorsKept ==
  ASSUME CollectionTyped, UNCHANGED collector PROVE CollectorsTyped'
  BY DEF CollectionTyped, CollectorsTyped

LEMMA CandidatesKept ==
  ASSUME CollectionTyped, UNCHANGED <<indexed, operator, refused, cut>>,
         \/ UNCHANGED <<candidate, contested>>
         \/ /\ candidate' \in [Candidates -> CandidateRows]
            /\ contested' \subseteq Candidates,
         UNCHANGED faults \/ Fault
  PROVE  CandidatesTyped'
  BY CollectionParts, FaultCounted DEF CandidatesTyped

\* What the end of a job does, of whichever kind.
JobEnded(c) ==
  /\ collector[c].at \in {"finish", "fail"}
  /\ \E status \in {"completed", "failed"} : EndJob(collector[c].with[1], status)
  /\ \/ collector' = [collector EXCEPT ![c] = AtRest]
     \/ CollectorAt(c, "fail")
  /\ UNCHANGED <<candidate, indexed, operator, refused, contested, cut, faults>>

LEMMA BothEndJobs ==
  ASSUME NEW c \in Collectors, CompleteJob(c) \/ FailJob(c)
  PROVE  JobEnded(c)
  <1>1. CASE CompleteJob(c)
    BY <1>1 DEF CompleteJob, JobEnded
  <1>2. CASE FailJob(c)
    BY <1>2 DEF FailJob, JobEnded
  <1> QED
    BY <1>1, <1>2

\* The job that ends keeps its kind, its key and its attempts.
LEMMA EndKeepsPages ==
  ASSUME CollectionTyped, NEW p, NEW status \in {"completed", "failed"}, EndJob(p, status)
  PROVE  PagesTyped' /\ \A q \in Pages : page'[q].key = page[q].key
  <1>1. CASE p \in Processing
    <2>1. p \in Pages /\ page' = [page EXCEPT ![p].status = status]
      BY <1>1 DEF EndJob, Processing
    <2>2. page \in [Pages -> PageRows]
      BY DEF CollectionTyped
    <2>3. page'[p] \in PageRows /\ page'[p].status = status /\ page'[p].key = page[p].key
      BY <2>1, <2>2, SMTT(30) DEF PageRows
    <2>4. page' \in [Pages -> PageRows] /\ \A q \in Pages : q # p => page'[q] = page[q]
      BY <2>1, <2>2, <2>3, SMTT(30)
    <2> QED
      BY <2>3, <2>4 DEF CollectionTyped, PagesTyped
  <1>2. CASE p \notin Processing
    BY <1>2 DEF EndJob, PagesTyped, CollectionTyped
  <1> QED
    BY <1>1, <1>2

\* Every step of a collector keeps the types: one case for each action.
LEMMA CollectTyped ==
  ASSUME CollectionTyped, NEW c \in Collectors, Collect(c)
  PROVE  CollectionTyped'
  <1>1. CASE SeedSource(c)
    <2>1. <<>> \in JobKeys
      BY DEF JobKeys
    <2>2. PagesTyped'
      <3>1. PICK kind \in {"sitemap", "catalog", "manifest"} : page' \in Enqueued(<<>>, kind)
        BY <1>1 DEF SeedSource
      <3> QED
        BY <2>1, <3>1, EnqueuedTyped DEF PagesTyped
    <2> QED
      BY <1>1, <2>2, CollectionParts, CollectionFromParts, CollectorsKept, CandidatesKept
      DEF SeedSource
  <1>2. CASE RecoverStale(c)
    <2>1. ASSUME NEW p \in Pages
          PROVE  /\ page'[p] \in PageRows
                 /\ page'[p].status = "queued" => page'[p].attempts < PageAttempts
      <3>1. page[p] \in PageRows /\ (page[p].status = "queued" => page[p].attempts < PageAttempts)
        BY DEF CollectionTyped
      <3>2. page'[p] \in {page[p], Recovered(page[p])}
        BY <1>2 DEF RecoverStale
      <3> QED
        BY <3>1, <3>2, CollectionAssumption DEF Recovered, PageRows
    <2>2. page' = [p \in Pages |-> page'[p]]
      BY <1>2 DEF RecoverStale
    <2>3. PagesTyped'
      BY <2>1, <2>2 DEF PagesTyped
    <2> QED
      BY <1>2, <2>3, CollectionParts, CollectionFromParts, CollectorsKept, CandidatesKept
      DEF RecoverStale
  <1>3. ASSUME NEW p \in Pages, ClaimPage(c, p) PROVE CollectionTyped'
    <2>1. PagesTyped'
      BY <1>3, CollectionAssumption
      DEF ClaimPage, Queued, PagesTyped, CollectionTyped, PageRows
    <2>2. [at |-> "fetch", with |-> <<p>>] \in WorkRows
      BY PageKeys DEF WorkRows
    <2>3. CollectorAtWork([at |-> "fetch", with |-> <<p>>])
      BY PageKeys DEF CollectorAtWork
    <2> QED
      BY <1>3, <2>1, <2>2, <2>3, CollectionParts, CollectionFromParts, CollectorPut, CandidatesKept
      DEF ClaimPage
  <1>4. CASE FetchFails(c)
    BY <1>4, CollectionParts, CollectionFromParts, PagesKept, CollectorMoved, CandidatesKept
    DEF FetchFails
  <1>5. CASE FetchSource(c)
    <2> DEFINE p == collector[c].with[1]
    <2>1. <<p>> \in JobKeys
      <3>1. collector[c].with \in SourceKeys
        BY <1>5 DEF FetchSource, CollectionTyped, CollectorAtWork
      <3> QED
        BY <3>1, PageKeys DEF JobKeys
    <2>2. PagesTyped'
      <3>1. CASE UNCHANGED page
        BY <3>1, PagesKept
      <3>2. CASE page' \in Enqueued(<<p>>, "page")
        BY <2>1, <3>2, EnqueuedTyped DEF PagesTyped
      <3> QED
        BY <1>5, <3>1, <3>2 DEF FetchSource
    <2> QED
      BY <1>5, <2>2, CollectionParts, CollectionFromParts, CollectorMoved, CandidatesKept
      DEF FetchSource
  <1>6. CASE FetchOffer(c)
    <2> DEFINE p == collector[c].with[1]
    <2>1. collector[c].with \in SourceKeys /\ p \in Pages
      BY <1>6, PageKeys DEF FetchOffer, CollectionTyped, CollectorAtWork
    <2>2. CASE CollectorAt(c, "finish") /\ UNCHANGED candidate
      BY <1>6, <2>2, CollectionParts, CollectionFromParts, PagesKept, CollectorMoved, CandidatesKept, SMTT(30)
      DEF FetchOffer
    <2>3. ASSUME NEW v \in Contents,
                 candidate' = IF candidate[<<p, v>>] # NoCandidate THEN candidate
                   ELSE [candidate EXCEPT ![<<p, v>>].status = "pending_review"],
                 collector' = [collector EXCEPT ![c] = [at |-> "review", with |-> <<p, v>>]]
          PROVE  CollectionTyped'
      <3>1. <<p, v>> \in Candidates
        BY <2>1, PageKeys
      <3>2. candidate' \in [Candidates -> CandidateRows]
        <4> DEFINE x == <<p, v>>
        <4> HIDE DEF x
        <4> QED
          BY <2>3, <3>1, SMTT(30) DEF CollectionTyped, CandidateRows, x
      <3>3. [at |-> "review", with |-> <<p, v>>] \in WorkRows
        BY <3>1 DEF WorkRows
      <3>4. CollectorAtWork([at |-> "review", with |-> <<p, v>>])
        BY <3>1, CandidatesAreNoKeys DEF CollectorAtWork
      <3>5. contested' \subseteq Candidates
        BY <1>6 DEF FetchOffer, CollectionTyped
      <3> QED
        BY <1>6, <2>3, <3>2, <3>3, <3>4, <3>5, CollectionParts, CollectionFromParts,
           PagesKept, CollectorPut, CandidatesKept
        DEF FetchOffer
    <2> QED
      BY <1>6, <2>2, <2>3 DEF FetchOffer
  <1>7. CASE CompleteJob(c) \/ FailJob(c)
    <2>1. JobEnded(c)
      BY <1>7, BothEndJobs
    <2>2. PagesTyped'
      BY <2>1, EndKeepsPages DEF JobEnded
    <2>3. CollectorsTyped'
      BY <2>1, CollectorPut, CollectorMoved, AtRestTyped DEF JobEnded
    <2> QED
      BY <2>1, <2>2, <2>3, CollectionParts, CollectionFromParts, CandidatesKept DEF JobEnded
  <1>8. CASE ReviewCandidate(c)
    <2>1. collector[c].with \in Candidates
      BY <1>8 DEF ReviewCandidate, CollectionTyped, CollectorAtWork
    <2>2. PICK at \in {"approve", "quarantine", "finish", "fail"} : CollectorAt(c, at)
      BY <1>8 DEF ReviewCandidate
    <2> QED
      BY <1>8, <2>1, <2>2, CollectionParts, CollectionFromParts, PagesKept, CollectorMoved, CandidatesKept
      DEF ReviewCandidate
  <1>9. CASE QuarantineCandidate(c)
    <2> DEFINE x == collector[c].with
    <2>1. x \in Candidates
      BY <1>9 DEF QuarantineCandidate, CollectionTyped, CollectorAtWork
    <2>2. Decided(x, "quarantined", "policy", Deciding(x) # {c} \/ operator.with = x)
      BY <1>9, <2>1, DecideDecides DEF QuarantineCandidate
    <2>3. candidate' \in [Candidates -> CandidateRows] /\ contested' \subseteq Candidates
      BY <2>2 DEF Decided
    <2> QED
      BY <1>9, <2>3, CollectionParts, CollectionFromParts, PagesKept, CollectorMoved, CandidatesKept
      DEF QuarantineCandidate
  <1>10. CASE IngestOffer(c)
    <2>1. collector[c].with \in Candidates
      BY <1>10 DEF IngestOffer, CollectionTyped, CollectorAtWork
    <2>2. CandidatesTyped'
      <3>1. CandidatesTyped
        BY CollectionParts
      <3>2. indexed' \subseteq Candidates \X {"policy", "operator"}
        BY <1>10, <2>1, <3>1 DEF IngestOffer, CandidatesTyped
      <3> QED
        BY <1>10, <3>1, <3>2 DEF IngestOffer, CandidatesTyped
    <2> QED
      BY <1>10, <2>1, <2>2, CollectionParts, CollectionFromParts, PagesKept, CollectorMoved
      DEF IngestOffer
  <1>11. CASE ApproveCandidate(c)
    <2> DEFINE x == collector[c].with
    <2>1. x \in Candidates
      BY <1>11 DEF ApproveCandidate, CollectionTyped, CollectorAtWork
    <2>2. Decided(x, "approved", "policy", Deciding(x) # {c} \/ operator.with = x)
      BY <1>11, <2>1, DecideDecides DEF ApproveCandidate
    <2>3. candidate' \in [Candidates -> CandidateRows] /\ contested' \subseteq Candidates
      BY <2>2 DEF Decided
    <2>4. PICK at \in {"finish", "fail"} : CollectorAt(c, at)
      BY <1>11 DEF ApproveCandidate
    <2> QED
      BY <1>11, <2>3, <2>4, CollectionParts, CollectionFromParts, PagesKept, CollectorMoved, CandidatesKept
      DEF ApproveCandidate
  <1>12. ASSUME NEW x \in Candidates, RetryCandidate(c, x) PROVE CollectionTyped'
    <2> DEFINE n == candidate[x].retries + 1
    <2>1. n \in 1 .. PageRetries
      BY <1>12, CollectionAssumption DEF RetryCandidate, CollectionTyped, CandidateRows
    <2>2. RetryKey(x, n) \in JobKeys
      BY <2>1 DEF JobKeys, RetryKeys
    <2>3. PagesTyped'
      BY <1>12, <2>2, EnqueuedTyped DEF RetryCandidate, PagesTyped
    <2>4. candidate' \in [Candidates -> CandidateRows] /\ contested' \subseteq Candidates
      BY <1>12, <2>1, CollectionAssumption DEF RetryCandidate, CollectionTyped, CandidateRows
    <2> QED
      BY <1>12, <2>3, <2>4, CollectionParts, CollectionFromParts, CollectorsKept, CandidatesKept
      DEF RetryCandidate
  <1>13. ASSUME NEW x \in Candidates, ExhaustCandidate(c, x) PROVE CollectionTyped'
    <2>1. candidate' \in [Candidates -> CandidateRows] /\ contested' \subseteq Candidates
      BY <1>13 DEF ExhaustCandidate, CollectionTyped, CandidateRows
    <2> QED
      BY <1>13, <2>1, CollectionParts, CollectionFromParts, PagesKept, CollectorsKept, CandidatesKept
      DEF ExhaustCandidate
  <1> QED
    BY <1>1, <1>2, <1>3, <1>4, <1>5, <1>6, <1>7, <1>8, <1>9, <1>10, <1>11, <1>12, <1>13
    DEF Collect

\* The same of every step, of a collector that dies and of the operator.
LEMMA CollectionStaysTyped ==
  ASSUME CollectionTyped, CollectionNext
  PROVE  CollectionTyped'
  <1>1. ASSUME NEW c \in Collectors, CollectorDies(c) PROVE CollectionTyped'
    <2>1. cut' \subseteq Candidates
      BY <1>1 DEF CollectorDies, CollectionTyped
    <2>2. CandidatesTyped'
      BY <1>1, <2>1, CollectionParts, CollectionFromParts, FaultCounted
      DEF CandidatesTyped, CollectorDies
    <2> QED
      BY <1>1, <2>2, CollectionParts, CollectionFromParts, PagesKept, CollectorPut, AtRestTyped
      DEF CollectorDies
  <1>2. CandidatesTyped
    BY CollectionParts
  <1>3. ASSUME NEW x \in Candidates, OperatorReads(x) PROVE CollectionTyped'
    <2>1. operator' \in WorkRows /\ OperatorAtWork(operator')
      BY <1>3, CandidatesAreNoKeys DEF OperatorReads, WorkRows, OperatorAtWork
    <2>2. CandidatesTyped'
      BY <1>2, <1>3, <2>1 DEF CandidatesTyped, OperatorReads
    <2> QED
      BY <1>3, <2>2, CollectionParts, CollectionFromParts, PagesKept, CollectorsKept
      DEF OperatorReads
  <1>4. operator.at # "idle" => operator.with \in Candidates
    BY <1>2 DEF CandidatesTyped, OperatorAtWork
  <1>5. CASE OperatorIngests
    <2>1. operator' \in WorkRows /\ OperatorAtWork(operator')
      BY <1>2, <1>5 DEF OperatorIngests, CandidatesTyped, WorkRows, OperatorAtWork
    <2>2. indexed' \subseteq Candidates \X {"policy", "operator"}
      BY <1>2, <1>4, <1>5 DEF OperatorIngests, CandidatesTyped
    <2>3. CandidatesTyped'
      BY <1>2, <1>5, <2>1, <2>2 DEF CandidatesTyped, OperatorIngests
    <2> QED
      BY <1>5, <2>3, CollectionParts, CollectionFromParts, PagesKept, CollectorsKept
      DEF OperatorIngests
  <1>6. CASE OperatorApproves
    <2>1. Decided(operator.with, "approved", "operator", Deciding(operator.with) # {})
      BY <1>4, <1>6, DecideDecides DEF OperatorApproves
    <2>2. CandidatesTyped'
      BY <1>2, <1>6, <2>1, AtRestTyped DEF CandidatesTyped, OperatorApproves, Decided
    <2> QED
      BY <1>6, <2>2, CollectionParts, CollectionFromParts, PagesKept, CollectorsKept
      DEF OperatorApproves
  <1>7. CASE OperatorRejects
    <2>1. Decided(operator.with, "rejected", "operator", Deciding(operator.with) # {})
      BY <1>4, <1>7, DecideDecides DEF OperatorRejects
    <2>2. CandidatesTyped'
      BY <1>2, <1>4, <1>7, <2>1, AtRestTyped DEF CandidatesTyped, OperatorRejects, Decided
    <2> QED
      BY <1>7, <2>2, CollectionParts, CollectionFromParts, PagesKept, CollectorsKept
      DEF OperatorRejects
  <1> QED
    BY <1>1, <1>3, <1>5, <1>6, <1>7, CollectTyped DEF CollectionNext

-----------------------------------------------------------------------------
\* Where a collector that holds a candidate has not decided on it yet.
AtCandidate == {"review", "approve", "mark", "quarantine"}

\* Whoever is about to approve has ingested, and what is approved was.
ApprovedIsIngested ==
  /\ \A x \in Candidates : candidate[x].status = "approved" => <<x, candidate[x].by>> \in indexed
  /\ \A c \in Collectors : collector[c].at = "mark" => <<collector[c].with, "policy">> \in indexed
  /\ operator.at = "mark" => <<operator.with, "operator">> \in indexed

\* As long as nobody has decided on x before another who was to, they are right
\* that it is pending.
DecidersSeePending ==
  \A x \in Candidates \ contested :
    /\ \A c \in Collectors :
         collector[c].with = x /\ collector[c].at \in {"approve", "mark", "quarantine"}
         => Pending(x)
    /\ operator.with = x => Pending(x)

IndexedIsApproved ==
  \A x \in Candidates \ (contested \cup cut), by \in {"policy", "operator"} :
    <<x, by>> \in indexed =>
      Approving(x, by) \/ (candidate[x].status = "approved" /\ candidate[x].by = by)

RefusedIsRejected ==
  \A x \in Candidates \ (contested \cup cut) : x \in refused => candidate[x].status = "rejected"

\* A collector is on its way to decide on what is pending.
PendingIsHeld ==
  \A x \in Candidates \ cut :
    Pending(x) => \E c \in Collectors : collector[c].with = x /\ collector[c].at \in AtCandidate

DecisionInv ==
  /\ CollectionTyped
  /\ ApprovedIsIngested
  /\ DecidersSeePending
  /\ IndexedIsApproved
  /\ RefusedIsRejected
  /\ PendingIsHeld

\* The invariant says what the index and the completed jobs are to show.
LEMMA DecisionImplies == DecisionInv => IndexIsApproved /\ CompletedIsReviewed
  <1> SUFFICES ASSUME DecisionInv PROVE IndexIsApproved /\ CompletedIsReviewed
    OBVIOUS
  <1>1. IndexIsApproved
    BY
    DEF IndexIsApproved, DecisionInv, ApprovedIsIngested, IndexedIsApproved, RefusedIsRejected
  <1>2. CompletedIsReviewed
    BY DEF CompletedIsReviewed, DecisionInv, PendingIsHeld, AtCandidate
  <1> QED
    BY <1>1, <1>2

\* What a step that decides on nothing leaves alone.
CandidatesStay ==
  \A x \in Candidates : /\ candidate'[x].status = candidate[x].status
                        /\ candidate'[x].by = candidate[x].by

\* Where no decision changes, every decision is final.
LEMMA StayIsFinal ==
  ASSUME CandidatesStay PROVE \A x \in Candidates : DecisionIsFinal(x)
  BY DEF CandidatesStay, DecisionIsFinal

\* A step of the collector c, between moments at which it holds no candidate to
\* be decided on, or no step at all.
LEMMA QuietKeeps ==
  ASSUME DecisionInv, CandidatesStay, UNCHANGED <<indexed, operator, refused, contested, cut>>,
         \/ UNCHANGED collector
         \/ \E c \in Collectors, w \in WorkRows :
              /\ CollectorGoes(c, w)
              /\ collector[c].at \notin AtCandidate /\ w.at \notin AtCandidate
  PROVE  /\ ApprovedIsIngested' /\ DecidersSeePending' /\ IndexedIsApproved'
         /\ RefusedIsRejected' /\ PendingIsHeld'
  <1>1. \A x \in Candidates : Pending(x)' <=> Pending(x)
    BY DEF CandidatesStay, Pending
  <1>2. \A d \in Collectors : collector[d].at \in AtCandidate \/ collector'[d].at \in AtCandidate
          => collector'[d] = collector[d]
    BY DEF CollectorGoes
  <1>3. ApprovedIsIngested'
    BY <1>2 DEF DecisionInv, ApprovedIsIngested, CandidatesStay, AtCandidate
  <1>4. DecidersSeePending'
    BY <1>1, <1>2 DEF DecisionInv, DecidersSeePending, AtCandidate
  <1>5. \A x \in Candidates, by \in {"policy", "operator"} : Approving(x, by) => Approving(x, by)'
    BY <1>2 DEF Approving, AtCandidate
  <1>6. IndexedIsApproved'
    BY <1>5 DEF DecisionInv, IndexedIsApproved, CandidatesStay
  <1>7. RefusedIsRejected'
    BY DEF DecisionInv, RefusedIsRejected, CandidatesStay
  <1>8. PendingIsHeld'
    BY <1>1, <1>2 DEF DecisionInv, PendingIsHeld
  <1> QED
    BY <1>3, <1>4, <1>6, <1>7, <1>8

\* The collector c goes on with the candidate x: it has read that it is pending,
\* or ingested it, or it decides no more because x was decided on.
LEMMA HeldKeeps ==
  ASSUME DecisionInv, NEW c \in Collectors, NEW x \in Candidates, NEW w \in WorkRows,
         CollectorGoes(c, w), w.with = x,
         CandidatesStay, UNCHANGED <<operator, refused, contested, cut>>,
         collector[c].with = x,
         \/ /\ collector[c].at = "review" /\ w.at \in {"approve", "quarantine"}
            /\ Pending(x) /\ UNCHANGED indexed
         \/ /\ collector[c].at = "review" /\ w.at \notin AtCandidate
            /\ ~Pending(x) /\ UNCHANGED indexed
         \/ /\ collector[c].at = "approve" /\ w.at = "mark"
            /\ indexed' = indexed \cup {<<x, "policy">>}
  PROVE  /\ ApprovedIsIngested' /\ DecidersSeePending' /\ IndexedIsApproved'
         /\ RefusedIsRejected' /\ PendingIsHeld'
  <1>1. \A y \in Candidates : Pending(y)' <=> Pending(y)
    BY DEF CandidatesStay, Pending
  <1>2. collector'[c] = w /\ \A d \in Collectors : d # c => collector'[d] = collector[d]
    BY DEF CollectorGoes
  <1>3. indexed \subseteq indexed' /\ indexed' \subseteq indexed \cup {<<x, "policy">>}
    OBVIOUS
  <1>4. ApprovedIsIngested'
    BY <1>2, <1>3 DEF DecisionInv, ApprovedIsIngested, CandidatesStay, AtCandidate
  <1>5. DecidersSeePending'
    BY <1>1, <1>2 DEF DecisionInv, DecidersSeePending, AtCandidate
  <1>6. collector[c].at # "mark"
    OBVIOUS
  <1>7. \A y \in Candidates, by \in {"policy", "operator"} : Approving(y, by) => Approving(y, by)'
    BY <1>2, <1>6 DEF Approving
  <1>8. indexed' # indexed => Approving(x, "policy")'
    <2>1. ASSUME indexed' # indexed PROVE collector'[c] = [at |-> "mark", with |-> x]
      BY <1>2, <2>1 DEF WorkRows
    <2> QED
      BY <2>1 DEF Approving
  <1>9. IndexedIsApproved'
    <2> SUFFICES ASSUME NEW y \in Candidates, y \notin contested, y \notin cut,
                        NEW by \in {"policy", "operator"}, <<y, by>> \in indexed'
                 PROVE  \/ Approving(y, by)'
                        \/ candidate'[y].status = "approved" /\ candidate'[y].by = by
      BY DEF IndexedIsApproved
    <2>1. CASE <<y, by>> \in indexed
      BY <1>7, <2>1 DEF DecisionInv, IndexedIsApproved, CandidatesStay
    <2>2. CASE <<y, by>> \notin indexed
      <3>1. y = x /\ by = "policy"
        BY <1>3, <2>2
      <3> QED
        BY <1>8, <2>2, <3>1
    <2> QED
      BY <2>1, <2>2
  <1>10. RefusedIsRejected'
    BY DEF DecisionInv, RefusedIsRejected, CandidatesStay
  <1>11. PendingIsHeld'
    <2> SUFFICES ASSUME NEW y \in Candidates, y \notin cut, Pending(y)
                 PROVE  \E d \in Collectors : collector'[d].with = y /\ collector'[d].at \in AtCandidate
      BY <1>1 DEF PendingIsHeld
    <2>1. PICK d \in Collectors : collector[d].with = y /\ collector[d].at \in AtCandidate
      BY DEF DecisionInv, PendingIsHeld
    <2>2. CASE d # c
      BY <1>2, <2>1, <2>2
    <2>3. CASE d = c
      BY <1>2, <2>1, <2>3 DEF AtCandidate
    <2> QED
      BY <2>2, <2>3
  <1> QED
    BY <1>4, <1>5, <1>9, <1>10, <1>11

\* The collector c stores the candidate x, and holds it.
LEMMA StoredKeeps ==
  ASSUME DecisionInv, NEW c \in Collectors, NEW x \in Candidates, NEW w \in WorkRows,
         CollectorGoes(c, w), w.with = x, w.at = "review",
         collector[c].at = "fetch",
         \A y \in Candidates : y # x => candidate'[y] = candidate[y],
         \/ candidate'[x] = candidate[x]
         \/ /\ candidate[x].status = "none" /\ candidate'[x].status = "pending_review"
            /\ candidate'[x].by = candidate[x].by,
         UNCHANGED <<indexed, operator, refused, contested, cut>>
  PROVE  /\ ApprovedIsIngested' /\ DecidersSeePending' /\ IndexedIsApproved'
         /\ RefusedIsRejected' /\ PendingIsHeld'
         /\ \A y \in Candidates : DecisionIsFinal(y)
  <1>1. collector'[c] = w /\ \A d \in Collectors : d # c => collector'[d] = collector[d]
    BY DEF CollectorGoes
  <1>2. \A y \in Candidates :
          \/ candidate'[y] = candidate[y]
          \/ /\ y = x /\ candidate[y].status = "none" /\ candidate'[y].status = "pending_review"
             /\ candidate'[y].by = candidate[y].by
    OBVIOUS
  <1>3. \A y \in Candidates : Pending(y) => Pending(y)'
    BY <1>2 DEF Pending
  <1>4. ApprovedIsIngested'
    BY <1>1, <1>2 DEF DecisionInv, ApprovedIsIngested
  <1>5. DecidersSeePending'
    BY <1>1, <1>3 DEF DecisionInv, DecidersSeePending
  <1>6. \A y \in Candidates, by \in {"policy", "operator"} : Approving(y, by) => Approving(y, by)'
    BY <1>1 DEF Approving
  <1>7. IndexedIsApproved'
    <2> SUFFICES ASSUME NEW y \in Candidates, y \notin contested, y \notin cut,
                        NEW by \in {"policy", "operator"}, <<y, by>> \in indexed
                 PROVE  \/ Approving(y, by)'
                        \/ candidate'[y].status = "approved" /\ candidate'[y].by = by
      BY DEF IndexedIsApproved
    <2>1. Approving(y, by) \/ (candidate[y].status = "approved" /\ candidate[y].by = by)
      BY DEF DecisionInv, IndexedIsApproved
    <2> QED
      BY <1>2, <1>6, <2>1
  <1>8. RefusedIsRejected'
    BY <1>2 DEF DecisionInv, RefusedIsRejected
  <1>9. PendingIsHeld'
    <2> SUFFICES ASSUME NEW y \in Candidates, y \notin cut, Pending(y)'
                 PROVE  \E d \in Collectors : collector'[d].with = y /\ collector'[d].at \in AtCandidate
      BY DEF PendingIsHeld
    <2>1. CASE Pending(y)
      <3>1. PICK d \in Collectors : collector[d].with = y /\ collector[d].at \in AtCandidate
        BY <2>1 DEF DecisionInv, PendingIsHeld
      <3>2. d # c
        BY <3>1 DEF AtCandidate
      <3> QED
        BY <1>1, <3>1, <3>2
    <2>2. CASE y = x
      BY <1>1, <2>2 DEF AtCandidate
    <2> QED
      BY <1>2, <2>1, <2>2 DEF Pending
  <1>10. \A y \in Candidates : DecisionIsFinal(y)
    <2> SUFFICES ASSUME NEW y \in Candidates PROVE DecisionIsFinal(y)
      OBVIOUS
    <2>1. CASE candidate'[y] = candidate[y]
      BY <2>1 DEF DecisionIsFinal
    <2>2. CASE candidate[y].status = "none"
      BY <2>2 DEF DecisionIsFinal
    <2> QED
      BY <1>2, <2>1, <2>2
  <1> QED
    BY <1>4, <1>5, <1>7, <1>8, <1>9, <1>10

\* The collector c decides on the candidate x.
LEMMA DecidedKeeps ==
  ASSUME DecisionInv, NEW c \in Collectors, NEW x \in Candidates, NEW w \in WorkRows,
         CollectorGoes(c, w), w.with = x, w.at \notin AtCandidate,
         collector[c].with = x,
         NEW status \in {"approved", "quarantined"},
         collector[c].at = IF status = "approved" THEN "mark" ELSE "quarantine",
         Decided(x, status, "policy", Deciding(x) # {c} \/ operator.with = x),
         UNCHANGED <<indexed, operator, refused, cut>>
  PROVE  /\ ApprovedIsIngested' /\ DecidersSeePending' /\ IndexedIsApproved'
         /\ RefusedIsRejected' /\ PendingIsHeld'
         /\ \A y \in Candidates : DecisionIsFinal(y)
  <1>1. collector'[c] = w /\ \A d \in Collectors : d # c => collector'[d] = collector[d]
    BY DEF CollectorGoes
  <1>2. \A y \in Candidates : y # x => candidate'[y] = candidate[y]
    BY DEF Decided
  <1>3. \/ /\ Pending(x) /\ candidate'[x].status = status /\ candidate'[x].by = "policy"
        \/ /\ ~Pending(x) /\ candidate' = candidate
    BY DEF Decided
  <1>4. ~Pending(x) => x \in contested
    BY DEF DecisionInv, DecidersSeePending
  <1>5. contested \subseteq contested' /\ (\A y \in Candidates : y # x /\ y \in contested' => y \in contested)
    BY DEF Decided
  <1>6. x \notin contested' =>
          /\ Pending(x) /\ operator.with # x
          /\ \A d \in Collectors \ {c} :
               ~(collector[d].with = x /\ collector[d].at \in {"approve", "mark", "quarantine"})
    <2> SUFFICES ASSUME x \notin contested'
                 PROVE  /\ Pending(x) /\ operator.with # x
                        /\ \A d \in Collectors \ {c} :
                             ~(collector[d].with = x /\ collector[d].at \in {"approve", "mark", "quarantine"})
      OBVIOUS
    <2>1. Pending(x)
      BY <1>4, <1>5
    <2>2. Deciding(x) = {c} /\ operator.with # x
      BY <2>1 DEF Decided
    <2> QED
      BY <2>1, <2>2 DEF Deciding
  <1>7. ~Pending(x)'
    BY <1>3 DEF Pending
  <1>8. \A y \in Candidates : y # x => (Pending(y)' <=> Pending(y))
    BY <1>2 DEF Pending
  <1>9. ApprovedIsIngested'
    <2>1. \A y \in Candidates : candidate'[y].status = "approved" => <<y, candidate'[y].by>> \in indexed
      BY <1>2, <1>3 DEF DecisionInv, ApprovedIsIngested
    <2>2. \A d \in Collectors : collector'[d].at = "mark" => <<collector'[d].with, "policy">> \in indexed
      BY <1>1 DEF DecisionInv, ApprovedIsIngested, AtCandidate
    <2> QED
      BY <2>1, <2>2 DEF DecisionInv, ApprovedIsIngested
  <1>10. DecidersSeePending'
    <2> SUFFICES ASSUME NEW y \in Candidates, y \notin contested'
                 PROVE  /\ \A d \in Collectors :
                             collector'[d].with = y /\ collector'[d].at \in {"approve", "mark", "quarantine"}
                             => Pending(y)'
                        /\ operator.with = y => Pending(y)'
      BY DEF DecidersSeePending
    <2>1. CASE y = x
      BY <1>1, <1>6, <2>1 DEF AtCandidate
    <2>2. CASE y # x
      BY <1>1, <1>5, <1>8, <2>2 DEF DecisionInv, DecidersSeePending
    <2> QED
      BY <2>1, <2>2
  <1>11. IndexedIsApproved'
    <2> SUFFICES ASSUME NEW y \in Candidates, y \notin contested', y \notin cut,
                        NEW by \in {"policy", "operator"}, <<y, by>> \in indexed
                 PROVE  \/ Approving(y, by)'
                        \/ candidate'[y].status = "approved" /\ candidate'[y].by = by
      BY DEF IndexedIsApproved
    <2>1. Approving(y, by) \/ (candidate[y].status = "approved" /\ candidate[y].by = by)
      BY <1>5 DEF DecisionInv, IndexedIsApproved
    <2>2. CASE y # x
      BY <1>1, <1>2, <2>1, <2>2 DEF Approving
    <2>3. CASE y = x
      <3>1. Approving(x, by)
        BY <1>6, <2>1, <2>3 DEF Pending
      <3>2. by = "policy" /\ collector[c].at = "mark"
        BY <1>6, <2>3, <3>1 DEF Approving
      <3> QED
        BY <1>3, <1>6, <2>3, <3>2
    <2> QED
      BY <2>2, <2>3
  <1>12. RefusedIsRejected'
    <2>1. x \notin contested' /\ x \notin cut => x \notin refused
      BY <1>5, <1>6 DEF DecisionInv, RefusedIsRejected, Pending
    <2> QED
      BY <1>2, <1>5, <2>1 DEF DecisionInv, RefusedIsRejected
  <1>13. PendingIsHeld'
    <2> SUFFICES ASSUME NEW y \in Candidates, y \notin cut, Pending(y)'
                 PROVE  \E d \in Collectors : collector'[d].with = y /\ collector'[d].at \in AtCandidate
      BY DEF PendingIsHeld
    <2>1. y # x /\ Pending(y)
      BY <1>7, <1>8
    <2>2. PICK d \in Collectors : collector[d].with = y /\ collector[d].at \in AtCandidate
      BY <2>1 DEF DecisionInv, PendingIsHeld
    <2> QED
      BY <1>1, <2>1, <2>2
  <1>14. \A y \in Candidates : DecisionIsFinal(y)
    BY <1>2, <1>3 DEF DecisionIsFinal, Pending
  <1> QED
    BY <1>9, <1>10, <1>11, <1>12, <1>13, <1>14

\* The operator decides on the candidate x.
LEMMA OperatorKeeps ==
  ASSUME DecisionInv, NEW x \in Candidates, operator.with = x, operator' = AtRest,
         NEW status \in {"approved", "rejected"},
         operator.at = IF status = "approved" THEN "mark" ELSE "reject",
         Decided(x, status, "operator", Deciding(x) # {}),
         refused' = IF status = "rejected" THEN refused \cup {x} ELSE refused,
         UNCHANGED <<indexed, collector, cut>>
  PROVE  /\ ApprovedIsIngested' /\ DecidersSeePending' /\ IndexedIsApproved'
         /\ RefusedIsRejected' /\ PendingIsHeld'
         /\ \A y \in Candidates : DecisionIsFinal(y)
  <1>1. operator'.at = "idle" /\ operator'.with = <<>>
    BY DEF AtRest
  <1>2. \A y \in Candidates : y # x => candidate'[y] = candidate[y]
    BY DEF Decided
  <1>3. \/ /\ Pending(x) /\ candidate'[x].status = status /\ candidate'[x].by = "operator"
        \/ /\ ~Pending(x) /\ candidate' = candidate
    BY DEF Decided
  <1>4. ~Pending(x) => x \in contested
    BY DEF DecisionInv, DecidersSeePending
  <1>5. contested \subseteq contested' /\ (\A y \in Candidates : y # x /\ y \in contested' => y \in contested)
    BY DEF Decided
  <1>6. x \notin contested' =>
          /\ Pending(x)
          /\ \A d \in Collectors :
               ~(collector[d].with = x /\ collector[d].at \in {"approve", "mark", "quarantine"})
    <2> SUFFICES ASSUME x \notin contested'
                 PROVE  /\ Pending(x)
                        /\ \A d \in Collectors :
                             ~(collector[d].with = x /\ collector[d].at \in {"approve", "mark", "quarantine"})
      OBVIOUS
    <2>1. Pending(x)
      BY <1>4, <1>5
    <2>2. Deciding(x) = {}
      BY <2>1 DEF Decided
    <2> QED
      BY <2>1, <2>2 DEF Deciding
  <1>7. ~Pending(x)'
    BY <1>3 DEF Pending
  <1>8. \A y \in Candidates : y # x => (Pending(y)' <=> Pending(y))
    BY <1>2 DEF Pending
  <1>9. ApprovedIsIngested'
    <2>1. \A y \in Candidates : candidate'[y].status = "approved" => <<y, candidate'[y].by>> \in indexed
      BY <1>2, <1>3 DEF DecisionInv, ApprovedIsIngested
    <2> QED
      BY <1>1, <2>1 DEF DecisionInv, ApprovedIsIngested
  <1>10. DecidersSeePending'
    <2> SUFFICES ASSUME NEW y \in Candidates, y \notin contested'
                 PROVE  /\ \A d \in Collectors :
                             collector[d].with = y /\ collector[d].at \in {"approve", "mark", "quarantine"}
                             => Pending(y)'
                        /\ operator'.with = y => Pending(y)'
      BY DEF DecidersSeePending
    <2>1. operator'.with # y
      BY <1>1, CandidatesAreNoKeys
    <2>2. CASE y = x
      BY <1>6, <2>1, <2>2
    <2>3. CASE y # x
      BY <1>5, <1>8, <2>1, <2>3 DEF DecisionInv, DecidersSeePending
    <2> QED
      BY <2>2, <2>3
  <1>11. IndexedIsApproved'
    <2> SUFFICES ASSUME NEW y \in Candidates, y \notin contested', y \notin cut,
                        NEW by \in {"policy", "operator"}, <<y, by>> \in indexed
                 PROVE  \/ Approving(y, by)'
                        \/ candidate'[y].status = "approved" /\ candidate'[y].by = by
      BY DEF IndexedIsApproved
    <2>1. Approving(y, by) \/ (candidate[y].status = "approved" /\ candidate[y].by = by)
      BY <1>5 DEF DecisionInv, IndexedIsApproved
    <2>2. CASE y # x
      <3>1. ~Approving(y, "operator")
        BY <2>2 DEF Approving
      <3> QED
        BY <1>2, <2>1, <2>2, <3>1 DEF Approving
    <2>3. CASE y = x
      <3>1. Approving(x, by)
        BY <1>6, <2>1, <2>3 DEF Pending
      <3>2. by = "operator" /\ operator.at = "mark"
        BY <1>6, <2>3, <3>1 DEF Approving
      <3> QED
        BY <1>3, <1>6, <2>3, <3>2
    <2> QED
      BY <2>2, <2>3
  <1>12. RefusedIsRejected'
    <2>1. x \notin contested' /\ x \notin cut => x \notin refused
      BY <1>5, <1>6 DEF DecisionInv, RefusedIsRejected, Pending
    <2>2. x \notin contested' => candidate'[x].status = status
      BY <1>3, <1>6
    <2> SUFFICES ASSUME NEW y \in Candidates, y \notin contested', y \notin cut, y \in refused'
                 PROVE  candidate'[y].status = "rejected"
      BY DEF RefusedIsRejected
    <2>3. CASE y = x
      BY <2>1, <2>2, <2>3
    <2>4. CASE y # x
      BY <1>2, <1>5, <2>4 DEF DecisionInv, RefusedIsRejected
    <2> QED
      BY <2>3, <2>4
  <1>13. PendingIsHeld'
    BY <1>7, <1>8 DEF DecisionInv, PendingIsHeld
  <1>14. \A y \in Candidates : DecisionIsFinal(y)
    <2> SUFFICES ASSUME NEW y \in Candidates PROVE DecisionIsFinal(y)
      OBVIOUS
    <2>1. CASE candidate'[y] = candidate[y]
      BY <2>1 DEF DecisionIsFinal
    <2>2. CASE Pending(y)
      BY <2>2 DEF DecisionIsFinal, Pending
    <2> QED
      BY <1>2, <1>3, <2>1, <2>2
  <1> QED
    BY <1>9, <1>10, <1>11, <1>12, <1>13, <1>14

\* What the operator reads and ingests.
LEMMA OperatorGoes ==
  ASSUME DecisionInv, NEW x \in Candidates, operator'.with = x,
         UNCHANGED <<candidate, collector, refused, contested, cut>>,
         \/ /\ operator = AtRest /\ Pending(x) /\ operator'.at # "mark" /\ UNCHANGED indexed
         \/ /\ operator.at = "approve" /\ operator.with = x
            /\ operator' = [at |-> "mark", with |-> x]
            /\ indexed' = indexed \cup {<<x, "operator">>}
  PROVE  /\ ApprovedIsIngested' /\ DecidersSeePending' /\ IndexedIsApproved'
         /\ RefusedIsRejected' /\ PendingIsHeld'
  <1>1. operator.at # "mark"
    BY DEF AtRest
  <1>2. ApprovedIsIngested'
    BY DEF DecisionInv, ApprovedIsIngested
  <1>3. DecidersSeePending'
    BY DEF DecisionInv, DecidersSeePending, Pending
  <1>4. IndexedIsApproved'
    <2> SUFFICES ASSUME NEW y \in Candidates, y \notin contested, y \notin cut,
                        NEW by \in {"policy", "operator"}, <<y, by>> \in indexed'
                 PROVE  \/ Approving(y, by)'
                        \/ candidate[y].status = "approved" /\ candidate[y].by = by
      BY DEF IndexedIsApproved
    <2>1. CASE <<y, by>> \in indexed
      <3>1. Approving(y, by) \/ (candidate[y].status = "approved" /\ candidate[y].by = by)
        BY <2>1 DEF DecisionInv, IndexedIsApproved
      <3> QED
        BY <1>1, <3>1 DEF Approving
    <2>2. CASE <<y, by>> \notin indexed
      BY <2>2 DEF Approving
    <2> QED
      BY <2>1, <2>2
  <1>5. RefusedIsRejected'
    BY DEF DecisionInv, RefusedIsRejected
  <1>6. PendingIsHeld'
    BY DEF DecisionInv, PendingIsHeld, Pending
  <1> QED
    BY <1>2, <1>3, <1>4, <1>5, <1>6

\* A collector dies, and what it held is cut.
LEMMA DeathKeeps ==
  ASSUME DecisionInv, NEW c \in Collectors, CollectorDies(c)
  PROVE  /\ ApprovedIsIngested' /\ DecidersSeePending' /\ IndexedIsApproved'
         /\ RefusedIsRejected' /\ PendingIsHeld'
  <1>1. CollectionTyped
    BY DEF DecisionInv
  <1>2. CollectorGoes(c, AtRest)
    BY <1>1, CollectorMoves, AtRestTyped DEF CollectorDies
  <1>3. collector'[c].at = "idle" /\ collector'[c].with = <<>>
    BY <1>2 DEF CollectorGoes, AtRest
  <1>4. \A d \in Collectors : d # c => collector'[d] = collector[d]
    BY <1>2 DEF CollectorGoes
  <1>5. cut \subseteq cut' /\ (\A y \in Candidates : y \notin cut' => collector[c].with # y)
    BY DEF CollectorDies
  <1>6. UNCHANGED <<candidate, indexed, operator, refused, contested>>
    BY DEF CollectorDies
  <1>7. ApprovedIsIngested'
    BY <1>3, <1>4, <1>6 DEF DecisionInv, ApprovedIsIngested
  <1>8. DecidersSeePending'
    BY <1>3, <1>4, <1>6 DEF DecisionInv, DecidersSeePending, Pending
  <1>9. IndexedIsApproved'
    <2> SUFFICES ASSUME NEW y \in Candidates, y \notin contested, y \notin cut',
                        NEW by \in {"policy", "operator"}, <<y, by>> \in indexed
                 PROVE  \/ Approving(y, by)'
                        \/ candidate[y].status = "approved" /\ candidate[y].by = by
      BY <1>6 DEF IndexedIsApproved
    <2>1. Approving(y, by) \/ (candidate[y].status = "approved" /\ candidate[y].by = by)
      BY <1>5 DEF DecisionInv, IndexedIsApproved
    <2>2. Approving(y, by) => Approving(y, by)'
      BY <1>4, <1>5, <1>6 DEF Approving
    <2> QED
      BY <2>1, <2>2
  <1>10. RefusedIsRejected'
    BY <1>5, <1>6 DEF DecisionInv, RefusedIsRejected
  <1>11. PendingIsHeld'
    BY <1>4, <1>5, <1>6 DEF DecisionInv, PendingIsHeld, Pending
  <1> QED
    BY <1>7, <1>8, <1>9, <1>10, <1>11

\* The retries of a candidate end.
LEMMA ExhaustKeeps ==
  ASSUME DecisionInv, NEW c \in Collectors, NEW x \in Candidates, ExhaustCandidate(c, x)
  PROVE  /\ ApprovedIsIngested' /\ DecidersSeePending' /\ IndexedIsApproved'
         /\ RefusedIsRejected' /\ PendingIsHeld'
         /\ \A y \in Candidates : DecisionIsFinal(y)
  <1>1. \A y \in Candidates :
          /\ candidate'[y].by = candidate[y].by
          /\ \/ candidate'[y].status = candidate[y].status
             \/ candidate[y].status = "quarantined" /\ candidate'[y].status = "quarantine_exhausted"
    BY DEF ExhaustCandidate, DecisionInv, CollectionTyped, CandidateRows
  <1>2. UNCHANGED <<indexed, collector, operator, refused, contested, cut>>
    BY DEF ExhaustCandidate
  <1>3. \A y \in Candidates : Pending(y)' <=> Pending(y)
    BY <1>1 DEF Pending
  <1>4. ApprovedIsIngested'
    BY <1>1, <1>2 DEF DecisionInv, ApprovedIsIngested
  <1>5. DecidersSeePending'
    BY <1>2, <1>3 DEF DecisionInv, DecidersSeePending
  <1>6. \A y \in Candidates, by \in {"policy", "operator"} : Approving(y, by)' <=> Approving(y, by)
    BY <1>2 DEF Approving
  <1>7. IndexedIsApproved'
    <2> SUFFICES ASSUME NEW y \in Candidates, y \notin contested, y \notin cut,
                        NEW by \in {"policy", "operator"}, <<y, by>> \in indexed
                 PROVE  \/ Approving(y, by)'
                        \/ candidate'[y].status = "approved" /\ candidate'[y].by = by
      BY <1>2 DEF IndexedIsApproved
    <2>1. Approving(y, by) \/ (candidate[y].status = "approved" /\ candidate[y].by = by)
      BY DEF DecisionInv, IndexedIsApproved
    <2> QED
      BY <1>1, <1>6, <2>1
  <1>8. RefusedIsRejected'
    BY <1>1, <1>2 DEF DecisionInv, RefusedIsRejected
  <1>9. PendingIsHeld'
    BY <1>2, <1>3 DEF DecisionInv, PendingIsHeld
  <1>10. \A y \in Candidates : DecisionIsFinal(y)
    BY <1>1 DEF DecisionIsFinal
  <1> QED
    BY <1>4, <1>5, <1>7, <1>8, <1>9, <1>10

\* What a step has to show, beside the types.
DecisionsKept ==
  /\ ApprovedIsIngested' /\ DecidersSeePending' /\ IndexedIsApproved'
  /\ RefusedIsRejected' /\ PendingIsHeld'
  /\ \A x \in Candidates : DecisionIsFinal(x)

\* A step that writes no candidate decides on none.
LEMMA CandidatesUnchanged ==
  ASSUME UNCHANGED candidate PROVE CandidatesStay
  BY DEF CandidatesStay

\* The row of a collector that goes from at to another place with what it holds.
LEMMA CollectorRowTyped ==
  ASSUME CollectionTyped, NEW c \in Collectors,
         NEW at \in {"approve", "mark", "quarantine", "finish", "fail"}
  PROVE  [at |-> at, with |-> collector[c].with] \in WorkRows
  BY DEF CollectionTyped, WorkRows

\* Every step of a collector keeps the decisions: one case for each action.
LEMMA CollectKeeps ==
  ASSUME DecisionInv, NEW c \in Collectors, Collect(c)
  PROVE  DecisionsKept
  <1> USE DEF DecisionsKept
  <1>0. CollectionTyped
    BY DEF DecisionInv
  <1>a. ASSUME NEW at \in {"finish", "fail"}, collector[c].at \notin AtCandidate,
               CollectorAt(c, at), CandidatesStay,
               UNCHANGED <<indexed, operator, refused, contested, cut>>
        PROVE  DecisionsKept
    <2> DEFINE w == [at |-> at, with |-> collector[c].with]
    <2>1. CollectorGoes(c, w) /\ w \in WorkRows
      BY <1>0, <1>a, CollectorMovesTo, CollectorRowTyped
    <2>2. w.at \notin AtCandidate
      BY DEF AtCandidate
    <2> QED
      BY <1>a, <2>1, <2>2, QuietKeeps, StayIsFinal
  <1>1. CASE SeedSource(c)
    BY <1>1, QuietKeeps, CandidatesUnchanged, StayIsFinal DEF SeedSource
  <1>2. CASE RecoverStale(c)
    BY <1>2, QuietKeeps, CandidatesUnchanged, StayIsFinal DEF RecoverStale
  <1>3. ASSUME NEW p \in Pages, ClaimPage(c, p) PROVE DecisionsKept
    <2> DEFINE w == [at |-> "fetch", with |-> <<p>>]
    <2>1. w \in WorkRows
      BY PageKeys DEF WorkRows
    <2>2. CollectorGoes(c, w)
      BY <1>0, <1>3, <2>1, CollectorMoves DEF ClaimPage
    <2>3. collector[c].at \notin AtCandidate /\ w.at \notin AtCandidate
      BY <1>3 DEF ClaimPage, AtRest, AtCandidate
    <2>4. UNCHANGED <<candidate, indexed, operator, refused, contested, cut>>
      BY <1>3 DEF ClaimPage
    <2> QED
      BY <2>1, <2>2, <2>3, <2>4, QuietKeeps, CandidatesUnchanged, StayIsFinal
  <1>4. CASE FetchFails(c)
    BY <1>4, <1>a, CandidatesUnchanged DEF FetchFails, AtCandidate
  <1>5. CASE FetchSource(c)
    BY <1>5, <1>a, CandidatesUnchanged DEF FetchSource, AtCandidate
  <1>6. CASE FetchOffer(c)
    <2> DEFINE p == collector[c].with[1]
    <2>1. p \in Pages
      BY <1>0, <1>6, PageKeys DEF FetchOffer, CollectionTyped, CollectorAtWork
    <2>2. CASE CollectorAt(c, "finish") /\ UNCHANGED candidate
      BY <1>6, <1>a, <2>2, CandidatesUnchanged DEF FetchOffer, AtCandidate
    <2>3. ASSUME NEW v \in Contents,
                 candidate' = IF candidate[<<p, v>>] # NoCandidate THEN candidate
                   ELSE [candidate EXCEPT ![<<p, v>>].status = "pending_review"],
                 collector' = [collector EXCEPT ![c] = [at |-> "review", with |-> <<p, v>>]]
          PROVE  DecisionsKept
      <3> DEFINE x == <<p, v>>
                 w == [at |-> "review", with |-> x]
      <3>1. x \in Candidates
        BY <2>1, PageKeys
      <3>2. w \in WorkRows
        BY <3>1 DEF WorkRows
      <3>3. CollectorGoes(c, w)
        BY <1>0, <2>3, <3>2, CollectorMoves
      <3> HIDE DEF x
      <3>4. /\ \A y \in Candidates : y # x => candidate'[y] = candidate[y]
            /\ \/ candidate'[x] = candidate[x]
               \/ /\ candidate[x].status = "none" /\ candidate'[x].status = "pending_review"
                  /\ candidate'[x].by = candidate[x].by
        <4>1. candidate \in [Candidates -> CandidateRows]
          BY <1>0 DEF CollectionTyped
        <4>2. CASE candidate[x] # NoCandidate
          BY <2>3, <4>2 DEF x
        <4>3. CASE candidate[x] = NoCandidate
          <5>1. candidate' = [candidate EXCEPT ![x].status = "pending_review"]
            BY <2>3, <4>3 DEF x
          <5> QED
            BY <3>1, <4>1, <4>3, <5>1 DEF NoCandidate, CandidateRows
        <4> QED
          BY <4>2, <4>3
      <3>5. w.with = x /\ w.at = "review"
        OBVIOUS
      <3>6. collector[c].at = "fetch" /\ UNCHANGED <<indexed, operator, refused, contested, cut>>
        BY <1>6 DEF FetchOffer
      <3> HIDE DEF w
      <3> QED
        BY <3>1, <3>2, <3>3, <3>4, <3>5, <3>6, StoredKeeps
    <2> QED
      BY <1>6, <2>2, <2>3 DEF FetchOffer
  <1>7. CASE CompleteJob(c) \/ FailJob(c)
    <2>1. JobEnded(c)
      BY <1>7, BothEndJobs
    <2>2. collector[c].at \notin AtCandidate /\ AtRest.at \notin AtCandidate
      BY <2>1 DEF JobEnded, AtRest, AtCandidate
    <2>3. UNCHANGED <<candidate, indexed, operator, refused, contested, cut>>
      BY <2>1 DEF JobEnded
    <2>4. CASE collector' = [collector EXCEPT ![c] = AtRest]
      <3>1. CollectorGoes(c, AtRest)
        BY <1>0, <2>4, CollectorMoves, AtRestTyped
      <3> QED
        BY <2>2, <2>3, <3>1, AtRestTyped, QuietKeeps, CandidatesUnchanged, StayIsFinal
    <2>5. CASE CollectorAt(c, "fail")
      BY <1>a, <2>2, <2>3, <2>5, CandidatesUnchanged
    <2> QED
      BY <2>1, <2>4, <2>5 DEF JobEnded
  <1>8. CASE ReviewCandidate(c)
    <2> DEFINE x == collector[c].with
    <2>1. x \in Candidates /\ collector[c].at = "review"
      BY <1>0, <1>8 DEF ReviewCandidate, CollectionTyped, CollectorAtWork
    <2>2. PICK at \in {"approve", "quarantine", "finish", "fail"} :
            /\ CollectorAt(c, at)
            /\ Pending(x) <=> at \in {"approve", "quarantine"}
      BY <1>8 DEF ReviewCandidate, Pending
    <2> DEFINE w == [at |-> at, with |-> x]
    <2>3. CollectorGoes(c, w) /\ w \in WorkRows
      BY <1>0, <2>2, CollectorMovesTo, CollectorRowTyped
    <2>4. w.with = x /\ w.at = at
      OBVIOUS
    <2>5. at \notin {"approve", "quarantine"} => at \notin AtCandidate
      BY <2>2 DEF AtCandidate
    <2>6. UNCHANGED <<candidate, indexed, operator, refused, contested, cut>>
      BY <1>8 DEF ReviewCandidate
    <2> HIDE DEF w
    <2> QED
      BY <2>1, <2>2, <2>3, <2>4, <2>5, <2>6, HeldKeeps, CandidatesUnchanged, StayIsFinal
  <1>9. CASE QuarantineCandidate(c)
    <2> DEFINE x == collector[c].with
    <2>1. x \in Candidates /\ collector[c].at = "quarantine"
      BY <1>0, <1>9 DEF QuarantineCandidate, CollectionTyped, CollectorAtWork
    <2>2. Decided(x, "quarantined", "policy", Deciding(x) # {c} \/ operator.with = x)
      BY <1>0, <1>9, <2>1, DecideDecides DEF QuarantineCandidate
    <2> DEFINE w == [at |-> "finish", with |-> x]
    <2>3. CollectorGoes(c, w) /\ w \in WorkRows
      BY <1>0, <1>9, CollectorMovesTo, CollectorRowTyped DEF QuarantineCandidate
    <2>4. w.with = x /\ w.at \notin AtCandidate
      BY DEF AtCandidate
    <2>5. UNCHANGED <<indexed, operator, refused, cut>>
      BY <1>9 DEF QuarantineCandidate
    <2> HIDE DEF w
    <2> QED
      BY <2>1, <2>2, <2>3, <2>4, <2>5, DecidedKeeps
  <1>10. CASE IngestOffer(c)
    <2> DEFINE x == collector[c].with
               w == [at |-> "mark", with |-> x]
    <2>1. x \in Candidates /\ collector[c].at = "approve"
      BY <1>0, <1>10 DEF IngestOffer, CollectionTyped, CollectorAtWork
    <2>2. CollectorGoes(c, w) /\ w \in WorkRows
      BY <1>0, <1>10, CollectorMovesTo, CollectorRowTyped DEF IngestOffer
    <2>3. w.with = x /\ w.at = "mark"
      OBVIOUS
    <2>4. /\ UNCHANGED <<candidate, operator, refused, contested, cut>>
          /\ indexed' = indexed \cup {<<x, "policy">>}
      BY <1>10 DEF IngestOffer
    <2> HIDE DEF w
    <2> QED
      BY <2>1, <2>2, <2>3, <2>4, HeldKeeps, CandidatesUnchanged, StayIsFinal
  <1>11. CASE ApproveCandidate(c)
    <2> DEFINE x == collector[c].with
    <2>1. x \in Candidates /\ collector[c].at = "mark"
      BY <1>0, <1>11 DEF ApproveCandidate, CollectionTyped, CollectorAtWork
    <2>2. Decided(x, "approved", "policy", Deciding(x) # {c} \/ operator.with = x)
      BY <1>0, <1>11, <2>1, DecideDecides DEF ApproveCandidate
    <2>3. PICK at \in {"finish", "fail"} : CollectorAt(c, at)
      BY <1>11 DEF ApproveCandidate
    <2> DEFINE w == [at |-> at, with |-> x]
    <2>4. CollectorGoes(c, w) /\ w \in WorkRows
      BY <1>0, <2>3, CollectorMovesTo, CollectorRowTyped
    <2>5. w.with = x /\ w.at \notin AtCandidate
      BY DEF AtCandidate
    <2>6. UNCHANGED <<indexed, operator, refused, cut>>
      BY <1>11 DEF ApproveCandidate
    <2> HIDE DEF w
    <2> QED
      BY <2>1, <2>2, <2>4, <2>5, <2>6, DecidedKeeps
  <1>12. ASSUME NEW x \in Candidates, RetryCandidate(c, x) PROVE DecisionsKept
    <2>1. CandidatesStay
      BY <1>0, <1>12 DEF RetryCandidate, CandidatesStay, CollectionTyped, CandidateRows
    <2>2. UNCHANGED <<indexed, collector, operator, refused, contested, cut>>
      BY <1>12 DEF RetryCandidate
    <2> QED
      BY <2>1, <2>2, QuietKeeps, StayIsFinal
  <1>13. ASSUME NEW x \in Candidates, ExhaustCandidate(c, x) PROVE DecisionsKept
    BY <1>13, ExhaustKeeps
  <1> QED
    BY <1>1, <1>2, <1>3, <1>4, <1>5, <1>6, <1>7, <1>8, <1>9, <1>10, <1>11, <1>12, <1>13
    DEF Collect

\* So does every other step of the collection.
LEMMA DecisionStep ==
  ASSUME DecisionInv, CollectionNext
  PROVE  DecisionInv' /\ \A x \in Candidates : DecisionIsFinal(x)
  <1>0. CollectionTyped
    BY DEF DecisionInv
  <1> SUFFICES DecisionsKept
    BY <1>0, CollectionStaysTyped DEF DecisionInv, DecisionsKept
  <1>1. ASSUME NEW c \in Collectors, Collect(c) PROVE DecisionsKept
    BY <1>1, CollectKeeps
  <1>2. ASSUME NEW c \in Collectors, CollectorDies(c) PROVE DecisionsKept
    BY <1>2, DeathKeeps, CandidatesUnchanged, StayIsFinal DEF CollectorDies, DecisionsKept
  <1>3. ASSUME NEW x \in Candidates, OperatorReads(x) PROVE DecisionsKept
    <2>1. operator = AtRest /\ Pending(x) /\ operator'.with = x /\ operator'.at # "mark"
      BY <1>3 DEF OperatorReads
    <2>2. UNCHANGED <<candidate, indexed, collector, refused, contested, cut>>
      BY <1>3 DEF OperatorReads
    <2> QED
      BY <2>1, <2>2, OperatorGoes, CandidatesUnchanged, StayIsFinal DEF DecisionsKept
  <1>4. operator.at # "idle" => operator.with \in Candidates
    BY <1>0 DEF CollectionTyped, OperatorAtWork
  <1>5. CASE OperatorIngests
    <2>1. operator' = [at |-> "mark", with |-> operator.with]
      BY <1>0, <1>5 DEF OperatorIngests, CollectionTyped, WorkRows
    <2>2. operator.at = "approve" /\ operator.with \in Candidates /\ operator'.with = operator.with
      BY <1>4, <1>5, <2>1 DEF OperatorIngests
    <2>3. /\ UNCHANGED <<candidate, collector, refused, contested, cut>>
          /\ indexed' = indexed \cup {<<operator.with, "operator">>}
      BY <1>5 DEF OperatorIngests
    <2> QED
      BY <2>1, <2>2, <2>3, OperatorGoes, CandidatesUnchanged, StayIsFinal DEF DecisionsKept
  <1>6. CASE OperatorApproves
    <2>1. Decided(operator.with, "approved", "operator", Deciding(operator.with) # {})
      BY <1>0, <1>4, <1>6, DecideDecides DEF OperatorApproves
    <2> QED
      BY <1>4, <1>6, <2>1, OperatorKeeps DEF OperatorApproves, DecisionsKept
  <1>7. CASE OperatorRejects
    <2>1. Decided(operator.with, "rejected", "operator", Deciding(operator.with) # {})
      BY <1>0, <1>4, <1>7, DecideDecides DEF OperatorRejects
    <2> QED
      BY <1>4, <1>7, <2>1, OperatorKeeps DEF OperatorRejects, DecisionsKept
  <1> QED
    BY <1>1, <1>2, <1>3, <1>5, <1>6, <1>7 DEF CollectionNext

-----------------------------------------------------------------------------
\* The keys of the jobs tell the retries: up to the count of the candidate they are
\* all there, and one more when a collector died before it counted.
RetryInv ==
  /\ \A p \in Pages, q \in Pages : page[p].key = page[q].key /\ page[p].key # <<>> => p = q
  /\ \A x \in Candidates, n \in 1 .. PageRetries :
       /\ (\E p \in Pages : page[p].key = RetryKey(x, n)) =>
            n <= candidate[x].retries + 1 /\ (n = candidate[x].retries + 1 => faults >= 1)
       /\ n <= candidate[x].retries => \E p \in Pages : page[p].key = RetryKey(x, n)

\* What a step does to the keys.
KeysStay == \A p \in Pages : page'[p].key = page[p].key

KeyAdded(key) ==
  \E p \in Pages :
    /\ page[p].key = <<>> /\ page'[p].key = key
    /\ \A q \in Pages : q # p => page'[q].key = page[q].key
    /\ key # <<>> => \A q \in Pages : page[q].key # key

RetriesStay == \A x \in Candidates : candidate'[x].retries = candidate[x].retries

\* A job that is enqueued adds its key, unless it is there.
LEMMA EnqueuedAdds ==
  ASSUME CollectionTyped, NEW key, NEW kind, page' \in Enqueued(key, kind)
  PROVE  \/ KeysStay /\ \E p \in Pages : page[p].key = key
         \/ KeyAdded(key)
  <1>1. ASSUME NEW p \in Pages, NewPage(p, key, kind) PROVE KeyAdded(key)
    <2>1. page'[p].key = key /\ \A q \in Pages : q # p => page'[q] = page[q]
      BY <1>1 DEF NewPage, CollectionTyped
    <2>2. page[p].key = <<>> /\ (key # <<>> => \A q \in Pages : page[q].key # key)
      BY <1>1 DEF NewPage, NoPage
    <2> QED
      BY <2>1, <2>2 DEF KeyAdded
  <1> QED
    BY <1>1, EnqueuedIsNew DEF KeysStay

\* A step that adds no key of a retry, and counts none, keeps the retries in order.
LEMMA OtherKeysKeep ==
  ASSUME CollectionTyped, RetryInv, RetriesStay,
         KeysStay \/ KeyAdded(<<>>) \/ (\E key \in SourceKeys : KeyAdded(key)),
         UNCHANGED faults \/ Fault
  PROVE  RetryInv'
  <1>1. faults' \in Nat /\ faults \in Nat /\ faults' >= faults
    BY DEF CollectionTyped, Fault
  <1>2. ASSUME NEW x \in Candidates, NEW n \in 1 .. PageRetries
        PROVE  (\E p \in Pages : page'[p].key = RetryKey(x, n))
                 <=> \E p \in Pages : page[p].key = RetryKey(x, n)
    <2>1. n \in Nat
      BY CollectionAssumption
    <2>2. RetryKey(x, n) # <<>> /\ RetryKey(x, n) \notin SourceKeys
      BY <2>1, KeysDiffer
    <2>3. CASE KeysStay
      BY <2>3 DEF KeysStay
    <2>4. ASSUME NEW key \in {<<>>} \cup SourceKeys, KeyAdded(key)
          PROVE  (\E p \in Pages : page'[p].key = RetryKey(x, n))
                   <=> \E p \in Pages : page[p].key = RetryKey(x, n)
      BY <2>2, <2>4 DEF KeyAdded
    <2> QED
      BY <2>3, <2>4
  <1>3. \A p \in Pages, q \in Pages : page'[p].key = page'[q].key /\ page'[p].key # <<>> => p = q
    <2>1. CASE KeysStay
      BY <2>1 DEF KeysStay, RetryInv
    <2>2. ASSUME NEW key, KeyAdded(key)
          PROVE  \A p \in Pages, q \in Pages : page'[p].key = page'[q].key /\ page'[p].key # <<>> => p = q
      BY <2>2 DEF KeyAdded, RetryInv
    <2> QED
      BY <2>1, <2>2
  <1>4. \A x \in Candidates, n \in 1 .. PageRetries :
          /\ (\E p \in Pages : page'[p].key = RetryKey(x, n)) =>
               n <= candidate'[x].retries + 1 /\ (n = candidate'[x].retries + 1 => faults' >= 1)
          /\ n <= candidate'[x].retries => \E p \in Pages : page'[p].key = RetryKey(x, n)
    <2> SUFFICES ASSUME NEW x \in Candidates, NEW n \in 1 .. PageRetries
                 PROVE  /\ (\E p \in Pages : page'[p].key = RetryKey(x, n)) =>
                             /\ n <= candidate'[x].retries + 1
                             /\ n = candidate'[x].retries + 1 => faults' >= 1
                        /\ n <= candidate'[x].retries =>
                             \E p \in Pages : page'[p].key = RetryKey(x, n)
      OBVIOUS
    <2>1. candidate'[x].retries = candidate[x].retries
      BY DEF RetriesStay
    <2>2. /\ (\E p \in Pages : page[p].key = RetryKey(x, n)) =>
               n <= candidate[x].retries + 1 /\ (n = candidate[x].retries + 1 => faults >= 1)
          /\ n <= candidate[x].retries => \E p \in Pages : page[p].key = RetryKey(x, n)
      BY DEF RetryInv
    <2> QED
      BY <1>1, <1>2, <2>1, <2>2
  <1> QED
    BY <1>3, <1>4 DEF RetryInv, RetryKey

\* A retry adds the next key, and counts it or dies.
LEMMA RetryKeeps ==
  ASSUME CollectionTyped, RetryInv, NEW c \in Collectors, NEW x \in Candidates,
         RetryCandidate(c, x)
  PROVE  RetryInv'
  <1> DEFINE r == candidate[x].retries
             key == RetryKey(x, r + 1)
  <1>1. r \in Nat /\ r + 1 \in 1 .. PageRetries
    BY CollectionAssumption DEF RetryCandidate, CollectionTyped, CandidateRows
  <1>2. key # <<>>
    BY <1>1, KeysDiffer
  <1>3. (KeysStay /\ \E p \in Pages : page[p].key = key) \/ KeyAdded(key)
    BY EnqueuedAdds DEF RetryCandidate
  <1>4. /\ \A y \in Candidates : y # x => candidate'[y] = candidate[y]
        /\ \/ candidate'[x].retries = r + 1 /\ faults' = faults
           \/ candidate'[x].retries = r /\ faults' = faults + 1
    BY DEF RetryCandidate, CollectionTyped, CandidateRows, Fault
  <1>5. \A k : (\E p \in Pages : page'[p].key = k) /\ k # <<>> <=>
                 (\E p \in Pages : page[p].key = k /\ k # <<>>) \/ k = key
    BY <1>2, <1>3 DEF KeysStay, KeyAdded
  <1>6. \A p \in Pages, q \in Pages : page'[p].key = page'[q].key /\ page'[p].key # <<>> => p = q
    BY <1>3 DEF KeyAdded, KeysStay, RetryInv
  <1>7. faults \in Nat
    BY DEF CollectionTyped
  <1>8. ASSUME NEW y \in Candidates, NEW n \in 1 .. PageRetries
        PROVE  /\ (\E p \in Pages : page'[p].key = RetryKey(y, n)) =>
                    /\ n <= candidate'[y].retries + 1
                    /\ n = candidate'[y].retries + 1 => faults' >= 1
               /\ n <= candidate'[y].retries => \E p \in Pages : page'[p].key = RetryKey(y, n)
    <2>1. n \in Nat
      BY CollectionAssumption
    <2>2. RetryKey(y, n) # <<>> /\ (RetryKey(y, n) = key <=> y = x /\ n = r + 1)
      BY <1>1, <2>1, KeysDiffer
    <2>3. (\E p \in Pages : page'[p].key = RetryKey(y, n)) <=>
            (\E p \in Pages : page[p].key = RetryKey(y, n)) \/ (y = x /\ n = r + 1)
      BY <1>5, <2>2
    <2>4. /\ (\E p \in Pages : page[p].key = RetryKey(y, n)) =>
               n <= candidate[y].retries + 1 /\ (n = candidate[y].retries + 1 => faults >= 1)
          /\ n <= candidate[y].retries => \E p \in Pages : page[p].key = RetryKey(y, n)
      BY DEF RetryInv
    <2> HIDE DEF key
    <2>5. CASE y # x
      <3>1. candidate'[y] = candidate[y] /\ faults' >= faults /\ faults' \in Nat
        BY <1>4, <1>7, <2>5
      <3> QED
        BY <1>7, <2>3, <2>4, <2>5, <3>1
    <2>6. CASE y = x
      BY <1>1, <1>4, <1>7, <2>1, <2>3, <2>4, <2>6
    <2> QED
      BY <2>5, <2>6
  <1> QED
    BY <1>6, <1>8 DEF RetryInv, RetryKey

\* Every step of the collection keeps the retries in order.
LEMMA RetryStep ==
  ASSUME CollectionTyped, RetryInv, CollectionNext
  PROVE  RetryInv'
  <1> USE DEF RetriesStay
  <1>1. ASSUME NEW c \in Collectors, Collect(c) PROVE RetryInv'
    <2>1. CASE SeedSource(c)
      <3>1. KeysStay \/ KeyAdded(<<>>)
        BY <2>1, EnqueuedAdds DEF SeedSource
      <3> QED
        BY <2>1, <3>1, OtherKeysKeep DEF SeedSource
    <2>2. CASE RecoverStale(c)
      <3>1. KeysStay
        BY <2>2 DEF RecoverStale, Recovered, KeysStay, CollectionTyped, PageRows
      <3> QED
        BY <2>2, <3>1, OtherKeysKeep DEF RecoverStale
    <2>3. ASSUME NEW p \in Pages, ClaimPage(c, p) PROVE RetryInv'
      <3>1. KeysStay
        BY <2>3 DEF ClaimPage, KeysStay, CollectionTyped, PageRows
      <3> QED
        BY <2>3, <3>1, OtherKeysKeep DEF ClaimPage
    <2>4. CASE FetchFails(c)
      BY <2>4, OtherKeysKeep DEF FetchFails, KeysStay
    <2>5. CASE FetchSource(c)
      <3>1. collector[c].with \in SourceKeys
        BY <2>5 DEF FetchSource, CollectionTyped, CollectorAtWork
      <3>2. KeysStay \/ \E key \in SourceKeys : KeyAdded(key)
        <4>1. CASE UNCHANGED page
          BY <4>1 DEF KeysStay
        <4>2. CASE page' \in Enqueued(<<collector[c].with[1]>>, "page")
          BY <3>1, <4>2, PageKeys, EnqueuedAdds
        <4> QED
          BY <2>5, <4>1, <4>2 DEF FetchSource
      <3> QED
        BY <2>5, <3>2, OtherKeysKeep DEF FetchSource
    <2>6. CASE FetchOffer(c)
      <3>1. KeysStay
        BY <2>6 DEF FetchOffer, KeysStay
      <3>2. collector[c].with \in SourceKeys
        BY <2>6 DEF FetchOffer, CollectionTyped, CollectorAtWork
      <3>3. RetriesStay
        <4> SUFFICES ASSUME NEW v \in Contents,
                            candidate' = [candidate EXCEPT ![<<collector[c].with[1], v>>].status = "pending_review"]
                     PROVE  RetriesStay
          BY <2>6 DEF FetchOffer
        <4> DEFINE x == <<collector[c].with[1], v>>
        <4>1. x \in Candidates
          BY <3>2, PageKeys
        <4> HIDE DEF x
        <4>2. candidate' = [candidate EXCEPT ![x].status = "pending_review"]
          BY DEF x
        <4>3. candidate \in [Candidates -> CandidateRows]
          BY DEF CollectionTyped
        <4>4. candidate'[x].retries = candidate[x].retries
          BY <4>1, <4>2, <4>3 DEF CandidateRows
        <4>5. \A y \in Candidates \ {x} : candidate'[y] = candidate[y]
          BY <4>2, <4>3
        <4> QED
          BY <4>4, <4>5 DEF RetriesStay
      <3> QED
        BY <2>6, <3>1, <3>3, OtherKeysKeep DEF FetchOffer
    <2>7. CASE CompleteJob(c) \/ FailJob(c)
      <3>1. JobEnded(c)
        BY <2>7, BothEndJobs
      <3>2. KeysStay
        BY <3>1, EndKeepsPages DEF JobEnded, KeysStay
      <3> QED
        BY <3>1, <3>2, OtherKeysKeep DEF JobEnded
    <2>8. CASE ReviewCandidate(c)
      BY <2>8, OtherKeysKeep DEF ReviewCandidate, KeysStay
    <2>9. CASE QuarantineCandidate(c)
      <3>1. collector[c].with \in Candidates
        BY <2>9 DEF QuarantineCandidate, CollectionTyped, CollectorAtWork
      <3>2. RetriesStay
        BY <2>9, <3>1 DEF QuarantineCandidate, Decide, CollectionTyped, CandidateRows
      <3> QED
        BY <2>9, <3>2, OtherKeysKeep DEF QuarantineCandidate, KeysStay
    <2>10. CASE IngestOffer(c)
      BY <2>10, OtherKeysKeep DEF IngestOffer, KeysStay
    <2>11. CASE ApproveCandidate(c)
      <3>1. collector[c].with \in Candidates
        BY <2>11 DEF ApproveCandidate, CollectionTyped, CollectorAtWork
      <3>2. RetriesStay
        BY <2>11, <3>1 DEF ApproveCandidate, Decide, CollectionTyped, CandidateRows
      <3> QED
        BY <2>11, <3>2, OtherKeysKeep DEF ApproveCandidate, KeysStay
    <2>12. ASSUME NEW x \in Candidates, RetryCandidate(c, x) PROVE RetryInv'
      BY <2>12, RetryKeeps
    <2>13. ASSUME NEW x \in Candidates, ExhaustCandidate(c, x) PROVE RetryInv'
      <3>1. RetriesStay
        BY <2>13 DEF ExhaustCandidate, CollectionTyped, CandidateRows
      <3> QED
        BY <2>13, <3>1, OtherKeysKeep DEF ExhaustCandidate, KeysStay
    <2> QED
      BY <1>1, <2>1, <2>2, <2>3, <2>4, <2>5, <2>6, <2>7, <2>8, <2>9, <2>10, <2>11, <2>12, <2>13
      DEF Collect
  <1>2. ASSUME NEW c \in Collectors, CollectorDies(c) PROVE RetryInv'
    BY <1>2, OtherKeysKeep DEF CollectorDies, KeysStay
  <1>3. ASSUME NEW x \in Candidates, OperatorReads(x) PROVE RetryInv'
    BY <1>3, OtherKeysKeep DEF OperatorReads, KeysStay
  <1>4. CASE OperatorIngests
    BY <1>4, OtherKeysKeep DEF OperatorIngests, KeysStay
  <1>5. CASE OperatorApproves
    <2>1. operator.with \in Candidates
      BY <1>5 DEF OperatorApproves, CollectionTyped, OperatorAtWork
    <2>2. RetriesStay
      BY <1>5, <2>1 DEF OperatorApproves, Decide, CollectionTyped, CandidateRows
    <2> QED
      BY <1>5, <2>2, OtherKeysKeep DEF OperatorApproves, KeysStay
  <1>6. CASE OperatorRejects
    <2>1. operator.with \in Candidates
      BY <1>6 DEF OperatorRejects, CollectionTyped, OperatorAtWork
    <2>2. RetriesStay
      BY <1>6, <2>1 DEF OperatorRejects, Decide, CollectionTyped, CandidateRows
    <2> QED
      BY <1>6, <2>2, OtherKeysKeep DEF OperatorRejects, KeysStay
  <1> QED
    BY <1>1, <1>2, <1>3, <1>4, <1>5, <1>6 DEF CollectionNext

\* The retries are as many as their numbers, from 1 to the last one.
LEMMA RetriesCounted ==
  ASSUME CollectionTyped, RetryInv
  PROVE  RetriesAreBounded
  <1> SUFFICES ASSUME NEW x \in Candidates
               PROVE  Cardinality({p \in Pages : \E n \in 1 .. PageRetries : page[p].key = RetryKey(x, n)})
                        \in candidate[x].retries .. candidate[x].retries + faults
    BY DEF RetriesAreBounded
  <1> DEFINE S == {p \in Pages : \E n \in 1 .. PageRetries : page[p].key = RetryKey(x, n)}
             r == candidate[x].retries
             Stored(n) == \E p \in Pages : page[p].key = RetryKey(x, n)
  <1>1. r \in 0 .. PageRetries /\ faults \in Nat
    BY DEF CollectionTyped, CandidateRows
  <1>2. PICK m \in {r, r + 1} : /\ m \in 0 .. PageRetries
                                /\ m = r + 1 => faults >= 1
                                /\ \A n \in 1 .. PageRetries : Stored(n) <=> n <= m
    <2>1. \A n \in 1 .. PageRetries :
            /\ Stored(n) => n <= r + 1 /\ (n = r + 1 => faults >= 1)
            /\ n <= r => Stored(n)
      BY DEF RetryInv
    <2> HIDE DEF Stored, r
    <2>2. CASE r + 1 \in 1 .. PageRetries /\ Stored(r + 1)
      <3>1. \A n \in 1 .. PageRetries : Stored(n) <=> n <= r + 1
        <4> SUFFICES ASSUME NEW n \in 1 .. PageRetries PROVE Stored(n) <=> n <= r + 1
          OBVIOUS
        <4>1. CASE n = r + 1
          BY <1>1, <2>2, <4>1
        <4>2. CASE n # r + 1
          BY <1>1, <2>1, <4>2, CollectionAssumption
        <4> QED
          BY <4>1, <4>2
      <3>2. r + 1 \in 0 .. PageRetries /\ faults >= 1
        BY <1>1, <2>1, <2>2, CollectionAssumption
      <3> QED
        BY <3>1, <3>2
    <2>3. CASE ~(r + 1 \in 1 .. PageRetries /\ Stored(r + 1))
      <3>1. \A n \in 1 .. PageRetries : Stored(n) <=> n <= r
        <4> SUFFICES ASSUME NEW n \in 1 .. PageRetries PROVE Stored(n) <=> n <= r
          OBVIOUS
        <4>1. CASE n = r + 1
          BY <1>1, <2>3, <4>1, CollectionAssumption
        <4>2. CASE n # r + 1
          BY <1>1, <2>1, <4>2, CollectionAssumption
        <4> QED
          BY <4>1, <4>2
      <3>2. r # r + 1
        BY <1>1, CollectionAssumption
      <3> QED
        BY <1>1, <3>1, <3>2
    <2> QED
      BY <2>2, <2>3
  <1> DEFINE f == [n \in 1 .. m |-> CHOOSE p \in Pages : page[p].key = RetryKey(x, n)]
  <1>3. \A n \in 1 .. m : n \in 1 .. PageRetries /\ n \in Nat
    BY <1>2, CollectionAssumption
  <1>4. \A n \in 1 .. m : f[n] \in Pages /\ page[f[n]].key = RetryKey(x, n)
    BY <1>2, <1>3
  <1>5. f \in [1 .. m -> S]
    BY <1>3, <1>4
  <1> HIDE DEF f
  <1>6. \A a, b \in 1 .. m : f[a] = f[b] => a = b
    BY <1>3, <1>4, KeysDiffer
  <1>7. \A t \in S : \E n \in 1 .. m : f[n] = t
    <2> SUFFICES ASSUME NEW t \in S PROVE \E n \in 1 .. m : f[n] = t
      OBVIOUS
    <2>1. PICK n \in 1 .. PageRetries : page[t].key = RetryKey(x, n)
      OBVIOUS
    <2>2. n \in 1 .. m
      BY <1>2, <2>1, CollectionAssumption
    <2>3. page[f[n]].key = page[t].key /\ f[n] \in Pages /\ RetryKey(x, n) # <<>>
      BY <1>3, <1>4, <2>1, <2>2, KeysDiffer
    <2>4. f[n] = t
      BY <2>1, <2>3 DEF RetryInv
    <2> QED
      BY <2>2, <2>4
  <1> HIDE DEF S
  <1>8. f \in Bijection(1 .. m, S)
    BY <1>5, <1>6, <1>7, Fun_IsBij
  <1>9. m \in Nat
    BY <1>2, CollectionAssumption
  <1>10. Cardinality(S) = m
    BY <1>8, <1>9, FS_CountingElements DEF ExistsBijection
  <1>11. m \in r .. r + faults
    BY <1>1, <1>2, CollectionAssumption
  <1> QED
    BY <1>10, <1>11 DEF S

-----------------------------------------------------------------------------
\* The prospect, and the last ruling on it.
ProspectsTyped ==
  /\ prospect \in {"none", "discovered", "candidate_qualified"} \cup Rulings
  /\ ruling \in {"none"} \cup Rulings
  /\ qualifying \in BOOLEAN /\ overruled \in BOOLEAN

\* The inductive invariant.
CollectionInv ==
  /\ DecisionInv
  /\ RetryInv
  /\ ProspectsTyped
  /\ RulingStands

\* It holds at the beginning.
LEMMA CollectionBegins == CollectionInit => CollectionInv
  <1> SUFFICES ASSUME CollectionInit PROVE CollectionInv
    OBVIOUS
  <1>1. \A p \in Pages : page[p].key = <<>> /\ page[p].status = "none"
    BY DEF CollectionInit, NoPage
  <1>2. \A x \in Candidates : candidate[x].status = "none" /\ candidate[x].retries = 0
    BY DEF CollectionInit, NoCandidate
  <1>3. \A c \in Collectors : collector[c].at = "idle" /\ collector[c].with = <<>>
    BY DEF CollectionInit, AtRest
  <1>4. operator.at = "idle" /\ operator.with = <<>>
    BY DEF CollectionInit, AtRest
  <1>5. CollectionTyped
    <2>1. NoPage \in PageRows
      <3>1. 0 \in 0 .. PageAttempts /\ <<>> \in JobKeys
        BY CollectionAssumption DEF JobKeys
      <3> QED
        BY <3>1 DEF NoPage, PageRows
    <2>2. NoCandidate \in CandidateRows
      BY CollectionAssumption DEF NoCandidate, CandidateRows
    <2>3. PagesTyped
      BY <1>1, <2>1 DEF CollectionInit, PagesTyped
    <2>4. CollectorsTyped
      BY AtRestTyped DEF CollectionInit, CollectorsTyped
    <2>5. CandidatesTyped
      BY <2>2, AtRestTyped, FaultsAssumption DEF CollectionInit, CandidatesTyped
    <2> QED
      BY <2>3, <2>4, <2>5, CollectionParts
  <1>6. ApprovedIsIngested
    BY <1>2, <1>3, <1>4 DEF ApprovedIsIngested
  <1>7. DecidersSeePending
    BY <1>3, <1>4, CandidatesAreNoKeys DEF DecidersSeePending
  <1>8. IndexedIsApproved /\ RefusedIsRejected
    BY DEF CollectionInit, IndexedIsApproved, RefusedIsRejected
  <1>9. PendingIsHeld
    BY <1>2 DEF PendingIsHeld, Pending
  <1>10. RetryInv
    <2>1. \A x \in Candidates, n \in 1 .. PageRetries : RetryKey(x, n) # <<>> /\ ~(n <= 0)
      BY KeysDiffer, CollectionAssumption
    <2> QED
      BY <1>1, <1>2, <2>1 DEF RetryInv
  <1>11. ProspectsTyped /\ RulingStands
    BY DEF CollectionInit, ProspectsTyped, RulingStands
  <1> QED
    BY <1>5, <1>6, <1>7, <1>8, <1>9, <1>10, <1>11 DEF CollectionInv, DecisionInv

\* A step about the prospect leaves the last ruling on it, or says it is overruled.
LEMMA ProspectsKeep ==
  ASSUME ProspectsTyped, RulingStands, ProspectsNext
  PROVE  ProspectsTyped' /\ RulingStands'
  <1> USE DEF ProspectsTyped, RulingStands, Rulings
  <1>1. CASE StoreProspect
    BY <1>1 DEF StoreProspect
  <1>2. CASE ReadProspect
    BY <1>2 DEF ReadProspect
  <1>3. CASE QualifyProspect
    BY <1>3 DEF QualifyProspect
  <1>4. CASE DecideProspect
    BY <1>4 DEF DecideProspect
  <1> QED
    BY <1>1, <1>2, <1>3, <1>4 DEF ProspectsNext

\* A step elsewhere keeps what is known of the collection.
LEMMA TablesKept ==
  ASSUME DecisionInv, RetryInv, UNCHANGED <<collectionTables, faults>>
  PROVE  DecisionInv' /\ RetryInv' /\ \A x \in Candidates : DecisionIsFinal(x)
  <1>0. CollectionTyped
    BY DEF DecisionInv
  <1>1. UNCHANGED <<page, candidate, indexed, collector, operator, refused, contested, cut, faults>>
    BY DEF collectionTables
  <1>2. CollectionTyped'
    BY <1>0, <1>1, CollectionParts, CollectionFromParts, PagesKept, CollectorsKept,
       CandidatesKept
  <1>3. CandidatesStay
    BY <1>1, CandidatesUnchanged
  <1>4. DecisionInv'
    BY <1>1, <1>2, <1>3, QuietKeeps DEF DecisionInv
  <1>5. RetryInv'
    BY <1>0, <1>1, OtherKeysKeep DEF KeysStay, RetriesStay
  <1> QED
    BY <1>3, <1>4, <1>5, StayIsFinal

\* A step of the specification.
CollectionMoves ==
  \/ CollectionNext /\ UNCHANGED prospectTables
  \/ ProspectsNext /\ UNCHANGED collectionTables

\* Every step keeps the invariant, and every decision.
LEMMA CollectionKept ==
  ASSUME CollectionInv, [CollectionMoves]_collectionVars
  PROVE  CollectionInv' /\ \A x \in Candidates : DecisionIsFinal(x)
  <1> USE DEF CollectionInv
  <1>0. CollectionTyped
    BY DEF DecisionInv
  <1>a. ASSUME UNCHANGED prospectTables PROVE ProspectsTyped' /\ RulingStands'
    BY <1>a DEF prospectTables, ProspectsTyped, RulingStands
  <1>1. CASE CollectionNext /\ UNCHANGED prospectTables
    BY <1>0, <1>a, <1>1, DecisionStep, RetryStep
  <1>2. CASE ProspectsNext /\ UNCHANGED collectionTables
    <2>1. UNCHANGED faults
      BY <1>2 DEF ProspectsNext
    <2> QED
      BY <1>2, <2>1, ProspectsKeep, TablesKept
  <1>3. CASE UNCHANGED collectionVars
    <2>1. UNCHANGED prospectTables /\ UNCHANGED <<collectionTables, faults>>
      BY <1>3 DEF collectionVars
    <2> QED
      BY <1>a, <2>1, TablesKept
  <1> QED
    BY <1>1, <1>2, <1>3 DEF CollectionMoves

\* So it always holds.
LEMMA CollectionHolds == CollectionSpec => [](CollectionInv)
  <1>1. CollectionInv /\ [CollectionMoves]_collectionVars => CollectionInv'
    BY CollectionKept
  <1> QED
    BY <1>1, CollectionBegins, PTL DEF CollectionSpec, CollectionMoves

\* The invariant says that the tables have their types.
LEMMA CollectionTypes == CollectionInv => CollectionTypeOK
  <1> SUFFICES ASSUME CollectionInv PROVE CollectionTypeOK
    OBVIOUS
  <1>1. CollectionTyped /\ ProspectsTyped
    BY DEF CollectionInv, DecisionInv
  <1>2. \A p \in Pages : page[p] \in PageRows
    BY <1>1 DEF CollectionTyped
  <1>3. \A p \in Pages : page[p].key \in JobKeys
    BY <1>2 DEF PageRows
  <1>4. \A p \in Pages :
          /\ page[p].kind \in {"none", "sitemap", "catalog", "manifest", "page"}
          /\ page[p].status \in {"none", "queued", "processing", "completed", "failed"}
          /\ page[p].attempts \in 0 .. PageAttempts
    BY <1>2 DEF PageRows
  <1>5. \A w \in {operator} \cup {collector[c] : c \in Collectors} : w \in WorkRows
    BY <1>1 DEF CollectionTyped
  <1>6. \A w \in {operator} \cup {collector[c] : c \in Collectors} :
          /\ w.at \in {"idle", "fetch", "review", "approve", "mark", "quarantine", "reject",
                       "finish", "fail"}
          /\ w.with \in {<<>>} \cup SourceKeys \cup Candidates
    BY <1>5 DEF WorkRows
  <1> QED
    BY <1>1, <1>3, <1>4, <1>6
    DEF CollectionTypeOK, CollectionTyped, ProspectsTyped, CandidateRows, JobKeys, SourceKeys, RetryKeys

\* Type correctness of the collection (collector_worker.py, repository.py): jobs,
\* candidates, workers and the prospect keep their types, and no job is attempted
\* more often than it may be.
THEOREM CollectionTypeCorrect == CollectionSpec => []CollectionTypeOK
  BY CollectionHolds, CollectionTypes, PTL

\* The collection is reviewed (approve_review_candidate, reject_review_candidate,
\* schedule_due_quarantine_retries, decide_external_prospect), whatever collectors
\* and the operator do at once: the index holds what was approved, a completed job
\* leaves nothing undecided, retries are counted, rulings stand and decisions are
\* final, but for the exceptions that CollectionIsReviewed names.
THEOREM CollectionStaysReviewed == CollectionSpec => CollectionIsReviewed
  <1>1. CollectionInv => IndexIsApproved /\ CompletedIsReviewed /\ RetriesAreBounded /\ RulingStands
    BY DecisionImplies, RetriesCounted DEF CollectionInv, DecisionInv
  <1>2. CollectionInv /\ [CollectionMoves]_collectionVars
          => [\A x \in Candidates : DecisionIsFinal(x)]_collectionVars
    BY CollectionKept
  <1> QED
    BY <1>1, <1>2, CollectionHolds, PTL
    DEF CollectionSpec, CollectionMoves, CollectionIsReviewed
-----------------------------------------------------------------------------
(* The hosted jobs.  The events that have been the last of the journal are *)
(* kept by by_previous, and each names another of them (HeadsKept): so the  *)
(* walk meets them all, by induction on the numbers of the events.          *)

Events == [type : {"queued", "leased"} \cup HostedFinal, at : Nat,
           hash : Nat \ {0}, previous : Nat]

\* An event is sorted in at a place, and the events from there on move up.
LEMMA SortedIn ==
  ASSUME NEW j \in Seq(Events), NEW e \in Events, NEW place \in 1 .. Len(j) + 1
  PROVE  /\ InsertAt(j, place, e) \in Seq(Events)
         /\ Len(InsertAt(j, place, e)) = Len(j) + 1
         /\ \A i \in 1 .. Len(j) + 1 :
              InsertAt(j, place, e)[i] = IF i < place THEN j[i]
                                         ELSE IF i = place THEN e ELSE j[i - 1]
<1> DEFINE before == SubSeq(j, 1, place - 1)
           one == <<e>>
           after == SubSeq(j, place, Len(j))
<1>1. Len(j) \in Nat /\ \A i \in 1 .. Len(j) : j[i] \in Events
  BY LenProperties
<1>2. /\ before \in Seq(Events) /\ Len(before) = place - 1
      /\ \A i \in 1 .. place - 1 : before[i] = j[i]
  <2>1. \A i \in 1 .. place - 1 : j[i] \in Events
    BY <1>1
  <2>2. /\ before \in Seq(Events) /\ Len(before) = IF 1 <= place - 1 THEN (place - 1) - 1 + 1 ELSE 0
        /\ \A i \in 1 .. (place - 1) - 1 + 1 : before[i] = j[1 + i - 1]
    BY <1>1, <2>1, SubSeqProperties
  <2> HIDE DEF before
  <2> QED BY <1>1, <2>2
<1>3. /\ after \in Seq(Events) /\ Len(after) = Len(j) - place + 1
      /\ \A i \in 1 .. Len(j) - place + 1 : after[i] = j[place + i - 1]
  <2>1. \A i \in place .. Len(j) : j[i] \in Events
    BY <1>1
  <2>2. /\ after \in Seq(Events) /\ Len(after) = IF place <= Len(j) THEN Len(j) - place + 1 ELSE 0
        /\ \A i \in 1 .. Len(j) - place + 1 : after[i] = j[place + i - 1]
    BY <1>1, <2>1, SubSeqProperties
  <2> HIDE DEF after
  <2> QED BY <1>1, <2>2
<1>4. one \in Seq(Events) /\ Len(one) = 1 /\ one[1] = e
  OBVIOUS
<1> DEFINE two == before \o one
<1> HIDE DEF before, one, after
<1>5. /\ two \in Seq(Events) /\ Len(two) = place
      /\ \A i \in 1 .. place : two[i] = IF i <= place - 1 THEN before[i] ELSE one[i - (place - 1)]
  <2>1. /\ two \in Seq(Events) /\ Len(two) = Len(before) + Len(one)
        /\ \A i \in 1 .. Len(before) + Len(one) :
             two[i] = IF i <= Len(before) THEN before[i] ELSE one[i - Len(before)]
    BY <1>2, <1>4, ConcatProperties, Zenon
  <2>2. Len(before) = place - 1 /\ Len(before) + Len(one) = place
    BY <1>1, <1>2, <1>4
  <2> HIDE DEF two
  <2> QED BY <2>1, <2>2, Zenon
<1> DEFINE all == two \o after
<1> HIDE DEF two
<1>6. /\ all \in Seq(Events) /\ Len(all) = Len(j) + 1
      /\ \A i \in 1 .. Len(j) + 1 : all[i] = IF i <= place THEN two[i] ELSE after[i - place]
  <2>1. /\ all \in Seq(Events) /\ Len(all) = Len(two) + Len(after)
        /\ \A i \in 1 .. Len(two) + Len(after) :
             all[i] = IF i <= Len(two) THEN two[i] ELSE after[i - Len(two)]
    BY <1>3, <1>5, ConcatProperties, Zenon
  <2>2. Len(two) = place /\ Len(two) + Len(after) = Len(j) + 1
    BY <1>1, <1>3, <1>5
  <2> HIDE DEF all
  <2> QED BY <2>1, <2>2, Zenon
<1>7. InsertAt(j, place, e) = all
  BY DEF InsertAt, all, two, before, one, after
<1> HIDE DEF all
<1>8. ASSUME NEW i \in 1 .. Len(j) + 1
      PROVE  all[i] = IF i < place THEN j[i] ELSE IF i = place THEN e ELSE j[i - 1]
  <2>1. CASE i < place
    BY <1>1, <1>2, <1>5, <1>6, <2>1, SMTT(30)
  <2>2. CASE i = place
    BY <1>1, <1>4, <1>5, <1>6, <2>2
  <2>3. CASE i > place
    <3>1. i - place \in 1 .. Len(j) - place + 1 /\ place + (i - place) - 1 = i - 1
      BY <1>1, <2>3
    <3>2. after[i - place] = j[i - 1]
      BY <1>3, <3>1
    <3> QED BY <1>1, <1>6, <2>3, <3>2
  <2> QED BY <1>1, <2>1, <2>2, <2>3
<1> QED BY <1>6, <1>7, <1>8

\* The hashes that have been that of the last event.
Heads(j) == Predecessors(j) \cup {JournalHead(j)}

\* Hashes are the numbers of the events, and an event names an earlier one.
Numbered(j) ==
  /\ \A i \in DOMAIN j : j[i].hash \in 1 .. Len(j) /\ j[i].previous < j[i].hash
  /\ \A h \in 1 .. Len(j) : \E i \in DOMAIN j : j[i].hash = h

\* by_previous keeps the event.
Kept(j, i) == \A k \in DOMAIN j : k > i => j[k].previous # j[i].previous

\* It keeps each event that has been the last; and no event that names the last
\* one has been the last itself.
HeadsKept(j) ==
  \A i \in DOMAIN j :
    j[i].hash \in Heads(j) => Kept(j, i) /\ j[i].previous # JournalHead(j)

HeadIsOpen(j) == \A i \in DOMAIN j : j[i].previous # JournalHead(j)

AllKept(j) == \A i \in DOMAIN j : Kept(j, i)

\* k is j with an event that names the last one, sorted in.
Grows(j, k, place, e) ==
  /\ j \in Seq(Events) /\ k \in Seq(Events) /\ e \in Events
  /\ Len(k) = Len(j) + 1 /\ place \in 1 .. Len(j) + 1
  /\ \A i \in 1 .. Len(j) + 1 : k[i] = IF i < place THEN j[i]
                                       ELSE IF i = place THEN e ELSE j[i - 1]
  /\ e.hash = Len(j) + 1 /\ e.previous = JournalHead(j)

LEMMA JournalShape ==
  ASSUME NEW j \in Seq(Events)
  PROVE  /\ Len(j) \in Nat /\ DOMAIN j = 1 .. Len(j)
         /\ \A i \in DOMAIN j : j[i] \in Events /\ j[i].hash \in Nat \ {0} /\ j[i].previous \in Nat
         /\ j = <<>> <=> Len(j) = 0
<1>1. /\ Len(j) \in Nat /\ DOMAIN j = 1 .. Len(j) /\ \A i \in DOMAIN j : j[i] \in Events
      /\ j = <<>> <=> Len(j) = 0
  BY LenProperties, EmptySeq
<1> QED BY <1>1 DEF Events

\* Where the events of j are in k, and what they were in j.
LEMMA GrownEvents ==
  ASSUME NEW j, NEW k, NEW place, NEW e, Grows(j, k, place, e)
  PROVE  /\ \A i \in DOMAIN k : i # place =>
              (IF i < place THEN i ELSE i - 1) \in DOMAIN j
                /\ k[i] = j[IF i < place THEN i ELSE i - 1]
         /\ \A i \in DOMAIN j :
              (IF i < place THEN i ELSE i + 1) \in DOMAIN k
                /\ k[IF i < place THEN i ELSE i + 1] = j[i]
         /\ place \in DOMAIN k /\ k[place] = e
         /\ place \in Nat /\ Len(j) \in Nat /\ DOMAIN j = 1 .. Len(j) /\ DOMAIN k = 1 .. Len(j) + 1
<1>1. /\ Len(j) \in Nat /\ DOMAIN j = 1 .. Len(j) /\ DOMAIN k = 1 .. Len(j) + 1
      /\ place \in 1 .. Len(j) + 1
      /\ \A i \in 1 .. Len(j) + 1 : k[i] = IF i < place THEN j[i]
                                       ELSE IF i = place THEN e ELSE j[i - 1]
  BY JournalShape DEF Grows
<1> QED BY <1>1

LEMMA GrownHeads ==
  ASSUME NEW j, NEW k, NEW place, NEW e, Grows(j, k, place, e)
  PROVE  /\ JournalHead(k) = IF place = Len(j) + 1 THEN Len(j) + 1 ELSE JournalHead(j)
         /\ Predecessors(k) = Predecessors(j) \cup {JournalHead(j)}
<1>1. JournalHead(k) = IF place = Len(j) + 1 THEN Len(j) + 1 ELSE JournalHead(j)
  <2>1. k # <<>> /\ Len(k) = Len(j) + 1 /\ Len(j) \in Nat /\ DOMAIN j = 1 .. Len(j)
        /\ (j = <<>> <=> Len(j) = 0) /\ place \in 1 .. Len(j) + 1
    BY JournalShape DEF Grows
  <2>2. k[Len(j) + 1] = IF place = Len(j) + 1 THEN e ELSE j[Len(j)]
    BY <2>1 DEF Grows
  <2> QED BY <2>1, <2>2 DEF JournalHead, Last, Grows
<1>2. ASSUME NEW p \in Predecessors(k) PROVE p \in Predecessors(j) \cup {JournalHead(j)}
  <2>1. PICK i \in DOMAIN k : p = k[i].previous
    BY DEF Predecessors
  <2>2. CASE i = place
    BY <2>1, <2>2, GrownEvents DEF Grows
  <2>3. CASE i # place
    <3>1. PICK m \in DOMAIN j : k[i] = j[m]
      BY <2>3, GrownEvents
    <3> QED BY <2>1, <3>1 DEF Predecessors
  <2> QED BY <2>2, <2>3
<1>3. ASSUME NEW p \in Predecessors(j) \cup {JournalHead(j)} PROVE p \in Predecessors(k)
  <2>1. CASE p = JournalHead(j)
    BY <2>1, GrownEvents DEF Predecessors, Grows
  <2>2. CASE p \in Predecessors(j)
    BY <2>2, GrownEvents DEF Predecessors
  <2> QED BY <2>1, <2>2
<1> QED BY <1>1, <1>2, <1>3

LEMMA HeadIsNumber ==
  ASSUME NEW j \in Seq(Events), Numbered(j)
  PROVE  /\ JournalHead(j) \in 0 .. Len(j)
         /\ Predecessors(j) \subseteq 0 .. Len(j)
<1>1. JournalHead(j) \in 0 .. Len(j)
  BY JournalShape DEF JournalHead, Last, Numbered
<1>2. ASSUME NEW i \in DOMAIN j PROVE j[i].previous \in 0 .. Len(j)
  BY JournalShape DEF Numbered
<1> QED BY <1>1, <1>2 DEF Predecessors

LEMMA GrownNumbered ==
  ASSUME NEW j, NEW k, NEW place, NEW e, Grows(j, k, place, e), Numbered(j)
  PROVE  Numbered(k)
<1>1. /\ j \in Seq(Events) /\ Len(k) = Len(j) + 1 /\ Len(j) \in Nat
      /\ e.hash = Len(j) + 1 /\ e.previous \in 0 .. Len(j)
  BY HeadIsNumber, JournalShape DEF Grows
<1>2. ASSUME NEW i \in DOMAIN k
      PROVE  k[i].hash \in 1 .. Len(k) /\ k[i].previous < k[i].hash
  <2>1. CASE i = place
    BY <1>1, <2>1, GrownEvents
  <2>2. CASE i # place
    <3>1. PICK m \in DOMAIN j : k[i] = j[m]
      BY <2>2, GrownEvents
    <3> QED BY <1>1, <3>1 DEF Numbered
  <2> QED BY <2>1, <2>2
<1>3. ASSUME NEW h \in 1 .. Len(k) PROVE \E i \in DOMAIN k : k[i].hash = h
  <2>1. CASE h = Len(j) + 1
    BY <1>1, <2>1, GrownEvents
  <2>2. CASE h # Len(j) + 1
    <3>1. PICK m \in DOMAIN j : j[m].hash = h
      BY <1>1, <2>2 DEF Numbered
    <3>2. PICK i \in DOMAIN k : k[i] = j[m]
      BY GrownEvents
    <3> QED BY <3>1, <3>2
  <2> QED BY <2>1, <2>2
<1> QED BY <1>2, <1>3 DEF Numbered

\* An event that by_previous has kept is kept on, unless it names the last one.
LEMMA KeptStays ==
  ASSUME NEW j, NEW k, NEW place, NEW e, Grows(j, k, place, e),
         NEW i \in DOMAIN k, i # place,
         NEW m \in DOMAIN j, m = IF i < place THEN i ELSE i - 1,
         Kept(j, m), j[m].previous # JournalHead(j)
  PROVE  Kept(k, i) /\ k[i] = j[m]
<1>1. k[i] = j[m] /\ e.previous = JournalHead(j)
  BY GrownEvents DEF Grows
<1>2. ASSUME NEW n \in DOMAIN k, n > i PROVE k[n].previous # k[i].previous
  <2>1. CASE n = place
    BY <1>1, <2>1, GrownEvents
  <2>2. CASE n # place
    <3> DEFINE l == IF n < place THEN n ELSE n - 1
    <3>1. l \in DOMAIN j /\ k[n] = j[l] /\ l > m
      BY <1>2, <2>2, GrownEvents
    <3> HIDE DEF l
    <3> QED BY <1>1, <3>1 DEF Kept
  <2> QED BY <2>1, <2>2
<1> QED BY <1>1, <1>2 DEF Kept

LEMMA GrownHeadsKept ==
  ASSUME NEW j, NEW k, NEW place, NEW e, Grows(j, k, place, e), Numbered(j), HeadsKept(j)
  PROVE  HeadsKept(k)
<1> SUFFICES ASSUME NEW i \in DOMAIN k, k[i].hash \in Heads(k)
             PROVE  Kept(k, i) /\ k[i].previous # JournalHead(k)
  BY DEF HeadsKept
<1>0. /\ j \in Seq(Events) /\ Len(j) \in Nat /\ e.hash = Len(j) + 1 /\ e.previous = JournalHead(j)
      /\ DOMAIN k = 1 .. Len(j) + 1 /\ place \in 1 .. Len(j) + 1
      /\ JournalHead(j) \in 0 .. Len(j) /\ Predecessors(j) \subseteq 0 .. Len(j)
  BY GrownEvents, HeadIsNumber DEF Grows
<1>1. CASE i = place
  <2>1. k[i] = e
    BY <1>1, GrownEvents
  <2>2. place = Len(j) + 1
    BY <1>0, <2>1, GrownHeads DEF Heads
  <2>3. JournalHead(k) = Len(j) + 1 /\ Kept(k, i)
    BY <1>0, <1>1, <2>2, GrownHeads DEF Kept
  <2> QED BY <1>0, <2>1, <2>3
<1>2. CASE i # place
  <2> DEFINE m == IF i < place THEN i ELSE i - 1
  <2>1. m \in DOMAIN j /\ k[i] = j[m]
    BY <1>2, GrownEvents
  <2> HIDE DEF m
  <2>2. j[m].hash \in 1 .. Len(j) /\ j[m].previous < j[m].hash /\ j[m].previous \in Nat
    BY <1>0, <2>1, JournalShape DEF Numbered
  <2>3. j[m].hash \in Heads(j)
    BY <1>0, <2>1, <2>2, GrownHeads DEF Heads
  <2>4. Kept(j, m) /\ j[m].previous # JournalHead(j)
    BY <2>1, <2>3 DEF HeadsKept
  <2>5. Kept(k, i)
    BY <1>2, <2>1, <2>4, KeptStays DEF m
  <2>6. k[i].previous # JournalHead(k)
    BY <1>0, <2>1, <2>2, <2>4, GrownHeads
  <2> QED BY <2>5, <2>6
<1> QED BY <1>1, <1>2

LEMMA GrownAllKept ==
  ASSUME NEW j, NEW k, NEW place, NEW e, Grows(j, k, place, e), AllKept(j), HeadIsOpen(j)
  PROVE  AllKept(k)
<1> SUFFICES ASSUME NEW i \in DOMAIN k PROVE Kept(k, i)
  BY DEF AllKept
<1>1. CASE i = place
  <2> SUFFICES ASSUME NEW n \in DOMAIN k, n > i PROVE k[n].previous # k[i].previous
    BY DEF Kept
  <2>1. PICK m \in DOMAIN j : k[n] = j[m]
    BY <1>1, GrownEvents
  <2>2. k[i].previous = JournalHead(j)
    BY <1>1, GrownEvents DEF Grows
  <2> QED BY <2>1, <2>2 DEF HeadIsOpen
<1>2. CASE i # place
  <2> DEFINE m == IF i < place THEN i ELSE i - 1
  <2>1. m \in DOMAIN j /\ k[i] = j[m]
    BY <1>2, GrownEvents
  <2>2. Kept(j, m) /\ j[m].previous # JournalHead(j)
    BY <2>1 DEF AllKept, HeadIsOpen
  <2> QED BY <1>2, <2>1, <2>2, KeptStays
<1> QED BY <1>1, <1>2

LEMMA GrownCrowded ==
  ASSUME NEW j, NEW k, NEW place, NEW e, Grows(j, k, place, e), Crowded(j)
  PROVE  Crowded(k)
<1>1. PICK a, b \in DOMAIN j :
        a < b /\ j[a].at = j[b].at /\ {j[a].type, j[b].type} \subseteq {"queued", "leased"}
  BY DEF Crowded
<1> DEFINE c == IF a < place THEN a ELSE a + 1
           d == IF b < place THEN b ELSE b + 1
<1>2. /\ c \in DOMAIN k /\ k[c] = j[a] /\ d \in DOMAIN k /\ k[d] = j[b]
  BY GrownEvents
<1>3. c < d
  BY <1>1, GrownEvents
<1> HIDE DEF c, d
<1> QED BY <1>1, <1>2, <1>3 DEF Crowded

-----------------------------------------------------------------------------
(* The walk.                                                                *)

Next1(j, met) == met \cup {Follower(j, hash) : hash \in met \cap Predecessors(j)}

IsWalk(f, j) ==
  f = [n \in 0 .. Len(j) |-> IF n = 0 THEN {0} ELSE Next1(j, f[n - 1])]

LEMMA WalkExists ==
  ASSUME NEW j \in Seq(Events)
  PROVE  \E f : IsWalk(f, j)
<1> DEFINE Upto(f, n) == \A m \in 0 .. n : f[m] = IF m = 0 THEN {0} ELSE Next1(j, f[m - 1])
           G == {n \in Nat : \E f : Upto(f, n)}
<1>1. 0 \in G
  <2> DEFINE f == [n \in Nat |-> {0}]
  <2>1. Upto(f, 0)
    OBVIOUS
  <2> HIDE DEF f, Upto
  <2> QED BY <2>1
<1>2. ASSUME NEW n \in G PROVE n + 1 \in G
  <2>1. PICK f : Upto(f, n)
    BY <1>2
  <2> DEFINE g == [m \in Nat |-> IF m <= n THEN f[m] ELSE Next1(j, f[n])]
  <2>2. ASSUME NEW m \in 0 .. n + 1 PROVE g[m] = IF m = 0 THEN {0} ELSE Next1(j, g[m - 1])
    <3>1. n \in Nat /\ m \in Nat
      OBVIOUS
    <3>2. CASE m <= n
      <4>1. g[m] = f[m] /\ (m # 0 => g[m - 1] = f[m - 1])
        BY <3>1, <3>2
      <4>2. f[m] = IF m = 0 THEN {0} ELSE Next1(j, f[m - 1])
        BY <2>1, <3>1, <3>2
      <4> HIDE DEF g
      <4> QED BY <4>1, <4>2
    <3>3. CASE m = n + 1
      <4>1. m # 0 /\ g[m] = Next1(j, f[n]) /\ g[m - 1] = f[n]
        BY <3>1, <3>3
      <4> HIDE DEF g
      <4> QED BY <4>1
    <3> QED BY <3>1, <3>2, <3>3
  <2>3. Upto(g, n + 1)
    <3> HIDE DEF g
    <3> QED BY <2>2
  <2> HIDE DEF g, Upto
  <2> QED BY <2>3
<1>3. G = Nat
  <2>1. G \in SUBSET Nat
    OBVIOUS
  <2> HIDE DEF G
  <2> QED BY <1>1, <1>2, <2>1, NumberInduction
<1>4. Len(j) \in Nat
  BY JournalShape
<1>5. PICK f : Upto(f, Len(j))
  BY <1>3, <1>4
<1> DEFINE g == [n \in 0 .. Len(j) |-> f[n]]
<1>6. ASSUME NEW n \in 0 .. Len(j)
      PROVE  f[n] = IF n = 0 THEN {0} ELSE Next1(j, g[n - 1])
  <2>1. f[n] = IF n = 0 THEN {0} ELSE Next1(j, f[n - 1])
    BY <1>5
  <2>2. n # 0 => g[n - 1] = f[n - 1]
    BY <1>4
  <2> HIDE DEF g
  <2> QED BY <2>1, <2>2
<1>7. g = [n \in 0 .. Len(j) |-> IF n = 0 THEN {0} ELSE Next1(j, g[n - 1])]
  BY <1>6
<1> HIDE DEF g
<1> QED BY <1>7 DEF IsWalk

LEMMA WalkSteps ==
  ASSUME NEW j \in Seq(Events)
  PROVE  \E f : /\ Walk(j) = f[Len(j)]
                /\ f[0] = {0}
                /\ \A n \in 1 .. Len(j) : f[n] = Next1(j, f[n - 1])
<1> DEFINE f == CHOOSE f : IsWalk(f, j)
<1>1. Walk(j) = f[Len(j)]
  BY DEF Walk, IsWalk, Next1
<1>2. IsWalk(f, j)
  BY WalkExists
<1> HIDE DEF f
<1>3. /\ f[0] = {0} /\ \A n \in 1 .. Len(j) : f[n] = Next1(j, f[n - 1])
  <2>1. Len(j) \in Nat
    BY JournalShape
  <2> DEFINE step(n) == IF n = 0 THEN {0} ELSE Next1(j, f[n - 1])
  <2>2. f = [n \in 0 .. Len(j) |-> step(n)]
    BY <1>2 DEF IsWalk
  <2>3. \A n \in 0 .. Len(j) : f[n] = step(n)
    <3> HIDE DEF step
    <3> QED BY <2>2, Zenon
  <2>4. 0 \in 0 .. Len(j) /\ step(0) = {0}
    BY <2>1
  <2>5. ASSUME NEW n \in 1 .. Len(j) PROVE n \in 0 .. Len(j) /\ step(n) = Next1(j, f[n - 1])
    BY <2>1
  <2> HIDE DEF step
  <2> QED BY <2>3, <2>4, <2>5, Zenon
<1> QED BY <1>1, <1>3

\* An event that by_previous keeps follows the event it names.
LEMMA KeptFollows ==
  ASSUME NEW j \in Seq(Events), NEW i \in DOMAIN j, Kept(j, i)
  PROVE  Follower(j, j[i].previous) = j[i].hash
<1> DEFINE named == {n \in DOMAIN j : j[n].previous = j[i].previous}
<1>1. i \in named /\ \A n \in named : i >= n
  BY JournalShape DEF Kept
<1>2. Max(named) = i
  <2>1. named \subseteq Nat
    BY JournalShape
  <2> HIDE DEF named
  <2> QED BY <1>1, <2>1 DEF Max
<1> QED BY <1>2 DEF Follower

\* What follows an event is an event.
LEMMA FollowerIsEvent ==
  ASSUME NEW j \in Seq(Events), NEW p \in Predecessors(j), Numbered(j)
  PROVE  Follower(j, p) \in 1 .. Len(j)
<1> DEFINE named == {n \in DOMAIN j : j[n].previous = p}
<1>1. named # {} /\ named \in SUBSET (1 .. Len(j)) /\ Len(j) \in Nat
  BY JournalShape DEF Predecessors
<1>2. Max(named) \in named
  <2>1. IsFiniteSet(1 .. Len(j))
    BY <1>1, FS_Interval
  <2>2. \E n \in named : \A m \in named : n >= m
    <3> DEFINE G == {S \in SUBSET (1 .. Len(j)) : S = {} \/ \E n \in S : \A m \in S : n >= m}
    <3>1. ASSUME NEW S \in SUBSET (1 .. Len(j)), \A x \in S : S \ {x} \in G
          PROVE  S \in G
      <4>1. CASE S # {}
        <5>1. PICK x \in S : TRUE
          BY <4>1
        <5>2. S \ {x} = {} \/ \E n \in S \ {x} : \A m \in S \ {x} : n >= m
          BY <3>1, <5>1
        <5>3. CASE S \ {x} = {}
          <6>1. \A m \in S : x >= m
            BY <5>1, <5>3, <1>1
          <6> QED BY <5>1, <6>1
        <5>4. ASSUME NEW n \in S \ {x}, \A m \in S \ {x} : n >= m
              PROVE  \E l \in S : \A m \in S : l >= m
          <6>1. CASE x >= n
            <7>1. \A m \in S : x >= m
              BY <5>1, <5>4, <6>1, <1>1
            <7> QED BY <5>1, <7>1
          <6>2. CASE n >= x
            BY <5>4, <6>2
          <6> QED BY <5>1, <1>1, <6>1, <6>2
        <5> QED BY <5>2, <5>3, <5>4
      <4> QED BY <4>1
    <3>2. G = SUBSET (1 .. Len(j))
      <4>1. G \in SUBSET SUBSET (1 .. Len(j))
        OBVIOUS
      <4> HIDE DEF G
      <4> QED BY <2>1, <3>1, <4>1, SubsetInduction
    <3>3. named \in G
      <4> HIDE DEF named, G
      <4> QED BY <1>1, <3>2
    <3> HIDE DEF named
    <3> QED BY <1>1, <3>3
  <2> HIDE DEF named
  <2> QED BY <2>2 DEF Max
<1>3. j[Max(named)].hash \in 1 .. Len(j)
  BY <1>2 DEF Numbered
<1> QED BY <1>3 DEF Follower

\* The walk meets whatever is linked to the genesis by events that are kept.
LEMMA WalkMeets ==
  ASSUME NEW j \in Seq(Events), Numbered(j), NEW H \in SUBSET (0 .. Len(j)),
         \A i \in DOMAIN j : j[i].hash \in H => Kept(j, i) /\ j[i].previous \in H
  PROVE  H \subseteq Walk(j)
<1>1. PICK f : /\ Walk(j) = f[Len(j)] /\ f[0] = {0}
               /\ \A n \in 1 .. Len(j) : f[n] = Next1(j, f[n - 1])
  BY WalkSteps
<1>2. Len(j) \in Nat /\ DOMAIN j = 1 .. Len(j)
  BY JournalShape
<1> DEFINE G == {n \in Nat : n <= Len(j) => \A h \in H : h <= n => h \in f[n]}
<1>3. 0 \in G
  BY <1>1, <1>2
<1>4. ASSUME NEW n \in G PROVE n + 1 \in G
  <2> SUFFICES ASSUME n + 1 <= Len(j), NEW h \in H, h <= n + 1
               PROVE  h \in f[n + 1]
    OBVIOUS
  <2>1. f[n + 1] = Next1(j, f[n]) /\ n \in Nat /\ n + 1 \in 1 .. Len(j) /\ n <= Len(j)
        /\ h \in 0 .. Len(j)
    <3>1. n \in Nat /\ n + 1 \in 1 .. Len(j) /\ n <= Len(j) /\ h \in 0 .. Len(j) /\ (n + 1) - 1 = n
      BY <1>2
    <3> QED BY <1>1, <3>1
  <2>2. \A g \in H : g <= n => g \in f[n]
    BY <2>1
  <2>3. CASE h <= n
    BY <2>1, <2>2, <2>3 DEF Next1
  <2>4. CASE h = n + 1
    <3>1. PICK i \in DOMAIN j : j[i].hash = h
      BY <2>1, <2>4 DEF Numbered
    <3>2. Kept(j, i) /\ j[i].previous \in H /\ j[i].previous < h
      BY <3>1 DEF Numbered
    <3> DEFINE g == j[i].previous
    <3>3. g \in f[n] /\ g \in Predecessors(j)
      <4>1. g \in Predecessors(j)
        BY DEF Predecessors
      <4>2. g \in H /\ g < h /\ g \in 0 .. Len(j)
        BY <3>2
      <4> HIDE DEF g
      <4>3. g <= n
        BY <1>2, <2>1, <2>4, <4>2
      <4> QED BY <2>2, <4>1, <4>2, <4>3
    <3>4. Follower(j, j[i].previous) = h
      BY <3>1, <3>2, KeptFollows
    <3> QED BY <2>1, <3>3, <3>4 DEF Next1
  <2> QED BY <2>1, <2>3, <2>4
<1>5. G = Nat
  <2>1. G \in SUBSET Nat
    OBVIOUS
  <2> HIDE DEF G
  <2> QED BY <1>3, <1>4, <2>1, NumberInduction
<1> QED BY <1>1, <1>2, <1>5

\* The walk meets nothing but events.
LEMMA WalkIsOfEvents ==
  ASSUME NEW j \in Seq(Events), Numbered(j)
  PROVE  Walk(j) \subseteq 0 .. Len(j)
<1>1. PICK f : /\ Walk(j) = f[Len(j)] /\ f[0] = {0}
               /\ \A n \in 1 .. Len(j) : f[n] = Next1(j, f[n - 1])
  BY WalkSteps
<1>2. Len(j) \in Nat
  BY JournalShape
<1> DEFINE G == {n \in Nat : n <= Len(j) => f[n] \subseteq 0 .. Len(j)}
<1>3. 0 \in G
  BY <1>1, <1>2
<1>4. ASSUME NEW n \in G PROVE n + 1 \in G
  <2> SUFFICES ASSUME n + 1 <= Len(j) PROVE f[n + 1] \subseteq 0 .. Len(j)
    OBVIOUS
  <2>1. n \in Nat /\ n + 1 \in 1 .. Len(j) /\ n <= Len(j) /\ (n + 1) - 1 = n
    BY <1>2
  <2>2. f[n + 1] = Next1(j, f[n]) /\ f[n] \subseteq 0 .. Len(j)
    BY <1>1, <2>1
  <2> QED BY <1>2, <2>2, FollowerIsEvent DEF Next1
<1>5. G = Nat
  <2>1. G \in SUBSET Nat
    OBVIOUS
  <2> HIDE DEF G
  <2> QED BY <1>3, <1>4, <2>1, NumberInduction
<1> QED BY <1>1, <1>2, <1>5

\* No event of the code's own is left over.
LEMMA HeadsAreMet ==
  ASSUME NEW j \in Seq(Events), Numbered(j), HeadsKept(j)
  PROVE  JournalIsValid(j)
<1>1. Heads(j) \in SUBSET (0 .. Len(j))
  BY HeadIsNumber DEF Heads
<1>2. \A i \in DOMAIN j : j[i].hash \in Heads(j) => Kept(j, i) /\ j[i].previous \in Heads(j)
  BY DEF HeadsKept, Heads, Predecessors
<1>3. Heads(j) \subseteq Walk(j)
  BY <1>1, <1>2, WalkMeets
<1> QED BY <1>3 DEF JournalIsValid, Heads

LEMMA AllAreMet ==
  ASSUME NEW j \in Seq(Events), Numbered(j), AllKept(j)
  PROVE  EventCount(j) = Len(j)
<1>1. Len(j) \in Nat /\ DOMAIN j = 1 .. Len(j)
  BY JournalShape
<1>2. \A i \in DOMAIN j : Kept(j, i) /\ j[i].previous \in 0 .. Len(j)
  BY HeadIsNumber DEF AllKept, Predecessors
<1>3. 0 .. Len(j) \subseteq Walk(j)
  BY <1>2, WalkMeets
<1>4. Walk(j) = 0 .. Len(j)
  BY <1>3, WalkIsOfEvents
<1>5. Cardinality(0 .. Len(j)) = Len(j) + 1
  BY <1>1, FS_Interval
<1> QED BY <1>1, <1>4, <1>5 DEF EventCount
-----------------------------------------------------------------------------
(* The steps.                                                               *)

HostedTyped ==
  /\ hosted \in [state : {"none", "queued", "leased"} \cup HostedFinal,
                 lease : Nat, until : Nat, attempts : Nat]
  /\ journal \in Seq(Events)
  /\ shift \in [HostedWorkers -> [lease : Nat, attempt : Nat, at : Nat]]
  /\ second \in 0 .. LastSecond
  /\ faults \in 0 .. MaxFaults

\* Nothing is dated later than now.
Dated ==
  /\ \A i \in DOMAIN journal : journal[i].at <= second
  /\ \A w \in HostedWorkers : shift[w].at <= second

\* A job that was waiting, completed or stopped is not taken up again.
Ended ==
  \A i \in DOMAIN journal : journal[i].type \in HostedFinal => hosted.state \in HostedFinal

\* As long as no job is claimed in the second it was queued in, no two events
\* name the same predecessor, and none the last one while the job goes on.
Alone ==
  ~Crowded(journal) =>
    /\ AllKept(journal)
    /\ hosted.state \notin HostedFinal => HeadIsOpen(journal)

HostedInv ==
  /\ HostedTyped
  /\ Numbered(journal) /\ HeadsKept(journal)
  /\ Dated /\ Ended /\ Alone

EventTypes == {"queued", "leased"} \cup HostedFinal

\* What recording an event does to the journal, whoever records it.
LEMMA Recorded ==
  ASSUME HostedInv, NEW type \in EventTypes, NEW at \in Nat, at <= second,
         RecordEvent(type, at)
  PROVE  \E place, e :
           /\ Grows(journal, journal', place, e) /\ e.type = type /\ e.at = at
           /\ \A i \in DOMAIN journal : i >= place => journal[i].at >= at
<1> DEFINE event == [type |-> type, at |-> at, hash |-> Len(journal) + 1,
                     previous |-> JournalHead(journal)]
<1>1. PICK place \in 1 .. Len(journal) + 1 :
        /\ \A i \in 1 .. Len(journal) :
             /\ i < place => journal[i].at <= at
             /\ i >= place => journal[i].at >= at
        /\ journal' = InsertAt(journal, place, event)
  BY DEF RecordEvent
<1>2. journal \in Seq(Events) /\ Numbered(journal)
  BY DEF HostedInv, HostedTyped
<1>3. Len(journal) \in Nat /\ DOMAIN journal = 1 .. Len(journal)
  BY <1>2, JournalShape
<1>4. event \in Events /\ event.hash = Len(journal) + 1
      /\ event.previous = JournalHead(journal) /\ event.type = type /\ event.at = at
  <2>1. JournalHead(journal) \in Nat
    BY <1>2, <1>3, HeadIsNumber
  <2> QED BY <1>3, <2>1 DEF Events, EventTypes
<1> HIDE DEF event
<1>5. /\ InsertAt(journal, place, event) \in Seq(Events)
      /\ Len(InsertAt(journal, place, event)) = Len(journal) + 1
      /\ \A i \in 1 .. Len(journal) + 1 :
           InsertAt(journal, place, event)[i] =
             IF i < place THEN journal[i] ELSE IF i = place THEN event ELSE journal[i - 1]
  <2>1. event \in Events /\ journal \in Seq(Events) /\ place \in 1 .. Len(journal) + 1
    BY <1>1, <1>2, <1>4
  <2> QED BY <2>1, SortedIn
<1>6. Grows(journal, journal', place, event)
  BY <1>1, <1>2, <1>4, <1>5, Zenon DEF Grows
<1>7. \A i \in DOMAIN journal : i >= place => journal[i].at >= at
  BY <1>1, <1>3
<1> QED BY <1>4, <1>6, <1>7, Zenon

\* The journal after an event, whatever it is.
LEMMA RecordedWell ==
  ASSUME HostedInv, NEW type \in EventTypes, NEW at \in Nat, at <= second,
         RecordEvent(type, at)
  PROVE  /\ journal' \in Seq(Events) /\ Numbered(journal)' /\ HeadsKept(journal)'
         /\ \A i \in DOMAIN journal' : journal'[i].at <= second
         /\ \A i \in DOMAIN journal' :
              \/ journal'[i].type = type
              \/ \E m \in DOMAIN journal : journal'[i].type = journal[m].type
         /\ Crowded(journal) => Crowded(journal)'
         /\ AllKept(journal) /\ HeadIsOpen(journal) => AllKept(journal)'
<1>1. PICK place, e : Grows(journal, journal', place, e) /\ e.type = type /\ e.at = at
  BY Recorded
<1>2. Numbered(journal) /\ HeadsKept(journal) /\ Dated
  BY DEF HostedInv
<1>3. journal' \in Seq(Events)
  BY <1>1 DEF Grows
<1>4. Numbered(journal)' /\ HeadsKept(journal)'
  <2>1. Numbered(journal')
    BY <1>1, <1>2, GrownNumbered
  <2>2. HeadsKept(journal')
    BY <1>1, <1>2, GrownHeadsKept
  <2> QED BY <2>1, <2>2 DEF Numbered, HeadsKept, Heads, Kept, Predecessors, JournalHead
<1>5. ASSUME NEW i \in DOMAIN journal'
      PROVE  /\ journal'[i].at <= second
             /\ \/ journal'[i].type = type
                \/ \E m \in DOMAIN journal : journal'[i].type = journal[m].type
  <2>1. CASE i = place
    BY <1>1, <2>1, GrownEvents
  <2>2. CASE i # place
    <3>1. PICK m \in DOMAIN journal : journal'[i] = journal[m]
      BY <1>1, <2>2, GrownEvents
    <3> QED BY <1>2, <3>1 DEF Dated
  <2> QED BY <2>1, <2>2
<1>6. Crowded(journal) => Crowded(journal')
  BY <1>1, GrownCrowded
<1>7. AllKept(journal) /\ HeadIsOpen(journal) => AllKept(journal')
  BY <1>1, GrownAllKept
<1> QED BY <1>3, <1>4, <1>5, <1>6, <1>7 DEF Crowded, AllKept, Kept

\* An event of a job that goes on, dated now, is the last of its second, unless
\* the job was queued or claimed within it.
LEMMA RecordedLast ==
  ASSUME HostedInv, hosted.state \notin HostedFinal,
         NEW type \in {"queued", "leased"}, RecordEvent(type, second),
         ~Crowded(journal')
  PROVE  HeadIsOpen(journal')
<1>0. second \in Nat /\ journal \in Seq(Events) /\ Dated /\ Ended /\ Numbered(journal)
  BY DEF HostedInv, HostedTyped
<1>1. PICK place, e : /\ Grows(journal, journal', place, e) /\ e.type = type /\ e.at = second
                      /\ \A i \in DOMAIN journal : i >= place => journal[i].at >= second
  <2>1. type \in EventTypes /\ second <= second
    BY <1>0 DEF EventTypes
  <2> QED BY <1>0, <2>1, Recorded
<1>2. Len(journal) \in Nat /\ DOMAIN journal = 1 .. Len(journal) /\ place \in 1 .. Len(journal) + 1
  BY <1>0, <1>1, JournalShape DEF Grows
<1>3. place = Len(journal) + 1
  <2> SUFFICES ASSUME place # Len(journal) + 1 PROVE FALSE
    OBVIOUS
  <2>1. place \in DOMAIN journal /\ place + 1 # place /\ place < place + 1 /\ place + 1 \in Nat
    BY <1>2
  <2>2. journal[place].at = second
    <3>1. journal[place].at \in Nat
      BY <1>0, <2>1, JournalShape DEF Events
    <3>2. journal[place].at >= second /\ journal[place].at <= second
      BY <1>0, <1>1, <1>2, <2>1 DEF Dated
    <3> QED BY <1>0, <3>1, <3>2
  <2>3. journal[place].type \in {"queued", "leased"}
    BY <1>0, <2>1, JournalShape DEF Events, Ended
  <2>4. place + 1 \in DOMAIN journal' /\ journal'[place + 1] = journal[place]
        /\ place \in DOMAIN journal' /\ journal'[place] = e
    BY <1>1, <2>1, GrownEvents
  <2> QED BY <1>1, <2>1, <2>2, <2>3, <2>4 DEF Crowded
<1>4. JournalHead(journal') = Len(journal) + 1
  BY <1>1, <1>3, GrownHeads
<1>5. Numbered(journal') /\ journal' \in Seq(Events) /\ Len(journal') = Len(journal) + 1
  BY <1>0, <1>1, GrownNumbered DEF Grows
<1>6. ASSUME NEW i \in DOMAIN journal' PROVE journal'[i].previous # Len(journal) + 1
  <2>1. journal'[i].hash \in 1 .. Len(journal) + 1 /\ journal'[i].previous < journal'[i].hash
        /\ journal'[i].previous \in Nat
    BY <1>5, JournalShape DEF Numbered
  <2> QED BY <1>2, <2>1
<1> QED BY <1>4, <1>6 DEF HeadIsOpen

LEMMA HostedStarts ==
  HostedInit => HostedInv
<1> SUFFICES ASSUME HostedInit PROVE HostedInv
  OBVIOUS
<1>1. HostedTyped
  BY HostedAssumption, FaultsAssumption DEF HostedInit, HostedTyped, OffShift
<1>2. DOMAIN journal = {} /\ Len(journal) = 0
  BY DEF HostedInit
<1>3. Numbered(journal) /\ HeadsKept(journal) /\ Ended /\ AllKept(journal) /\ HeadIsOpen(journal)
  BY <1>2 DEF Numbered, HeadsKept, Ended, AllKept, HeadIsOpen
<1>4. Dated
  BY <1>2 DEF Dated, HostedInit, OffShift
<1> QED BY <1>1, <1>3, <1>4 DEF HostedInv, Alone

LEMMA HostedEnqueueKeeps ==
  ASSUME HostedInv, EnqueueHostedBuyerJob
  PROVE  HostedInv'
<1>1. /\ hosted.state = "none" /\ RecordEvent("queued", second)
      /\ hosted' = [hosted EXCEPT !.state = "queued"] /\ UNCHANGED <<shift, second, faults>>
      /\ HostedTyped /\ Dated /\ Ended /\ Alone
  BY DEF EnqueueHostedBuyerJob, HostedInv
<1>2. "queued" \in EventTypes /\ second \in Nat /\ second <= second
      /\ hosted.state \notin HostedFinal
  BY <1>1 DEF EventTypes, HostedTyped, HostedFinal
<1>3. /\ journal' \in Seq(Events) /\ Numbered(journal)' /\ HeadsKept(journal)'
      /\ \A i \in DOMAIN journal' : journal'[i].at <= second
      /\ \A i \in DOMAIN journal' :
           \/ journal'[i].type = "queued"
           \/ \E m \in DOMAIN journal : journal'[i].type = journal[m].type
      /\ Crowded(journal) => Crowded(journal)'
      /\ AllKept(journal) /\ HeadIsOpen(journal) => AllKept(journal)'
  BY <1>1, <1>2, RecordedWell
<1>4. HostedTyped'
  BY <1>1, <1>3 DEF HostedTyped
<1>5. Dated'
  BY <1>1, <1>3 DEF Dated
<1>6. Ended'
  BY <1>1, <1>2, <1>3 DEF Ended, HostedFinal
<1>7. Alone'
  <2>1. ~Crowded(journal') => HeadIsOpen(journal')
    BY <1>1, <1>2, RecordedLast
  <2> QED BY <1>1, <1>2, <1>3, <2>1 DEF Alone, Crowded, AllKept, Kept, HeadIsOpen, JournalHead
<1> QED BY <1>3, <1>4, <1>5, <1>6, <1>7 DEF HostedInv

LEMMA HostedClaimKeeps ==
  ASSUME HostedInv, NEW w \in HostedWorkers, ClaimHostedBuyerJob(w)
  PROVE  HostedInv'
<1> DEFINE row == Requeued(hosted)
           attempt == row.attempts + 1
<1>1. /\ row.state = "queued" /\ RecordEvent("leased", second)
      /\ hosted' = [state |-> "leased", lease |-> attempt, until |-> second, attempts |-> attempt]
      /\ shift' = [shift EXCEPT ![w] = [lease |-> attempt, attempt |-> attempt, at |-> second]]
      /\ UNCHANGED <<second, faults>>
      /\ HostedTyped /\ Dated /\ Ended /\ Alone
  BY DEF ClaimHostedBuyerJob, HostedInv
<1>2. "leased" \in EventTypes /\ second \in Nat /\ second <= second
      /\ hosted.state \in {"queued", "leased"} /\ hosted.state \notin HostedFinal
      /\ attempt \in Nat
  BY <1>1 DEF EventTypes, HostedTyped, HostedFinal, Requeued
<1> HIDE DEF row, attempt
<1>3. /\ journal' \in Seq(Events) /\ Numbered(journal)' /\ HeadsKept(journal)'
      /\ \A i \in DOMAIN journal' : journal'[i].at <= second
      /\ \A i \in DOMAIN journal' :
           \/ journal'[i].type = "leased"
           \/ \E m \in DOMAIN journal : journal'[i].type = journal[m].type
      /\ Crowded(journal) => Crowded(journal)'
      /\ AllKept(journal) /\ HeadIsOpen(journal) => AllKept(journal)'
  BY <1>1, <1>2, RecordedWell
<1>4. HostedTyped'
  BY <1>1, <1>2, <1>3 DEF HostedTyped
<1>5. Dated'
  BY <1>1, <1>2, <1>3 DEF Dated, HostedTyped
<1>6. Ended'
  BY <1>1, <1>2, <1>3 DEF Ended, HostedFinal
<1>7. Alone'
  <2>1. ~Crowded(journal') => HeadIsOpen(journal')
    BY <1>1, <1>2, RecordedLast
  <2> QED BY <1>1, <1>2, <1>3, <2>1 DEF Alone, Crowded, AllKept, Kept, HeadIsOpen, JournalHead
<1> QED BY <1>3, <1>4, <1>5, <1>6, <1>7 DEF HostedInv

LEMMA HostedFinishKeeps ==
  ASSUME HostedInv, NEW w \in HostedWorkers, NEW state \in HostedFinal,
         FinishHostedBuyerJob(w, state)
  PROVE  HostedInv'
<1>1. /\ shift' = [shift EXCEPT ![w] = OffShift] /\ UNCHANGED <<second, faults>>
      /\ HostedTyped /\ Dated /\ Ended /\ Alone /\ Numbered(journal) /\ HeadsKept(journal)
  BY DEF FinishHostedBuyerJob, HostedInv
<1>2. shift' \in [HostedWorkers -> [lease : Nat, attempt : Nat, at : Nat]]
      /\ second \in Nat /\ shift[w].at \in Nat /\ shift[w].at <= second
      /\ \A v \in HostedWorkers : shift'[v].at <= second
  BY <1>1 DEF HostedTyped, Dated, OffShift
<1>3. CASE UNCHANGED <<hosted, journal>>
  <2>1. HostedTyped' /\ Dated' /\ Ended'
    BY <1>1, <1>2, <1>3 DEF HostedTyped, Dated, Ended
  <2>2. Numbered(journal)' /\ HeadsKept(journal)' /\ Alone'
    BY <1>1, <1>3 DEF Numbered, HeadsKept, Heads, Kept, Predecessors, JournalHead, Alone,
                      Crowded, AllKept, HeadIsOpen
  <2> QED BY <2>1, <2>2 DEF HostedInv
<1>4. CASE /\ hosted.state = "leased"
           /\ hosted' = [hosted EXCEPT !.state = state, !.lease = 0, !.until = 0]
           /\ RecordEvent(state, shift[w].at)
  <2>1. state \in EventTypes /\ hosted.state \notin HostedFinal /\ hosted'.state \in HostedFinal
    BY <1>1, <1>4 DEF EventTypes, HostedFinal, HostedTyped
  <2>2. /\ journal' \in Seq(Events) /\ Numbered(journal)' /\ HeadsKept(journal)'
        /\ \A i \in DOMAIN journal' : journal'[i].at <= second
        /\ Crowded(journal) => Crowded(journal)'
        /\ AllKept(journal) /\ HeadIsOpen(journal) => AllKept(journal)'
    BY <1>2, <1>4, <2>1, RecordedWell
  <2>3. HostedTyped'
    BY <1>1, <1>2, <1>4, <2>2 DEF HostedTyped
  <2>4. Dated' /\ Ended'
    BY <1>1, <1>2, <2>1, <2>2 DEF Dated, Ended
  <2>5. Alone'
    BY <1>1, <2>1, <2>2 DEF Alone
  <2> QED BY <2>2, <2>3, <2>4, <2>5 DEF HostedInv
<1> QED BY <1>3, <1>4 DEF FinishHostedBuyerJob

LEMMA HostedRests ==
  ASSUME HostedInv, UNCHANGED <<hosted, journal>>, second' \in 0 .. LastSecond,
         second' >= second, faults' \in 0 .. MaxFaults,
         shift' \in [HostedWorkers -> [lease : Nat, attempt : Nat, at : Nat]],
         \A w \in HostedWorkers : shift'[w].at <= second
  PROVE  HostedInv'
<1>1. HostedTyped /\ Dated /\ Ended /\ Alone /\ Numbered(journal) /\ HeadsKept(journal)
  BY DEF HostedInv
<1>2. HostedTyped' /\ Ended'
  BY <1>1 DEF HostedTyped, Ended
<1>3. Dated'
  <2>1. second \in Nat /\ second' \in Nat
    BY <1>1, HostedAssumption DEF HostedTyped
  <2>3. ASSUME NEW i \in DOMAIN journal PROVE journal[i].at \in Nat
    <3>1. journal[i] \in Events
      BY <1>1, JournalShape DEF HostedTyped
    <3> QED BY <3>1 DEF Events
  <2>2. ASSUME NEW w \in HostedWorkers PROVE shift'[w].at \in Nat
    <3>1. shift'[w] \in [lease : Nat, attempt : Nat, at : Nat]
      OBVIOUS
    <3> QED BY <3>1
  <2> QED BY <1>1, <2>1, <2>2, <2>3 DEF Dated
<1>4. Numbered(journal)' /\ HeadsKept(journal)' /\ Alone'
  BY <1>1 DEF Numbered, HeadsKept, Heads, Kept, Predecessors, JournalHead, Alone,
              Crowded, AllKept, HeadIsOpen
<1> QED BY <1>2, <1>3, <1>4 DEF HostedInv

LEMMA HostedSteps ==
  HostedInv /\ [HostedNext]_hostedVars => HostedInv'
<1> SUFFICES ASSUME HostedInv, [HostedNext]_hostedVars PROVE HostedInv'
  OBVIOUS
<1>0. /\ shift \in [HostedWorkers -> [lease : Nat, attempt : Nat, at : Nat]]
      /\ second \in 0 .. LastSecond /\ faults \in 0 .. MaxFaults /\ LastSecond \in Nat
      /\ \A w \in HostedWorkers : shift[w].at <= second
  BY HostedAssumption DEF HostedInv, HostedTyped, Dated
<1>1. CASE EnqueueHostedBuyerJob
  BY <1>1, HostedEnqueueKeeps
<1>2. CASE Tick
  <2>1. UNCHANGED <<hosted, journal, shift, faults>> /\ second < LastSecond /\ second' = second + 1
    BY <1>2 DEF Tick
  <2>2. second' \in 0 .. LastSecond /\ second' >= second
    BY <1>0, <2>1
  <2> QED BY <1>0, <2>1, <2>2, HostedRests
<1>3. ASSUME NEW w \in HostedWorkers, RunOnce(w) PROVE HostedInv'
  <2>1. CASE ClaimHostedBuyerJob(w)
    BY <2>1, HostedClaimKeeps
  <2>2. CASE \E state \in HostedFinal : FinishHostedBuyerJob(w, state)
    BY <2>2, HostedFinishKeeps
  <2>3. \A s \in {"completed", "stopped", "waiting"} : s \in HostedFinal
    BY DEF HostedFinal
  <2>4. HostedWait(w) => \E state \in HostedFinal : FinishHostedBuyerJob(w, state)
    BY <2>3 DEF HostedWait
  <2> QED BY <1>3, <2>1, <2>2, <2>3, <2>4 DEF RunOnce
<1>4. ASSUME NEW w \in HostedWorkers, HostedCrash(w) PROVE HostedInv'
  <2>1. UNCHANGED <<hosted, journal, second>> /\ faults < MaxFaults /\ faults' = faults + 1
        /\ shift' = [shift EXCEPT ![w] = OffShift]
    BY <1>4 DEF HostedCrash, Fault
  <2>2. faults' \in 0 .. MaxFaults
    BY <1>0, <2>1, FaultsAssumption
  <2>3. shift' \in [HostedWorkers -> [lease : Nat, attempt : Nat, at : Nat]]
        /\ \A v \in HostedWorkers : shift'[v].at <= second
    BY <1>0, <2>1 DEF OffShift
  <2> QED BY <1>0, <2>1, <2>2, <2>3, HostedRests
<1>5. CASE UNCHANGED hostedVars
  BY <1>0, <1>5, HostedRests DEF hostedVars
<1> QED BY <1>1, <1>2, <1>3, <1>4, <1>5 DEF HostedNext

\* hosted_buyer_jobs.py: the row of the job, its journal and what the workers
\* hold keep their types.
THEOREM HostedTypeCorrect ==
  HostedSpec => []HostedTypeOK
<1>1. HostedInv => HostedTypeOK
  BY DEF HostedInv, HostedTyped, HostedTypeOK, Events
<1> QED BY <1>1, HostedStarts, HostedSteps, PTL DEF HostedSpec

\* A journal so kept is verified.
LEMMA HostedVerifies == HostedInv => HostedJournalVerifies
<1> SUFFICES ASSUME HostedInv PROVE HostedJournalVerifies
  OBVIOUS
<1>1. journal \in Seq(Events) /\ Numbered(journal) /\ HeadsKept(journal) /\ Alone
  BY DEF HostedInv, HostedTyped
<1>2. JournalIsValid(journal)
  BY <1>1, HeadsAreMet
<1>3. ~Crowded(journal) => EventCount(journal) = Len(journal)
  BY <1>1, AllAreMet DEF Alone
<1> QED BY <1>2, <1>3 DEF HostedJournalVerifies

\* hosted_buyer_jobs.py _record_event, verify_hosted_buyer_job_events: however
\* many workers write, late or not, and die, the code's own journal is never
\* reported as tampered with.
THEOREM OwnJournalVerifies ==
  HostedSpec => []HostedJournalVerifies
BY HostedVerifies, HostedStarts, HostedSteps, PTL DEF HostedSpec

-----------------------------------------------------------------------------
\* The final receipt.

\* The row rc, given the decisions dec: a retry is left only when an attempt is
\* left for it, the state says whether a result is sealed, and that is the
\* result of the quote the row is bound to.
RowSound(rc, dec) ==
  /\ rc \in ReceiptRows
  /\ rc.retry => rc.attempts < DispatchAttempts
  /\ rc.state # "none" => rc.quote # NoQuote
  /\ rc.sealed # NoQuote => rc.state \in {"delivered", "accepted", "disputed"}
  /\ rc.state \in {"delivered", "accepted", "disputed"} =>
       rc.sealed # NoQuote /\ rc.sealed = rc.quote
  /\ rc.state \in DECISIONS => rc.state \in dec

\* The copy r of a request: what it is about to repair, or to report an event
\* of, is sealed, and it has read a decision only if one was made.
RequestSound(r, rc, dec) ==
  /\ r \in RequestCopies
  /\ r.pc # "idle" => r.quote # NoQuote
  /\ r.pc \in {"repair", "event"} => rc.sealed # NoQuote /\ r.quote = rc.quote
  /\ r.pc = "event" => r.state \in {"delivered"} \cup dec

\* The seal that SealIsPermanent speaks of.
Keeps(rc, new) ==
  rc.sealed # NoQuote => new.sealed = rc.sealed /\ new.quote = rc.quote

ReceiptInv ==
  /\ ReceiptsTypeOK
  /\ RowSound(receipt, decided)
  /\ \A t \in Handlers : RequestSound(request[t], receipt, decided)
  /\ review => "disputed" \in decided
  /\ mailed => receipt.sealed # NoQuote

-----------------------------------------------------------------------------
LEMMA NoReceiptIsSound == RowSound(NoReceipt, {})
<1>1. NoReceipt \in ReceiptRows
  BY ReceiptsAssumption DEF NoReceipt, ReceiptRows, ReceiptStates
<1> QED
  BY <1>1 DEF RowSound, NoReceipt, DECISIONS

LEMMA NoRequestIsSound ==
  ASSUME NEW rc, NEW dec
  PROVE  RequestSound(NoRequest, rc, dec)
<1>1. NoRequest \in RequestCopies
  BY ReceiptsAssumption DEF NoRequest, RequestCopies, ReceiptStates, RequestSteps
<1> QED
  BY <1>1 DEF RequestSound, NoRequest

\* A copy stays sound while the seal is kept and decisions are only added.
LEMMA CopiesStaySound ==
  ASSUME NEW r, NEW rc, NEW dec, NEW new, NEW more,
         RequestSound(r, rc, dec), Keeps(rc, new), dec \subseteq more
  PROVE  RequestSound(r, new, more)
BY DEF RequestSound, Keeps

LEMMA ReceiptInitInv == ReceiptsInit => ReceiptInv
<1> SUFFICES ASSUME ReceiptsInit PROVE ReceiptInv
  OBVIOUS
<1> USE DEF ReceiptsInit
<1>1. ReceiptsTypeOK
  <2>1. receipt \in ReceiptRows
    BY NoReceiptIsSound DEF RowSound
  <2>2. request \in [Handlers -> RequestCopies]
    BY NoRequestIsSound DEF RequestSound
  <2>3. faults \in 0 .. MaxFaults
    BY FaultsAssumption
  <2>4. decided \subseteq DECISIONS
    OBVIOUS
  <2>5. review \in BOOLEAN /\ mailed \in BOOLEAN /\ signing \in BOOLEAN
    OBVIOUS
  <2> QED
    BY <2>1, <2>2, <2>3, <2>4, <2>5 DEF ReceiptsTypeOK
<1>2. RowSound(receipt, decided)
  BY NoReceiptIsSound
<1>3. \A t \in Handlers : RequestSound(request[t], receipt, decided)
  BY NoRequestIsSound
<1>4. ~review /\ ~mailed
  OBVIOUS
<1> QED
  BY <1>1, <1>2, <1>3, <1>4 DEF ReceiptInv

-----------------------------------------------------------------------------
\* What the steps have in common: one request takes a sound copy, or none
\* does, and the row and the decisions stay sound.
LEMMA StepKeepsInv ==
  ASSUME ReceiptInv,
         NEW t \in Handlers, NEW r,
         RequestSound(r, receipt, decided),
         request' = [request EXCEPT ![t] = r],
         RowSound(receipt', decided'), Keeps(receipt, receipt'),
         decided \subseteq decided', decided' \subseteq DECISIONS,
         review' \in BOOLEAN, signing' \in BOOLEAN, mailed' \in BOOLEAN,
         faults' \in 0 .. MaxFaults,
         review' => "disputed" \in decided',
         mailed' => receipt'.sealed # NoQuote
  PROVE  ReceiptInv'
<1>1. \A u \in Handlers : RequestSound(request'[u], receipt, decided)
  BY DEF ReceiptInv, ReceiptsTypeOK
<1>2. \A u \in Handlers : RequestSound(request'[u], receipt', decided')
  BY <1>1, CopiesStaySound
<1>3. request' \in [Handlers -> RequestCopies]
  BY DEF ReceiptInv, ReceiptsTypeOK, RequestSound
<1>4. receipt' \in ReceiptRows
  BY DEF RowSound
<1>5. ReceiptsTypeOK'
  BY <1>3, <1>4 DEF ReceiptsTypeOK
<1> QED
  BY <1>2, <1>5 DEF ReceiptInv

\* A step of one request that writes nothing.
LEMMA ReadKeepsInv ==
  ASSUME ReceiptInv,
         NEW t \in Handlers, NEW r,
         RequestSound(r, receipt, decided),
         request' = [request EXCEPT ![t] = r],
         UNCHANGED <<receipt, decided, review, signing, mailed, faults>>
  PROVE  ReceiptInv'
<1>1. RowSound(receipt', decided') /\ Keeps(receipt, receipt')
  BY DEF ReceiptInv, Keeps
<1>2. decided \subseteq decided' /\ decided' \subseteq DECISIONS
  BY DEF ReceiptInv, ReceiptsTypeOK
<1>3. review' \in BOOLEAN /\ signing' \in BOOLEAN /\ mailed' \in BOOLEAN
  BY DEF ReceiptInv, ReceiptsTypeOK
<1>4. faults' \in 0 .. MaxFaults
  BY DEF ReceiptInv, ReceiptsTypeOK
<1>5. (review' => "disputed" \in decided') /\ (mailed' => receipt'.sealed # NoQuote)
  BY DEF ReceiptInv
<1> QED
  BY <1>1, <1>2, <1>3, <1>4, <1>5, StepKeepsInv

-----------------------------------------------------------------------------
(* The reads.                                                              *)

LEMMA ConfigurationCopyIsSound ==
  ASSUME ReceiptInv, NEW t \in Handlers, NEW q \in ReceiptQuotes,
         NEW channel \in Channels, NEW publishing \in BOOLEAN,
         ReadsForConfiguration(t, q, channel, publishing),
         UNCHANGED <<receipt, decided, review, signing, mailed, faults>>
  PROVE  ReceiptInv'
<1> DEFINE write(pc) == [NoRequest EXCEPT !.pc = pc, !.quote = q, !.channel = channel,
                                          !.from = receipt.quote,
                                          !.publishing = publishing]
<1>1. \A pc \in {"insert", "update", "rebind"} :
        RequestSound(write(pc), receipt, decided)
  <2>1. receipt.quote \in ReceiptQuotes \cup {NoQuote} /\ q # NoQuote
    BY ReceiptsAssumption DEF ReceiptInv, ReceiptsTypeOK, ReceiptRows
  <2>2. NoRequest \in RequestCopies
    BY NoRequestIsSound DEF RequestSound
  <2> SUFFICES ASSUME NEW pc \in {"insert", "update", "rebind"}
               PROVE  RequestSound(write(pc), receipt, decided)
    OBVIOUS
  <2>3. write(pc) \in RequestCopies
    BY <2>1, <2>2 DEF RequestCopies, RequestSteps
  <2>4. write(pc).pc = pc /\ write(pc).quote = q
    BY <2>2 DEF RequestCopies
  <2> HIDE DEF write
  <2> QED
    BY <2>1, <2>3, <2>4 DEF RequestSound
<1>2. \E r \in {write("insert"), write("update"), write("rebind"), NoRequest} :
        request' = [request EXCEPT ![t] = r]
  <2> DEFINE mine == receipt.quote = q /\ receipt.state = "configured"
             other == /\ receipt.quote \notin {NoQuote, q}
                      /\ receipt.state = "configured"
                      /\ receipt.sealed = NoQuote
  <2>1. CASE receipt.quote = NoQuote
    <3>1. request' = [request EXCEPT ![t] = write("insert")]
      BY <2>1, ReceiptsAssumption DEF ReadsForConfiguration, Becomes
    <3> QED
      BY <3>1
  <2>2. CASE receipt.quote # NoQuote /\ mine
    <3>1. request' = [request EXCEPT ![t] = write("update")]
      BY <2>2 DEF ReadsForConfiguration, Becomes
    <3> QED
      BY <3>1
  <2>3. CASE receipt.quote # NoQuote /\ ~mine /\ other
    <3>1. request' = [request EXCEPT ![t] = write("rebind")]
      BY <2>3 DEF ReadsForConfiguration, Becomes
    <3> QED
      BY <3>1
  <2>4. CASE receipt.quote # NoQuote /\ ~mine /\ ~other
    <3>1. request' = [request EXCEPT ![t] = NoRequest]
      BY <2>4 DEF ReadsForConfiguration, Becomes
    <3> QED
      BY <3>1
  <2> QED
    BY <2>1, <2>2, <2>3, <2>4
<1>3. PICK r \in {write("insert"), write("update"), write("rebind"), NoRequest} :
        request' = [request EXCEPT ![t] = r]
  BY <1>2
<1>4. RequestSound(r, receipt, decided)
  BY <1>1, NoRequestIsSound
<1> QED
  BY <1>3, <1>4, ReadKeepsInv

LEMMA PublicationCopyIsSound ==
  ASSUME ReceiptInv, NEW t \in Handlers, NEW q \in ReceiptQuotes,
         receipt.quote = q,
         ReadsForPublication(t, q),
         UNCHANGED <<receipt, decided, review, signing, mailed, faults>>
  PROVE  ReceiptInv'
<1> DEFINE write(pc) == [NoRequest EXCEPT !.pc = pc, !.quote = q, !.signs = signing]
<1>1. RequestSound(write("seal"), receipt, decided)
  <2>1. NoRequest \in RequestCopies /\ signing \in BOOLEAN /\ q # NoQuote
    BY NoRequestIsSound, ReceiptsAssumption DEF RequestSound, ReceiptInv, ReceiptsTypeOK
  <2>2. write("seal") \in RequestCopies
    BY <2>1 DEF RequestCopies, RequestSteps
  <2>3. write("seal").pc = "seal" /\ write("seal").quote = q
    BY <2>1 DEF RequestCopies
  <2> HIDE DEF write
  <2> QED
    BY <2>1, <2>2, <2>3 DEF RequestSound
<1>2. receipt.sealed # NoQuote => RequestSound(write("repair"), receipt, decided)
  BY NoRequestIsSound, ReceiptsAssumption
     DEF ReceiptInv, ReceiptsTypeOK, RequestSound, RequestCopies, RequestSteps, NoRequest
<1>3. CASE receipt.sealed = NoQuote
  <2>1. request' = [request EXCEPT ![t] = write("seal")]
    BY <1>3, ReceiptsAssumption DEF ReadsForPublication, Becomes
  <2> QED
    BY <1>1, <2>1, ReadKeepsInv
<1>4. CASE receipt.sealed # NoQuote
  <2>1. \E r \in {write("repair"), NoRequest} : request' = [request EXCEPT ![t] = r]
    BY <1>4 DEF ReadsForPublication, Becomes
  <2>2. PICK r \in {write("repair"), NoRequest} : request' = [request EXCEPT ![t] = r]
    BY <2>1
  <2>3. RequestSound(r, receipt, decided)
    BY <1>2, <1>4, NoRequestIsSound
  <2> QED
    BY <2>2, <2>3, ReadKeepsInv
<1> QED
  BY <1>3, <1>4

LEMMA ReturnKeepsInv ==
  ASSUME ReceiptInv, NEW t \in Handlers, Returns(t),
         UNCHANGED <<receipt, decided, review, signing, mailed, faults>>
  PROVE  ReceiptInv'
BY NoRequestIsSound, ReadKeepsInv DEF Returns, Becomes

LEMMA PublishKeepsInv ==
  ASSUME ReceiptInv, NEW t \in Handlers, NEW q \in ReceiptQuotes, Publish(t, q)
  PROVE  ReceiptInv'
<1>1. CASE receipt.quote = q
  BY <1>1, PublicationCopyIsSound DEF Publish
<1>2. CASE receipt.quote # q
  <2> DEFINE r == [NoRequest EXCEPT !.pc = "bind", !.quote = q]
  <2>1. RequestSound(r, receipt, decided)
    BY NoRequestIsSound, ReceiptsAssumption
       DEF RequestSound, RequestCopies, RequestSteps, NoRequest
  <2>2. request' = [request EXCEPT ![t] = r]
    BY <1>2 DEF Publish, Becomes
  <2> QED
    BY <2>1, <2>2, ReadKeepsInv DEF Publish
<1> QED
  BY <1>1, <1>2

\* A request at work holds a quote of the order.
LEMMA RequestQuote ==
  ASSUME ReceiptInv, NEW t \in Handlers, request[t].pc # "idle"
  PROVE  request[t].quote \in ReceiptQuotes
BY DEF ReceiptInv, RequestSound, RequestCopies

LEMMA BindKeepsInv ==
  ASSUME ReceiptInv, NEW t \in Handlers, Bind(t)
  PROVE  ReceiptInv'
<1>1. request[t].quote \in ReceiptQuotes
  BY RequestQuote DEF Bind, At
<1> QED
  BY <1>1, ConfigurationCopyIsSound, ReceiptsAssumption DEF Bind

LEMMA PublishBoundKeepsInv ==
  ASSUME ReceiptInv, NEW t \in Handlers, PublishBound(t)
  PROVE  ReceiptInv'
<1>1. request[t].quote \in ReceiptQuotes
  BY RequestQuote DEF PublishBound, At
<1>2. CASE Bound(t)
  BY <1>1, <1>2, PublicationCopyIsSound DEF PublishBound, Bound
<1>3. CASE ~Bound(t)
  BY <1>3, ReturnKeepsInv DEF PublishBound
<1> QED
  BY <1>2, <1>3

LEMMA ProviderEventKeepsInv ==
  ASSUME ReceiptInv, NEW t \in Handlers, ProviderEvent(t)
  PROVE  ReceiptInv'
<1> DEFINE r == [NoRequest EXCEPT !.pc = "event", !.quote = receipt.quote,
                                  !.state = receipt.state]
<1>1. receipt.sealed # NoQuote /\ receipt \in ReceiptRows
  BY DEF ProviderEvent, ReceiptInv, RowSound
<1>2. receipt.state \in {"delivered"} \cup decided /\ receipt.quote # NoQuote
  BY <1>1 DEF ReceiptInv, RowSound, DECISIONS
<1>3. RequestSound(r, receipt, decided)
  BY <1>1, <1>2, NoRequestIsSound
     DEF RequestSound, RequestCopies, RequestSteps, NoRequest, ReceiptRows
<1> QED
  BY <1>3, ReadKeepsInv DEF ProviderEvent, Becomes

LEMMA ListDueKeepsInv ==
  ASSUME ReceiptInv, NEW t \in Handlers, ListDue(t)
  PROVE  ReceiptInv'
<1> DEFINE r == [NoRequest EXCEPT !.pc = "listed", !.quote = receipt.quote]
<1>1. receipt \in ReceiptRows /\ receipt.quote # NoQuote
  BY DEF ListDue, NotificationDue, ReceiptInv, RowSound
<1>2. RequestSound(r, receipt, decided)
  BY <1>1, NoRequestIsSound
     DEF RequestSound, RequestCopies, RequestSteps, NoRequest, ReceiptRows
<1> QED
  BY <1>2, ReadKeepsInv DEF ListDue, Becomes

\* What is dispatched is sealed.
LEMMA DispatchKeepsInv ==
  ASSUME ReceiptInv, NEW t \in Handlers, Dispatch(t)
  PROVE  ReceiptInv'
<1>1. ASSUME Dispatchable(t), NEW ok \in BOOLEAN,
             IF ok THEN UNCHANGED faults ELSE Fault,
             mailed' = (mailed \/ (ok /\ receipt.channel = "email")),
             Becomes(t, [NoRequest EXCEPT !.pc = "report", !.quote = receipt.quote,
                                          !.attempts = receipt.attempts, !.ok = ok])
      PROVE  ReceiptInv'
  <2> DEFINE r == [NoRequest EXCEPT !.pc = "report", !.quote = receipt.quote,
                                    !.attempts = receipt.attempts, !.ok = ok]
  <2>1. receipt.sealed # NoQuote /\ receipt \in ReceiptRows /\ receipt.quote # NoQuote
    BY <1>1 DEF Dispatchable, ReceiptInv, RowSound
  <2>2. RequestSound(r, receipt, decided)
    BY <2>1, NoRequestIsSound
       DEF RequestSound, RequestCopies, RequestSteps, NoRequest, ReceiptRows
  <2>3. faults' \in 0 .. MaxFaults
    BY <1>1, FaultsAssumption DEF Fault, ReceiptInv, ReceiptsTypeOK
  <2>4. mailed' \in BOOLEAN /\ review' \in BOOLEAN /\ signing' \in BOOLEAN
    BY <1>1 DEF Dispatch, ReceiptInv, ReceiptsTypeOK
  <2>5. RowSound(receipt', decided') /\ Keeps(receipt, receipt')
    BY DEF Dispatch, ReceiptInv, Keeps
  <2>6. decided \subseteq decided' /\ decided' \subseteq DECISIONS
    BY DEF Dispatch, ReceiptInv, ReceiptsTypeOK
  <2>7. (review' => "disputed" \in decided') /\ receipt'.sealed # NoQuote
    BY <2>1 DEF Dispatch, ReceiptInv
  <2> QED
    BY <1>1, <2>2, <2>3, <2>4, <2>5, <2>6, <2>7, StepKeepsInv DEF Becomes
<1>2. CASE Returns(t) /\ UNCHANGED <<mailed, faults>>
  BY <1>2, ReturnKeepsInv DEF Dispatch
<1> QED
  BY <1>1, <1>2 DEF Dispatch

-----------------------------------------------------------------------------
(* The writes.                                                             *)

\* A step of one request that writes the row and records no decision.
LEMMA WriteKeepsInv ==
  ASSUME ReceiptInv,
         NEW t \in Handlers, NEW r,
         RequestSound(r, receipt, decided),
         request' = [request EXCEPT ![t] = r],
         RowSound(receipt', decided), Keeps(receipt, receipt'),
         UNCHANGED <<decided, review, signing, mailed, faults>>
  PROVE  ReceiptInv'
<1>1. decided \subseteq decided' /\ decided' \subseteq DECISIONS
  BY DEF ReceiptInv, ReceiptsTypeOK
<1>2. review' \in BOOLEAN /\ signing' \in BOOLEAN /\ mailed' \in BOOLEAN
  BY DEF ReceiptInv, ReceiptsTypeOK
<1>3. faults' \in 0 .. MaxFaults
  BY DEF ReceiptInv, ReceiptsTypeOK
<1>4. review' => "disputed" \in decided'
  BY DEF ReceiptInv
<1>5. mailed' => receipt'.sealed # NoQuote
  BY DEF ReceiptInv, Keeps
<1>6. RowSound(receipt', decided')
  OBVIOUS
<1> QED
  BY <1>1, <1>2, <1>3, <1>4, <1>5, <1>6, StepKeepsInv

LEMMA WriteConfigurationKeepsInv ==
  ASSUME ReceiptInv, NEW t \in Handlers, WriteConfiguration(t)
  PROVE  ReceiptInv'
<1> DEFINE r == request[t]
           done == IF r.publishing THEN [NoRequest EXCEPT !.pc = "publish", !.quote = r.quote]
                                   ELSE NoRequest
<1>1. r.quote \in ReceiptQuotes /\ r.channel \in Channels /\ receipt \in ReceiptRows
  BY DEF WriteConfiguration, ReceiptInv, RequestSound, RequestCopies, RowSound
<1>2. RequestSound(done, receipt, decided)
  <2>1. CASE r.publishing
    BY <1>1, <2>1, NoRequestIsSound, ReceiptsAssumption
       DEF RequestSound, RequestCopies, RequestSteps, NoRequest
  <2>2. CASE ~r.publishing
    BY <2>2, NoRequestIsSound
  <2> QED
    BY <2>1, <2>2
<1>3. UNCHANGED <<decided, review, signing, mailed, faults>>
  BY DEF WriteConfiguration
<1>4. RowSound(receipt, decided)
  BY DEF ReceiptInv
<1>5. CASE /\ Insertable(t)
           /\ receipt' = [NoReceipt EXCEPT !.quote = r.quote, !.channel = r.channel,
                                           !.state = "configured"]
           /\ Becomes(t, done)
  <2>1. Keeps(receipt, receipt')
    BY <1>4, <1>5 DEF Insertable, Keeps, RowSound
  <2>2. receipt' \in ReceiptRows
    <3>1. NoReceipt \in ReceiptRows
      BY NoReceiptIsSound DEF RowSound
    <3> QED
      BY <1>1, <1>5, <3>1 DEF ReceiptRows, ReceiptStates
  <2>3. RowSound(receipt', decided)
    <3>1. ~receipt'.retry /\ receipt'.sealed = NoQuote /\ receipt'.state = "configured"
      BY <1>5 DEF NoReceipt
    <3>2. receipt'.quote = r.quote
      BY <1>5 DEF NoReceipt
    <3> QED
      BY <1>1, <2>2, <3>1, <3>2, ReceiptsAssumption DEF RowSound, DECISIONS
  <2> QED
    BY <1>2, <1>3, <1>5, <2>1, <2>3, WriteKeepsInv DEF Becomes
<1>6. CASE /\ Updatable(t)
           /\ receipt' = IF Bound(t) THEN [receipt EXCEPT !.channel = r.channel]
                                     ELSE receipt
           /\ Becomes(t, done)
  <2>1. Keeps(receipt, receipt')
    BY <1>1, <1>6 DEF Keeps, ReceiptRows
  <2>2. receipt' \in ReceiptRows
    BY <1>1, <1>6 DEF ReceiptRows
  <2>3. RowSound(receipt', decided)
    BY <1>1, <1>4, <1>6, <2>2 DEF RowSound, ReceiptRows
  <2> QED
    BY <1>2, <1>3, <1>6, <2>1, <2>3, WriteKeepsInv DEF Becomes
<1>7. CASE /\ Rebindable(t)
           /\ receipt' = [receipt EXCEPT !.quote = r.quote, !.channel = r.channel]
           /\ Becomes(t, done)
  <2>1. Keeps(receipt, receipt')
    BY <1>7 DEF Keeps, Rebindable
  <2>2. receipt' \in ReceiptRows
    BY <1>1, <1>7 DEF ReceiptRows
  <2>3. RowSound(receipt', decided)
    BY <1>1, <1>4, <1>7, <2>2, ReceiptsAssumption
       DEF RowSound, ReceiptRows, Rebindable, DECISIONS
  <2> QED
    BY <1>2, <1>3, <1>7, <2>1, <2>3, WriteKeepsInv DEF Becomes
<1>8. CASE receipt' = receipt /\ Returns(t)
  BY <1>3, <1>8, ReturnKeepsInv
<1> QED
  BY <1>5, <1>6, <1>7, <1>8 DEF WriteConfiguration

LEMMA SealKeepsInv ==
  ASSUME ReceiptInv, NEW t \in Handlers, Seal(t)
  PROVE  ReceiptInv'
<1> DEFINE r == request[t]
<1>1. RowSound(receipt, decided) /\ RequestSound(r, receipt, decided)
  BY DEF ReceiptInv
<1>2. receipt \in ReceiptRows /\ r.quote \in ReceiptQuotes /\ r.signs \in BOOLEAN
  BY <1>1 DEF Seal, At, RowSound, RequestSound, RequestCopies
<1>3. CASE Bound(t) /\ receipt.sealed = NoQuote
  <2>1. receipt' = [receipt EXCEPT !.state = "delivered", !.sealed = r.quote,
                                   !.signed = r.signs, !.dispatched = FALSE]
    BY <1>3 DEF Seal
  <2>2. receipt' \in ReceiptRows
    BY <1>2, <2>1 DEF ReceiptRows, ReceiptStates
  <2>3. RowSound(receipt', decided)
    BY <1>1, <1>2, <1>3, <2>1, <2>2, ReceiptsAssumption
       DEF RowSound, ReceiptRows, Bound, DECISIONS
  <2>4. Keeps(receipt, receipt')
    BY <1>3 DEF Keeps
  <2> QED
    BY <2>3, <2>4, NoRequestIsSound, WriteKeepsInv DEF Seal, Returns, Becomes
<1>4. CASE ~(Bound(t) /\ receipt.sealed = NoQuote)
  BY <1>4, ReturnKeepsInv DEF Seal
<1> QED
  BY <1>3, <1>4

LEMMA RepairKeepsInv ==
  ASSUME ReceiptInv, NEW t \in Handlers, Repair(t)
  PROVE  ReceiptInv'
<1>1. RowSound(receipt, decided) /\ receipt.sealed # NoQuote
  BY DEF ReceiptInv, Repair, At, RequestSound
<1>2. receipt \in ReceiptRows
  BY <1>1 DEF RowSound
<1>3. CASE Bound(t)
  <2>1. receipt' = [receipt EXCEPT !.state = "delivered", !.signed = TRUE]
    BY <1>3 DEF Repair
  <2>2. receipt' \in ReceiptRows
    BY <1>2, <2>1 DEF ReceiptRows, ReceiptStates
  <2>3. RowSound(receipt', decided)
    BY <1>1, <1>2, <2>1, <2>2 DEF RowSound, ReceiptRows, DECISIONS
  <2>4. Keeps(receipt, receipt')
    BY <1>2, <2>1 DEF Keeps, ReceiptRows
  <2> QED
    BY <2>3, <2>4, NoRequestIsSound, WriteKeepsInv DEF Repair, Returns, Becomes
<1>4. CASE ~Bound(t)
  BY <1>4, ReturnKeepsInv DEF Repair
<1> QED
  BY <1>3, <1>4

LEMMA AcknowledgeKeepsInv ==
  ASSUME ReceiptInv, NEW t \in Handlers, NEW decision \in DECISIONS,
         Acknowledge(t, decision)
  PROVE  ReceiptInv'
<1> DEFINE r == IF decision = "disputed"
                THEN [NoRequest EXCEPT !.pc = "review", !.quote = receipt.quote]
                ELSE NoRequest
<1>1. RowSound(receipt, decided) /\ receipt \in ReceiptRows
  BY DEF ReceiptInv, RowSound
<1>2. receipt.quote # NoQuote /\ receipt.state = "delivered"
  BY <1>1 DEF Acknowledge, Decidable, RowSound
<1>3. RequestSound(r, receipt, decided)
  <2>1. CASE decision = "disputed"
    BY <1>1, <1>2, <2>1, NoRequestIsSound
       DEF RequestSound, RequestCopies, RequestSteps, NoRequest, ReceiptRows
  <2>2. CASE decision # "disputed"
    BY <2>2, NoRequestIsSound
  <2> QED
    BY <2>1, <2>2
<1>4. receipt' = [receipt EXCEPT !.state = decision] /\ decided' = decided \cup {decision}
  BY DEF Acknowledge
<1>5. receipt' \in ReceiptRows
  BY <1>1, <1>4 DEF ReceiptRows, ReceiptStates
<1>6. RowSound(receipt', decided')
  BY <1>1, <1>2, <1>4, <1>5 DEF RowSound, ReceiptRows, DECISIONS
<1>7. Keeps(receipt, receipt')
  BY <1>1, <1>4 DEF Keeps, ReceiptRows
<1>8. decided \subseteq decided' /\ decided' \subseteq DECISIONS
  BY <1>4 DEF ReceiptInv, ReceiptsTypeOK
<1>9. review' \in BOOLEAN /\ signing' \in BOOLEAN /\ mailed' \in BOOLEAN
  BY DEF Acknowledge, ReceiptInv, ReceiptsTypeOK
<1>10. faults' \in 0 .. MaxFaults
  BY DEF Acknowledge, ReceiptInv, ReceiptsTypeOK
<1>11. (review' => "disputed" \in decided') /\ (mailed' => receipt'.sealed # NoQuote)
  BY <1>7, <1>8 DEF Acknowledge, ReceiptInv, Keeps
<1> QED
  BY <1>3, <1>6, <1>7, <1>8, <1>9, <1>10, <1>11, StepKeepsInv DEF Acknowledge, Becomes

LEMMA RequestReviewKeepsInv ==
  ASSUME ReceiptInv, NEW t \in Handlers, RequestReview(t)
  PROVE  ReceiptInv'
<1>1. RowSound(receipt', decided') /\ Keeps(receipt, receipt')
  BY DEF RequestReview, ReceiptInv, Keeps
<1>2. decided \subseteq decided' /\ decided' \subseteq DECISIONS
  BY DEF RequestReview, ReceiptInv, ReceiptsTypeOK
<1>3. review' \in BOOLEAN /\ signing' \in BOOLEAN /\ mailed' \in BOOLEAN
  BY DEF RequestReview, ReceiptInv, ReceiptsTypeOK
<1>4. faults' \in 0 .. MaxFaults
  BY DEF RequestReview, ReceiptInv, ReceiptsTypeOK
<1>5. review' => "disputed" \in decided'
  BY DEF RequestReview, ReceiptInv, RowSound, DECISIONS
<1>6. mailed' => receipt'.sealed # NoQuote
  BY DEF RequestReview, ReceiptInv
<1> QED
  BY <1>1, <1>2, <1>3, <1>4, <1>5, <1>6, NoRequestIsSound, StepKeepsInv
     DEF RequestReview, Returns, Becomes

LEMMA ReportKeepsInv ==
  ASSUME ReceiptInv, NEW t \in Handlers, Report(t)
  PROVE  ReceiptInv'
<1> DEFINE r == request[t]
           attempt == r.attempts + 1
<1>1. RowSound(receipt, decided) /\ receipt \in ReceiptRows
  BY DEF ReceiptInv, RowSound
<1>2. r.attempts \in Nat /\ r.ok \in BOOLEAN
  BY DEF Report, At, ReceiptInv, RequestSound, RequestCopies
<1>3. attempt \in Nat /\ (attempt < DispatchAttempts) \in BOOLEAN
  BY <1>2, ReceiptsAssumption
<1>4. CASE Undispatched(t)
  <2>1. receipt' = [receipt EXCEPT !.state = "delivered", !.attempts = attempt,
                                   !.dispatched = r.ok,
                                   !.retry = ~r.ok /\ attempt < DispatchAttempts]
    BY <1>4 DEF Report
  <2>2. receipt' \in ReceiptRows
    BY <1>1, <1>2, <1>3, <2>1 DEF ReceiptRows, ReceiptStates
  <2>3. receipt'.retry => receipt'.attempts < DispatchAttempts
    BY <1>1, <1>3, <2>1 DEF ReceiptRows
  <2>4. receipt.state = "delivered"
    BY <1>4 DEF Undispatched
  <2>5. RowSound(receipt', decided)
    BY <1>1, <2>1, <2>2, <2>3, <2>4 DEF RowSound, ReceiptRows, DECISIONS
  <2>6. Keeps(receipt, receipt')
    BY <1>1, <2>1 DEF Keeps, ReceiptRows
  <2> QED
    BY <2>5, <2>6, NoRequestIsSound, WriteKeepsInv DEF Report, Returns, Becomes
<1>5. CASE ~Undispatched(t)
  BY <1>5, ReturnKeepsInv DEF Report
<1> QED
  BY <1>4, <1>5

LEMMA RecordProviderEventKeepsInv ==
  ASSUME ReceiptInv, NEW t \in Handlers, RecordProviderEvent(t)
  PROVE  ReceiptInv'
<1> DEFINE r == request[t]
<1>1. RowSound(receipt, decided) /\ receipt \in ReceiptRows /\ decided \subseteq DECISIONS
  BY DEF ReceiptInv, RowSound, ReceiptsTypeOK
<1>2. receipt.sealed # NoQuote /\ r.state \in {"delivered"} \cup decided
  BY DEF RecordProviderEvent, At, ReceiptInv, RequestSound
<1>3. CASE Bound(t)
  <2>1. receipt' = [receipt EXCEPT !.state = r.state]
    BY <1>3 DEF RecordProviderEvent
  <2>2. receipt' \in ReceiptRows
    BY <1>1, <1>2, <2>1 DEF ReceiptRows, ReceiptStates, DECISIONS
  <2>3. RowSound(receipt', decided)
    BY <1>1, <1>2, <2>1, <2>2 DEF RowSound, ReceiptRows, DECISIONS
  <2>4. Keeps(receipt, receipt')
    BY <1>1, <2>1 DEF Keeps, ReceiptRows
  <2> QED
    BY <2>3, <2>4, NoRequestIsSound, WriteKeepsInv DEF RecordProviderEvent, Returns, Becomes
<1>4. CASE ~Bound(t)
  BY <1>4, ReturnKeepsInv DEF RecordProviderEvent
<1> QED
  BY <1>3, <1>4

LEMMA RequestFailsKeepsInv ==
  ASSUME ReceiptInv, NEW t \in Handlers, RequestFails(t)
  PROVE  ReceiptInv'
<1>1. RowSound(receipt', decided') /\ Keeps(receipt, receipt')
  BY DEF RequestFails, ReceiptInv, Keeps
<1>2. decided \subseteq decided' /\ decided' \subseteq DECISIONS
  BY DEF RequestFails, ReceiptInv, ReceiptsTypeOK
<1>3. review' \in BOOLEAN /\ signing' \in BOOLEAN /\ mailed' \in BOOLEAN
  BY DEF RequestFails, ReceiptInv, ReceiptsTypeOK
<1>4. faults' \in 0 .. MaxFaults
  BY FaultsAssumption DEF RequestFails, Fault, ReceiptInv, ReceiptsTypeOK
<1>5. (review' => "disputed" \in decided') /\ (mailed' => receipt'.sealed # NoQuote)
  BY DEF RequestFails, ReceiptInv
<1> QED
  BY <1>1, <1>2, <1>3, <1>4, <1>5, NoRequestIsSound, StepKeepsInv
     DEF RequestFails, Returns, Becomes

\* The steps of nobody's request: the buyer opens the inbox, the operator
\* configures the keypair, or nothing happens.
LEMMA QuietStepKeepsInv ==
  ASSUME ReceiptInv, OpenInbox \/ ConfigureSigning \/ UNCHANGED receiptVars
  PROVE  ReceiptInv'
<1>1. RowSound(receipt, decided) /\ receipt \in ReceiptRows
  BY DEF ReceiptInv, RowSound
<1>2. UNCHANGED <<decided, review, mailed, request, faults>> /\ signing' \in BOOLEAN
  BY DEF OpenInbox, ConfigureSigning, receiptVars, ReceiptInv, ReceiptsTypeOK
<1>3. receipt' = receipt \/ receipt' = [receipt EXCEPT !.opened = TRUE]
  BY DEF OpenInbox, ConfigureSigning, receiptVars
<1>4. receipt' \in ReceiptRows
  BY <1>1, <1>3 DEF ReceiptRows
<1>5. RowSound(receipt', decided') /\ Keeps(receipt, receipt')
  BY <1>1, <1>2, <1>3, <1>4 DEF RowSound, Keeps, ReceiptRows
<1>6. \A t \in Handlers : RequestSound(request'[t], receipt', decided')
  BY <1>2, <1>5, CopiesStaySound DEF ReceiptInv
<1>7. ReceiptsTypeOK'
  BY <1>2, <1>4 DEF ReceiptInv, ReceiptsTypeOK
<1>8. (review' => "disputed" \in decided') /\ (mailed' => receipt'.sealed # NoQuote)
  BY <1>2, <1>5 DEF ReceiptInv, Keeps
<1> QED
  BY <1>5, <1>6, <1>7, <1>8 DEF ReceiptInv

LEMMA ReceiptNextKeepsInv ==
  ReceiptInv /\ [ReceiptsNext]_receiptVars => ReceiptInv'
<1> SUFFICES ASSUME ReceiptInv, [ReceiptsNext]_receiptVars PROVE ReceiptInv'
  OBVIOUS
<1>1. ASSUME NEW t \in Handlers, Arrive(t) PROVE ReceiptInv'
  <2>1. ASSUME NEW q \in ReceiptQuotes, Publish(t, q) PROVE ReceiptInv'
    BY <2>1, PublishKeepsInv
  <2>2. ASSUME NEW q \in ReceiptQuotes, NEW ch \in Channels, Configure(t, q, ch)
        PROVE  ReceiptInv'
    BY <2>2, ConfigurationCopyIsSound DEF Configure
  <2>3. ASSUME NEW decision \in DECISIONS, Acknowledge(t, decision) PROVE ReceiptInv'
    BY <2>3, AcknowledgeKeepsInv
  <2>4. CASE ProviderEvent(t)
    BY <2>4, ProviderEventKeepsInv
  <2> QED
    BY <1>1, <2>1, <2>2, <2>3, <2>4 DEF Arrive
<1>2. ASSUME NEW t \in Handlers, Proceed(t) PROVE ReceiptInv'
  <2>1. CASE WriteConfiguration(t)
    BY <2>1, WriteConfigurationKeepsInv
  <2>2. CASE Bind(t)
    BY <2>2, BindKeepsInv
  <2>3. CASE PublishBound(t)
    BY <2>3, PublishBoundKeepsInv
  <2>4. CASE Seal(t)
    BY <2>4, SealKeepsInv
  <2>5. CASE Repair(t)
    BY <2>5, RepairKeepsInv
  <2>6. CASE RequestReview(t)
    BY <2>6, RequestReviewKeepsInv
  <2>7. CASE Report(t)
    BY <2>7, ReportKeepsInv
  <2>8. CASE RecordProviderEvent(t)
    BY <2>8, RecordProviderEventKeepsInv
  <2>9. CASE Dispatch(t)
    BY <2>9, DispatchKeepsInv
  <2> QED
    BY <1>2, <2>1, <2>2, <2>3, <2>4, <2>5, <2>6, <2>7, <2>8, <2>9 DEF Proceed
<1>3. ASSUME NEW t \in Sweepers, ListDue(t) PROVE ReceiptInv'
  BY <1>3, ListDueKeepsInv DEF Handlers
<1>4. ASSUME NEW t \in Handlers, RequestFails(t) PROVE ReceiptInv'
  BY <1>4, RequestFailsKeepsInv
<1>5. CASE OpenInbox \/ ConfigureSigning \/ UNCHANGED receiptVars
  BY <1>5, QuietStepKeepsInv
<1> QED
  BY <1>1, <1>2, <1>3, <1>4, <1>5 DEF ReceiptsNext, Handlers

LEMMA ReceiptInvAlways == ReceiptsSpec => []ReceiptInv
BY ReceiptInitInv, ReceiptNextKeepsInv, PTL DEF ReceiptsSpec

-----------------------------------------------------------------------------
\* The rows and requests of checkout_receipt.py keep their types: an attempt is
\* counted only while one is left, whatever sweeps report.
THEOREM ReceiptsTypeCorrect == ReceiptsSpec => []ReceiptsTypeOK
<1>1. ReceiptInv => ReceiptsTypeOK
  BY DEF ReceiptInv
<1> QED
  BY <1>1, ReceiptInvAlways, PTL

\* settlement_release_receipt_gate and request_compensation act only on a
\* decision that acknowledge_delivery recorded about the sealed result.
THEOREM ReceiptsReleaseRestsOnDecision == ReceiptsSpec => []ReleaseRestsOnDecision
<1>1. ReceiptInv => ReleaseRestsOnDecision
  BY DEF ReceiptInv, RowSound, ReleaseRestsOnDecision, DECISIONS
<1> QED
  BY <1>1, ReceiptInvAlways, PTL

-----------------------------------------------------------------------------
(* What one step does to the seal and to the state.                        *)

\* Only the writes of a request, a decision and an opening change the row.
LEMMA RowWriters ==
  ASSUME [ReceiptsNext]_receiptVars
  PROVE  \/ receipt' = receipt
         \/ OpenInbox
         \/ \E t \in Handlers, decision \in DECISIONS : Acknowledge(t, decision)
         \/ \E t \in Handlers : \/ WriteConfiguration(t) \/ Seal(t) \/ Repair(t)
                               \/ Report(t) \/ RecordProviderEvent(t)
<1>1. ASSUME NEW t \in Handlers, Arrive(t)
      PROVE  receipt' = receipt \/ \E decision \in DECISIONS : Acknowledge(t, decision)
  BY <1>1 DEF Arrive, Publish, Configure, ProviderEvent
<1>2. ASSUME NEW t \in Handlers, Proceed(t)
      PROVE  \/ receipt' = receipt
             \/ WriteConfiguration(t) \/ Seal(t) \/ Repair(t)
             \/ Report(t) \/ RecordProviderEvent(t)
  BY <1>2 DEF Proceed, Bind, PublishBound, RequestReview, Dispatch
<1>3. ASSUME NEW t \in Sweepers, ListDue(t) PROVE receipt' = receipt
  BY <1>3 DEF ListDue
<1>4. ASSUME NEW t \in Handlers, RequestFails(t) PROVE receipt' = receipt
  BY <1>4 DEF RequestFails
<1>5. CASE ConfigureSigning \/ UNCHANGED receiptVars
  BY <1>5 DEF ConfigureSigning, receiptVars
<1> QED
  BY <1>1, <1>2, <1>3, <1>4, <1>5 DEF ReceiptsNext, Handlers

LEMMA StepKeepsSeal ==
  ASSUME ReceiptInv, [ReceiptsNext]_receiptVars, receipt.sealed # NoQuote
  PROVE  receipt'.sealed = receipt.sealed /\ receipt'.quote = receipt.quote
<1>1. RowSound(receipt, decided) /\ receipt \in ReceiptRows
  BY DEF ReceiptInv, RowSound
<1>2. receipt.quote # NoQuote
  BY <1>1 DEF RowSound
<1>3. ASSUME NEW t \in Handlers, WriteConfiguration(t)
      PROVE  receipt'.sealed = receipt.sealed /\ receipt'.quote = receipt.quote
  BY <1>1, <1>2, <1>3 DEF WriteConfiguration, Insertable, Rebindable, ReceiptRows
<1>4. ASSUME NEW t \in Handlers, Seal(t) \/ Repair(t) \/ Report(t) \/ RecordProviderEvent(t)
      PROVE  receipt'.sealed = receipt.sealed /\ receipt'.quote = receipt.quote
  BY <1>1, <1>4 DEF Seal, Repair, Report, RecordProviderEvent, ReceiptRows
<1>5. ASSUME NEW t \in Handlers, NEW decision \in DECISIONS, Acknowledge(t, decision)
      PROVE  receipt'.sealed = receipt.sealed /\ receipt'.quote = receipt.quote
  BY <1>1, <1>5 DEF Acknowledge, ReceiptRows
<1>6. ASSUME OpenInbox
      PROVE  receipt'.sealed = receipt.sealed /\ receipt'.quote = receipt.quote
  BY <1>1, <1>6 DEF OpenInbox, ReceiptRows
<1> QED
  BY <1>3, <1>4, <1>5, <1>6, RowWriters

LEMMA StepKeepsDecision ==
  ASSUME ReceiptInv, [ReceiptsNext]_receiptVars,
         receipt.state \in DECISIONS, receipt'.state # receipt.state
  PROVE  \E t \in Handlers :
           /\ request'[t] = NoRequest
           /\ \/ At(t, "repair")
              \/ At(t, "event") /\ request[t].state # receipt.state
<1>1. RowSound(receipt, decided) /\ receipt \in ReceiptRows
      /\ request \in [Handlers -> RequestCopies]
  BY DEF ReceiptInv, RowSound, ReceiptsTypeOK
<1>2. receipt.quote # NoQuote /\ receipt.sealed # NoQuote
  BY <1>1 DEF RowSound, DECISIONS
<1>3. ASSUME NEW t \in Handlers, WriteConfiguration(t) PROVE FALSE
  BY <1>1, <1>2, <1>3 DEF WriteConfiguration, Insertable, Rebindable, ReceiptRows
<1>4. ASSUME NEW t \in Handlers, Seal(t) PROVE FALSE
  BY <1>1, <1>2, <1>4 DEF Seal
<1>5. ASSUME NEW t \in Handlers, Report(t) PROVE FALSE
  BY <1>1, <1>5 DEF Report, Undispatched, DECISIONS
<1>6. ASSUME NEW t \in Handlers, NEW decision \in DECISIONS, Acknowledge(t, decision)
      PROVE  FALSE
  BY <1>6 DEF Acknowledge, Decidable, DECISIONS
<1>7. ~OpenInbox
  BY <1>1 DEF OpenInbox, ReceiptRows
<1>8. ASSUME NEW t \in Handlers, Repair(t)
      PROVE  request'[t] = NoRequest /\ At(t, "repair")
  BY <1>1, <1>8 DEF Repair, Returns, Becomes
<1>9. ASSUME NEW t \in Handlers, RecordProviderEvent(t)
      PROVE  request'[t] = NoRequest /\ At(t, "event") /\ request[t].state # receipt.state
  BY <1>1, <1>9 DEF RecordProviderEvent, Returns, Becomes, ReceiptRows
<1> QED
  BY <1>3, <1>4, <1>5, <1>6, <1>7, <1>8, <1>9, RowWriters

\* No publication, repair or rebinding of checkout_receipt.py replaces a sealed
\* result or moves it to another quote.
THEOREM ReceiptsSealIsPermanent == ReceiptsSpec => SealIsPermanent
<1>1. ReceiptInv /\ [ReceiptsNext]_receiptVars =>
        [receipt.sealed # NoQuote =>
           receipt'.sealed = receipt.sealed /\ receipt'.quote = receipt.quote]_receiptVars
  BY StepKeepsSeal
<1> QED
  BY <1>1, ReceiptInvAlways, PTL DEF ReceiptsSpec, SealIsPermanent

\* Of all the writes, only the repair of _publish_delivery_receipt and a late
\* provider event overwrite a decision; a dispatch never does.
THEOREM ReceiptsDecisionStays == ReceiptsSpec => DecisionStays
<1>1. ReceiptInv /\ [ReceiptsNext]_receiptVars =>
        [receipt.state \in DECISIONS /\ receipt'.state # receipt.state =>
           \E t \in Handlers :
             /\ request'[t] = NoRequest
             /\ \/ At(t, "repair")
                \/ At(t, "event") /\ request[t].state # receipt.state]_receiptVars
  BY StepKeepsDecision
<1> QED
  BY <1>1, ReceiptInvAlways, PTL DEF ReceiptsSpec, DecisionStays

\* A published result and the decision about it stay, for every number of requests,
\* sweepers and channels.
THEOREM ReceiptsFinal == ReceiptsSpec => ReceiptIsFinal
BY ReceiptsSealIsPermanent, ReceiptsDecisionStays DEF ReceiptIsFinal

-----------------------------------------------------------------------------
(* The composition: one system moves per behaviour, the faults are shared.  *)
(* Each system's own invariant was shown for its own specification.  Here   *)
(* each is shown to survive the steps of the others, which leave its tables *)
(* alone and count a fault at most; only the collection needs more          *)
(* (Uncollected), because its keys say how many faults its own steps met.   *)

\* What holds of the scheduler.
SchedulerSafe == SchedulerInv /\ PermitIsEarned /\ BackedInv /\ SealedInv

Collecting == system \in {"collection", "prospects"}

\* As long as another system moves, no page has a job and nothing was retried.
Uncollected ==
  /\ \A p \in Pages : page[p].key = <<>>
  /\ \A x \in Candidates : candidate[x].retries = 0

\* Each system keeps its invariant, whichever moves.
WorkersInv ==
  /\ SchedulerSafe /\ HostedInv /\ ActionsInv /\ ReceiptInv /\ CollectionInv
  /\ ~Collecting => Uncollected

\* A step of another system leaves the tables alone and counts a fault at most.
LEMMA SchedulerRests ==
  ASSUME SchedulerSafe, UNCHANGED schedulerOnly, faults' \in 0 .. MaxFaults
  PROVE  SchedulerSafe'
  <1>1. UNCHANGED <<job, anchor, turn, overruns, chain>>
    BY DEF schedulerOnly
  <1>2. SchedulerTypeOK'
    BY <1>1 DEF SchedulerSafe, SchedulerInv, SchedulerTypeOK
  <1>3. SchedulerInv'
    BY <1>1, <1>2 DEF SchedulerSafe, SchedulerInv
  <1>4. PermitIsEarned' /\ BackedInv'
    BY <1>1 DEF SchedulerSafe, PermitIsEarned, BackedInv
  <1>5. SealedInv'
    BY <1>1 DEF SchedulerSafe, SealedInv, Apart
  <1> QED
    BY <1>3, <1>4, <1>5 DEF SchedulerSafe

LEMMA HostedAside ==
  ASSUME HostedInv, UNCHANGED hostedOnly, faults' \in 0 .. MaxFaults
  PROVE  HostedInv'
  <1>1. UNCHANGED <<hosted, journal, shift, second>>
    BY DEF hostedOnly
  <1>2. /\ second \in 0 .. LastSecond
        /\ shift \in [HostedWorkers -> [lease : Nat, attempt : Nat, at : Nat]]
        /\ \A w \in HostedWorkers : shift[w].at <= second
    BY DEF HostedInv, HostedTyped, Dated
  <1> QED
    BY <1>1, <1>2, HostedAssumption, HostedRests

LEMMA ActionsRest ==
  ASSUME ActionsInv, UNCHANGED actionsOnly, faults' \in 0 .. MaxFaults
  PROVE  ActionsInv'
  <1>1. UNCHANGED <<queue, workers, claims, expired, dlq, thread, supervisor, requeues, crowd,
                    history>>
    BY DEF actionsOnly
  <1>2. ActionsTypeOK'
    BY <1>1 DEF ActionsInv, ActionsTypeOK
  <1> QED
    BY <1>1, <1>2 DEF ActionsInv, ThreadKnows, Performed, RequeueFollowsOverlap

LEMMA ReceiptsRest ==
  ASSUME ReceiptInv, UNCHANGED receiptsOnly, faults' \in 0 .. MaxFaults
  PROVE  ReceiptInv'
  <1>1. UNCHANGED <<receipt, decided, review, signing, mailed, request>>
    BY DEF receiptsOnly
  <1>2. ReceiptsTypeOK'
    BY <1>1 DEF ReceiptInv, ReceiptsTypeOK
  <1> QED
    BY <1>1, <1>2 DEF ReceiptInv

LEMMA CollectionRests ==
  ASSUME CollectionInv, Uncollected, UNCHANGED <<collectionTables, prospectTables>>,
         faults' \in 0 .. MaxFaults
  PROVE  CollectionInv' /\ Uncollected' /\ CandidatesStay
  <1>1. /\ UNCHANGED <<page, candidate, indexed, collector, operator, refused, contested, cut>>
        /\ UNCHANGED <<prospect, ruling, qualifying, overruled>>
    BY DEF collectionTables, prospectTables
  <1>2. DecisionInv /\ CollectionTyped /\ ProspectsTyped /\ RulingStands
    BY DEF CollectionInv, DecisionInv
  <1>3. CollectionTyped'
    <2>1. PagesTyped /\ CollectorsTyped /\ CandidatesTyped
      BY <1>2, CollectionParts
    <2>2. PagesTyped' /\ CollectorsTyped'
      BY <1>1, <1>2, PagesKept, CollectorsKept
    <2>3. CandidatesTyped'
      BY <1>1, <2>1 DEF CandidatesTyped
    <2> QED
      BY <2>2, <2>3, CollectionFromParts
  <1>4. CandidatesStay
    BY <1>1, CandidatesUnchanged
  <1>5. DecisionInv'
    BY <1>1, <1>2, <1>3, <1>4, QuietKeeps DEF DecisionInv
  <1>6. ProspectsTyped' /\ RulingStands'
    BY <1>1, <1>2 DEF ProspectsTyped, RulingStands
  <1>7. Uncollected'
    BY <1>1 DEF Uncollected
  <1>8. RetryInv'
    <2>1. \A x \in Candidates, n \in 1 .. PageRetries : RetryKey(x, n) # <<>> /\ ~(n <= 0)
      BY KeysDiffer, CollectionAssumption
    <2>2. \A p \in Pages : page'[p].key = <<>>
      BY <1>7 DEF Uncollected
    <2>3. \A x \in Candidates : candidate'[x].retries = 0
      BY <1>7 DEF Uncollected
    <2> QED
      BY <2>1, <2>2, <2>3 DEF RetryInv
  <1> QED
    BY <1>4, <1>5, <1>6, <1>7, <1>8 DEF CollectionInv

-----------------------------------------------------------------------------
(* A step of each system.                                                   *)

ReceiptStays == receipt' = receipt

LEMMA SchedulerMoves ==
  ASSUME WorkersInv, SchedulerStep(SchedulerNext)
  PROVE  WorkersInv' /\ ReceiptStays /\ CandidatesStay
  <1>1. /\ system = "scheduler" /\ system' = system /\ SchedulerNext
        /\ UNCHANGED <<hostedOnly, actionsOnly, receiptsOnly, collectionTables, prospectTables>>
    BY DEF SchedulerStep, StepOf
  <1>2. SchedulerInv /\ PermitIsEarned /\ BackedInv /\ SealedInv
    BY DEF WorkersInv, SchedulerSafe
  <1>3. SchedulerInv' /\ BackedInv' /\ SealedInv'
    BY <1>1, <1>2, InvStep, BackedStep, SealedStep
  <1>4. PermitIsEarned'
    BY <1>1, <1>2, ChainStep DEF PermitIsEarned
  <1>5. faults' \in 0 .. MaxFaults
    BY <1>3 DEF SchedulerInv, SchedulerTypeOK
  <1>6. ~Collecting /\ ~Collecting'
    BY <1>1 DEF Collecting
  <1>7. HostedInv' /\ ActionsInv' /\ ReceiptInv'
    BY <1>1, <1>5, HostedAside, ActionsRest, ReceiptsRest DEF WorkersInv
  <1>8. CollectionInv' /\ Uncollected' /\ CandidatesStay
    BY <1>1, <1>5, <1>6, CollectionRests DEF WorkersInv
  <1> QED
    BY <1>1, <1>3, <1>4, <1>6, <1>7, <1>8 DEF WorkersInv, SchedulerSafe, ReceiptStays, receiptsOnly

LEMMA HostedMoves ==
  ASSUME WorkersInv, HostedStep(HostedNext)
  PROVE  WorkersInv' /\ ReceiptStays /\ CandidatesStay
  <1>1. /\ system = "hosted" /\ system' = system /\ HostedNext
        /\ UNCHANGED <<schedulerOnly, actionsOnly, receiptsOnly, collectionTables, prospectTables>>
    BY DEF HostedStep, StepOf
  <1>2. HostedInv'
    BY <1>1, HostedSteps DEF WorkersInv
  <1>3. faults' \in 0 .. MaxFaults
    BY <1>2 DEF HostedInv, HostedTyped
  <1>4. ~Collecting /\ ~Collecting'
    BY <1>1 DEF Collecting
  <1>5. SchedulerSafe' /\ ActionsInv' /\ ReceiptInv'
    BY <1>1, <1>3, SchedulerRests, ActionsRest, ReceiptsRest DEF WorkersInv
  <1>6. CollectionInv' /\ Uncollected' /\ CandidatesStay
    BY <1>1, <1>3, <1>4, CollectionRests DEF WorkersInv
  <1> QED
    BY <1>1, <1>2, <1>4, <1>5, <1>6 DEF WorkersInv, ReceiptStays, receiptsOnly

LEMMA ActionsMove ==
  ASSUME WorkersInv, ActionsStep(ActionsNext)
  PROVE  WorkersInv' /\ ReceiptStays /\ CandidatesStay
  <1>1. /\ system = "actions" /\ system' = system /\ ActionsNext
        /\ UNCHANGED <<schedulerOnly, hostedOnly, receiptsOnly, collectionTables, prospectTables>>
    BY DEF ActionsStep, StepOf
  <1>2. ActionsInv'
    BY <1>1, ActionsKept DEF WorkersInv
  <1>3. faults' \in 0 .. MaxFaults
    BY <1>2 DEF ActionsInv, ActionsTypeOK
  <1>4. ~Collecting /\ ~Collecting'
    BY <1>1 DEF Collecting
  <1>5. SchedulerSafe' /\ HostedInv' /\ ReceiptInv'
    BY <1>1, <1>3, SchedulerRests, HostedAside, ReceiptsRest DEF WorkersInv
  <1>6. CollectionInv' /\ Uncollected' /\ CandidatesStay
    BY <1>1, <1>3, <1>4, CollectionRests DEF WorkersInv
  <1> QED
    BY <1>1, <1>2, <1>4, <1>5, <1>6 DEF WorkersInv, ReceiptStays, receiptsOnly

\* A step about the receipt keeps its seal and what was decided about it.
DecisionKept ==
  receipt.state \in DECISIONS /\ receipt'.state # receipt.state =>
    \E t \in Handlers :
      /\ request'[t] = NoRequest
      /\ \/ At(t, "repair")
         \/ At(t, "event") /\ request[t].state # receipt.state

SealKept ==
  receipt.sealed # NoQuote =>
    receipt'.sealed = receipt.sealed /\ receipt'.quote = receipt.quote

LEMMA ReceiptsMove ==
  ASSUME WorkersInv, ReceiptsStep(ReceiptsNext)
  PROVE  WorkersInv' /\ SealKept /\ DecisionKept /\ CandidatesStay
  <1>1. /\ system = "receipts" /\ system' = system /\ ReceiptsNext
        /\ UNCHANGED <<schedulerOnly, hostedOnly, actionsOnly, collectionTables, prospectTables>>
    BY DEF ReceiptsStep, StepOf
  <1>2. ReceiptInv /\ ReceiptInv'
    BY <1>1, ReceiptNextKeepsInv DEF WorkersInv
  <1>3. faults' \in 0 .. MaxFaults
    BY <1>2 DEF ReceiptInv, ReceiptsTypeOK
  <1>4. ~Collecting /\ ~Collecting'
    BY <1>1 DEF Collecting
  <1>5. SchedulerSafe' /\ HostedInv' /\ ActionsInv'
    BY <1>1, <1>3, SchedulerRests, HostedAside, ActionsRest DEF WorkersInv
  <1>6. CollectionInv' /\ Uncollected' /\ CandidatesStay
    BY <1>1, <1>3, <1>4, CollectionRests DEF WorkersInv
  <1>7. SealKept
    BY <1>1, <1>2, StepKeepsSeal DEF SealKept
  <1>8. DecisionKept
    BY <1>1, <1>2, StepKeepsDecision DEF DecisionKept
  <1> QED
    BY <1>2, <1>4, <1>5, <1>6, <1>7, <1>8 DEF WorkersInv

LEMMA CollectionStepsKeep ==
  ASSUME WorkersInv,
         \/ CollectionStep(CollectionNext)
         \/ StepOf("prospects", ProspectsNext,
                   <<schedulerOnly, hostedOnly, actionsOnly, receiptsOnly, collectionTables,
                     system>>)
  PROVE  WorkersInv' /\ ReceiptStays /\ \A x \in Candidates : DecisionIsFinal(x)
  <1>1. /\ Collecting /\ system' = system /\ CollectionMoves
        /\ UNCHANGED <<schedulerOnly, hostedOnly, actionsOnly, receiptsOnly>>
    BY DEF CollectionStep, StepOf, Collecting, CollectionMoves
  <1>2. CollectionInv' /\ \A x \in Candidates : DecisionIsFinal(x)
    BY <1>1, CollectionKept DEF WorkersInv
  <1>3. faults' \in 0 .. MaxFaults
    BY <1>2 DEF CollectionInv, DecisionInv, CollectionTyped
  <1>4. SchedulerSafe' /\ HostedInv' /\ ActionsInv' /\ ReceiptInv'
    BY <1>1, <1>3, SchedulerRests, HostedAside, ActionsRest, ReceiptsRest DEF WorkersInv
  <1>5. Collecting'
    BY <1>1 DEF Collecting
  <1> QED
    BY <1>1, <1>2, <1>4, <1>5 DEF WorkersInv, ReceiptStays, receiptsOnly

-----------------------------------------------------------------------------
LEMMA WorkersBegin == Init => WorkersInv
  <1> SUFFICES ASSUME Init PROVE WorkersInv
    OBVIOUS
  <1>1. SchedulerInv /\ BackedInv /\ SealedInv
    BY InitTyped, BackedInit, SealedInit DEF Init
  <1>2. PermitIsEarned
    <2>1. RecordsAreChained(NoRecords)
      BY DEF NoRecords, RecordsAreChained
    <2> QED
      BY <2>1 DEF Init, SchedulerInit, PermitIsEarned
  <1>3. HostedInv /\ ActionsInv /\ ReceiptInv /\ CollectionInv
    BY HostedStarts, ActionsBegin, ReceiptInitInv, CollectionBegins DEF Init
  <1>4. Uncollected
    BY DEF Init, CollectionInit, NoPage, NoCandidate, Uncollected
  <1> QED
    BY <1>1, <1>2, <1>3, <1>4 DEF WorkersInv, SchedulerSafe

LEMMA WorkersMove ==
  ASSUME WorkersInv, [Next]_backgroundVars
  PROVE  /\ WorkersInv' /\ SealKept /\ DecisionKept
         /\ \A x \in Candidates : DecisionIsFinal(x)
  <1>1. ReceiptStays => SealKept /\ DecisionKept
    BY DEF ReceiptStays, SealKept, DecisionKept
  <1>2. CASE UNCHANGED backgroundVars
    <2>1. /\ UNCHANGED <<schedulerOnly, hostedOnly, actionsOnly, receiptsOnly, collectionTables,
                         prospectTables, faults, system>>
          /\ UNCHANGED <<schedulerVars, hostedVars, actionVars, receiptVars, collectionVars>>
      BY <1>2 DEF backgroundVars, schedulerVars, hostedVars, actionVars, receiptVars,
         collectionVars, schedulerOnly, hostedOnly, actionsOnly, receiptsOnly
    <2>2. faults' \in 0 .. MaxFaults
      BY <2>1 DEF WorkersInv, ReceiptInv, ReceiptsTypeOK
    <2>3. SchedulerSafe' /\ HostedInv' /\ ActionsInv' /\ ReceiptInv'
      BY <2>1, <2>2, SchedulerRests, HostedAside, ActionsRest, ReceiptsRest DEF WorkersInv
    <2>4. CollectionInv' /\ \A x \in Candidates : DecisionIsFinal(x)
      BY <2>1, CollectionKept DEF WorkersInv
    <2>5. ~Collecting' => Uncollected'
      BY <2>1 DEF WorkersInv, Collecting, Uncollected, collectionTables
    <2> QED
      BY <1>1, <2>1, <2>3, <2>4, <2>5 DEF WorkersInv, ReceiptStays, receiptsOnly
  <1>3. CASE Next
    BY <1>1, <1>3, SchedulerMoves, HostedMoves, ActionsMove, ReceiptsMove, CollectionStepsKeep,
       StayIsFinal DEF Next
  <1> QED
    BY <1>2, <1>3

LEMMA WorkersStay == Spec => []WorkersInv
  <1>1. WorkersInv /\ [Next]_backgroundVars => WorkersInv'
    BY WorkersMove
  <1> QED
    BY <1>1, WorkersBegin, PTL DEF Spec

\* The tables and the processes of the background systems keep their types, for
\* any number of processes, rows, attempts, overruns and faults.
THEOREM WorkersTypeCorrect == Spec => []WorkersTypeOK
  <1>1. WorkersInv => WorkersTypeOK
    <2> SUFFICES ASSUME WorkersInv PROVE WorkersTypeOK
      OBVIOUS
    <2>1. SchedulerTypeOK /\ ActionsTypeOK /\ ReceiptsTypeOK
      BY DEF WorkersInv, SchedulerSafe, SchedulerInv, ActionsInv, ReceiptInv
    <2>2. HostedTypeOK
      BY DEF WorkersInv, HostedInv, HostedTyped, HostedTypeOK, Events
    <2>3. CollectionTypeOK
      BY CollectionTypes DEF WorkersInv
    <2> QED
      BY <2>1, <2>2, <2>3 DEF WorkersTypeOK
  <1> QED
    BY <1>1, WorkersStay, PTL

\* Set beside each other under one count of faults, the background systems keep
\* what each keeps alone (buyer_agent_scheduler.py, hosted_buyer_jobs.py,
\* protocol_runtime.py, checkout_receipt.py, collector_worker.py).
THEOREM WorkersStaySafe ==
  Spec => /\ [](ClaimsAreBacked /\ JournalIsSealed /\ HostedJournalVerifies
                  /\ RequeueFollowsOverlap /\ ReleaseRestsOnDecision)
          /\ ReceiptIsFinal /\ CollectionIsReviewed
  <1>1. WorkersInv => /\ ClaimsAreBacked /\ JournalIsSealed /\ HostedJournalVerifies
                      /\ RequeueFollowsOverlap /\ ReleaseRestsOnDecision
    <2> SUFFICES ASSUME WorkersInv
                 PROVE  /\ ClaimsAreBacked /\ JournalIsSealed /\ HostedJournalVerifies
                        /\ RequeueFollowsOverlap /\ ReleaseRestsOnDecision
      OBVIOUS
    <2>1. ClaimsAreBacked /\ JournalIsSealed
      BY BackedIsBacked, SealedIsSealed DEF WorkersInv, SchedulerSafe, ClaimsAreBacked
    <2>2. HostedJournalVerifies
      BY HostedVerifies DEF WorkersInv
    <2>3. RequeueFollowsOverlap
      BY DEF WorkersInv, ActionsInv
    <2>4. ReleaseRestsOnDecision
      BY DEF WorkersInv, ReceiptInv, RowSound, ReleaseRestsOnDecision, DECISIONS
    <2> QED
      BY <2>1, <2>2, <2>3, <2>4
  <1>2. WorkersInv => IndexIsApproved /\ CompletedIsReviewed /\ RetriesAreBounded /\ RulingStands
    BY DecisionImplies, RetriesCounted DEF WorkersInv, CollectionInv, DecisionInv
  <1>3. WorkersInv /\ [Next]_backgroundVars =>
          /\ [receipt.sealed # NoQuote =>
                receipt'.sealed = receipt.sealed /\ receipt'.quote = receipt.quote]_receiptVars
          /\ [receipt.state \in DECISIONS /\ receipt'.state # receipt.state =>
                \E t \in Handlers :
                  /\ request'[t] = NoRequest
                  /\ \/ At(t, "repair")
                     \/ At(t, "event") /\ request[t].state # receipt.state]_receiptVars
          /\ [\A x \in Candidates : DecisionIsFinal(x)]_collectionVars
    BY WorkersMove DEF SealKept, DecisionKept
  <1> QED
    BY <1>1, <1>2, <1>3, WorkersStay, PTL
    DEF Spec, ReceiptIsFinal, SealIsPermanent, DecisionStays, CollectionIsReviewed
=============================================================================
