---------------------------- MODULE SellerFactory ----------------------------
(***************************************************************************)
(* How a seller gets agents (iat/api/db.py, the agent factory): a          *)
(* request passes the factory review, the sandbox and the simulation, each *)
(* resting on reviews and an approval of its stage, and then agents are    *)
(* generated for it.  Modelled for one request of the factory: the reviews *)
(* of a seller's current capabilities have requests of their own.  The     *)
(* activation review that follows writes over the factory status too, with *)
(* one that no call tells from generated_pending_review.                   *)
(*                                                                         *)
(* Each endpoint reads the request, the reviews and the approvals, and     *)
(* decides; it then writes without looking at the row again.  So it is two *)
(* steps, and other requests come between.  Approvals are never removed,   *)
(* so they are read with the rest.  Risk scores are a free choice of the   *)
(* outcome.                                                                *)
(***************************************************************************)
EXTENDS StaffCalls

CONSTANTS
  AgentsRequested,    \* requested_agent_count, one per specialization
  MaxAgentsAllowed    \* of the seller

VARIABLES
  application,    \* seller_agent_factory_requests: the four statuses of the row
  standing,       \* what the reviews of each stage evaluate to
  approvals,      \* the stages that have an approval
  passedRuns,     \* the stages with a passed run in seller_agent_*_runs
  generated       \* the agents generated, as active_agents of the seller counts

factoryTables == <<application, standing, approvals, passedRuns, generated>>

factoryVars == <<factoryTables, callVars, faults>>

ASSUME FactoryAssumption ==
  /\ AgentsRequested \in Nat \ {0}
  /\ MaxAgentsAllowed \in Nat

Stages == {"factory", "sandbox", "simulation"}

Application(factory, sandbox, simulation, governance) ==
  [factory |-> factory, sandbox |-> sandbox, simulation |-> simulation,
   governance |-> governance]

NoApplication == Application("none", "none", "none", "none")

FactoryInit ==
  /\ application = NoApplication
  /\ standing = [s \in Stages |-> "unmet"]
  /\ approvals = {}
  /\ passedRuns = {}
  /\ generated = 0
  /\ CallsInit
  /\ faults = 0

FactoryStatuses ==
  {"none", "requested", "pending_factory_reviews", "pending_factory_approval",
   "governance_approved", "manual_review_required", "governance_rejected",
   "sandbox_passed", "sandbox_manual_review", "sandbox_failed",
   "pending_sandbox_approval", "simulation_failed", "simulation_manual_review",
   "ready_for_generation", "pending_simulation_approval",
   "generated_pending_review"}

Applications ==
  [factory : FactoryStatuses,
   sandbox : {"none", "not_started", "queued", "blocked", "passed", "manual_review",
              "failed"},
   simulation : {"none", "not_started", "waiting_for_sandbox", "blocked", "queued",
                 "pending_sandbox_approval", "passed", "manual_review", "failed"},
   governance : {"none", "pending", "pending_factory_reviews",
                 "pending_factory_approval", "approved_for_sandbox",
                 "manual_review", "rejected"}]

FactoryWork ==
  [task : {"none", "approve", "promote", "factory", "manual", "sandbox",
           "simulation", "generate", "generated"},
   outcome : {"none", "unreviewed", "unapproved", "passed", "manual_review",
              "failed"} \cup Stages,
   left : 0 .. AgentsRequested]

FactoryTypeOK ==
  /\ application \in Applications
  /\ standing \in [Stages -> {"unmet", "ready", "vetoed"}]
  /\ approvals \subseteq Stages
  /\ passedRuns \subseteq {"sandbox", "simulation"}
  /\ generated \in Nat
  /\ desk \in [Staff -> FactoryWork]
  /\ outdated \subseteq Staff
  /\ overlapped \in BOOLEAN
  /\ faults \in 0 .. MaxFaults

-----------------------------------------------------------------------------
\* What reviews may bring a stage to.
FactoryEvaluations == {"unmet", "ready", "vetoed"}
SandboxEvaluations == {"ready"}
SimulationEvaluations == {"ready"}

Evaluations(stage) ==
  CASE stage = "factory" -> FactoryEvaluations
    [] stage = "sandbox" -> SandboxEvaluations
    [] stage = "simulation" -> SimulationEvaluations

\* create_seller_agent_factory_request_db, for the seller.
CreateFactoryRequest ==
  /\ application = NoApplication
  /\ application' = Application("requested", "not_started", "not_started", "pending")
  /\ UNCHANGED <<standing, approvals, passedRuns, generated, callVars, faults>>

\* store_seller_agent_*_review_db: two approving reviews with good averages
\* make a stage ready; one that rejects or asks for evidence vetoes it for
\* good; scores may move the averages across the thresholds either way.  The
\* reviews of the sandbox and of the simulation are read by their approval
\* only, so what keeps it from coming is left out.
StoreReview(stage) ==
  /\ application # NoApplication
  /\ standing[stage] # "vetoed"
  /\ \E evaluation \in Evaluations(stage) \ {standing[stage]} :
       standing' = [standing EXCEPT ![stage] = evaluation]
  /\ UNCHANGED <<application, approvals, passedRuns, generated, callVars, faults>>

StoreFactoryReview == StoreReview("factory")
StoreSandboxReview == StoreReview("sandbox")
StoreSimulationReview == StoreReview("simulation")

\* run_autonomous_seller_factory_governance_db, from the seller's dashboard: its
\* two reviewers review once and agree; the approval and the factory review
\* that follow are those below.
RunAutonomousGovernance ==
  /\ application.governance \in {"pending", "pending_factory_reviews",
                                 "pending_factory_approval"}
  /\ standing["factory"] = "unmet"
  /\ \E evaluation \in {"ready", "vetoed"} :
       standing' = [standing EXCEPT !["factory"] = evaluation]
  /\ UNCHANGED <<application, approvals, passedRuns, generated, callVars, faults>>

-----------------------------------------------------------------------------
StagesPassed == application.sandbox = "passed" /\ application.simulation = "passed"

\* approve_seller_agent_*_request_db: only a ready stage is approved, and once.
BeginApproval(t, stage) ==
  /\ application # NoApplication
  /\ ~(stage = "simulation" /\ StagesPassed)
  /\ standing[stage] = "ready" /\ stage \notin approvals
  /\ Decides(t, "approve", stage)
  /\ UNCHANGED factoryTables

BeginFactoryApproval(t) == BeginApproval(t, "factory")
BeginSandboxApproval(t) == BeginApproval(t, "sandbox")
BeginSimulationApproval(t) == BeginApproval(t, "simulation")

\* Approving the simulation also promotes a request it has read to have passed.
BeginPromotion(t) ==
  /\ StagesPassed
  /\ standing["simulation"] = "ready" /\ "simulation" \notin approvals
  /\ Decides(t, "promote", "simulation")
  /\ UNCHANGED factoryTables

StoreApproval(t) ==
  /\ desk[t].task = "approve"
  /\ approvals' = approvals \cup {desk[t].outcome}
  /\ Leaves(t)
  /\ UNCHANGED <<application, standing, passedRuns, generated, faults>>

StoreSimulationApproval(t) ==
  /\ desk[t].task = "promote" /\ desk[t].outcome = "simulation"
  /\ approvals' = approvals \cup {"simulation"}
  /\ desk' = [desk EXCEPT ![t].outcome = "passed"]
  /\ UNCHANGED <<application, standing, passedRuns, generated, outdated, overlapped,
                 faults>>

Promote(t) ==
  /\ desk[t].task = "promote" /\ desk[t].outcome = "passed"
  /\ application' = [application EXCEPT !.factory = "ready_for_generation"]
  /\ Writes(t, NoWork)
  /\ UNCHANGED <<standing, approvals, passedRuns, generated>>

-----------------------------------------------------------------------------
\* run_seller_agent_factory_review_db: no status of the request is asked for.
BeginFactoryReview(t) ==
  /\ application # NoApplication
  /\ \/ standing["factory"] # "ready" /\ Decides(t, "factory", "unreviewed")
     \/ /\ standing["factory"] = "ready" /\ "factory" \notin approvals
        /\ Decides(t, "factory", "unapproved")
     \/ /\ standing["factory"] = "ready" /\ "factory" \in approvals
        /\ \E outcome \in {"passed", "manual_review", "failed"} :
             Decides(t, "factory", outcome)
  /\ UNCHANGED factoryTables

AwaitingFactoryApproval ==
  Application("pending_factory_approval", "not_started", "not_started",
              "pending_factory_approval")

ApprovedForSandbox ==
  Application("governance_approved", "queued", "waiting_for_sandbox",
              "approved_for_sandbox")

\* (Not the code: a rejection leaves the stages as they are.)
ReviewedWithoutReset(outcome) ==
  CASE outcome = "passed" -> ApprovedForSandbox
    [] outcome = "failed" -> [application EXCEPT !.factory = "governance_rejected",
                                                 !.governance = "rejected"]
    [] OTHER -> AwaitingFactoryApproval

\* What the review makes of the row, whatever the request had come to.
Reviewed(outcome) ==
  CASE outcome = "unreviewed" ->
         Application("pending_factory_reviews", "not_started", "not_started",
                     "pending_factory_reviews")
    [] outcome = "unapproved" -> AwaitingFactoryApproval
    [] outcome = "passed" -> ApprovedForSandbox
    [] outcome = "manual_review" ->
         Application("manual_review_required", "not_started", "not_started",
                     "manual_review")
    [] outcome = "failed" ->
         Application("governance_rejected", "blocked", "blocked", "rejected")

WriteFactoryReview(t) ==
  /\ desk[t].task = "factory"
  /\ application' = Reviewed(desk[t].outcome)
  /\ Writes(t, NoWork)
  /\ UNCHANGED <<standing, approvals, passedRuns, generated>>

\* manual_approve_seller_agent_factory_request_db
BeginManualApproval(t) ==
  /\ application.governance \in {"manual_review", "pending_factory_approval",
                                 "pending_factory_reviews"}
  /\ standing["factory"] = "ready"
  /\ Decides(t, "manual", "passed")
  /\ UNCHANGED factoryTables

WriteManualApproval(t) ==
  /\ desk[t].task = "manual"
  /\ application' = ApprovedForSandbox
  /\ Writes(t, NoWork)
  /\ UNCHANGED <<standing, approvals, passedRuns, generated>>

-----------------------------------------------------------------------------
\* The three outcomes of a run, or none when the stage before is not approved.
StageOutcomes(before) ==
  IF before \in approvals THEN {"passed", "manual_review", "failed"}
  ELSE {"unapproved"}

\* run_seller_agent_sandbox_review_db
BeginSandboxReview(t) ==
  /\ application.governance = "approved_for_sandbox"
  /\ \E outcome \in StageOutcomes("factory") : Decides(t, "sandbox", outcome)
  /\ UNCHANGED factoryTables

\* One transaction stores the run and the statuses; a run may be repeated.
WriteSandboxReview(t) ==
  LET outcome == desk[t].outcome IN
  /\ desk[t].task = "sandbox"
  /\ application' =
       CASE outcome = "unapproved" -> AwaitingFactoryApproval
         [] outcome = "passed" ->
              [application EXCEPT !.sandbox = "passed", !.simulation = "queued",
                                  !.factory = "sandbox_passed"]
         [] outcome = "manual_review" ->
              [application EXCEPT !.sandbox = "manual_review",
                                  !.simulation = "not_started",
                                  !.factory = "sandbox_manual_review"]
         [] outcome = "failed" ->
              [application EXCEPT !.sandbox = "failed", !.simulation = "blocked",
                                  !.factory = "sandbox_failed"]
  /\ passedRuns' = IF outcome = "passed" THEN passedRuns \cup {"sandbox"} ELSE passedRuns
  /\ Writes(t, NoWork)
  /\ UNCHANGED <<standing, approvals, generated>>

\* run_seller_agent_simulation_review_db
BeginSimulationReview(t) ==
  /\ application.sandbox = "passed"
  /\ \E outcome \in StageOutcomes("sandbox") : Decides(t, "simulation", outcome)
  /\ UNCHANGED factoryTables

WriteSimulationReview(t) ==
  LET outcome == desk[t].outcome IN
  /\ desk[t].task = "simulation"
  /\ application' =
       CASE outcome = "unapproved" ->
              [application EXCEPT !.simulation = "pending_sandbox_approval",
                                  !.factory = "pending_sandbox_approval"]
         [] outcome = "passed" ->
              [application EXCEPT !.simulation = "passed",
                                  !.factory = "ready_for_generation"]
         [] outcome = "manual_review" ->
              [application EXCEPT !.simulation = "manual_review",
                                  !.factory = "simulation_manual_review"]
         [] outcome = "failed" ->
              [application EXCEPT !.simulation = "failed",
                                  !.factory = "simulation_failed"]
  /\ passedRuns' = IF outcome = "passed" THEN passedRuns \cup {"simulation"} ELSE passedRuns
  /\ Writes(t, NoWork)
  /\ UNCHANGED <<standing, approvals, generated>>

-----------------------------------------------------------------------------
\* run_seller_agent_generation_db: it asks for the statuses of the stages, for
\* the approval of the simulation, and for room under the seller's counter.
Generable == application.factory = "ready_for_generation" /\ StagesPassed

BeginGeneration(t) ==
  /\ Generable /\ "simulation" \in approvals
  /\ AgentsRequested <= MaxAgentsAllowed - generated
  /\ Takes(t, Work("generate", "none", AgentsRequested))
  /\ UNCHANGED factoryTables

BeginBlockedGeneration(t) ==
  /\ Generable /\ "simulation" \notin approvals
  /\ Decides(t, "generate", "unapproved")
  /\ UNCHANGED factoryTables

BlockGeneration(t) ==
  /\ desk[t].task = "generate" /\ desk[t].outcome = "unapproved"
  /\ application' = [application EXCEPT !.factory = "pending_simulation_approval"]
  /\ Writes(t, NoWork)
  /\ UNCHANGED <<standing, approvals, passedRuns, generated>>

\* create_seller_agent_db and register_agent_db: every agent is committed by
\* itself, pending review, and counted as an active one.
GenerateAgent(t) ==
  /\ desk[t].task = "generate" /\ desk[t].left > 0
  /\ generated' = generated + 1
  /\ Writes(t, IF desk[t].left = 1 THEN Work("generated", "none", 0)
               ELSE Work("generate", "none", desk[t].left - 1))
  /\ UNCHANGED <<application, standing, approvals, passedRuns>>

\* The seller may add no more agents: the call ends where it stands.
RefuseAgent(t) ==
  /\ desk[t].task = "generate" /\ desk[t].left > 0
  /\ Leaves(t)
  /\ UNCHANGED <<factoryTables, faults>>

EndGeneration(t) ==
  /\ desk[t].task = "generated"
  /\ application' = [application EXCEPT !.factory = "generated_pending_review"]
  /\ Writes(t, NoWork)
  /\ UNCHANGED <<standing, approvals, passedRuns, generated>>

\* A call dies between its transactions.
FactoryCallDies(t) ==
  /\ t \in Busy /\ Fault
  /\ Leaves(t)
  /\ UNCHANGED factoryTables

FactoryNext ==
  \/ CreateFactoryRequest \/ RunAutonomousGovernance
  \/ StoreFactoryReview \/ StoreSandboxReview \/ StoreSimulationReview
  \/ \E t \in Staff :
       \/ BeginFactoryApproval(t) \/ BeginSandboxApproval(t) \/ BeginSimulationApproval(t)
       \/ BeginPromotion(t) \/ StoreApproval(t)
       \/ StoreSimulationApproval(t) \/ Promote(t)
       \/ BeginFactoryReview(t) \/ WriteFactoryReview(t)
       \/ BeginManualApproval(t) \/ WriteManualApproval(t)
       \/ BeginSandboxReview(t) \/ WriteSandboxReview(t)
       \/ BeginSimulationReview(t) \/ WriteSimulationReview(t)
       \/ BeginGeneration(t) \/ BeginBlockedGeneration(t) \/ BlockGeneration(t)
       \/ GenerateAgent(t) \/ RefuseAgent(t) \/ EndGeneration(t)
       \/ FactoryCallDies(t)

FactorySpec == FactoryInit /\ [][FactoryNext]_factoryVars

-----------------------------------------------------------------------------
\* Every stage has been approved and run, in this order of the code.
Earned == approvals = Stages /\ passedRuns = {"sandbox", "simulation"}

\* run_seller_agent_generation_db: an agent is generated only for a request all
\* of whose stages were approved and passed, however calls overlap, repeat and
\* die.  Generation does not look at the verdict of the governance; yet as
\* long as no call wrote over what another had read, the request is approved
\* by it at that moment, and the seller has no more agents than allowed.
AgentsAreEarned ==
  [][generated' > generated =>
       /\ Earned
       /\ \/ overlapped'
          \/ /\ application.governance = "approved_for_sandbox"
             /\ generated' <= MaxAgentsAllowed]_factoryVars
=============================================================================
