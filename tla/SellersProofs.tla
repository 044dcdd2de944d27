---------------------------- MODULE SellersProofs ----------------------------
(***************************************************************************)
(* Theorems about SellerFactory and SellerAgents, for any number of calls, *)
(* agents and faults: no agent is generated before every stage was         *)
(* approved and run, and routing to an agent rests on its approval and on  *)
(* nobody having taken it out of service.  What holds of any call is shown *)
(* in ProtocolCallsProofs.                                                 *)
(***************************************************************************)
EXTENDS SellerFactory, SellerAgents, ProtocolCallsProofs

-----------------------------------------------------------------------------
(* The factory.  A call that generates goes on for many steps after it      *)
(* looked at the request, so the argument is about what calls carry:        *)
(* WorkRests says what a call's decision has on record, and WorkFresh what  *)
(* is still true of the request as long as nothing was written since the    *)
(* call read it.                                                            *)

BothRuns == {"sandbox", "simulation"}

\* A stage that has passed has a passed run, and the stage before its approval.
PassedOnRecord(row, given, runs) ==
  /\ row.sandbox = "passed" => "sandbox" \in runs /\ "factory" \in given
  /\ row.simulation = "passed" => "simulation" \in runs /\ "sandbox" \in given

RunOutcomes == {"unapproved", "passed", "manual_review", "failed"}

WorkRests(w, given, runs) ==
  /\ w.task = "approve" => w.outcome \in Stages
  /\ w.task = "factory" => w.outcome \in {"unreviewed"} \cup RunOutcomes
  /\ w.task \in {"sandbox", "simulation"} => w.outcome \in RunOutcomes
  /\ w.task = "sandbox" /\ w.outcome = "passed" => "factory" \in given
  /\ w.task = "simulation" /\ w.outcome = "passed" => "sandbox" \in given
  /\ w.task = "generate" /\ w.left > 0 => given = Stages /\ runs = BothRuns

RowFresh(row) == row.sandbox = "passed" => row.governance = "approved_for_sandbox"

WorkFresh(w, row, many) ==
  /\ w.task = "sandbox" => row.governance = "approved_for_sandbox"
  /\ w.task = "generate" /\ w.left > 0 =>
       /\ row.governance = "approved_for_sandbox"
       /\ many + w.left <= MaxAgentsAllowed

FactoryInv ==
  /\ FactoryTypeOK
  /\ PassedOnRecord(application, approvals, passedRuns)
  /\ \A t \in Staff : WorkRests(desk[t], approvals, passedRuns)
  /\ ~overlapped =>
       /\ RowFresh(application)
       /\ \A t \in Staff \ outdated : WorkFresh(desk[t], application, generated)

-----------------------------------------------------------------------------
LEMMA NoWorkIsSound ==
  /\ NoWork \in FactoryWork
  /\ \A given, runs : WorkRests(NoWork, given, runs)
  /\ \A row, many : WorkFresh(NoWork, row, many)
  BY FactoryAssumption DEF NoWork, Work, FactoryWork, WorkRests, WorkFresh

LEMMA ApplicationsHold ==
  /\ NoApplication \in Applications
  /\ AwaitingFactoryApproval \in Applications
  /\ ApprovedForSandbox \in Applications
  /\ \A outcome \in {"unreviewed"} \cup RunOutcomes :
       /\ Reviewed(outcome) \in Applications
       /\ Reviewed(outcome).sandbox # "passed"
       /\ Reviewed(outcome).simulation # "passed"
  BY DEF NoApplication, Application, Applications, FactoryStatuses, Reviewed, RunOutcomes,
         AwaitingFactoryApproval, ApprovedForSandbox

LEMMA InitFactoryInv == FactoryInit => FactoryInv
<1> SUFFICES ASSUME FactoryInit PROVE FactoryInv
  OBVIOUS
<1>1. \A t \in Staff : desk[t] = NoWork
  BY DEF FactoryInit, CallsInit
<1>2. FactoryTypeOK
  <2>1. faults \in 0 .. MaxFaults
    BY FaultsAssumption DEF FactoryInit
  <2>2. desk \in [Staff -> FactoryWork] /\ outdated \subseteq Staff /\ overlapped \in BOOLEAN
    BY NoWorkIsSound DEF FactoryInit, CallsInit
  <2>3. application \in Applications /\ standing \in [Stages -> {"unmet", "ready", "vetoed"}]
    BY ApplicationsHold DEF FactoryInit
  <2> QED
    BY <2>1, <2>2, <2>3 DEF FactoryInit, FactoryTypeOK
<1>3. PassedOnRecord(application, approvals, passedRuns) /\ RowFresh(application)
  BY DEF FactoryInit, NoApplication, Application, PassedOnRecord, RowFresh
<1> QED
  BY <1>1, <1>2, <1>3, NoWorkIsSound DEF FactoryInv

\* A call that has read and decided: its decision must rest on what is on
\* record, and be true of the request at that moment.
LEMMA TakesKeepsInv ==
  ASSUME FactoryInv, UNCHANGED factoryTables, NEW t \in Staff, NEW w \in FactoryWork,
         Takes(t, w),
         WorkRests(w, approvals, passedRuns),
         ~overlapped => WorkFresh(w, application, generated)
  PROVE  FactoryInv'
<1>1. faults' \in 0 .. MaxFaults
  BY FaultsAssumption DEF FactoryInv, FactoryTypeOK, Takes, Fault
<1>2. desk' = [desk EXCEPT ![t] = w] /\ outdated' = outdated /\ overlapped' = overlapped
  BY DEF Takes
<1>3. desk \in [Staff -> FactoryWork] /\ desk' \in [Staff -> FactoryWork]
  BY <1>2 DEF FactoryInv, FactoryTypeOK
<1>4. FactoryTypeOK'
  BY <1>1, <1>2, <1>3 DEF FactoryInv, FactoryTypeOK, factoryTables
<1>5. \A u \in Staff : desk'[u] = IF u = t THEN w ELSE desk[u]
  BY <1>2, <1>3
<1> QED
  BY <1>2, <1>4, <1>5 DEF FactoryInv, factoryTables

\* A call that ends without writing to the request.
LEMMA LeavesKeepsInv ==
  ASSUME FactoryInv, NEW t \in Staff, Leaves(t), faults' \in 0 .. MaxFaults,
         approvals \subseteq approvals', approvals' \subseteq Stages,
         UNCHANGED <<application, standing, passedRuns, generated>>
  PROVE  FactoryInv'
<1>1. /\ desk' = [desk EXCEPT ![t] = NoWork]
      /\ outdated' = outdated \ {t} /\ overlapped' = overlapped
  BY DEF Leaves
<1>2. desk \in [Staff -> FactoryWork] /\ desk' \in [Staff -> FactoryWork]
  BY <1>1, NoWorkIsSound DEF FactoryInv, FactoryTypeOK
<1>3. \A u \in Staff : desk'[u] = IF u = t THEN NoWork ELSE desk[u]
  BY <1>1, <1>2
<1>4. FactoryTypeOK'
  BY <1>1, <1>2 DEF FactoryInv, FactoryTypeOK
<1>5. \A u \in Staff : WorkRests(desk'[u], approvals', passedRuns')
  BY <1>3, NoWorkIsSound DEF FactoryInv, FactoryTypeOK, WorkRests
<1>6. PassedOnRecord(application, approvals, passedRuns)'
  BY DEF FactoryInv, PassedOnRecord
<1> QED
  BY <1>1, <1>3, <1>4, <1>5, <1>6, NoWorkIsSound DEF FactoryInv

\* A call that writes: the others have read what is no longer there, so only
\* the row has to be looked at.
LEMMA WritesKeepsInv ==
  ASSUME FactoryInv, NEW t \in Staff, Writes(t, NoWork),
         application' \in Applications, PassedOnRecord(application', approvals, passedRuns'),
         passedRuns \subseteq passedRuns', passedRuns' \subseteq BothRuns,
         ~overlapped /\ t \notin outdated => RowFresh(application'),
         UNCHANGED <<standing, approvals, generated>>
  PROVE  FactoryInv'
<1>1. /\ desk' = [desk EXCEPT ![t] = NoWork]
      /\ overlapped' = (overlapped \/ t \in outdated) /\ faults' = faults
      /\ outdated' = IF overlapped' THEN {} ELSE outdated \cup (Busy \ {t})
  BY DEF Writes, Outdates
<1>2. desk \in [Staff -> FactoryWork] /\ desk' \in [Staff -> FactoryWork]
  BY <1>1, NoWorkIsSound DEF FactoryInv, FactoryTypeOK
<1>3. \A u \in Staff : desk'[u] = IF u = t THEN NoWork ELSE desk[u]
  BY <1>1, <1>2
<1>4. outdated' \subseteq Staff /\ overlapped' \in BOOLEAN
  BY <1>1 DEF FactoryInv, FactoryTypeOK, Busy
<1>5. FactoryTypeOK'
  BY <1>1, <1>2, <1>4 DEF FactoryInv, FactoryTypeOK, BothRuns
<1>6. \A u \in Staff : WorkRests(desk'[u], approvals', passedRuns')
  BY <1>3, NoWorkIsSound DEF FactoryInv, FactoryTypeOK, WorkRests, BothRuns
<1>7. ASSUME ~overlapped', NEW u \in Staff \ outdated'
      PROVE  desk'[u] = NoWork
  BY <1>1, <1>3, <1>7 DEF Busy
<1> QED
  BY <1>1, <1>5, <1>6, <1>7, NoWorkIsSound DEF FactoryInv

-----------------------------------------------------------------------------
\* Reads and decisions.

LEMMA DecisionsKeepInv ==
  ASSUME FactoryInv, NEW t \in Staff,
         \/ \E stage \in Stages : BeginApproval(t, stage)
         \/ BeginPromotion(t) \/ BeginFactoryReview(t) \/ BeginManualApproval(t)
         \/ BeginBlockedGeneration(t)
  PROVE  FactoryInv'
<1>1. PICK task \in {"approve", "promote", "factory", "manual", "generate"},
           outcome \in Stages \cup {"unreviewed"} \cup RunOutcomes :
        /\ Decides(t, task, outcome) /\ UNCHANGED factoryTables
        /\ task = "approve" => outcome \in Stages
        /\ task = "factory" => outcome \in {"unreviewed"} \cup RunOutcomes
  BY DEF BeginApproval, BeginPromotion, BeginFactoryReview, BeginManualApproval,
         BeginBlockedGeneration, RunOutcomes, Stages
<1> DEFINE w == Work(task, outcome, 0)
<1>2. w.task = task /\ w.outcome = outcome /\ w.left = 0
  BY DEF Work
<1>3. w \in FactoryWork /\ WorkRests(w, approvals, passedRuns)
      /\ WorkFresh(w, application, generated)
  BY <1>1, <1>2, FactoryAssumption
     DEF Work, FactoryWork, WorkRests, WorkFresh, RunOutcomes, Stages
<1>4. Takes(t, w)
  BY <1>1 DEF Decides
<1> HIDE DEF w
<1> QED
  BY <1>1, <1>3, <1>4, TakesKeepsInv

\* run_seller_agent_sandbox_review_db, run_seller_agent_simulation_review_db: a
\* run can pass only when it found the stage before approved.
LEMMA RunsKeepInv ==
  ASSUME FactoryInv, NEW t \in Staff, BeginSandboxReview(t) \/ BeginSimulationReview(t)
  PROVE  FactoryInv'
<1>1. PICK task \in {"sandbox", "simulation"}, outcome \in RunOutcomes :
        /\ Decides(t, task, outcome) /\ UNCHANGED factoryTables
        /\ task = "sandbox" =>
             /\ application.governance = "approved_for_sandbox"
             /\ (outcome = "passed" => "factory" \in approvals)
        /\ task = "simulation" => (outcome = "passed" => "sandbox" \in approvals)
  BY DEF BeginSandboxReview, BeginSimulationReview, StageOutcomes, RunOutcomes
<1> DEFINE w == Work(task, outcome, 0)
<1>2. w.task = task /\ w.outcome = outcome /\ w.left = 0
  BY DEF Work
<1>3. w \in FactoryWork /\ WorkRests(w, approvals, passedRuns)
      /\ WorkFresh(w, application, generated)
  BY <1>1, <1>2, FactoryAssumption
     DEF Work, FactoryWork, WorkRests, WorkFresh, RunOutcomes, Stages
<1>4. Takes(t, w)
  BY <1>1 DEF Decides
<1> HIDE DEF w
<1> QED
  BY <1>1, <1>3, <1>4, TakesKeepsInv

\* run_seller_agent_generation_db: what it asks for is enough, because a stage
\* that has passed has its approval on record.
LEMMA BeginGenerationKeepsInv ==
  ASSUME FactoryInv, NEW t \in Staff, BeginGeneration(t) PROVE FactoryInv'
<1> DEFINE w == Work("generate", "none", AgentsRequested)
<1>1. w.task = "generate" /\ w.outcome = "none" /\ w.left = AgentsRequested
  BY DEF Work
<1>2. approvals = Stages /\ passedRuns = BothRuns
  BY DEF BeginGeneration, Generable, StagesPassed, FactoryInv, FactoryTypeOK, PassedOnRecord,
         Stages, BothRuns
<1>3. ~overlapped => WorkFresh(w, application, generated)
  BY <1>1, FactoryAssumption
     DEF BeginGeneration, Generable, StagesPassed, FactoryInv, FactoryTypeOK, RowFresh,
         WorkFresh
<1>4. w \in FactoryWork /\ WorkRests(w, approvals, passedRuns)
  BY <1>1, <1>2, FactoryAssumption DEF Work, FactoryWork, WorkRests
<1>5. Takes(t, w) /\ UNCHANGED factoryTables
  BY DEF BeginGeneration
<1> HIDE DEF w
<1> QED
  BY <1>3, <1>4, <1>5, TakesKeepsInv

-----------------------------------------------------------------------------
\* Writes.

\* What a review leaves has passed no stage, whatever it had come to before.
LEMMA ReviewsKeepInv ==
  ASSUME FactoryInv, NEW t \in Staff, WriteFactoryReview(t) \/ WriteManualApproval(t)
  PROVE  FactoryInv'
<1>1. PICK outcome \in {"unreviewed"} \cup RunOutcomes : application' = Reviewed(outcome)
  <2>1. CASE WriteFactoryReview(t)
    BY <2>1 DEF WriteFactoryReview, FactoryInv, WorkRests
  <2>2. CASE WriteManualApproval(t)
    <3>1. application' = Reviewed("passed")
      BY <2>2 DEF WriteManualApproval, Reviewed
    <3> QED
      BY <3>1 DEF RunOutcomes
  <2> QED
    BY <2>1, <2>2
<1>2. application' \in Applications /\ RowFresh(application')
      /\ PassedOnRecord(application', approvals, passedRuns)
  BY <1>1, ApplicationsHold DEF RowFresh, PassedOnRecord
<1>3. Writes(t, NoWork) /\ UNCHANGED <<standing, approvals, passedRuns, generated>>
  BY DEF WriteFactoryReview, WriteManualApproval
<1>4. passedRuns \subseteq BothRuns
  BY DEF FactoryInv, FactoryTypeOK, BothRuns
<1> QED
  BY <1>2, <1>3, <1>4, WritesKeepsInv

LEMMA SandboxKeepsInv ==
  ASSUME FactoryInv, NEW t \in Staff, WriteSandboxReview(t) PROVE FactoryInv'
<1> DEFINE outcome == desk[t].outcome
<1>1. outcome \in RunOutcomes /\ (outcome = "passed" => "factory" \in approvals)
  BY DEF WriteSandboxReview, FactoryInv, WorkRests
<1>2. application \in Applications
  BY DEF FactoryInv, FactoryTypeOK
<1>3. Writes(t, NoWork) /\ UNCHANGED <<standing, approvals, generated>>
      /\ passedRuns' = IF outcome = "passed" THEN passedRuns \cup {"sandbox"} ELSE passedRuns
  BY DEF WriteSandboxReview
<1>4. /\ outcome = "unapproved" => application' = AwaitingFactoryApproval
      /\ outcome = "passed" =>
           application' = [application EXCEPT !.sandbox = "passed", !.simulation = "queued",
                                              !.factory = "sandbox_passed"]
      /\ outcome = "manual_review" =>
           application' = [application EXCEPT !.sandbox = "manual_review",
                                              !.simulation = "not_started",
                                              !.factory = "sandbox_manual_review"]
      /\ outcome = "failed" =>
           application' = [application EXCEPT !.sandbox = "failed", !.simulation = "blocked",
                                              !.factory = "sandbox_failed"]
  BY <1>1 DEF WriteSandboxReview, RunOutcomes
<1> HIDE DEF outcome
<1>5. /\ application' \in Applications /\ application'.simulation # "passed"
      /\ application'.sandbox = "passed" =>
           outcome = "passed" /\ application'.governance = application.governance
  <2>1. CASE outcome = "unapproved"
    BY <1>4, <2>1, ApplicationsHold DEF AwaitingFactoryApproval, Application
  <2>2. CASE outcome = "passed"
    BY <1>2, <1>4, <2>2 DEF Applications, FactoryStatuses
  <2>3. CASE outcome = "manual_review"
    BY <1>2, <1>4, <2>3 DEF Applications, FactoryStatuses
  <2>4. CASE outcome = "failed"
    BY <1>2, <1>4, <2>4 DEF Applications, FactoryStatuses
  <2> QED
    BY <1>1, <2>1, <2>2, <2>3, <2>4 DEF RunOutcomes
<1>7. PassedOnRecord(application', approvals, passedRuns')
  BY <1>1, <1>3, <1>5 DEF PassedOnRecord
<1>8. ASSUME ~overlapped, t \notin outdated PROVE RowFresh(application')
  BY <1>5, <1>8 DEF WriteSandboxReview, FactoryInv, WorkFresh, RowFresh
<1>9. passedRuns \subseteq passedRuns' /\ passedRuns' \subseteq BothRuns
  BY <1>3 DEF FactoryInv, FactoryTypeOK, BothRuns
<1> QED
  BY <1>3, <1>5, <1>7, <1>8, <1>9, WritesKeepsInv

LEMMA SimulationKeepsInv ==
  ASSUME FactoryInv, NEW t \in Staff, WriteSimulationReview(t) PROVE FactoryInv'
<1> DEFINE outcome == desk[t].outcome
<1>1. outcome \in RunOutcomes /\ (outcome = "passed" => "sandbox" \in approvals)
  BY DEF WriteSimulationReview, FactoryInv, WorkRests
<1>2. application \in Applications
  BY DEF FactoryInv, FactoryTypeOK
<1>3. Writes(t, NoWork) /\ UNCHANGED <<standing, approvals, generated>>
      /\ passedRuns' = IF outcome = "passed" THEN passedRuns \cup {"simulation"} ELSE passedRuns
  BY SMTT(30) DEF WriteSimulationReview
<1>4. PICK simulation, factory :
        /\ application' = [application EXCEPT !.simulation = simulation, !.factory = factory]
        /\ simulation = "passed" => outcome = "passed"
        /\ simulation \in {"pending_sandbox_approval", "passed", "manual_review", "failed"}
        /\ factory \in FactoryStatuses
  <2>1. CASE outcome = "unapproved"
    BY <2>1 DEF WriteSimulationReview, FactoryStatuses
  <2>2. CASE outcome = "passed"
    BY <2>2 DEF WriteSimulationReview, FactoryStatuses
  <2>3. CASE outcome = "manual_review"
    BY <2>3 DEF WriteSimulationReview, FactoryStatuses
  <2>4. CASE outcome = "failed"
    BY <2>4 DEF WriteSimulationReview, FactoryStatuses
  <2> QED
    BY <1>1, <2>1, <2>2, <2>3, <2>4 DEF RunOutcomes
<1> HIDE DEF outcome
<1>5. /\ application' \in Applications /\ application'.simulation = simulation
      /\ application'.sandbox = application.sandbox
      /\ application'.governance = application.governance
  BY <1>2, <1>4 DEF Applications
<1>6. PassedOnRecord(application', approvals, passedRuns')
  BY <1>1, <1>3, <1>4, <1>5 DEF FactoryInv, PassedOnRecord
<1>7. ~overlapped => RowFresh(application')
  BY <1>5 DEF FactoryInv, RowFresh
<1>8. passedRuns \subseteq passedRuns' /\ passedRuns' \subseteq BothRuns
  BY <1>3 DEF FactoryInv, FactoryTypeOK, BothRuns
<1> QED
  BY <1>3, <1>5, <1>6, <1>7, <1>8, WritesKeepsInv

\* The other writes change the first status of the row only.
LEMMA StatusWritesKeepInv ==
  ASSUME FactoryInv, NEW t \in Staff, Promote(t) \/ BlockGeneration(t) \/ EndGeneration(t)
  PROVE  FactoryInv'
<1>1. PICK factory \in FactoryStatuses :
        application' = [application EXCEPT !.factory = factory]
  BY DEF Promote, BlockGeneration, EndGeneration, FactoryStatuses
<1>2. application \in Applications
  BY DEF FactoryInv, FactoryTypeOK
<1>3. /\ application' \in Applications /\ application'.simulation = application.simulation
      /\ application'.sandbox = application.sandbox
      /\ application'.governance = application.governance
  BY <1>1, <1>2 DEF Applications
<1>4. Writes(t, NoWork) /\ UNCHANGED <<standing, approvals, passedRuns, generated>>
  BY DEF Promote, BlockGeneration, EndGeneration
<1>5. PassedOnRecord(application', approvals, passedRuns) /\ (~overlapped => RowFresh(application'))
  BY <1>3 DEF FactoryInv, PassedOnRecord, RowFresh
<1>6. passedRuns \subseteq BothRuns
  BY DEF FactoryInv, FactoryTypeOK, BothRuns
<1> QED
  BY <1>3, <1>4, <1>5, <1>6, WritesKeepsInv

\* An agent more is one less to generate, so what a call still has to generate
\* keeps fitting under the seller's maximum.
LEMMA GenerateKeepsInv ==
  ASSUME FactoryInv, NEW t \in Staff, GenerateAgent(t) PROVE FactoryInv'
<1> DEFINE next == IF desk[t].left = 1 THEN Work("generated", "none", 0)
                   ELSE Work("generate", "none", desk[t].left - 1)
<1>1. desk[t] \in FactoryWork /\ desk[t].left \in 1 .. AgentsRequested
  BY FactoryAssumption DEF GenerateAgent, FactoryInv, FactoryTypeOK, FactoryWork
<1>2. /\ next \in FactoryWork
      /\ next.task \in {"generate", "generated"}
      /\ next.task = "generate" => next.left = desk[t].left - 1
  BY <1>1, FactoryAssumption DEF FactoryWork, Work
<1>3. /\ Writes(t, next) /\ generated' = generated + 1
      /\ UNCHANGED <<application, standing, approvals, passedRuns>>
      /\ desk[t].task = "generate" /\ desk[t].left > 0
  BY DEF GenerateAgent
<1> HIDE DEF next
<1>4. /\ desk' = [desk EXCEPT ![t] = next]
      /\ overlapped' = (overlapped \/ t \in outdated) /\ faults' = faults
      /\ outdated' = IF overlapped' THEN {} ELSE outdated \cup (Busy \ {t})
  BY <1>3 DEF Writes, Outdates
<1>5. desk \in [Staff -> FactoryWork] /\ desk' \in [Staff -> FactoryWork]
  BY <1>2, <1>4 DEF FactoryInv, FactoryTypeOK
<1>6. \A u \in Staff : desk'[u] = IF u = t THEN next ELSE desk[u]
  BY <1>4, <1>5
<1>7. FactoryTypeOK'
  BY <1>3, <1>4, <1>5 DEF FactoryInv, FactoryTypeOK, Busy
<1>8. WorkRests(next, approvals, passedRuns)
  BY <1>1, <1>2, <1>3 DEF FactoryInv, WorkRests
<1>9. ~overlapped' => WorkFresh(next, application, generated')
  <2> SUFFICES ASSUME ~overlapped' PROVE WorkFresh(next, application, generated')
    OBVIOUS
  <2>1. WorkFresh(desk[t], application, generated)
    BY <1>4 DEF FactoryInv
  <2>2. generated \in Nat /\ desk[t].left \in Nat /\ MaxAgentsAllowed \in Nat
    BY <1>1, FactoryAssumption DEF FactoryInv, FactoryTypeOK
  <2> QED
    BY <1>2, <1>3, <2>1, <2>2 DEF WorkFresh
<1>10. ASSUME ~overlapped', NEW u \in Staff \ outdated', u # t
       PROVE  desk'[u] = NoWork
  BY <1>4, <1>6, <1>10 DEF Busy
<1>11. ~overlapped' => RowFresh(application') /\ ~overlapped
  BY <1>3, <1>4 DEF FactoryInv
<1>12. \A u \in Staff : WorkRests(desk'[u], approvals', passedRuns')
  BY <1>3, <1>6, <1>8 DEF FactoryInv
<1>13. PassedOnRecord(application, approvals, passedRuns)'
  BY <1>3 DEF FactoryInv
<1>14. ASSUME ~overlapped', NEW u \in Staff \ outdated'
       PROVE  WorkFresh(desk'[u], application', generated')
  <2>1. CASE u = t
    BY <1>3, <1>6, <1>9, <1>14, <2>1
  <2>2. CASE u # t
    BY <1>10, <1>14, <2>2, NoWorkIsSound
  <2> QED
    BY <2>1, <2>2
<1> QED
  BY <1>7, <1>11, <1>12, <1>13, <1>14 DEF FactoryInv

\* Approvals only become more.
LEMMA ApprovalsKeepInv ==
  ASSUME FactoryInv, NEW t \in Staff,
         StoreApproval(t) \/ RefuseAgent(t) \/ FactoryCallDies(t)
  PROVE  FactoryInv'
<1>1. Leaves(t) /\ UNCHANGED <<application, standing, passedRuns, generated>>
  BY DEF StoreApproval, RefuseAgent, FactoryCallDies, factoryTables
<1>2. faults' \in 0 .. MaxFaults
  BY FaultsAssumption
     DEF StoreApproval, RefuseAgent, FactoryCallDies, Fault, FactoryInv, FactoryTypeOK
<1>3. approvals \subseteq approvals' /\ approvals' \subseteq Stages
  BY DEF StoreApproval, RefuseAgent, FactoryCallDies, factoryTables, FactoryInv,
         FactoryTypeOK, WorkRests
<1> QED
  BY <1>1, <1>2, <1>3, LeavesKeepsInv

LEMMA PromotionKeepsInv ==
  ASSUME FactoryInv, NEW t \in Staff, StoreSimulationApproval(t) PROVE FactoryInv'
<1>1. /\ approvals' = approvals \cup {"simulation"}
      /\ desk' = [desk EXCEPT ![t].outcome = "passed"] /\ desk[t].task = "promote"
      /\ UNCHANGED <<application, standing, passedRuns, generated, outdated, overlapped,
                     faults>>
  BY DEF StoreSimulationApproval
<1>2. desk \in [Staff -> FactoryWork] /\ approvals \subseteq Stages
  BY DEF FactoryInv, FactoryTypeOK
<1>3. /\ desk' \in [Staff -> FactoryWork]
      /\ desk'[t].task = "promote"
      /\ \A u \in Staff \ {t} : desk'[u] = desk[u]
  BY <1>1, <1>2 DEF FactoryWork
<1>4. FactoryTypeOK'
  BY <1>1, <1>2, <1>3 DEF FactoryInv, FactoryTypeOK, Stages
<1>5. PassedOnRecord(application, approvals, passedRuns)'
  BY <1>1 DEF FactoryInv, PassedOnRecord
<1>6. ASSUME NEW u \in Staff PROVE WorkRests(desk'[u], approvals', passedRuns')
  <2>1. CASE u = t
    BY <1>3, <2>1 DEF WorkRests
  <2>2. CASE u # t
    BY <1>1, <1>2, <1>3, <2>2 DEF FactoryInv, WorkRests, Stages
  <2> QED
    BY <2>1, <2>2
<1>7. ASSUME ~overlapped', NEW u \in Staff \ outdated'
      PROVE  WorkFresh(desk'[u], application', generated')
  <2>1. CASE u = t
    BY <1>3, <2>1 DEF WorkFresh
  <2>2. CASE u # t
    BY <1>1, <1>3, <1>7, <2>2 DEF FactoryInv
  <2> QED
    BY <2>1, <2>2
<1> QED
  BY <1>1, <1>4, <1>5, <1>6, <1>7 DEF FactoryInv

\* Requests and reviews come while no call waits for them.
LEMMA ReviewsArrive ==
  ASSUME FactoryInv,
         CreateFactoryRequest \/ RunAutonomousGovernance \/ \E s \in Stages : StoreReview(s)
  PROVE  FactoryInv'
<1>1. UNCHANGED <<approvals, passedRuns, generated, callVars, faults>>
  BY DEF CreateFactoryRequest, RunAutonomousGovernance, StoreReview
<1>2. standing' \in [Stages -> {"unmet", "ready", "vetoed"}]
  BY DEF CreateFactoryRequest, RunAutonomousGovernance, StoreReview, Evaluations,
     FactoryEvaluations, SandboxEvaluations, SimulationEvaluations, Stages, FactoryInv,
         FactoryTypeOK, Stages
<1>3. CASE application' = application
  BY <1>1, <1>2, <1>3 DEF FactoryInv, FactoryTypeOK, callVars
<1>4. CASE CreateFactoryRequest
  <2>1. /\ application = NoApplication /\ application' \in Applications
        /\ application'.governance = "pending" /\ application'.sandbox # "passed"
        /\ application'.simulation # "passed"
    BY <1>4 DEF CreateFactoryRequest, Application, Applications, FactoryStatuses
  <2>2. application.governance = "none"
    BY <2>1 DEF NoApplication, Application
  <2>3. ASSUME ~overlapped, NEW t \in Staff \ outdated
        PROVE  WorkFresh(desk[t], application', generated)
    BY <2>2, <2>3 DEF FactoryInv, WorkFresh
  <2> QED
    BY <1>1, <1>2, <2>1, <2>3 DEF FactoryInv, FactoryTypeOK, PassedOnRecord, RowFresh, callVars
<1> QED
  BY <1>3, <1>4 DEF RunAutonomousGovernance, StoreReview

LEMMA NextFactoryInv == FactoryInv /\ [FactoryNext]_factoryVars => FactoryInv'
<1> SUFFICES ASSUME FactoryInv, [FactoryNext]_factoryVars PROVE FactoryInv'
  OBVIOUS
<1>1. CASE UNCHANGED factoryVars
  BY <1>1 DEF FactoryInv, FactoryTypeOK, factoryVars, factoryTables, callVars
<1>2. CASE CreateFactoryRequest \/ RunAutonomousGovernance \/ \E s \in Stages : StoreReview(s)
  BY <1>2, ReviewsArrive
<1>3. ASSUME NEW t \in Staff,
             \/ \E stage \in Stages : BeginApproval(t, stage)
             \/ BeginPromotion(t) \/ BeginFactoryReview(t) \/ BeginManualApproval(t)
             \/ BeginBlockedGeneration(t)
      PROVE  FactoryInv'
  BY <1>3, DecisionsKeepInv
<1>4. ASSUME NEW t \in Staff,
             \/ BeginSandboxReview(t) \/ BeginSimulationReview(t) \/ BeginGeneration(t)
             \/ GenerateAgent(t) \/ StoreSimulationApproval(t)
      PROVE  FactoryInv'
  BY <1>4, RunsKeepInv, BeginGenerationKeepsInv, GenerateKeepsInv, PromotionKeepsInv
<1>5. ASSUME NEW t \in Staff,
             \/ WriteFactoryReview(t) \/ WriteManualApproval(t) \/ WriteSandboxReview(t)
             \/ WriteSimulationReview(t) \/ Promote(t) \/ BlockGeneration(t)
             \/ EndGeneration(t) \/ StoreApproval(t) \/ RefuseAgent(t)
             \/ FactoryCallDies(t)
      PROVE  FactoryInv'
  BY <1>5, ReviewsKeepInv, SandboxKeepsInv, SimulationKeepsInv, StatusWritesKeepInv,
     ApprovalsKeepInv
<1>6. \A s \in {"factory", "sandbox", "simulation"} : s \in Stages
  BY DEF Stages
<1> QED
  BY <1>1, <1>2, <1>3, <1>4, <1>5, <1>6
     DEF FactoryNext, StoreFactoryReview, StoreSandboxReview, StoreSimulationReview,
         BeginFactoryApproval, BeginSandboxApproval, BeginSimulationApproval

-----------------------------------------------------------------------------
\* The request, its reviews and the calls keep their types.
THEOREM FactoryTyped == FactorySpec => []FactoryTypeOK
  BY InitFactoryInv, NextFactoryInv, PTL DEF FactorySpec, FactoryInv

\* run_seller_agent_generation_db: an agent is generated only for a request all
\* of whose stages were approved and passed; and, as long as no call wrote over
\* what it had not read, for one that governance has approved, within the
\* number of agents allowed.
THEOREM GeneratedAgentsAreEarned == FactorySpec => AgentsAreEarned
<1> DEFINE Step == generated' > generated =>
                     /\ Earned
                     /\ \/ overlapped'
                        \/ /\ application.governance = "approved_for_sandbox"
                           /\ generated' <= MaxAgentsAllowed
<1>1. ASSUME FactoryInv, [FactoryNext]_factoryVars, generated' > generated
      PROVE  \E t \in Staff : GenerateAgent(t)
  <2>1. generated' # generated
    BY <1>1 DEF FactoryInv, FactoryTypeOK
  <2> QED
    BY <1>1, <2>1
       DEF FactoryNext, factoryVars, factoryTables, CreateFactoryRequest,
           RunAutonomousGovernance, StoreReview, StoreFactoryReview, StoreSandboxReview,
           StoreSimulationReview, BeginApproval, BeginFactoryApproval,
           BeginSandboxApproval, BeginSimulationApproval, BeginPromotion,
           StoreApproval, StoreSimulationApproval, Promote, BeginFactoryReview,
           WriteFactoryReview, BeginManualApproval, WriteManualApproval,
           BeginSandboxReview, WriteSandboxReview, BeginSimulationReview,
           WriteSimulationReview, BeginGeneration, BeginBlockedGeneration,
           BlockGeneration, RefuseAgent, EndGeneration, FactoryCallDies
<1>2. ASSUME FactoryInv, NEW t \in Staff, GenerateAgent(t)
      PROVE  Step
  <2>1. Earned
    BY <1>2 DEF GenerateAgent, FactoryInv, WorkRests, Earned, BothRuns
  <2>2. ASSUME ~overlapped'
        PROVE  application.governance = "approved_for_sandbox" /\ generated' <= MaxAgentsAllowed
    <3>1. ~overlapped /\ t \notin outdated
      BY <1>2, <2>2 DEF GenerateAgent, Writes
    <3>2. /\ WorkFresh(desk[t], application, generated)
          /\ desk[t].task = "generate" /\ desk[t].left > 0 /\ generated' = generated + 1
      BY <1>2, <3>1 DEF GenerateAgent, FactoryInv
    <3>3. generated \in Nat /\ desk[t].left \in Nat /\ MaxAgentsAllowed \in Nat
      BY FactoryAssumption, <1>2 DEF FactoryInv, FactoryTypeOK, FactoryWork
    <3> QED
      BY <3>2, <3>3 DEF WorkFresh
  <2> QED
    BY <2>1, <2>2
<1>3. FactoryInv /\ [FactoryNext]_factoryVars => [Step]_factoryVars
  BY <1>1, <1>2
<1> QED
  BY <1>3, InitFactoryInv, NextFactoryInv, PTL DEF FactorySpec, AgentsAreEarned

-----------------------------------------------------------------------------
(* Calls (StaffCalls): a write outdates every other call at work.           *)

Tasks == {"none", "activate", "review", "warn", "probe", "freeze", "thaw", "capability"}

AgentVerdicts == AgentStatuses \cup {"approved", "awaiting", "adverse"}

WorkType == [task : Tasks, outcome : AgentVerdicts, left : {0, 1}]

AgentCallsTyped ==
  /\ desk \in [Staff -> WorkType]
  /\ outdated \subseteq Staff
  /\ overlapped \in BOOLEAN

AgentType ==
  [status : AgentStatuses, runtime : {"none", "fit", "awaiting", "unfit"},
   available : BOOLEAN, listed : BOOLEAN, verified : BOOLEAN]

RowTyped ==
  /\ agent \in AgentType
  /\ origin \in {"none", "generated", "registered", "test"}
  /\ activation \in {"unapproved", "approved"}
  /\ sellerActive \in BOOLEAN /\ contained \in BOOLEAN /\ reactivated \in BOOLEAN

AgentFaultsTyped == faults \in 0 .. MaxFaults

LEMMA TypedParts == AgentsTypeOK <=> AgentCallsTyped /\ RowTyped /\ AgentFaultsTyped
  BY DEF AgentsTypeOK, AgentCallsTyped, RowTyped, AgentType, AgentFaultsTyped, WorkType, Tasks, AgentVerdicts

LEMMA NoWorkTyped == NoWork \in WorkType /\ NoWork.task = "none"
  BY DEF NoWork, Work, WorkType, Tasks, AgentVerdicts, AgentStatuses

LEMMA WrittenRows ==
  ASSUME NEW row, \/ row = InService
                  \/ row = Agent("pending_review", "awaiting", FALSE, FALSE, FALSE)
                  \/ row = Agent("pending_review", "unfit", FALSE, FALSE, FALSE)
                  \/ row = Agent("stopped", "unfit", FALSE, FALSE, FALSE)
  PROVE  row \in AgentType /\ row.status # "none"
  <1>1. InService \in AgentType /\ InService.status # "none"
    BY DEF InService, Agent, AgentType, AgentStatuses
  <1>2. ASSUME NEW status \in {"pending_review", "stopped"}, NEW runtime \in {"awaiting", "unfit"}
        PROVE  /\ Agent(status, runtime, FALSE, FALSE, FALSE) \in AgentType
               /\ Agent(status, runtime, FALSE, FALSE, FALSE).status # "none"
    BY DEF Agent, AgentType, AgentStatuses
  <1> QED
    BY <1>1, <1>2

LEMMA AgentFaultTyped == AgentFaultsTyped /\ Fault => AgentFaultsTyped'
  BY FaultsAssumption DEF AgentFaultsTyped, Fault

\* A call begins: only its own desk changes.
LEMMA AgentTakes ==
  ASSUME AgentCallsTyped, AgentFaultsTyped, NEW t \in Staff, NEW work \in WorkType, Takes(t, work)
  PROVE  /\ AgentCallsTyped' /\ AgentFaultsTyped'
         /\ desk'[t] = work
         /\ \A u \in Staff : u # t => desk'[u] = desk[u]
         /\ UNCHANGED <<outdated, overlapped>>
  <1>1. AgentFaultsTyped'
    BY AgentFaultTyped DEF Takes, AgentFaultsTyped
  <1> QED
    BY <1>1 DEF Takes, AgentCallsTyped

\* A call writes: its desk is what comes next, and whoever else is at work now
\* holds what was read before, unless a call has already written like that.
LEMMA AgentWrites ==
  ASSUME AgentCallsTyped, AgentFaultsTyped, NEW t \in Staff, NEW next \in WorkType, Writes(t, next)
  PROVE  /\ AgentCallsTyped' /\ AgentFaultsTyped'
         /\ desk'[t] = next
         /\ \A u \in Staff : u # t => desk'[u] = desk[u]
         /\ overlapped => overlapped'
         /\ t \in outdated => overlapped'
         /\ \A u \in Staff : u # t => desk[u].task = "none" \/ u \in outdated' \/ overlapped'
  <1>1. /\ AgentCallsTyped' /\ AgentFaultsTyped' /\ desk'[t] = next
        /\ \A u \in Staff : u # t => desk'[u] = desk[u]
        /\ overlapped => overlapped'
        /\ t \in outdated => overlapped'
    BY DEF Writes, Outdates, Busy, AgentCallsTyped, AgentFaultsTyped
  <1>2. ASSUME NEW u \in Staff, u # t
        PROVE  desk[u].task = "none" \/ u \in outdated' \/ overlapped'
    <2>1. CASE desk[u] = NoWork
      BY <2>1, NoWorkTyped
    <2>2. CASE desk[u] # NoWork
      BY <1>2, <2>2 DEF Writes, Outdates, Busy
    <2> QED
      BY <2>1, <2>2
  <1> QED
    BY <1>1, <1>2

\* The same of a call that reads and writes in one statement.
LEMMA AgentWritesAtOnce ==
  ASSUME AgentCallsTyped, AgentFaultsTyped, WritesAtOnce
  PROVE  /\ AgentCallsTyped' /\ AgentFaultsTyped'
         /\ UNCHANGED <<desk, overlapped>>
         /\ \A u \in Staff : desk[u].task = "none" \/ u \in outdated' \/ overlapped'
  <1>1. AgentCallsTyped' /\ AgentFaultsTyped' /\ UNCHANGED <<desk, overlapped>>
    BY DEF WritesAtOnce, Outdates, Busy, AgentCallsTyped, AgentFaultsTyped
  <1>2. ASSUME NEW u \in Staff
        PROVE  desk[u].task = "none" \/ u \in outdated' \/ overlapped'
    <2>1. CASE desk[u] = NoWork
      BY <2>1, NoWorkTyped
    <2>2. CASE desk[u] # NoWork
      BY <1>2, <2>2 DEF WritesAtOnce, Outdates, Busy
    <2> QED
      BY <2>1, <2>2
  <1> QED
    BY <1>1, <1>2

\* A call dies.
LEMMA AgentLeaves ==
  ASSUME AgentCallsTyped, AgentFaultsTyped, NEW t \in Staff, Leaves(t), Fault
  PROVE  /\ AgentCallsTyped' /\ AgentFaultsTyped'
         /\ desk'[t] = NoWork
         /\ \A u \in Staff : u # t => desk'[u] = desk[u]
         /\ \A u \in Staff : u # t => (u \in outdated <=> u \in outdated')
         /\ UNCHANGED overlapped
  BY AgentFaultTyped, NoWorkTyped DEF Leaves, AgentCallsTyped

-----------------------------------------------------------------------------
(* The invariant.  Routing rests on the row alone, so it needs what every   *)
(* call at work is about to write into it.                                  *)

\* The agent's activation was approved, or staff has put it into service.
ActivationEarned == activation = "approved" \/ reactivated

\* A generated agent that has not earned it.
Unearned == origin = "generated" /\ ~ActivationEarned

CallKnows(t) ==
  /\ desk[t].task = "warn" => desk[t].outcome \in AgentStatuses \ {"none"}
  /\ t \notin outdated /\ ~overlapped =>
       /\ desk[t].task = "warn" => desk[t].outcome = agent.status
       /\ desk[t].task \in {"probe", "freeze"} => agent.status = "active"
       /\ desk[t].task = "thaw" => agent.status = "capacity_frozen"
  /\ Unearned =>
       /\ desk[t].task \notin {"activate", "freeze", "thaw"}
       /\ desk[t].task = "review" => desk[t].outcome # "approved"
       /\ desk[t].task = "warn" => desk[t].outcome \notin {"active", "capacity_frozen"}

\* The verdict of a review is one, and it is of an agent there is.
CallTyped(t) ==
  desk[t].task = "review" => desk[t].outcome \in {"approved", "awaiting", "adverse"}

Absent == agent.status = "none" => agent = NoAgent /\ \A t \in Staff : desk[t].task = "none"

ContainedIsStopped == contained => agent.status = "stopped" /\ ~overlapped

UnearnedIsOut == Unearned => agent.status \notin {"active", "capacity_frozen"}

AgentsInv ==
  /\ AgentCallsTyped /\ RowTyped /\ AgentFaultsTyped
  /\ Absent
  /\ ContainedIsStopped
  /\ UnearnedIsOut
  /\ \A t \in Staff : CallTyped(t) /\ CallKnows(t)

LEMMA AgentsInvRouted == AgentsInv => RoutedIsTrusted
  BY DEF AgentsInv, RowTyped, ContainedIsStopped, UnearnedIsOut, Unearned, ActivationEarned,
         Listed, Routed, Offered, RoutedIsTrusted

LEMMA InitAgentsInv == AgentsInit => AgentsInv
  <1> SUFFICES ASSUME AgentsInit PROVE AgentsInv
    OBVIOUS
  <1>1. AgentCallsTyped
    BY NoWorkTyped DEF AgentsInit, CallsInit, AgentCallsTyped
  <1>2. RowTyped /\ AgentFaultsTyped
    <2>1. RowTyped
      BY DEF AgentsInit, RowTyped, AgentType, NoAgent, Agent, AgentStatuses
    <2>2. AgentFaultsTyped
      BY FaultsAssumption DEF AgentsInit, AgentFaultsTyped
    <2> QED
      BY <2>1, <2>2
  <1>3. \A t \in Staff : desk[t].task = "none"
    BY NoWorkTyped DEF AgentsInit, CallsInit
  <1>4. Absent /\ ContainedIsStopped /\ UnearnedIsOut
    BY <1>3 DEF AgentsInit, Absent, ContainedIsStopped, UnearnedIsOut, Unearned
  <1>5. \A t \in Staff : CallTyped(t) /\ CallKnows(t)
    BY <1>3 DEF CallTyped, CallKnows
  <1> QED
    BY <1>1, <1>2, <1>4, <1>5 DEF AgentsInv

\* A call that is at work when another writes has read before: nothing is asked
\* of what it knows, but that it was decided for an agent that had earned it.
LEMMA CallOutdated ==
  ASSUME NEW t \in Staff, CallTyped(t), CallKnows(t), desk'[t] = desk[t],
         Unearned' => Unearned,
         desk[t].task = "none" \/ t \in outdated' \/ overlapped'
  PROVE  CallTyped(t)' /\ CallKnows(t)'
  BY DEF CallTyped, CallKnows

LEMMA CallIdle ==
  ASSUME NEW t \in Staff, desk'[t] = NoWork
  PROVE  CallTyped(t)' /\ CallKnows(t)'
  BY NoWorkTyped DEF CallTyped, CallKnows

\* A write of a call, or of one that reads and writes in one statement.
LEMMA AfterWrite ==
  ASSUME AgentsInv, NEW t \in Staff, Writes(t, NoWork),
         RowTyped', agent'.status # "none", ContainedIsStopped', UnearnedIsOut',
         Unearned' => Unearned
  PROVE  AgentsInv'
  <1>1. AgentCallsTyped /\ AgentFaultsTyped
    BY DEF AgentsInv
  <1>2. ASSUME NEW u \in Staff PROVE CallTyped(u)' /\ CallKnows(u)'
    BY <1>1, AgentWrites, NoWorkTyped, CallOutdated, CallIdle DEF AgentsInv
  <1> QED
    BY <1>1, <1>2, AgentWrites, NoWorkTyped DEF AgentsInv, Absent

LEMMA AfterWriteAtOnce ==
  ASSUME AgentsInv, WritesAtOnce,
         RowTyped', agent'.status # "none" \/ agent' = agent,
         ContainedIsStopped', UnearnedIsOut', Unearned' => Unearned
  PROVE  AgentsInv'
  <1>1. AgentCallsTyped /\ AgentFaultsTyped
    BY DEF AgentsInv
  <1>2. ASSUME NEW u \in Staff PROVE CallTyped(u)' /\ CallKnows(u)'
    BY <1>1, AgentWritesAtOnce, CallOutdated DEF AgentsInv
  <1> QED
    BY <1>1, <1>2, AgentWritesAtOnce DEF AgentsInv, Absent

\* A call begins on a row that stays as it is.
LEMMA AfterTake ==
  ASSUME AgentsInv, NEW t \in Staff, NEW work \in WorkType, Takes(t, work),
         UNCHANGED agentTables, agent.status # "none", CallTyped(t)', CallKnows(t)'
  PROVE  AgentsInv'
  <1>1. AgentCallsTyped /\ AgentFaultsTyped
    BY DEF AgentsInv
  <1>2. RowTyped' /\ ContainedIsStopped' /\ UnearnedIsOut' /\ Absent'
    BY <1>1, AgentTakes DEF AgentsInv, agentTables, RowTyped, AgentType, ContainedIsStopped,
       UnearnedIsOut, Unearned, ActivationEarned, Absent
  <1>3. ASSUME NEW u \in Staff, u # t PROVE CallTyped(u)' /\ CallKnows(u)'
    BY <1>1, <1>3, AgentTakes
       DEF AgentsInv, agentTables, CallTyped, CallKnows, Unearned, ActivationEarned
  <1> QED
    BY <1>1, <1>2, <1>3, AgentTakes DEF AgentsInv

-----------------------------------------------------------------------------
(* The actions.  Those of staff, dashboards and sellers that read and write *)
(* in one statement, or use nothing that they have read.                    *)

LEMMA AtOnceAgentsInv ==
  ASSUME AgentsInv,
         \/ ManuallyActivate \/ ThrottleAgent \/ ContainAgent \/ ReactivateAgent
         \/ DisableSellerAgent \/ ReconcileUnapproved
         \/ ReportRuntimeStatus \/ WriteRegistry
         \/ ApproveSeller \/ ActivateParent \/ RejectSeller \/ GovernSeller
         \/ ApplySellerRisk
  PROVE  AgentsInv'
  <1>0. RowTyped /\ AgentCallsTyped /\ AgentFaultsTyped /\ Absent /\ ContainedIsStopped /\ UnearnedIsOut
    BY DEF AgentsInv
  <1>a. agent.status = "none" <=> ~Exists
    BY <1>0 DEF Absent, Exists, NoAgent, Agent
  <1>1. CASE ManuallyActivate
    <2>1. agent' = InService /\ contained' = FALSE /\ origin' = origin /\ activation' = "approved"
           /\ sellerActive' = sellerActive /\ reactivated' = reactivated /\ WritesAtOnce
      BY <1>1 DEF ManuallyActivate, OnlyAgentChanges
    <2>2. RowTyped'
      BY <1>0, <2>1 DEF RowTyped, AgentType, InService, Agent, AgentStatuses
    <2>3. agent'.status # "none" /\ ~Unearned'
      BY <2>1 DEF InService, Agent, Unearned, ActivationEarned
    <2> QED
      BY <2>1, <2>2, <2>3, AfterWriteAtOnce DEF ContainedIsStopped, UnearnedIsOut
  <1>2. CASE ThrottleAgent
    <2>1. /\ agent'.status = "stopped" /\ contained' = contained /\ WritesAtOnce
          /\ UNCHANGED <<origin, activation, reactivated, sellerActive>>
      BY <1>0, <1>2 DEF ThrottleAgent, OnlyAgentChanges, RowTyped, AgentType
    <2>2. RowTyped'
      BY <1>0, <1>2, <2>1 DEF ThrottleAgent, RowTyped, AgentType, AgentStatuses
    <2>3. ContainedIsStopped' /\ UnearnedIsOut' /\ (Unearned' => Unearned)
      BY <1>0, <2>1 DEF ContainedIsStopped, UnearnedIsOut, Unearned, ActivationEarned, WritesAtOnce
    <2> QED
      BY <2>1, <2>2, <2>3, AfterWriteAtOnce
  <1>3. CASE ContainAgent \/ DisableSellerAgent
    <2>1. /\ agent'.status = "stopped" /\ contained' = ~overlapped /\ WritesAtOnce
          /\ UNCHANGED <<origin, activation, reactivated, sellerActive>>
      BY <1>0, <1>3 DEF ContainAgent, DisableSellerAgent, OnlyAgentChanges, RowTyped, AgentType
    <2>2. RowTyped'
      BY <1>0, <1>3, <2>1
         DEF ContainAgent, DisableSellerAgent, RowTyped, AgentType, AgentCallsTyped, AgentStatuses
    <2>3. ContainedIsStopped' /\ UnearnedIsOut' /\ (Unearned' => Unearned)
      BY <1>0, <2>1 DEF ContainedIsStopped, UnearnedIsOut, Unearned, ActivationEarned, WritesAtOnce
    <2> QED
      BY <2>1, <2>2, <2>3, AfterWriteAtOnce
  <1>4. CASE ReactivateAgent
    <2>1. /\ agent'.status = "active" /\ ~contained' /\ WritesAtOnce
          /\ reactivated' = (origin = "generated" /\ activation # "approved")
          /\ UNCHANGED <<origin, activation, sellerActive>>
      BY <1>0, <1>4 DEF ReactivateAgent, OnlyAgentChanges, RowTyped, AgentType
    <2>2. RowTyped'
      BY <1>0, <1>4, <2>1 DEF ReactivateAgent, RowTyped, AgentType, AgentStatuses
    <2>3. ~Unearned'
      BY <2>1 DEF Unearned, ActivationEarned
    <2> QED
      BY <2>1, <2>2, <2>3, AfterWriteAtOnce DEF ContainedIsStopped, UnearnedIsOut
  <1>5. CASE ReconcileUnapproved
    <2>1. /\ agent'.status = "pending_review" /\ agent.status = "active"
          /\ contained' = contained /\ WritesAtOnce
          /\ UNCHANGED <<origin, activation, reactivated, sellerActive>>
      BY <1>0, <1>5 DEF ReconcileUnapproved, OnlyAgentChanges, RowTyped, AgentType
    <2>2. RowTyped'
      BY <1>0, <1>5, <2>1 DEF ReconcileUnapproved, RowTyped, AgentType, AgentStatuses
    <2>3. ContainedIsStopped' /\ UnearnedIsOut' /\ (Unearned' => Unearned)
      BY <1>0, <2>1 DEF ContainedIsStopped, UnearnedIsOut, Unearned, ActivationEarned, WritesAtOnce
    <2> QED
      BY <2>1, <2>2, <2>3, AfterWriteAtOnce
  <1>6. CASE ReportRuntimeStatus
    <2>1. /\ agent' \in RuntimeOutcomes /\ agent.status # "none"
          /\ contained' = (contained /\ agent'.status # "active") /\ WritesAtOnce
          /\ UNCHANGED <<origin, activation, reactivated, sellerActive>>
      BY <1>6, <1>a DEF ReportRuntimeStatus, OnlyAgentChanges
    <2>2. /\ agent'.status \in {agent.status, "stopped", "active"}
          /\ origin = "generated" => agent'.status = agent.status
      BY <1>0, <2>1 DEF RuntimeOutcomes, RowTyped, AgentType
    <2>3. RowTyped'
      <3>1. agent \in AgentType
        BY <1>0 DEF RowTyped
      <3>2. /\ [agent EXCEPT !.runtime = "fit", !.available = TRUE] \in AgentType
            /\ [agent EXCEPT !.runtime = "fit", !.available = FALSE] \in AgentType
        BY <3>1 DEF AgentType
      <3>3. [agent EXCEPT !.status = "stopped", !.runtime = "unfit", !.available = FALSE]
              \in AgentType
        BY <3>1 DEF AgentType, AgentStatuses
      <3>4. [agent EXCEPT !.status = "active", !.runtime = "fit", !.available = TRUE]
              \in AgentType
        BY <3>1 DEF AgentType, AgentStatuses
      <3> QED
        BY <1>0, <2>1, <3>2, <3>3, <3>4 DEF RuntimeOutcomes, RowTyped
    <2>4. ContainedIsStopped' /\ UnearnedIsOut' /\ (Unearned' => Unearned)
      BY <1>0, <2>1, <2>2 DEF ContainedIsStopped, UnearnedIsOut, Unearned, ActivationEarned, WritesAtOnce
    <2> QED
      BY <2>1, <2>2, <2>3, <2>4, AfterWriteAtOnce
  <1>7. CASE WriteRegistry \/ ApproveSeller \/ ActivateParent \/ RejectSeller
    <2>1. /\ agent'.status = agent.status /\ contained' = contained /\ WritesAtOnce
          /\ UNCHANGED <<origin, activation, reactivated>>
          /\ agent' = agent \/ agent'.status # "none"
      BY <1>0, <1>7, <1>a DEF WriteRegistry, ApproveSeller, ActivateParent, RejectSeller,
                              OnlyAgentChanges, RowTyped, AgentType
    <2>2. RowTyped'
      BY <1>0, <1>7, <2>1 DEF WriteRegistry, ApproveSeller, ActivateParent, RejectSeller,
                              OnlyAgentChanges, RowTyped, AgentType
    <2>3. ContainedIsStopped' /\ UnearnedIsOut' /\ (Unearned' => Unearned)
      BY <1>0, <2>1 DEF ContainedIsStopped, UnearnedIsOut, Unearned, ActivationEarned, WritesAtOnce
    <2> QED
      BY <2>1, <2>2, <2>3, AfterWriteAtOnce
  <1>8. CASE GovernSeller
    <2>1. /\ WritesAtOnce
          /\ UNCHANGED <<origin, activation, reactivated>>
          /\ \/ sellerActive' \in BOOLEAN /\ agent' = agent /\ contained' = contained
             \/ /\ sellerActive' = FALSE
                /\ agent' = IF Exists THEN [agent EXCEPT !.status = "stopped",
                                     !.available = FALSE, !.listed = FALSE] ELSE agent
                /\ contained' = (Exists /\ ~overlapped)
      BY <1>8 DEF GovernSeller, WritesAtOnce
    <2>2. /\ \/ agent' = agent /\ (contained' => contained)
             \/ agent'.status = "stopped" /\ (contained' => ~overlapped)
          /\ RowTyped'
      <3>1. CASE sellerActive' \in BOOLEAN /\ agent' = agent /\ contained' = contained
        BY <1>0, <2>1, <3>1 DEF RowTyped, AgentType
      <3>2. CASE ~Exists /\ sellerActive' = FALSE /\ agent' = agent /\ contained' = FALSE
        BY <1>0, <2>1, <3>2 DEF RowTyped, AgentType
      <3>3. CASE /\ sellerActive' = FALSE /\ contained' = ~overlapped
                 /\ agent' = [agent EXCEPT !.status = "stopped", !.available = FALSE,
                                           !.listed = FALSE]
        BY <1>0, <2>1, <3>3 DEF RowTyped, AgentType, AgentCallsTyped, AgentStatuses
      <3> QED
        BY <2>1, <3>1, <3>2, <3>3
    <2>3. ContainedIsStopped' /\ UnearnedIsOut' /\ (Unearned' => Unearned)
      BY <1>0, <2>1, <2>2
         DEF ContainedIsStopped, UnearnedIsOut, Unearned, ActivationEarned, WritesAtOnce
    <2> QED
      BY <2>1, <2>2, <2>3, AfterWriteAtOnce
  <1>9. CASE ApplySellerRisk
    <2>1. /\ WritesAtOnce
          /\ UNCHANGED <<origin, activation, reactivated, contained>>
          /\ sellerActive' \in {sellerActive, FALSE}
          /\ \/ agent' = agent
             \/ Exists /\ agent'.status = agent.status
             \/ Exists /\ agent.status = "active" /\ agent'.status = "stopped"
          /\ RowTyped'
      <3>1. CASE UNCHANGED sellerActive /\
                 agent' = IF Exists THEN [agent EXCEPT !.available = sellerActive,
                                                 !.listed = sellerActive] ELSE agent
        BY <1>0, <1>9, <3>1 DEF ApplySellerRisk, RowTyped, AgentType
      <3>2. CASE /\ sellerActive' = FALSE
                 /\ Exists /\ agent' = [agent EXCEPT !.available = FALSE, !.listed = FALSE]
        BY <1>0, <1>9, <3>2 DEF ApplySellerRisk, RowTyped, AgentType
      <3>3. CASE sellerActive' = FALSE /\ agent' = agent
        BY <1>0, <1>9, <3>3 DEF ApplySellerRisk, RowTyped, AgentType
      <3>4. CASE /\ sellerActive' = FALSE /\ agent.status = "active"
                 /\ agent' = [agent EXCEPT !.status = "stopped", !.available = FALSE,
                                           !.listed = FALSE]
        BY <1>0, <1>9, <1>a, <3>4 DEF ApplySellerRisk, RowTyped, AgentType, AgentStatuses
      <3> QED
        BY <1>9, <3>1, <3>2, <3>3, <3>4 DEF ApplySellerRisk
    <2>2. agent' = agent \/ agent'.status # "none"
      BY <1>a, <2>1
    <2>3. ContainedIsStopped' /\ UnearnedIsOut' /\ (Unearned' => Unearned)
      BY <1>0, <2>1 DEF ContainedIsStopped, UnearnedIsOut, Unearned, ActivationEarned, WritesAtOnce
    <2> QED
      BY <2>1, <2>2, <2>3, AfterWriteAtOnce
  <1> QED
    BY <1>1, <1>2, <1>3, <1>4, <1>5, <1>6, <1>7, <1>8, <1>9

-----------------------------------------------------------------------------
(* Those that read first and write later.                                   *)

LEMMA BeginsAgentsInv ==
  ASSUME AgentsInv, NEW t \in Staff,
         \/ BeginCapabilityReview(t) \/ BeginActivationReview(t) \/ BeginWarning(t)
         \/ BeginProbe(t) \/ BeginCapacity(t)
  PROVE  AgentsInv'
  <1>0. RowTyped /\ AgentCallsTyped /\ AgentFaultsTyped /\ Absent /\ ContainedIsStopped /\ UnearnedIsOut
    BY DEF AgentsInv
  <1>a. agent.status = "none" <=> ~Exists
    BY <1>0 DEF Absent, Exists, NoAgent, Agent
  <1>b. ASSUME NEW task \in {"capability", "probe"}, Decides(t, task, "none"),
               UNCHANGED agentTables,
               IF task = "probe" THEN agent.status = "active"
               ELSE agent.status = "pending_review"
        PROVE  AgentsInv'
    <2>1. Work(task, "none", 0) \in WorkType /\ Work(task, "none", 0).task = task
      BY DEF Work, WorkType, Tasks, AgentVerdicts, AgentStatuses
    <2>2. Takes(t, Work(task, "none", 0))
      BY <1>b DEF Decides
    <2>3. desk'[t].task = task
      BY <1>0, <2>1, <2>2, AgentTakes
    <2>4. CallTyped(t)' /\ CallKnows(t)'
      BY <1>b, <2>3 DEF CallTyped, CallKnows, agentTables
    <2> QED
      BY <1>b, <2>1, <2>2, <2>4, AfterTake
  <1>1. CASE BeginCapabilityReview(t)
    BY <1>1, <1>b DEF BeginCapabilityReview
  <1>2. CASE BeginProbe(t)
    BY <1>2, <1>b DEF BeginProbe, Monitored
  <1>3. CASE BeginActivationReview(t)
    <2>1. PICK verdict \in ActivationVerdicts(agent) : Decides(t, "review", verdict)
      BY <1>3 DEF BeginActivationReview
    <2>2. /\ verdict \in {"approved", "awaiting", "adverse"}
          /\ verdict = "approved" => activation = "approved"
      BY DEF ActivationVerdicts
    <2> DEFINE work == Work("review", verdict, 0)
    <2>3. work \in WorkType /\ work.task = "review" /\ work.outcome = verdict
      BY <2>2 DEF Work, WorkType, Tasks, AgentVerdicts
    <2>4. Takes(t, work)
      BY <2>1 DEF Decides
    <2> HIDE DEF work
    <2>5. desk'[t].task = "review" /\ desk'[t].outcome = verdict
      BY <1>0, <2>3, <2>4, AgentTakes
    <2>6. CallTyped(t)' /\ CallKnows(t)'
      BY <1>3, <2>2, <2>5
         DEF CallTyped, CallKnows, BeginActivationReview, agentTables, Unearned, ActivationEarned
    <2> QED
      BY <1>3, <1>a, <2>3, <2>4, <2>6, AfterTake DEF BeginActivationReview
  <1>4. CASE BeginWarning(t)
    <2> DEFINE work == Work("warn", agent.status, IF agent.available THEN 1 ELSE 0)
    <2>1. agent.status \in AgentStatuses /\ UNCHANGED agentTables /\ Takes(t, work)
           /\ agent.status # "none"
      BY <1>0, <1>4, <1>a DEF RowTyped, AgentType, BeginWarning
    <2>2. work \in WorkType /\ work.task = "warn" /\ work.outcome = agent.status
      BY <2>1 DEF Work, WorkType, Tasks, AgentVerdicts
    <2> HIDE DEF work
    <2>3. desk'[t].task = "warn" /\ desk'[t].outcome = agent.status
      BY <1>0, <2>1, <2>2, AgentTakes
    <2>4. CallTyped(t)' /\ CallKnows(t)'
      BY <1>0, <2>1, <2>3
         DEF CallTyped, CallKnows, agentTables, UnearnedIsOut, Unearned, ActivationEarned
    <2> QED
      BY <2>1, <2>2, <2>4, AfterTake
  <1>5. CASE BeginCapacity(t)
    <2>1. PICK task \in {"freeze", "thaw"} :
            /\ Decides(t, task, "none")
            /\ agent.status = IF task = "freeze" THEN "active" ELSE "capacity_frozen"
      BY <1>5 DEF BeginCapacity
    <2>2. Work(task, "none", 0) \in WorkType /\ Work(task, "none", 0).task = task
      BY DEF Work, WorkType, Tasks, AgentVerdicts, AgentStatuses
    <2>3. Takes(t, Work(task, "none", 0)) /\ UNCHANGED agentTables
      BY <1>5, <2>1 DEF Decides, BeginCapacity
    <2>4. desk'[t].task = task
      BY <1>0, <2>2, <2>3, AgentTakes
    <2>5. CallTyped(t)' /\ CallKnows(t)'
      BY <1>0, <2>1, <2>3, <2>4
         DEF CallTyped, CallKnows, agentTables, UnearnedIsOut, Unearned, ActivationEarned
    <2> QED
      BY <2>1, <2>2, <2>3, <2>5, AfterTake
  <1> QED
    BY <1>1, <1>2, <1>3, <1>4, <1>5

\* A call writes: what it has read still holds, or another has written since.
LEMMA WritesAgentsInv ==
  ASSUME AgentsInv, NEW t \in Staff,
         \/ Activate(t) \/ WriteActivationReview(t) \/ WriteWarning(t)
         \/ WriteProbe(t) \/ WriteFreeze(t) \/ WriteThaw(t)
  PROVE  AgentsInv'
  <1>0. /\ RowTyped /\ AgentCallsTyped /\ AgentFaultsTyped /\ Absent /\ ContainedIsStopped
        /\ UnearnedIsOut /\ CallTyped(t) /\ CallKnows(t)
    BY DEF AgentsInv
  <1>a. Writes(t, NoWork) /\ UNCHANGED <<origin, sellerActive, activation, reactivated>>
         /\ (Unearned' <=> Unearned)
    <2>1. Writes(t, NoWork) /\ OnlyAgentChanges /\ UNCHANGED reactivated
      BY DEF Activate, WriteActivationReview, WriteWarning, WriteProbe, WriteFreeze, WriteThaw
    <2> QED
      BY <2>1 DEF OnlyAgentChanges, Unearned, ActivationEarned
  <1>b. t \in outdated \/ overlapped => overlapped'
    BY <1>0, <1>a, AgentWrites, NoWorkTyped
  <1>c. agent.status # "none"
    <2>1. desk[t].task # "none"
      BY DEF Activate, WriteActivationReview, WriteWarning, WriteProbe, WriteFreeze, WriteThaw
    <2> QED
      BY <1>0, <2>1 DEF Absent
  <1>d. overlapped' \in BOOLEAN
    BY <1>0, <1>a, AgentWrites, NoWorkTyped DEF AgentCallsTyped
  <1>1. CASE Activate(t)
    <2>1. agent' = InService /\ contained' = FALSE /\ ~Unearned
      BY <1>0, <1>1 DEF Activate, CallKnows
    <2>2. RowTyped' /\ agent'.status # "none"
      BY <1>0, <1>a, <2>1 DEF RowTyped, AgentType, InService, Agent, AgentStatuses
    <2> QED
      BY <1>a, <2>1, <2>2, AfterWrite DEF ContainedIsStopped, UnearnedIsOut
  <1>2. CASE WriteActivationReview(t)
    <2>1. /\ contained' = FALSE
          /\ \/ desk[t].outcome = "approved" /\ agent' = InService
             \/ agent' = Agent("pending_review", "awaiting", FALSE, FALSE, FALSE)
             \/ agent' = Agent("pending_review", "unfit", FALSE, FALSE, FALSE)
             \/ agent' = Agent("stopped", "unfit", FALSE, FALSE, FALSE)
      <3>1. desk[t].outcome \in {"approved", "awaiting", "adverse"} /\ contained' = FALSE
        BY <1>0, <1>2 DEF WriteActivationReview, CallTyped
      <3>2. CASE desk[t].outcome = "approved"
        BY <1>2, <3>1, <3>2 DEF WriteActivationReview
      <3>3. CASE desk[t].outcome = "awaiting"
        BY <1>2, <3>1, <3>3 DEF WriteActivationReview
      <3>4. CASE desk[t].outcome = "adverse"
        BY <1>2, <3>1, <3>4 DEF WriteActivationReview
      <3> QED
        BY <3>1, <3>2, <3>3, <3>4
    <2>2. agent' \in AgentType /\ agent'.status # "none"
      BY <2>1, WrittenRows
    <2>5. RowTyped'
      BY <1>0, <1>a, <2>1, <2>2 DEF RowTyped, AgentType
    <2>3. agent'.status = "active" => ~Unearned
      BY <1>0, <1>2, <2>1 DEF WriteActivationReview, CallKnows, Agent
    <2>4. agent'.status # "capacity_frozen"
      BY <2>1 DEF InService, Agent
    <2> QED
      BY <1>a, <2>1, <2>2, <2>5, <2>3, <2>4, AfterWrite DEF ContainedIsStopped, UnearnedIsOut
  <1>3. CASE WriteWarning(t)
    <2>1. /\ agent'.status = desk[t].outcome /\ desk[t].outcome \in AgentStatuses \ {"none"}
          /\ t \notin outdated /\ ~overlapped => desk[t].outcome = agent.status
          /\ Unearned => desk[t].outcome \notin {"active", "capacity_frozen"}
          /\ contained' = (contained /\ ~overlapped')
      BY <1>0, <1>3 DEF WriteWarning, CallKnows, RowTyped, AgentType, StillContained
    <2>2. RowTyped'
      BY <1>0, <1>3, <1>a, <1>d, <2>1 DEF WriteWarning, RowTyped, AgentType
    <2> QED
      BY <1>0, <1>a, <1>b, <2>1, <2>2, AfterWrite DEF ContainedIsStopped, UnearnedIsOut
  <1>4. CASE WriteProbe(t)
    <2>1. /\ agent'.status \in {agent.status, "stopped", "active"}
          /\ origin = "generated" => agent'.status = agent.status
          /\ t \notin outdated /\ ~overlapped => agent.status = "active"
          /\ contained' = (contained /\ ~overlapped')
      BY <1>0, <1>4 DEF WriteProbe, RuntimeOutcomes, CallKnows, RowTyped, AgentType, StillContained
    <2>2. RowTyped'
      BY <1>0, <1>4, <1>a, <1>d, <2>1 DEF WriteProbe, RuntimeOutcomes, RowTyped, AgentType, AgentStatuses
    <2>3. ContainedIsStopped' /\ UnearnedIsOut'
      BY <1>0, <1>a, <1>b, <2>1 DEF ContainedIsStopped, UnearnedIsOut, Unearned
    <2> QED
      BY <1>a, <1>c, <2>1, <2>2, <2>3, AfterWrite
  <1>5. CASE WriteFreeze(t) \/ WriteThaw(t)
    <2>1. /\ agent'.status \in {"capacity_frozen", "active"} /\ ~Unearned
          /\ t \notin outdated /\ ~overlapped => agent.status # "stopped"
          /\ contained' = (contained /\ ~overlapped')
      BY <1>0, <1>5 DEF WriteFreeze, WriteThaw, CallKnows, RowTyped, AgentType, StillContained
    <2>2. RowTyped'
      BY <1>0, <1>5, <1>a, <1>d, <2>1 DEF WriteFreeze, WriteThaw, RowTyped, AgentType, AgentStatuses
    <2>3. ContainedIsStopped' /\ UnearnedIsOut'
      BY <1>0, <1>a, <1>b, <2>1 DEF ContainedIsStopped, UnearnedIsOut
    <2> QED
      BY <1>a, <2>1, <2>2, <2>3, AfterWrite
  <1> QED
    BY <1>1, <1>2, <1>3, <1>4, <1>5

\* The agent appears, while no call is at work on it.
LEMMA AppearsAgentsInv ==
  ASSUME AgentsInv, GenerateAgentRow \/ RegisterAgentRow
  PROVE  AgentsInv'
  <1>0. RowTyped /\ AgentCallsTyped /\ AgentFaultsTyped /\ Absent /\ ContainedIsStopped
    BY DEF AgentsInv
  <1>1. agent = NoAgent /\ agent.status = "none"
    BY DEF GenerateAgentRow, RegisterAgentRow, Exists, NoAgent, Agent
  <1>2. /\ agent'.status \in {"pending_review", "active"}
        /\ origin' = "generated" => agent'.status = "pending_review"
        /\ UNCHANGED <<sellerActive, activation, contained, reactivated, callVars, faults>>
        /\ RowTyped'
    <2>1. CASE GenerateAgentRow
      BY <1>0, <2>1 DEF GenerateAgentRow, Agent, RowTyped, AgentType, AgentStatuses
    <2>2. CASE RegisterAgentRow
      BY <1>0, <2>2 DEF RegisterAgentRow, Agent, RowTyped, AgentType, AgentStatuses
    <2> QED
      BY <2>1, <2>2
  <1>3. AgentCallsTyped' /\ AgentFaultsTyped' /\ desk' = desk
    BY <1>0, <1>2 DEF callVars, AgentCallsTyped, AgentFaultsTyped
  <1>4. ~contained' /\ Absent' /\ ContainedIsStopped' /\ UnearnedIsOut'
    BY <1>0, <1>1, <1>2 DEF Absent, ContainedIsStopped, UnearnedIsOut, Unearned
  <1>5. ASSUME NEW t \in Staff PROVE CallTyped(t)' /\ CallKnows(t)'
    BY <1>0, <1>1, <1>3 DEF Absent, CallTyped, CallKnows
  <1> QED
    BY <1>2, <1>3, <1>4, <1>5 DEF AgentsInv

\* The approval of the activation writes no agent, and a call may go on with it.
LEMMA ApprovesAgentsInv ==
  ASSUME AgentsInv, ApproveActivation \/ \E t \in Staff : ApproveCapability(t)
  PROVE  AgentsInv'
  <1>0. RowTyped /\ AgentCallsTyped /\ AgentFaultsTyped /\ Absent /\ ContainedIsStopped
    BY DEF AgentsInv
  <1>1. /\ activation' = "approved" /\ reactivated' = FALSE
        /\ UNCHANGED <<agent, origin, sellerActive, contained, outdated, overlapped, faults>>
    BY DEF ApproveActivation, ApproveCapability, Approved, callVars
  <1>2. RowTyped' /\ ~Unearned' /\ UnearnedIsOut' /\ AgentFaultsTyped' /\ ContainedIsStopped'
    BY <1>0, <1>1 DEF RowTyped, AgentType, Unearned, ActivationEarned, UnearnedIsOut, AgentFaultsTyped,
                      ContainedIsStopped
  <1>3. CASE ApproveActivation
    <2>1. desk' = desk
      BY <1>3 DEF ApproveActivation, callVars
    <2> QED
      BY <1>0, <1>1, <1>2, <2>1 DEF AgentsInv, AgentCallsTyped, Absent, CallTyped, CallKnows
  <1>4. ASSUME NEW t \in Staff, ApproveCapability(t) PROVE AgentsInv'
    <2>1. /\ desk[t].task = "capability"
          /\ desk' = [desk EXCEPT ![t].task = "activate"]
      BY <1>4 DEF ApproveCapability
    <2>2. desk \in [Staff -> WorkType] /\ desk[t] \in WorkType
      BY <1>0 DEF AgentCallsTyped
    <2>3. /\ desk'[t].task = "activate"
          /\ \A u \in Staff : u # t => desk'[u] = desk[u]
          /\ desk' \in [Staff -> WorkType]
      BY <2>1, <2>2 DEF WorkType, Tasks
    <2>4. agent.status # "none"
      BY <1>0, <2>1 DEF Absent
    <2>5. ASSUME NEW u \in Staff PROVE CallTyped(u)' /\ CallKnows(u)'
      <3>1. CASE u = t
        BY <1>1, <1>2, <2>3, <3>1 DEF CallTyped, CallKnows
      <3>2. CASE u # t
        BY <1>1, <1>2, <2>3, <3>2 DEF AgentsInv, CallTyped, CallKnows
      <3> QED
        BY <3>1, <3>2
    <2> QED
      BY <1>0, <1>1, <1>2, <2>3, <2>4, <2>5 DEF AgentsInv, AgentCallsTyped, Absent
  <1> QED
    BY <1>3, <1>4

LEMMA DiesAgentsInv ==
  ASSUME AgentsInv, NEW t \in Staff, AgentCallDies(t)
  PROVE  AgentsInv'
  <1>0. RowTyped /\ AgentCallsTyped /\ AgentFaultsTyped
    BY DEF AgentsInv
  <1>1. Leaves(t) /\ Fault /\ UNCHANGED agentTables
    BY DEF AgentCallDies
  <1>2. /\ RowTyped' /\ ContainedIsStopped' /\ UnearnedIsOut' /\ Absent'
        /\ (Unearned' <=> Unearned)
    BY <1>0, <1>1, AgentLeaves, NoWorkTyped
       DEF AgentsInv, agentTables, RowTyped, AgentType, ContainedIsStopped, UnearnedIsOut, Unearned,
           ActivationEarned, Absent
  <1>3. ASSUME NEW u \in Staff, u # t PROVE CallTyped(u)' /\ CallKnows(u)'
    BY <1>0, <1>1, <1>2, <1>3, AgentLeaves DEF AgentsInv, agentTables, CallTyped, CallKnows
  <1>4. CallTyped(t)' /\ CallKnows(t)'
    BY <1>0, <1>1, AgentLeaves, CallIdle
  <1> QED
    BY <1>0, <1>1, <1>2, <1>3, <1>4, AgentLeaves DEF AgentsInv

LEMMA NextAgentsInv ==
  ASSUME AgentsInv, [AgentsNext]_agentVars
  PROVE  AgentsInv'
  <1>1. CASE UNCHANGED agentVars
    BY <1>1 DEF agentVars, agentTables, callVars, AgentsInv, AgentCallsTyped, RowTyped, AgentType,
       AgentFaultsTyped, Absent, ContainedIsStopped, UnearnedIsOut, Unearned, ActivationEarned, CallTyped,
       CallKnows
  <1>2. CASE AgentsNext
    BY <1>2, AtOnceAgentsInv, BeginsAgentsInv, WritesAgentsInv, AppearsAgentsInv,
       ApprovesAgentsInv, DiesAgentsInv DEF AgentsNext
  <1> QED
    BY <1>1, <1>2

LEMMA AgentsInductive == AgentsSpec => []AgentsInv
  BY InitAgentsInv, NextAgentsInv, PTL DEF AgentsSpec

\* The rows of an agent and the calls about it are well typed, however many
\* calls are at work.
THEOREM AgentsTypeCorrect == AgentsSpec => []AgentsTypeOK
  <1>1. AgentsInv => AgentsTypeOK
    BY TypedParts DEF AgentsInv
  <1> QED
    BY <1>1, AgentsInductive, PTL

\* However many calls of staff, probes and capacity runs are at work, buyers are
\* routed to a generated agent only after its activation was approved or staff
\* has reactivated it, and to no agent that was taken out of service and not put
\* back, but by a call that wrote over what it had not read, or by test metadata,
\* which the checkout's own listing does not go by
\* (get_available_seller_execution_agents_db and whatever writes what it reads).
THEOREM RoutedAgentsAreTrusted == AgentsSpec => []RoutedIsTrusted
  BY AgentsInductive, AgentsInvRouted, PTL
=============================================================================
