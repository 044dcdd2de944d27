---------------------------- MODULE SellerAgents ----------------------------
(***************************************************************************)
(* One agent of a seller (iat/api/db.py): its activation, the actions of   *)
(* staff on its runtime, the heartbeat that probes it, the capacity engine *)
(* that freezes and thaws it, and whether buyers are routed to it.         *)
(*                                                                         *)
(* The agent is two rows, seller_agents and the registry agents; routing   *)
(* asks both, and the seller.  Statuses and scores are merged as the code  *)
(* tells them apart: throttled, quarantined, suspended, disabled, limited  *)
(* and rejected agents are all stopped.  Which of the seller's agents the  *)
(* capacity engine picks is a free choice, as is what risk comes to.       *)
(***************************************************************************)
EXTENDS StaffCalls

VARIABLES
  agent,         \* its seller_agents row (status, runtime) and what routing reads
                 \* of its agents row (available, listed as active, verified)
  origin,        \* whether the factory generated it or the seller registered it,
                 \* and in the latter case whether the metadata that the seller
                 \* gave with it says "test": true
  sellerActive,  \* the seller's status is active, and it is verified
  activation,    \* whether seller_agent_activation_approvals has one
  contained,     \* it was taken out of service on purpose and not put back, and no
                 \* call has written over what it had not read
  reactivated    \* generated, staff has put it into service with no approval

agentTables == <<agent, origin, sellerActive, activation, contained,
                 reactivated>>

agentVars == <<agentTables, callVars, faults>>

Agent(status, runtime, available, listed, verified) ==
  [status |-> status, runtime |-> runtime, available |-> available,
   listed |-> listed, verified |-> verified]

NoAgent == Agent("none", "none", FALSE, FALSE, FALSE)

AgentsInit ==
  /\ agent = NoAgent
  /\ origin = "none"
  /\ sellerActive = FALSE
  /\ activation = "unapproved"
  /\ contained = FALSE
  /\ reactivated = FALSE
  /\ CallsInit
  /\ faults = 0

AgentStatuses == {"none", "pending_review", "active", "stopped", "capacity_frozen"}

AgentsTypeOK ==
  /\ agent \in [status : AgentStatuses,
                runtime : {"none", "fit", "awaiting", "unfit"},
                available : BOOLEAN, listed : BOOLEAN, verified : BOOLEAN]
  /\ origin \in {"none", "generated", "registered", "test"}
  /\ activation \in {"unapproved", "approved"}
  /\ {sellerActive, contained, reactivated, overlapped} \subseteq BOOLEAN
  /\ desk \in [Staff ->
       [task : {"none", "activate", "review", "warn", "probe", "freeze", "thaw", "capability"},
        outcome : AgentStatuses \cup {"approved", "awaiting", "adverse"},
        left : {0, 1}]]
  /\ outdated \subseteq Staff
  /\ faults \in 0 .. MaxFaults

-----------------------------------------------------------------------------
Exists == agent # NoAgent

\* What a call writes over what it had not read is not held against the code.
StillContained == contained' = (contained /\ ~overlapped')

OnlyAgentChanges == UNCHANGED <<origin, sellerActive, activation>>

\* run_seller_agent_generation_db: pending review, in IAT's own runtime.
GenerateAgentRow ==
  /\ ~Exists
  /\ agent' = Agent("pending_review", "fit", FALSE, FALSE, FALSE)
  /\ origin' = "generated"
  /\ UNCHANGED <<sellerActive, activation, contained, reactivated, callVars,
                 faults>>

\* register_seller_agent: active by default, listed as the seller is, at an
\* address of its own, with metadata of the seller's own.
RegisterAgentRow ==
  /\ ~Exists
  /\ agent' = Agent("active", "fit", sellerActive, sellerActive, sellerActive)
  /\ origin' \in {"registered", "test"}
  /\ UNCHANGED <<sellerActive, activation, contained, reactivated, callVars,
                 faults>>

-----------------------------------------------------------------------------
\* An approval is never removed.
Approved == activation' = "approved" /\ reactivated' = FALSE

\* approve_seller_agent_activation_request_db, on what the activation reviews
\* evaluate to (evaluate_seller_agent_activation_governance_reviews_db): a free
\* choice.
ApproveActivation ==
  /\ Exists /\ activation = "unapproved"
  /\ Approved
  /\ UNCHANGED <<agent, origin, sellerActive, contained, callVars, faults>>

InService == Agent("active", "fit", TRUE, TRUE, TRUE)

\* manual_activate_seller_agent_db
ManuallyActivate ==
  /\ Exists /\ activation = "approved"
  /\ agent' = InService
  /\ contained' = FALSE
  /\ WritesAtOnce
  /\ OnlyAgentChanges /\ UNCHANGED reactivated

\* run_current_seller_capability_review_db, for the seller: an agent that is
\* pending review and passes the checks is reviewed by two engines, approved
\* on their reviews alone, and activated in the same way.
BeginCapabilityReview(t) ==
  /\ agent.status = "pending_review" /\ ~agent.available /\ sellerActive
  /\ Decides(t, "capability", "none")
  /\ UNCHANGED agentTables

ApproveCapability(t) ==
  /\ desk[t].task = "capability"
  /\ Approved
  /\ desk' = [desk EXCEPT ![t].task = "activate"]
  /\ UNCHANGED <<agent, origin, sellerActive, contained, outdated, overlapped,
                 faults>>

Activate(t) ==
  /\ desk[t].task = "activate"
  /\ agent' = InService
  /\ contained' = FALSE
  /\ Writes(t, NoWork)
  /\ OnlyAgentChanges /\ UNCHANGED reactivated

\* (Not the code: the last check for an approval is missing.)
UnapprovedVerdicts(row) ==
  IF row.status = "pending_review" /\ row.runtime # "unfit" /\ sellerActive
  THEN {"approved", "adverse"} ELSE {"adverse"}

\* run_seller_agent_activation_review_db: only an agent that is pending review,
\* with a runtime as it was generated, validated or found before, and with an
\* active seller can pass without a remark.
ActivationVerdicts(row) ==
  (IF row.status = "pending_review" /\ row.runtime # "unfit" /\ sellerActive
   THEN {IF activation = "approved" THEN "approved" ELSE "awaiting"} ELSE {})
  \cup {"adverse"}

BeginActivationReview(t) ==
  /\ Exists
  /\ \E verdict \in ActivationVerdicts(agent) : Decides(t, "review", verdict)
  /\ UNCHANGED agentTables

\* The agent is written as judged, one in service too.
WriteActivationReview(t) ==
  /\ desk[t].task = "review"
  /\ agent' \in CASE desk[t].outcome = "approved" -> {InService}
                  [] desk[t].outcome = "awaiting" ->
                       {Agent("pending_review", "awaiting", FALSE, FALSE, FALSE)}
                  [] desk[t].outcome = "adverse" ->
                       {Agent("pending_review", "unfit", FALSE, FALSE, FALSE),
                        Agent("stopped", "unfit", FALSE, FALSE, FALSE)}
  /\ contained' = FALSE
  /\ Writes(t, NoWork)
  /\ OnlyAgentChanges /\ UNCHANGED reactivated

-----------------------------------------------------------------------------
\* create_seller_agent_runtime_action_db: a warning writes back the status and
\* the availability it has read.
BeginWarning(t) ==
  /\ Exists
  /\ Takes(t, Work("warn", agent.status, IF agent.available THEN 1 ELSE 0))
  /\ UNCHANGED agentTables

WriteWarning(t) ==
  /\ desk[t].task = "warn"
  /\ agent' = [agent EXCEPT !.status = desk[t].outcome, !.runtime = "unfit",
                            !.available = desk[t].left = 1,
                            !.listed = desk[t].outcome = "active"]
  /\ Writes(t, NoWork)
  /\ OnlyAgentChanges /\ StillContained /\ UNCHANGED reactivated

\* The other runtime actions write without using what they have read.  The risk
\* event and the capacity that a runtime action goes on to ask for commit by
\* themselves, and their errors are caught: they are actions of their own below.
ThrottleAgent ==
  /\ Exists
  /\ agent' = [agent EXCEPT !.status = "stopped", !.runtime = "unfit",
                            !.available = TRUE, !.listed = FALSE]
  /\ WritesAtOnce
  /\ OnlyAgentChanges /\ UNCHANGED <<contained, reactivated>>

\* Quarantine, suspend and slash.
ContainAgent ==
  /\ Exists
  /\ agent' = [agent EXCEPT !.status = "stopped", !.runtime = "unfit",
                            !.available = FALSE, !.listed = FALSE]
  /\ contained' = ~overlapped
  /\ WritesAtOnce
  /\ OnlyAgentChanges /\ UNCHANGED reactivated

ReactivateAgent ==
  /\ Exists
  /\ agent' = [agent EXCEPT !.status = "active", !.runtime = "fit",
                            !.available = TRUE, !.listed = TRUE]
  /\ contained' = FALSE
  /\ reactivated' = (origin = "generated" /\ activation # "approved")
  /\ WritesAtOnce
  /\ OnlyAgentChanges

\* disable_seller_agent_db, for the seller, in one transaction.
DisableSellerAgent ==
  /\ Exists
  /\ agent' = [agent EXCEPT !.status = "stopped", !.available = FALSE]
  /\ contained' = ~overlapped
  /\ WritesAtOnce
  /\ OnlyAgentChanges /\ UNCHANGED reactivated

\* reconcile_unapproved_seller_capabilities_db, from the seller's dashboard.
ReconcileUnapproved ==
  /\ agent.status = "active" /\ activation # "approved"
  /\ agent' = [agent EXCEPT !.status = "pending_review", !.available = FALSE]
  /\ WritesAtOnce
  /\ OnlyAgentChanges /\ UNCHANGED <<contained, reactivated>>

-----------------------------------------------------------------------------
\* (Not the code: the loop probes every agent it knows.)
AnyStatus(row) == row.status # "none"

\* list_runtime_monitored_seller_agents_db
Monitored(row) == row.status = "active"

\* runtime_heartbeat_governance_loop lists the agents, probes one after the
\* other over the network, and records what it found.
BeginProbe(t) ==
  /\ Monitored(agent)
  /\ Decides(t, "probe", "none")
  /\ UNCHANGED agentTables

\* update_seller_agent_runtime_status_db: IAT's own runtimes always count as
\* validated and keep their status; a remote one that does not answer is
\* disabled, one that answers is active, or only unavailable when it is slow.
RuntimeOutcomes ==
  IF origin = "generated" THEN {[agent EXCEPT !.runtime = "fit", !.available = TRUE]}
  ELSE {[agent EXCEPT !.status = "stopped", !.runtime = "unfit", !.available = FALSE],
        [agent EXCEPT !.status = "active", !.runtime = "fit", !.available = TRUE],
        [agent EXCEPT !.runtime = "fit", !.available = FALSE]}

WriteProbe(t) ==
  /\ desk[t].task = "probe"
  /\ agent' \in RuntimeOutcomes
  /\ Writes(t, NoWork)
  /\ OnlyAgentChanges /\ StillContained /\ UNCHANGED reactivated

\* admin_seller_agent_runtime_status: an administrator tells the outcome, of
\* any agent.  One said to be well is put back into service.
ReportRuntimeStatus ==
  /\ Exists
  /\ agent' \in RuntimeOutcomes
  /\ contained' = (contained /\ agent'.status # "active")
  /\ WritesAtOnce
  /\ OnlyAgentChanges /\ UNCHANGED reactivated

\* recompute_seller_dynamic_agent_capacity_db selects the agents to freeze, or
\* to thaw, and updates them by their ids.
BeginCapacity(t) ==
  /\ \/ agent.status = "active" /\ Decides(t, "freeze", "none")
     \/ agent.status = "capacity_frozen" /\ Decides(t, "thaw", "none")
  /\ UNCHANGED agentTables

WriteFreeze(t) ==
  /\ desk[t].task = "freeze"
  /\ agent' = [agent EXCEPT !.status = "capacity_frozen", !.available = FALSE,
                            !.listed = FALSE]
  /\ Writes(t, NoWork)
  /\ OnlyAgentChanges /\ StillContained /\ UNCHANGED reactivated

WriteThaw(t) ==
  /\ desk[t].task = "thaw"
  /\ agent' = [agent EXCEPT !.status = "active", !.available = TRUE,
                            !.listed = TRUE, !.verified = TRUE]
  /\ Writes(t, NoWork)
  /\ OnlyAgentChanges /\ StillContained /\ UNCHANGED reactivated

-----------------------------------------------------------------------------
\* approve_seller_db writes the seller's standing into all its agents.
ApproveSeller ==
  /\ sellerActive' = TRUE
  /\ agent' = IF Exists THEN [agent EXCEPT !.listed = TRUE, !.verified = TRUE] ELSE agent
  /\ WritesAtOnce
  /\ UNCHANGED <<origin, activation, contained, reactivated>>

\* admin_activate_seller_runtime_parent
ActivateParent ==
  /\ Exists
  /\ sellerActive' = TRUE
  /\ agent' = [agent EXCEPT !.available = TRUE, !.listed = TRUE, !.verified = TRUE]
  /\ WritesAtOnce
  /\ UNCHANGED <<origin, activation, contained, reactivated>>

\* reject_seller_db leaves the status of its agents as it is.
RejectSeller ==
  /\ sellerActive' = FALSE
  /\ agent' = IF Exists THEN [agent EXCEPT !.available = FALSE, !.listed = FALSE,
                                           !.verified = FALSE] ELSE agent
  /\ WritesAtOnce
  /\ UNCHANGED <<origin, activation, contained, reactivated>>

\* update_seller_status_governed_db: a seller that is restricted, contained,
\* rejected or banned has its agents disabled; the other statuses are written
\* into its own row only.  (A seller that is not active is one case here,
\* although not every such status leads back to active.)
GovernSeller ==
  /\ \/ sellerActive' \in BOOLEAN /\ UNCHANGED <<agent, contained>>
     \/ /\ sellerActive' = FALSE
        /\ agent' = IF Exists THEN [agent EXCEPT !.status = "stopped",
                                     !.available = FALSE, !.listed = FALSE] ELSE agent
        /\ contained' = (Exists /\ ~overlapped)
  /\ WritesAtOnce
  /\ UNCHANGED <<origin, activation, reactivated>>

\* The writers of its agents row that leave seller_agents alone:
\* reactivate_agent_db, for staff; update_agent_reputation_db, after a failed
\* order, which makes the agent available unless it has failed too often;
\* unstaking; and the endpoints that read the row whole and write it back with
\* what they decide of it (register_agent_db).
WriteRegistry ==
  /\ Exists
  /\ \E available, listed, verified \in BOOLEAN :
       agent' = [agent EXCEPT !.available = available, !.listed = listed, !.verified = verified]
  /\ WritesAtOnce
  /\ OnlyAgentChanges /\ UNCHANGED <<contained, reactivated>>

\* apply_seller_risk_event_db: below every threshold the exposure control makes
\* all agents of an active seller available; above one the seller loses its
\* standing, and an agent in excess is limited.
ApplySellerRisk ==
  /\ \/ /\ UNCHANGED sellerActive
        /\ agent' = IF Exists THEN [agent EXCEPT !.available = sellerActive,
                                                 !.listed = sellerActive] ELSE agent
     \/ /\ sellerActive' = FALSE
        /\ agent' \in
             (IF Exists THEN {[agent EXCEPT !.available = FALSE, !.listed = FALSE]}
              ELSE {agent})
             \cup (IF agent.status = "active"
                   THEN {[agent EXCEPT !.status = "stopped", !.available = FALSE,
                                       !.listed = FALSE]}
                   ELSE {})
  /\ WritesAtOnce
  /\ UNCHANGED <<origin, activation, contained, reactivated>>

AgentCallDies(t) ==
  /\ t \in Busy /\ Fault
  /\ Leaves(t)
  /\ UNCHANGED agentTables

AgentsNext ==
  \/ GenerateAgentRow \/ RegisterAgentRow
  \/ ApproveActivation \/ ManuallyActivate
  \/ ThrottleAgent \/ ContainAgent \/ ReactivateAgent
  \/ DisableSellerAgent \/ ReconcileUnapproved
  \/ ReportRuntimeStatus \/ WriteRegistry
  \/ ApproveSeller \/ ActivateParent \/ RejectSeller \/ GovernSeller \/ ApplySellerRisk
  \/ \E t \in Staff :
       \/ BeginCapabilityReview(t) \/ ApproveCapability(t) \/ Activate(t)
       \/ BeginActivationReview(t) \/ WriteActivationReview(t)
       \/ BeginWarning(t) \/ WriteWarning(t)
       \/ BeginProbe(t) \/ WriteProbe(t)
       \/ BeginCapacity(t) \/ WriteFreeze(t) \/ WriteThaw(t)
       \/ AgentCallDies(t)

AgentsSpec == AgentsInit /\ [][AgentsNext]_agentVars

-----------------------------------------------------------------------------
Listed == agent.listed /\ agent.verified /\ sellerActive

\* get_available_seller_execution_agents_db: an agent with test metadata need
\* be neither active, nor fit, nor available.
Routed ==
  /\ Listed
  /\ origin # "test" => agent.status = "active" /\ agent.runtime = "fit" /\ agent.available

\* list_verified_marketplace_candidates_db, for the checkout, of agents whose
\* catalog it may offer: the metadata do not matter.
Offered ==
  Listed /\ agent.status = "active" /\ agent.runtime = "fit" /\ agent.available

\* Buyers are routed to a generated agent only after its activation was
\* approved, or staff reactivated it; and never to an agent that staff has
\* quarantined, suspended or slashed, or its seller has disabled, or that was
\* disabled with its seller, until it is activated, reactivated, judged anew or
\* reported well by an administrator: not by probes, risk events, capacity,
\* failed orders or the seller's own approval, unless a call wrote over what it
\* had not read.  An agent registered with test metadata is excepted where the
\* router excepts it, but the checkout does not offer it either.
RoutedIsTrusted ==
  /\ Routed => /\ origin = "generated" => activation = "approved" \/ reactivated
               /\ contained => origin = "test"
  /\ Offered => ~contained
=============================================================================
