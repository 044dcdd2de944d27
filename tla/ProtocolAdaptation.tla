------------------------- MODULE ProtocolAdaptation -------------------------
(***************************************************************************)
(* How the protocol adapts the exposure of a seller (iat/api/db.py): an    *)
(* adaptation is proposed, reviewed, approved or rejected and applied,     *)
(* which raises the order limit of the seller's agents and stores a        *)
(* snapshot to restore; a monitor watches it and proposes its rollback.    *)
(* Modelled for one adaptation of one seller, and one monitor.             *)
(*                                                                         *)
(* Every call checks what it has read and writes without looking again.    *)
(* Scores, metrics and the fields an adaptation may not name are left out: *)
(* an adaptation that fails such a check never goes on.                    *)
(***************************************************************************)
EXTENDS StaffCalls

VARIABLES
  adaptation,    \* protocol_adaptations.status, "none" before it is stored
  reviews,       \* what protocol_adaptation_reviews evaluate to
  undoReviews,   \* what protocol_rollback_reviews evaluate to
  raises,        \* the raises that agents.max_order_value holds
  snapshots,     \* protocol_rollbacks, all available: the raises to restore
  unsaved,       \* an application has ended before it stored its snapshot
  endorsed,      \* the adaptation was approved by a call that read it reviewed
  open,          \* a rollback has left its transaction open
  monitor,       \* protocol_adaptation_monitors.status
  proposals      \* the rollbacks that the monitoring cycle has proposed

adaptationTables == <<adaptation, reviews, undoReviews, raises, snapshots, unsaved,
                      endorsed, open, monitor, proposals>>

adaptationVars == <<adaptationTables, callVars, faults>>

AdaptationInit ==
  /\ adaptation = "none"
  /\ reviews = "unmet" /\ undoReviews = "unmet"
  /\ raises = 0 /\ snapshots = {}
  /\ unsaved = FALSE /\ endorsed = FALSE /\ open = FALSE
  /\ monitor = "none" /\ proposals = 0
  /\ CallsInit
  /\ faults = 0

Evaluated == {"unmet", "ready", "vetoed"}
UndoEvaluated == {"unmet", "ready", "vetoed"}
MonitorStatuses == {"active", "warning", "degradation_detected"}

AdaptationTypeOK ==
  /\ adaptation \in {"none", "proposed", "approved", "rejected", "applied"}
  /\ reviews \in Evaluated /\ undoReviews \in UndoEvaluated
  /\ raises \in Nat /\ snapshots \subseteq Nat
  /\ {unsaved, endorsed, open, overlapped} \subseteq BOOLEAN
  /\ monitor \in {"none"} \cup MonitorStatuses
  /\ proposals \in Nat
  /\ desk \in [Staff ->
       [task : {"none", "approve", "reject", "apply", "raise", "snapshot", "cycle",
                "check", "propose"},
        outcome : {"none"} \cup MonitorStatuses, left : Nat]]
  /\ outdated \subseteq Staff
  /\ faults \in 0 .. MaxFaults

-----------------------------------------------------------------------------
\* store_protocol_adaptation_db
ProposeAdaptation ==
  /\ adaptation = "none"
  /\ adaptation' = "proposed"
  /\ UNCHANGED <<reviews, undoReviews, raises, snapshots, unsaved, endorsed, open,
                 monitor, proposals, callVars, faults>>

\* store_protocol_*_review_db: two approving reviews with good averages make it
\* ready, scores may move the averages either way, and one that rejects or asks
\* for evidence vetoes it for good (of the first hundred).
StoreAdaptationReview ==
  /\ adaptation # "none" /\ reviews # "vetoed"
  /\ reviews' \in Evaluated \ {reviews}
  /\ UNCHANGED <<adaptation, undoReviews, raises, snapshots, unsaved, endorsed, open,
                 monitor, proposals, callVars, faults>>

StoreRollbackReview ==
  /\ snapshots # {} /\ undoReviews # "vetoed"
  /\ undoReviews' \in UndoEvaluated \ {undoReviews}
  /\ UNCHANGED <<adaptation, reviews, raises, snapshots, unsaved, endorsed, open,
                 monitor, proposals, callVars, faults>>

-----------------------------------------------------------------------------
\* (Not the code: the reviews are not asked for.)
UnreviewedApproval == adaptation = "proposed"

\* approve_protocol_adaptation_db
Approvable == adaptation = "proposed" /\ reviews = "ready"

BeginAdaptationApproval(t) ==
  /\ Approvable
  /\ Decides(t, "approve", "none")
  /\ endorsed' = (endorsed \/ reviews = "ready")
  /\ UNCHANGED <<adaptation, reviews, undoReviews, raises, snapshots, unsaved, open,
                 monitor, proposals>>

\* reject_protocol_adaptation_db
BeginAdaptationRejection(t) ==
  /\ adaptation \in {"proposed", "approved"}
  /\ Decides(t, "reject", "none")
  /\ UNCHANGED adaptationTables

WriteAdaptationDecision(t, task, status) ==
  /\ desk[t].task = task
  /\ ~open
  /\ adaptation' = status
  /\ Writes(t, NoWork)
  /\ UNCHANGED <<reviews, undoReviews, raises, snapshots, unsaved, endorsed, open,
                 monitor, proposals>>

-----------------------------------------------------------------------------
\* apply_protocol_adaptation_db: it reads the adaptation and, later, the limits
\* of the agents; it writes both in one transaction, and the snapshot in
\* another.  Reviews are not looked at again.
BeginApplication(t) ==
  /\ adaptation = "approved"
  /\ Decides(t, "apply", "none")
  /\ UNCHANGED adaptationTables

ReadLimits(t) ==
  /\ desk[t].task = "apply"
  /\ desk' = [desk EXCEPT ![t] = Work("raise", "none", raises)]
  /\ UNCHANGED <<adaptationTables, outdated, overlapped, faults>>

Apply(t) ==
  /\ desk[t].task = "raise"
  /\ ~open
  /\ raises' = desk[t].left + 1
  /\ adaptation' = "applied"
  /\ Writes(t, Work("snapshot", "none", desk[t].left))
  /\ UNCHANGED <<reviews, undoReviews, snapshots, unsaved, endorsed, open, monitor,
                 proposals>>

\* store_protocol_rollback_db
StoreRollback(t) ==
  /\ desk[t].task = "snapshot"
  /\ snapshots' = snapshots \cup {desk[t].left}
  /\ Leaves(t)
  /\ UNCHANGED <<adaptation, reviews, undoReviews, raises, unsaved, endorsed, open,
                 monitor, proposals, faults>>

\* rollback_protocol_adaptation_db restores the limits and sets the statuses,
\* but neither commits nor releases its connection, and answers that it was
\* executed.  On PostgreSQL the pool keeps the transaction open, and with it the
\* locks of the rows; on SQLite the connection is closed with the changes lost.
RollBack ==
  /\ snapshots # {} /\ undoReviews = "ready"
  /\ ~open
  /\ open' \in BOOLEAN
  /\ UNCHANGED <<adaptation, reviews, undoReviews, raises, snapshots, unsaved,
                 endorsed, monitor, proposals, callVars, faults>>

\* apply_seller_dynamic_exposure_control_with_cursor, and the registration of an
\* agent: the limit is computed anew.
ControlExposure ==
  /\ ~open
  /\ raises' = 0
  /\ WritesAtOnce
  /\ UNCHANGED <<adaptation, reviews, undoReviews, snapshots, unsaved, endorsed, open,
                 monitor, proposals>>

-----------------------------------------------------------------------------
\* store_protocol_adaptation_monitor_db
StartMonitor ==
  /\ monitor = "none"
  /\ monitor' = "active"
  /\ UNCHANGED <<adaptation, reviews, undoReviews, raises, snapshots, unsaved, endorsed,
                 open, proposals, callVars, faults>>

\* evaluate_protocol_adaptation_monitor_db, for a value that is reported.
EvaluateMonitor ==
  /\ monitor # "none"
  /\ monitor' \in MonitorStatuses \ {monitor}
  /\ UNCHANGED <<adaptation, reviews, undoReviews, raises, snapshots, unsaved, endorsed,
                 open, proposals, callVars, faults>>

\* run_protocol_adaptation_monitoring_cycle_db lists the monitors, evaluates
\* each by the value it has listed, which is written back, and proposes the
\* rollback of a degraded one unless one is proposed.
BeginCycle(t) ==
  /\ monitor # "none"
  /\ Decides(t, "cycle", monitor)
  /\ UNCHANGED adaptationTables

CycleGoesOn(t, task) ==
  /\ desk' = [desk EXCEPT ![t] = Work(task, "none", 0)]
  /\ UNCHANGED <<outdated, overlapped>>

EvaluateInCycle(t) ==
  /\ desk[t].task = "cycle"
  /\ monitor' = desk[t].outcome
  /\ IF monitor' = "degradation_detected" THEN CycleGoesOn(t, "check") ELSE Leaves(t)
  /\ UNCHANGED <<adaptation, reviews, undoReviews, raises, snapshots, unsaved, endorsed,
                 open, proposals, faults>>

CheckProposals(t) ==
  /\ desk[t].task = "check"
  /\ IF proposals = 0 THEN CycleGoesOn(t, "propose") ELSE Leaves(t)
  /\ UNCHANGED <<adaptationTables, faults>>

StoreProposal(t) ==
  /\ desk[t].task = "propose"
  /\ proposals' = proposals + 1
  /\ Leaves(t)
  /\ UNCHANGED <<adaptation, reviews, undoReviews, raises, snapshots, unsaved, endorsed,
                 open, monitor, faults>>

-----------------------------------------------------------------------------
\* A call dies between its transactions, or storing the snapshot fails, which is
\* caught.
AdaptationCallDies(t) ==
  /\ t \in Busy /\ Fault
  /\ unsaved' = (unsaved \/ desk[t].task = "snapshot")
  /\ Leaves(t)
  /\ UNCHANGED <<adaptation, reviews, undoReviews, raises, snapshots, endorsed, open,
                 monitor, proposals>>

\* The server starts again; calls that wait for the rows of a transaction that
\* was left open end with it.
RestartServer ==
  /\ Fault
  /\ unsaved' = (unsaved \/ \E t \in Staff : desk[t].task = "snapshot")
  /\ desk' = [t \in Staff |-> NoWork]
  /\ outdated' = {}
  /\ open' = FALSE
  /\ UNCHANGED <<adaptation, reviews, undoReviews, raises, snapshots, endorsed, monitor,
                 proposals, overlapped>>

AdaptationNext ==
  \/ ProposeAdaptation \/ StoreAdaptationReview \/ StoreRollbackReview
  \/ RollBack \/ ControlExposure \/ StartMonitor \/ EvaluateMonitor \/ RestartServer
  \/ \E t \in Staff :
       \/ BeginAdaptationApproval(t) \/ WriteAdaptationDecision(t, "approve", "approved")
       \/ BeginAdaptationRejection(t) \/ WriteAdaptationDecision(t, "reject", "rejected")
       \/ BeginApplication(t) \/ ReadLimits(t) \/ Apply(t) \/ StoreRollback(t)
       \/ BeginCycle(t) \/ EvaluateInCycle(t) \/ CheckProposals(t) \/ StoreProposal(t)
       \/ AdaptationCallDies(t)

AdaptationSpec == AdaptationInit /\ [][AdaptationNext]_adaptationVars

-----------------------------------------------------------------------------
\* The snapshot of the limit before its raise is stored, is about to be, or was
\* lost with its call.
Restorable ==
  \/ 0 \in snapshots
  \/ \E t \in Staff : desk[t] = Work("snapshot", "none", 0)
  \/ unsaved

\* apply_protocol_adaptation_db: the limits of a seller are above what risk
\* allows only for an adaptation that was approved on its reviews; and as long
\* as no call wrote over what another had read, they are raised once, by an
\* adaptation that counts as applied (a rejected one never), and can be
\* restored.  Without concurrent calls and deaths the cycle proposes one
\* rollback however often it runs.
ExposureIsGoverned ==
  /\ raises > 0 =>
       /\ endorsed
       /\ overlapped \/ (raises = 1 /\ adaptation = "applied" /\ Restorable)
  /\ faults = 0 => proposals <= 1
=============================================================================
