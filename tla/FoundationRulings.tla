------------------------- MODULE FoundationRulings -------------------------
(***************************************************************************)
(* What waits for the foundation, and what its decisions rest on           *)
(* (iat/api/db.py).  The decisions that market intelligence proposes wait  *)
(* in a queue until they are approved, rejected or expire.  The supplier   *)
(* pipeline of an order has an agent of a seller execute it, in a session, *)
(* and verifies the result; or the order is a task for the connector of    *)
(* the seller, whose answer becomes a session.  The decision about the     *)
(* order counts the verified sessions.  Each has a next-state relation;    *)
(* modelled for the decisions about a few targets and for one order.       *)
(*                                                                         *)
(* The checks of a result and the scores of a decision are left out: a     *)
(* verification may end in any way.                                        *)
(***************************************************************************)
EXTENDS StaffCalls, FiniteSets

CONSTANTS
  Targets,       \* services that decisions are about
  Rulings,       \* bound: rows of foundation_decision_queue
  Sessions       \* bound: seller_agent_execution_sessions of the order

ASSUME RulingsAssumption == IsFiniteSet(Staff) /\ IsFiniteSet(Sessions)

VARIABLES
  queue,         \* foundation_decision_queue
  overdue,       \* decisions past expires_at
  slipped,       \* those that got there while a review was about to write
  session,       \* execution_status of each session
  supplier,      \* the kind of call that has stored each
  connectorTask, \* status of the order's seller_connector_tasks row; the statuses
                 \* verification_* are merged into closed
  repeated,      \* a verification of the task has begun while the session of an
                 \* earlier one was verified, and the task not marked
  topic,         \* what each call is about
  counted        \* what the last decision made of the contributions

queueTables == <<queue, overdue, slipped>>

supplyTables == <<session, supplier, connectorTask, repeated, counted>>

rulingVars == <<queueTables, supplyTables, topic, callVars, faults>>

Entry(status, target) == [status |-> status, targets |-> target]

NoEntry == Entry("none", {})

RulingsInit ==
  /\ queue = [d \in Rulings |-> NoEntry]
  /\ overdue = {} /\ slipped = {}
  /\ session = [x \in Sessions |-> "none"]
  /\ supplier = [x \in Sessions |-> "none"]
  /\ connectorTask = "none" /\ repeated = FALSE
  /\ topic = [t \in Staff |-> {}]
  /\ counted = "none"
  /\ CallsInit
  /\ faults = 0

Reviews == {"approved", "rejected", "expired"}

\* Calls about to store a session: of the pipeline, for staff, of the connector.
Starts == {"execute", "instruct", "connect"}

RulingsTypeOK ==
  /\ queue \in [Rulings -> [status : {"none", "pending"} \cup Reviews,
                            targets : SUBSET Targets]]
  /\ slipped \subseteq overdue /\ overdue \subseteq Rulings
  /\ session \in [Sessions -> {"none", "executing", "completed", "failed", "verified",
                               "manual_review", "rejected"}]
  /\ supplier \in [Sessions -> {"none"} \cup Starts]
  /\ connectorTask \in {"none", "queued", "leased", "completed", "closed"}
  /\ \A t \in Staff :
       /\ topic[t] \subseteq Targets \cup Rulings \cup Sessions
       /\ desk[t].task \in {"none", "enqueue", "review", "run", "verify", "check", "close"}
                          \cup Starts
       /\ desk[t].outcome \in {"none", "rejected", "expired", "approved"}
  /\ {repeated, overlapped} \subseteq BOOLEAN
  /\ counted \in {"none", "single", "divided", "agreed"}
  /\ outdated \subseteq Staff
  /\ faults \in 0 .. MaxFaults

-----------------------------------------------------------------------------
Pending(d) == queue[d].status = "pending"

\* enqueue_foundation_decision_db: a target that has no pending decision
BeginEnqueue(t) ==
  /\ \E g \in Targets :
       /\ \A d \in Rulings : Pending(d) => queue[d].targets # {g}
       /\ topic' = [topic EXCEPT ![t] = {g}]
  /\ Decides(t, "enqueue", "none")
  /\ UNCHANGED <<queueTables, supplyTables>>

\* gets one, whatever has been inserted since.
EnqueueDecision(t) ==
  /\ desk[t].task = "enqueue"
  /\ LET unused == {d \in Rulings : queue[d] = NoEntry} IN
       /\ unused # {}
       /\ queue' = [queue EXCEPT ![CHOOSE d \in unused : TRUE] = Entry("pending", topic[t])]
  /\ topic' = [topic EXCEPT ![t] = {}]
  /\ Writes(t, NoWork)
  /\ UNCHANGED <<overdue, slipped, supplyTables>>

Overdue(d) ==
  /\ Pending(d) /\ d \notin overdue
  /\ overdue' = overdue \cup {d}
  /\ slipped' = IF \E t \in Staff : topic[t] = {d} THEN slipped \cup {d} ELSE slipped
  /\ UNCHANGED <<queue, supplyTables, topic, callVars, faults>>

\* review_foundation_decision_db: a decision that is pending; past its time it
\* expires, whatever the review says.
BeginReview(t) ==
  /\ \E d \in Rulings, verdict \in Reviews :
       /\ Pending(d)
       /\ topic' = [topic EXCEPT ![t] = {d}]
       /\ Decides(t, "review", IF d \in overdue THEN "expired" ELSE verdict)
  /\ UNCHANGED <<queueTables, supplyTables>>

\* (Not the code: the row is written whatever it has become.)
ReviewAnyway(t) ==
  /\ desk[t].task = "review"
  /\ \E d \in topic[t] : queue' = [queue EXCEPT ![d].status = desk[t].outcome]
  /\ topic' = [topic EXCEPT ![t] = {}]
  /\ Writes(t, NoWork)
  /\ UNCHANGED <<overdue, slipped, supplyTables>>

\* An update that asks again what the call has read cannot be about an outdated
\* row: the call leaves, and outdates the others.
Rewrites(t) ==
  /\ desk' = [desk EXCEPT ![t] = NoWork]
  /\ outdated' = IF overlapped THEN {} ELSE (outdated \cup Busy) \ {t}
  /\ UNCHANGED overlapped

\* The decision has to be pending still.
Review(t) ==
  /\ desk[t].task = "review"
  /\ \E d \in topic[t] :
       IF Pending(d)
       THEN /\ queue' = [queue EXCEPT ![d].status = desk[t].outcome]
            /\ Rewrites(t)
       ELSE /\ Leaves(t)
            /\ UNCHANGED queue
  /\ topic' = [topic EXCEPT ![t] = {}]
  /\ UNCHANGED <<overdue, slipped, supplyTables, faults>>

QueueNext ==
  \/ \E t \in Staff : BeginEnqueue(t) \/ EnqueueDecision(t) \/ BeginReview(t) \/ Review(t)
  \/ \E d \in Rulings : Overdue(d)

-----------------------------------------------------------------------------
VerifiedSessions == {x \in Sessions : session[x] = "verified"}

ContributionsOf(kind) == {x \in VerifiedSessions : supplier[x] = kind}

UnusedSessions == {x \in Sessions : session[x] = "none"}

\* (Bound: the calls that are at work have a session each.)
MayBegin == Cardinality(UnusedSessions) > Cardinality({t \in Staff : desk[t].task \in Starts})

\* run_foundation_supplier_pipeline: a session that was verified is used again.
BeginSupply(t) ==
  /\ MayBegin
  /\ VerifiedSessions = {}
  /\ Decides(t, "execute", "none")
  /\ UNCHANGED <<queueTables, supplyTables, topic>>

\* internal_seller_agent_execute does not look for one.
InstructSupply(t) ==
  /\ MayBegin
  /\ Decides(t, "instruct", "none")
  /\ UNCHANGED <<queueTables, supplyTables, topic>>

\* create_seller_agent_execution_session_db
NewSession(t, status, next) ==
  /\ LET x == CHOOSE x \in UnusedSessions : TRUE IN
       /\ session' = [session EXCEPT ![x] = status]
       /\ supplier' = [supplier EXCEPT ![x] = desk[t].task]
       /\ topic' = [topic EXCEPT ![t] = {x}]
  /\ desk' = [desk EXCEPT ![t].task = next]
  /\ UNCHANGED <<queueTables, connectorTask, repeated, counted, outdated, overlapped, faults>>

EndSession(t, status) ==
  session' = [x \in Sessions |-> IF x \in topic[t] THEN status ELSE session[x]]

\* run_foundation_controlled_seller_execution_db stores the session
StartSession(t) ==
  /\ desk[t].task \in {"execute", "instruct"}
  /\ NewSession(t, "executing", "run")

\* until its agent has answered,
CompleteSession(t) ==
  /\ desk[t].task = "run"
  /\ EndSession(t, "completed")
  /\ desk' = [desk EXCEPT ![t].task = "verify"]
  /\ UNCHANGED <<queueTables, supplier, connectorTask, repeated, counted, topic, outdated,
                 overlapped, faults>>

\* or has not, or what is recorded of the answer could not be.
FailSession(t) ==
  /\ desk[t].task \in {"run", "verify"}
  /\ EndSession(t, "failed")
  /\ Leaves(t)
  /\ topic' = [topic EXCEPT ![t] = {}]
  /\ UNCHANGED <<queueTables, supplier, connectorTask, repeated, counted, faults>>

\* Nothing looks for a session whose process has died.
SupplyDies(t) ==
  /\ desk[t].task \in {"run", "verify", "check", "close"}
  /\ Fault
  /\ Leaves(t)
  /\ topic' = [topic EXCEPT ![t] = {}]
  /\ UNCHANGED <<queueTables, supplyTables>>

\* verify_seller_execution_result_db, for the session that the call has stored:
\* of an execution
VerifySession(t) ==
  /\ desk[t].task = "verify"
  /\ \E result \in {"verified", "manual_review", "rejected"} :
       /\ EndSession(t, result)
       /\ IF result = "verified"
          THEN Writes(t, NoWork)
          ELSE Leaves(t) /\ UNCHANGED faults
  /\ topic' = [topic EXCEPT ![t] = {}]
  /\ UNCHANGED <<queueTables, supplier, connectorTask, repeated, counted>>

\* or of the connector's answer, with its task still to be marked.
VerifyContribution(t) ==
  /\ desk[t].task = "check"
  /\ \E result \in {"verified", "manual_review", "rejected"} :
       /\ EndSession(t, result)
       /\ IF result = "verified"
          THEN Writes(t, Work("close", "none", 0))
          ELSE /\ desk' = [desk EXCEPT ![t].task = "close"]
               /\ UNCHANGED <<outdated, overlapped, faults>>
  /\ topic' = [topic EXCEPT ![t] = {}]
  /\ UNCHANGED <<queueTables, supplier, connectorTask, repeated, counted>>

-----------------------------------------------------------------------------
TaskBecomes(before, after) ==
  /\ connectorTask \in before
  /\ connectorTask' = after
  /\ UNCHANGED <<queueTables, session, supplier, repeated, counted, topic, callVars, faults>>

\* enqueue_seller_connector_task_db: once for an order.
QueueForConnector == TaskBecomes({"none"}, "queued")

\* claim_seller_connector_task_db, by the connector or the worker that hosts it;
\* a task whose lease has ended is queued again,
ConnectorClaims == TaskBecomes({"queued"}, "leased")

ConnectorExpires == TaskBecomes({"leased"}, "queued")

\* and its answer is no longer taken (complete_seller_connector_task_db).
ConnectorAnswers == TaskBecomes({"leased"}, "completed")

\* (Not the code: a task is verified again after it was marked.)
OnceAnswered == connectorTask \in {"completed", "closed"}

\* verify_completed_seller_connector_task_db, when the task is completed and
\* whenever its completion is sent again: a task that is marked is only told.
Answered == connectorTask = "completed"

\* It does not look for a session that was stored of the same answer.
BeginVerification(t) ==
  /\ MayBegin
  /\ Answered
  /\ repeated' = (repeated \/ (connectorTask = "completed" /\ ContributionsOf("connect") # {}))
  /\ Decides(t, "connect", "none")
  /\ UNCHANGED <<queueTables, session, supplier, connectorTask, counted, topic>>

StoreContribution(t) ==
  /\ desk[t].task = "connect"
  /\ NewSession(t, "completed", "check")

\* The task is marked in a transaction of its own, unless another call has.
MarkTask(t) ==
  /\ desk[t].task = "close"
  /\ connectorTask' = "closed"
  /\ IF connectorTask = "completed" THEN Rewrites(t) ELSE Leaves(t)
  /\ topic' = [topic EXCEPT ![t] = {}]
  /\ UNCHANGED <<queueTables, session, supplier, repeated, counted, faults>>

-----------------------------------------------------------------------------
\* build_foundation_decision_context_db, compute_consensus: two contributions may
\* agree, be they of one agent.
SupportOf(verified) ==
  CASE verified = {} -> {"none"}
    [] Cardinality(verified) = 1 -> {"single"}
    [] OTHER -> {"divided", "agreed"}

CountContributions ==
  /\ \E support \in SupportOf(VerifiedSessions) : counted' = support
  /\ UNCHANGED <<queueTables, session, supplier, connectorTask, repeated, topic, callVars, faults>>

SupplyNext ==
  \/ \E t \in Staff :
       \/ BeginSupply(t) \/ InstructSupply(t) \/ StartSession(t) \/ CompleteSession(t)
       \/ FailSession(t) \/ SupplyDies(t) \/ VerifySession(t)
       \/ BeginVerification(t) \/ StoreContribution(t) \/ VerifyContribution(t) \/ MarkTask(t)
  \/ QueueForConnector \/ ConnectorClaims \/ ConnectorExpires \/ ConnectorAnswers
  \/ CountContributions

RulingsSpec == RulingsInit /\ [][QueueNext \/ SupplyNext]_rulingVars

-----------------------------------------------------------------------------
\* enqueue_foundation_decision_db: a target has one pending decision, unless two
\* calls have looked for it at once.
PendingIsSingle ==
  ~overlapped =>
    \A d, e \in Rulings :
      Pending(d) /\ Pending(e) /\ queue[d].targets = queue[e].targets => d = e

\* review_foundation_decision_db: whatever calls are at work, a decision that was
\* reviewed stays as it was reviewed, and none is approved or rejected past its
\* time, except that its time has come after the review has read it.
RulingStays ==
  \A d \in Rulings :
    queue'[d] # queue[d] =>
      /\ queue[d].status \in {"none", "pending"}
      /\ queue'[d].status \in {"approved", "rejected"} => d \notin overdue \ slipped

\* run_foundation_supplier_pipeline, verify_completed_seller_connector_task_db:
\* the pipeline contributes once to an order, and its connector once, unless two
\* calls have looked at once, or a verification of the connector's task began
\* between the two transactions of an earlier one; so contributions that are
\* weighed against each other are not all of the pipeline.
AreOne(contributions) == \A x, y \in contributions : x = y

SuppliedOnce ==
  ~overlapped =>
    /\ AreOne(ContributionsOf("execute"))
    /\ repeated \/ AreOne(ContributionsOf("connect"))
    /\ counted \in {"divided", "agreed"} => \E x \in VerifiedSessions : supplier[x] # "execute"

\* And a verified contribution stays one.
VerifiedStays == VerifiedSessions \subseteq VerifiedSessions'

FoundationIsConsistent ==
  [](PendingIsSingle /\ SuppliedOnce) /\ [][RulingStays /\ VerifiedStays]_rulingVars
=============================================================================
