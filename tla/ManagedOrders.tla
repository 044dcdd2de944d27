--------------------------- MODULE ManagedOrders ---------------------------
(***************************************************************************)
(* Orders that buyers pay directly (iat/api/agent_b_api.py and db.py): a   *)
(* call verifies the payment and executes the order, or queues it for the  *)
(* seller's connector, whose result is verified and waits for the          *)
(* Foundation, and a later call finalizes it.                              *)
(*                                                                         *)
(* Every call reads the order when it begins and writes it by its number   *)
(* alone.  A transaction is described by the orders whose check of sender, *)
(* receiver, amount, time and memo it passes: without a memo it passes for *)
(* every order of that price.  What execution returns is a free choice.    *)
(***************************************************************************)
EXTENDS StaffCalls, FiniteSets

CONSTANTS
  DirectOrders,       \* orders at one price
  ConnectedOrders,    \* those whose seller has an active connector
  NoOrder,
  DirectPayments,     \* transactions of the buyer
  NoPayment

ASSUME DirectAssumption ==
  NoOrder \notin DirectOrders /\ NoPayment \notin DirectPayments /\ IsFiniteSet(DirectPayments)

VARIABLES
  direct,        \* orders: status, tx_signature, used
  passes,        \* transactions on the chain: the orders they may pay
  claimedFor,    \* processed_txs: the order its claimant works on
  banned,        \* buyers.banned
  connector,     \* seller_connector_tasks.status, "late" when the lease is over
  allocated,     \* orders that have a settlement
  subject,       \* the order and the payment that each call is about
  unserved,      \* payments whose call answered an error
  interrupted    \* orders one of whose calls died

directTables == <<direct, passes, claimedFor, banned, connector, allocated, subject,
                  unserved, interrupted>>

directVars == <<directTables, callVars, faults>>

NoSubject == [order |-> NoOrder, payment |-> NoPayment]

DirectInit ==
  /\ direct = [o \in DirectOrders |->
                 [status |-> "none", payment |-> NoPayment, used |-> FALSE]]
  /\ passes = [x \in DirectPayments |-> {}]
  /\ claimedFor = [x \in DirectPayments |-> NoOrder]
  /\ banned = FALSE
  /\ connector = [o \in DirectOrders |-> "none"]
  /\ allocated = {}
  /\ subject = [t \in Staff |-> NoSubject]
  /\ unserved = {} /\ interrupted = {}
  /\ CallsInit
  /\ faults = 0

Verdicts == {"approved", "rejected", "manual", "error"}
Results == {"authorized", "unauthorized", "review", "blocked", "failed"}

DirectTypeOK ==
  /\ direct \in [DirectOrders ->
       [status : {"none", "created", "pending", "review", "blocked", "manual", "delivered"},
        payment : DirectPayments \cup {NoPayment}, used : BOOLEAN]]
  /\ passes \in [DirectPayments -> SUBSET DirectOrders]
  /\ claimedFor \in [DirectPayments -> DirectOrders \cup {NoOrder}]
  /\ {banned, overlapped} \subseteq BOOLEAN
  /\ connector \in [DirectOrders ->
                      {"none", "queued", "leased", "late", "completed"} \cup Verdicts]
  /\ allocated \subseteq DirectOrders
  /\ subject \in [Staff -> [order : DirectOrders \cup {NoOrder},
                            payment : DirectPayments \cup {NoPayment}]]
  /\ unserved \subseteq DirectPayments /\ interrupted \subseteq DirectOrders
  /\ desk \in [Staff ->
       [task : {"none", "claim", "execute", "pend", "call", "record", "settle", "finalize",
                "authorize", "close", "publish"},
        outcome : {"none", "direct", "multicall"} \cup Results \cup Verdicts, left : {0}]]
  /\ outdated \subseteq Staff
  /\ faults \in 0 .. MaxFaults

-----------------------------------------------------------------------------
\* The calls of one order.
About(t) == direct[subject[t].order]

Serves(t, o, x, task, outcome) ==
  /\ Decides(t, task, outcome)
  /\ subject' = [subject EXCEPT ![t] = [order |-> o, payment |-> x]]

Proceeds(t, task, outcome) ==
  /\ desk' = [desk EXCEPT ![t] = Work(task, outcome, 0)]
  /\ UNCHANGED <<outdated, overlapped, faults, subject>>

Answers(t) ==
  /\ Leaves(t)
  /\ subject' = [subject EXCEPT ![t] = NoSubject]

\* A call writes its order, and goes on or ends.
WritesOrder(t, order, next) ==
  /\ direct' = [direct EXCEPT ![subject[t].order] = order]
  /\ desk' = [desk EXCEPT ![t] = next]
  /\ subject' = [subject EXCEPT ![t] = IF next = NoWork THEN NoSubject ELSE @]
  /\ overlapped' = (overlapped \/ t \in outdated)
  /\ outdated' = (outdated \ IF next = NoWork THEN {t} ELSE {})
                   \cup {u \in Busy \ {t} : subject[u].order = subject[t].order}
  /\ UNCHANGED faults

-----------------------------------------------------------------------------
\* create_order_agent
CreateOrder(o) ==
  /\ direct[o].status = "none"
  /\ ~banned
  /\ direct' = [direct EXCEPT ![o].status = "created"]
  /\ UNCHANGED <<passes, claimedFor, banned, connector, allocated, subject, unserved,
                 interrupted, callVars, faults>>

\* The buyer pays one order, with its memo, or any.
PayDirectly(x) ==
  /\ passes[x] = {}
  /\ passes' \in {[passes EXCEPT ![x] = orders] :
                    orders \in {{o} : o \in DirectOrders} \cup {DirectOrders}}
  /\ UNCHANGED <<direct, claimedFor, banned, connector, allocated, subject, unserved,
                 interrupted, callVars, faults>>

-----------------------------------------------------------------------------
\* verify_payment.  An order that is used is refused; a transaction that was
\* claimed before, or that the node does not report as valid, bans the buyer.
RefusePayment(o, x) ==
  /\ direct[o].status # "none" /\ ~direct[o].used
  /\ claimedFor[x] # NoOrder \/ passes[x] = {}
  /\ banned' = TRUE
  /\ UNCHANGED <<direct, passes, claimedFor, connector, allocated, subject, unserved,
                 interrupted, callVars, faults>>

BeginDirectPayment(t, o, x, mode) ==
  /\ direct[o].status # "none" /\ ~direct[o].used
  /\ claimedFor[x] = NoOrder
  /\ o \in passes[x]
  /\ Serves(t, o, x, "claim", mode)
  /\ UNCHANGED <<direct, passes, claimedFor, banned, connector, allocated, unserved,
                 interrupted>>

\* (Not the code: the check at the beginning is taken for good.)
AnyPayment(x) == TRUE

\* save_processed_tx_db
Unprocessed(x) == claimedFor[x] = NoOrder

ClaimPayment(t) ==
  LET x == subject[t].payment IN
  /\ desk[t].task = "claim"
  /\ \/ /\ Unprocessed(x)
        /\ claimedFor' = [claimedFor EXCEPT ![x] = subject[t].order]
        /\ Proceeds(t, IF desk[t].outcome = "direct" THEN "execute" ELSE "call", "none")
     \/ /\ ~Unprocessed(x)
        /\ Answers(t)
        /\ UNCHANGED <<claimedFor, faults>>
  /\ UNCHANGED <<direct, passes, banned, connector, allocated, unserved,
                 interrupted>>

\* queue_paid_order_for_managed_connector, for an agent that is in service and a
\* seller with a connector.
Enqueue(t) ==
  LET o == subject[t].order IN
  /\ desk[t].task = "execute"
  /\ o \in ConnectedOrders
  /\ connector' = [connector EXCEPT ![o] = IF @ = "none" THEN "queued" ELSE @]
  /\ Proceeds(t, "pend", "none")
  /\ UNCHANGED <<direct, passes, claimedFor, banned, allocated, unserved,
                 interrupted>>

MarkPending(t) ==
  /\ desk[t].task = "pend"
  /\ WritesOrder(t, [About(t) EXCEPT !.status = "pending", !.payment = subject[t].payment],
                 NoWork)
  /\ UNCHANGED <<passes, claimedFor, banned, connector, allocated, unserved,
                 interrupted>>

\* execute_protocol_order: the supplier pipeline delivers what the Foundation
\* has authorized; its fallback and the consensus deliver without.
Execute(t) ==
  /\ desk[t].task = "execute"
  /\ \E result \in Results : Proceeds(t, "record", result)
  /\ UNCHANGED <<direct, passes, claimedFor, banned, connector, allocated, unserved,
                 interrupted>>

\* verify_payment, after execution: a failed one writes nothing to the order.
RecordFailure(t) ==
  /\ desk[t] = Work("record", "failed", 0)
  /\ unserved' = unserved \cup {subject[t].payment}
  /\ Answers(t)
  /\ UNCHANGED <<direct, passes, claimedFor, banned, connector, allocated, interrupted,
                 faults>>

Delivered(t) ==
  [status |-> "delivered", payment |-> subject[t].payment, used |-> TRUE]

RecordExecution(t) ==
  /\ desk[t].task = "record"
  /\ \/ /\ desk[t].outcome \in {"review", "blocked"}
        /\ WritesOrder(t, [About(t) EXCEPT !.status = desk[t].outcome,
                                           !.payment = subject[t].payment], NoWork)
     \/ /\ desk[t].outcome \in {"authorized", "unauthorized"}
        /\ WritesOrder(t, Delivered(t), Work("settle", "none", 0))
  /\ UNCHANGED <<passes, claimedFor, banned, connector, allocated, unserved,
                 interrupted>>

\* payout_winner_if_escrow, record_settlement_db: one settlement per order; its
\* errors are caught.
SettleDirect(t) ==
  /\ desk[t].task = "settle"
  /\ allocated' \in {allocated, allocated \cup {subject[t].order}}
  /\ Answers(t)
  /\ UNCHANGED <<direct, passes, claimedFor, banned, connector, unserved,
                 interrupted, faults>>

\* verify_payment_multicall: no agents, or no result, end it with nothing
\* written; otherwise the winner is paid before the delivery is recorded.
CallAgents(t) ==
  /\ desk[t].task = "call"
  /\ \/ /\ unserved' = unserved \cup {subject[t].payment}
        /\ Answers(t)
        /\ UNCHANGED <<allocated, faults>>
     \/ /\ allocated' \in {allocated, allocated \cup {subject[t].order}}
        /\ Proceeds(t, "record", "multicall")
        /\ UNCHANGED unserved
  /\ UNCHANGED <<direct, passes, claimedFor, banned, connector, interrupted>>

RecordMulticall(t) ==
  /\ desk[t] = Work("record", "multicall", 0)
  /\ WritesOrder(t, Delivered(t), NoWork)
  /\ UNCHANGED <<passes, claimedFor, banned, connector, allocated, unserved,
                 interrupted>>

-----------------------------------------------------------------------------
\* claim_seller_connector_task_db: the oldest queued task, after leases that are
\* over have been given back.
ClaimTask(o) ==
  /\ connector[o] \in {"queued", "late"}
  /\ connector' = [connector EXCEPT ![o] = "leased"]
  /\ UNCHANGED <<direct, passes, claimedFor, banned, allocated, subject, unserved, interrupted, callVars,
                 faults>>

TaskLeaseEnds(o) ==
  /\ connector[o] = "leased"
  /\ connector' = [connector EXCEPT ![o] = "late"]
  /\ UNCHANGED <<direct, passes, claimedFor, banned, allocated, subject, unserved, interrupted, callVars,
                 faults>>

\* complete_seller_connector_task_db: only under the lease that is held.
CompleteTask(o) ==
  /\ connector[o] = "leased"
  /\ connector' = [connector EXCEPT ![o] = "completed"]
  /\ UNCHANGED <<direct, passes, claimedFor, banned, allocated, subject, unserved, interrupted, callVars,
                 faults>>

\* verify_completed_seller_connector_task_db, called after completion by the
\* hosted worker and by the seller's endpoint, which repeats it on a retry: it
\* verifies the result in a session of its own, closes the task unless another
\* call has, and then writes the order.
BeginTaskVerification(t, o) ==
  /\ connector[o] = "completed"
  /\ \E verdict \in Verdicts : Serves(t, o, NoPayment, "close", verdict)
  /\ UNCHANGED <<direct, passes, claimedFor, banned, connector, allocated, unserved,
                 interrupted>>

CloseTask(t) ==
  LET o == subject[t].order IN
  /\ desk[t].task = "close"
  /\ connector' = [connector EXCEPT ![o] = IF @ = "completed" THEN desk[t].outcome ELSE @]
  /\ Proceeds(t, "publish", desk[t].outcome)
  /\ UNCHANGED <<direct, passes, claimedFor, banned, allocated, unserved,
                 interrupted>>

PublishVerdict(t) ==
  /\ desk[t].task = "publish"
  /\ WritesOrder(t, [About(t) EXCEPT !.status =
                       CASE desk[t].outcome = "approved" -> "review"
                         [] desk[t].outcome = "rejected" -> "blocked"
                         [] OTHER -> "manual"], NoWork)
  /\ UNCHANGED <<passes, claimedFor, banned, connector, allocated, unserved,
                 interrupted>>

-----------------------------------------------------------------------------
\* internal_foundation_finalize_order
Finalizable(order) ==
  /\ ~order.used
  /\ order.status \in {"review", "blocked"}
  /\ order.payment # NoPayment

BeginFinalization(t, o) ==
  /\ Finalizable(direct[o])
  /\ Serves(t, o, direct[o].payment, "finalize", "none")
  /\ UNCHANGED <<direct, passes, claimedFor, banned, connector, allocated, unserved,
                 interrupted>>

ExecuteFinal(t) ==
  /\ desk[t].task = "finalize"
  /\ \E result \in Results : Proceeds(t, "authorize", result)
  /\ UNCHANGED <<direct, passes, claimedFor, banned, connector, allocated, unserved,
                 interrupted>>

RecordFinal(t) ==
  /\ desk[t].task = "authorize"
  /\ IF desk[t].outcome = "authorized"
     THEN WritesOrder(t, Delivered(t), Work("settle", "none", 0))
     ELSE WritesOrder(t, [About(t) EXCEPT !.status =
                            IF desk[t].outcome = "blocked" THEN "blocked" ELSE "review"],
                      NoWork)
  /\ UNCHANGED <<passes, claimedFor, banned, connector, allocated, unserved,
                 interrupted>>

-----------------------------------------------------------------------------
\* The server ends in the middle of a call.
DirectCallDies(t) ==
  /\ t \in Busy /\ Fault
  /\ interrupted' = interrupted \cup {subject[t].order}
  /\ Answers(t)
  /\ UNCHANGED <<direct, passes, claimedFor, banned, connector, allocated, unserved>>

DirectNext ==
  \/ \E x \in DirectPayments : PayDirectly(x)
  \/ \E o \in DirectOrders :
       \/ CreateOrder(o) \/ ClaimTask(o) \/ TaskLeaseEnds(o) \/ CompleteTask(o)
       \/ \E x \in DirectPayments : RefusePayment(o, x)
       \/ \E t \in Staff :
            \/ \E x \in DirectPayments, mode \in {"direct", "multicall"} :
                 BeginDirectPayment(t, o, x, mode)
            \/ BeginTaskVerification(t, o)
            \/ BeginFinalization(t, o)
  \/ \E t \in Staff :
       \/ ClaimPayment(t) \/ Enqueue(t) \/ MarkPending(t) \/ Execute(t)
       \/ RecordFailure(t) \/ RecordExecution(t) \/ SettleDirect(t)
       \/ CallAgents(t) \/ RecordMulticall(t)
       \/ CloseTask(t) \/ PublishVerdict(t)
       \/ ExecuteFinal(t) \/ RecordFinal(t)
       \/ DirectCallDies(t)

DirectSpec == DirectInit /\ [][DirectNext]_directVars

-----------------------------------------------------------------------------
\* The payments that were taken for an order, the calls at work on it.
Taken(o) == {x \in DirectPayments : claimedFor[x] = o}

AtWorkOn(o) == {t \in Staff : subject[t].order = o}

\* verify_payment, internal_foundation_finalize_order,
\* verify_completed_seller_connector_task_db.
\* What is delivered was paid by a transaction of its own, and no settlement is
\* left without a payment.
PaidByItsOwn(o) ==
  /\ direct[o].payment # NoPayment => /\ direct[o].payment \in Taken(o)
                                      /\ o \in passes[direct[o].payment]
  /\ direct[o].used => direct[o].payment # NoPayment
  /\ o \in allocated => Taken(o) # {}

\* The one payment that was taken for an order is on record there, unless the
\* call that took it is at work, or answered an error.
OnRecord(o) ==
  \A x \in Taken(o) :
    \/ direct[o].payment = x
    \/ x \in unserved
    \/ \E t \in AtWorkOn(o) : subject[t].payment = x
    \/ o \in interrupted \/ Taken(o) # {x}

\* Then it is delivered, can be finalized, waits for its connector task, or is
\* left to a person, once no call is at work on it.
GoesOn(o) ==
  Cardinality(Taken(o)) = 1 /\ Taken(o) \cap unserved = {} /\ AtWorkOn(o) = {}
  => \/ direct[o].status = "delivered" /\ direct[o].used
     \/ Finalizable(direct[o])
     \/ /\ direct[o].status = "pending"
        /\ connector[o] \in {"queued", "leased", "late", "completed"}
     \/ direct[o].status = "manual"
     \/ o \in interrupted \/ overlapped

\* A payment serves one order, stays on record, and, unless a call died or wrote
\* over what another had written, leaves its order where it can be delivered.
PaymentIsKept == \A o \in DirectOrders : PaidByItsOwn(o) /\ OnRecord(o) /\ GoesOn(o)
=============================================================================
