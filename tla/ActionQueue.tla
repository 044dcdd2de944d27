---------------------------- MODULE ActionQueue ----------------------------
(***************************************************************************)
(* The action engine (iat/action_engine and its tables in iat/api/db.py):  *)
(* a queue of actions, the threads that process them for a worker, the     *)
(* claims they leave, and the supervisor that requeues what it takes for   *)
(* abandoned.                                                              *)
(*                                                                         *)
(* Every statement commits by itself, so each is a step.  An action is     *)
(* selected, taken, executed, recorded and completed first; its claim is   *)
(* looked for, inserted and released afterwards.  Leases run out at any    *)
(* time.  Priorities are abstracted: any queued action may be selected.    *)
(***************************************************************************)
EXTENDS Faults

CONSTANTS
  Actions,        \* the actions, by their action_id
  NoAction,
  Threads,        \* requests to process the next action
  ActionWorkers,  \* rows of action_workers
  NoWorker,       \* an action processed without a worker
  MaxRequeues     \* bound: reactivations by the supervisor

VARIABLES
  queue,        \* action_queue: status and attempts of each action, and whether
                \* it was submitted with no retries left in its policy
  workers,      \* action_workers: their status
  claims,       \* action_claims: the one each thread has made for an action
  expired,      \* actions with an expired claim, which nothing removes
  dlq,          \* action_dead_letter_queue
  thread,       \* what each thread does next, on which action
  supervisor,   \* the actions its recovery plan is about to requeue
  requeues,     \* reactivations so far
  crowd,        \* other items listed before these, in pages of 50: listings are
                \* sorted by priority and age, and completed items stay
  history       \* action_execution_history: rows per action

actionVars == <<queue, workers, claims, expired, dlq, thread, supervisor,
                requeues, crowd, history, faults>>

ASSUME ActionsAssumption ==
  /\ NoAction \notin Actions
  /\ NoWorker \notin ActionWorkers
  /\ MaxRequeues \in Nat

NoThread == [pc |-> "idle", action |-> NoAction, worker |-> NoWorker]

ActionsInit ==
  /\ queue = [a \in Actions |-> [status |-> "none", attempts |-> 0,
                               spent |-> FALSE]]
  /\ workers = [w \in ActionWorkers |-> "idle"]
  /\ claims = [a \in Actions |-> [t \in Threads |-> "none"]]
  /\ expired = {}
  /\ dlq = {}
  /\ thread = [t \in Threads |-> NoThread]
  /\ supervisor = {}
  /\ requeues = 0
  /\ crowd = 0
  /\ history = [a \in Actions |-> 0]
  /\ faults = 0

ActionsTypeOK ==
  /\ queue \in [Actions -> [status : {"none", "queued", "dequeued", "completed"},
                            attempts : Nat, spent : BOOLEAN]]
  /\ workers \in [ActionWorkers -> {"idle", "busy"}]
  /\ claims \in [Actions -> [Threads -> {"none", "live", "lapsed"}]]
  /\ expired \subseteq Actions
  /\ dlq \subseteq Actions
  /\ thread \in [Threads ->
       [pc : {"idle", "busy", "select", "take", "execute", "complete", "look",
              "insert", "release", "result", "dead"},
        action : Actions \cup {NoAction}, worker : ActionWorkers \cup {NoWorker}]]
  /\ supervisor \subseteq Actions
  /\ requeues \in 0 .. MaxRequeues
  /\ crowd \in 0 .. 2
  /\ history \in [Actions -> Nat]
  /\ faults \in 0 .. MaxFaults

-----------------------------------------------------------------------------
On(t, pc) == thread[t].pc = pc

Goes(t, pc) == thread' = [thread EXCEPT ![t].pc = pc]

\* submit_action_to_core
EnqueueAction(a, spent) ==
  /\ queue[a].status = "none"
  /\ queue' = [queue EXCEPT ![a].status = "queued", ![a].spent = spent]
  /\ UNCHANGED <<workers, claims, expired, dlq, thread, supervisor, requeues, crowd,
                 history, faults>>

\* A lease of 60 seconds runs out, whatever its thread is doing; a heartbeat
\* renews one that no sweep has expired.
LeaseLapses(a, t) ==
  /\ claims[a][t] = "live"
  /\ claims' = [claims EXCEPT ![a][t] = "lapsed"]
  /\ UNCHANGED <<queue, workers, expired, dlq, thread, supervisor, requeues, crowd,
                 history, faults>>

HeartbeatActionClaim(a, t) ==
  /\ claims[a][t] = "lapsed"
  /\ claims' = [claims EXCEPT ![a][t] = "live"]
  /\ UNCHANGED <<queue, workers, expired, dlq, thread, supervisor, requeues, crowd,
                 history, faults>>

ExpireStaleActionClaims ==
  LET stale == {a \in Actions : \E t \in Threads : claims[a][t] = "lapsed"}
  IN /\ expired' = expired \cup stale
     /\ claims' = [a \in Actions |-> [t \in Threads |->
                    IF claims[a][t] = "lapsed" THEN "none" ELSE claims[a][t]]]

\* process_next_action_with_worker picks an idle worker, expires the stale
\* claims and marks the worker busy; two threads may pick the same one.
SelectWorker(t, w) ==
  /\ On(t, "idle")
  /\ workers[w] = "idle"
  /\ thread' = [thread EXCEPT ![t] = [NoThread EXCEPT !.pc = "busy", !.worker = w]]
  /\ UNCHANGED <<queue, workers, claims, expired, dlq, supervisor, requeues, crowd,
                 history, faults>>

MarkBusy(t) ==
  /\ On(t, "busy")
  /\ ExpireStaleActionClaims
  /\ workers' = [workers EXCEPT ![thread[t].worker] = "busy"]
  /\ Goes(t, "select")
  /\ UNCHANGED <<queue, dlq, supervisor, requeues, crowd, history, faults>>

\* process_next_core_action by itself, for an administrator.
ProcessWithoutWorker(t) ==
  /\ On(t, "idle")
  /\ thread' = [thread EXCEPT ![t] = [NoThread EXCEPT !.pc = "select"]]
  /\ UNCHANGED <<queue, workers, claims, expired, dlq, supervisor, requeues, crowd,
                 history, faults>>

\* dequeue_next_action_db: the item is read, then updated by its id alone.
\* With a worker, an empty queue ends in an error on the item that is None,
\* and the worker stays busy.
SelectAction(t) ==
  /\ On(t, "select")
  /\ \/ \E a \in Actions :
          /\ queue[a].status = "queued"
          /\ thread' = [thread EXCEPT ![t].pc = "take", ![t].action = a]
     \/ /\ \A a \in Actions : queue[a].status # "queued"
        /\ thread' = [thread EXCEPT ![t] = NoThread]
  /\ UNCHANGED <<queue, workers, claims, expired, dlq, supervisor, requeues, crowd,
                 history, faults>>

TakeAction(t) ==
  LET a == thread[t].action IN
  /\ On(t, "take")
  /\ queue' = [queue EXCEPT ![a].status = "dequeued", ![a].attempts = @ + 1]
  /\ Goes(t, "execute")
  /\ UNCHANGED <<workers, claims, expired, dlq, supervisor, requeues, crowd, history,
                 faults>>

\* The pipeline, or the order's own execution, succeeds or fails, and the
\* history records it either way.
ExecuteAction(t) ==
  /\ On(t, "execute")
  /\ history' = [history EXCEPT ![thread[t].action] = @ + 1]
  /\ Goes(t, "complete")
  /\ UNCHANGED <<queue, workers, claims, expired, dlq, supervisor, requeues,
                 crowd, faults>>

\* Completed whatever the result and whatever the item's status has become.
CompleteAction(t) ==
  /\ On(t, "complete")
  /\ queue' = [queue EXCEPT ![thread[t].action].status = "completed"]
  /\ IF thread[t].worker = NoWorker
     THEN thread' = [thread EXCEPT ![t] = NoThread]
     ELSE Goes(t, "look")
  /\ UNCHANGED <<workers, claims, expired, dlq, supervisor, requeues, crowd, history,
                 faults>>

-----------------------------------------------------------------------------
\* claim_action_db, after the fact: another thread's live claim makes this
\* execution count as failed.
LookForClaim(t) ==
  /\ On(t, "look")
  /\ Goes(t, IF \E u \in Threads : claims[thread[t].action][u] = "live"
             THEN "result" ELSE "insert")
  /\ UNCHANGED <<queue, workers, claims, expired, dlq, supervisor, requeues, crowd,
                 history, faults>>

InsertClaim(t) ==
  /\ On(t, "insert")
  /\ claims' = [claims EXCEPT ![thread[t].action][t] = "live"]
  /\ Goes(t, "release")
  /\ UNCHANGED <<queue, workers, expired, dlq, supervisor, requeues, crowd, history,
                 faults>>

\* An expired claim is not released any more.
ReleaseClaim(t) ==
  /\ On(t, "release")
  /\ claims' = [claims EXCEPT ![thread[t].action][t] = "none"]
  /\ Goes(t, "result")
  /\ UNCHANGED <<queue, workers, expired, dlq, supervisor, requeues, crowd, history,
                 faults>>

MarkWorkerResult(t) ==
  /\ On(t, "result")
  /\ workers' = [workers EXCEPT ![thread[t].worker] = "idle"]
  /\ thread' = [thread EXCEPT ![t] = NoThread]
  /\ UNCHANGED <<queue, claims, expired, dlq, supervisor, requeues, crowd, history,
                 faults>>

\* An administrator reports a status or a result for the worker.
HeartbeatActionWorker(w) ==
  /\ workers[w] = "busy"
  /\ workers' = [workers EXCEPT ![w] = "idle"]
  /\ UNCHANGED <<queue, claims, expired, dlq, thread, supervisor, requeues, crowd,
                 history, faults>>

\* A thread dies between two statements, or its execution raises.
ThreadDies(t) ==
  /\ ~On(t, "idle") /\ ~On(t, "dead")
  /\ Fault
  /\ Goes(t, "dead")
  /\ UNCHANGED <<queue, workers, claims, expired, dlq, supervisor, requeues, crowd,
                 history>>

-----------------------------------------------------------------------------
\* Other actions are submitted, and fill another page.
QueueCrowds ==
  /\ crowd < 2
  /\ crowd' = crowd + 1
  /\ UNCHANGED <<queue, workers, claims, expired, dlq, thread, supervisor,
                 requeues, history, faults>>

\* The supervisor's cycle expires the stale claims and plans a requeue for
\* every action that has an expired claim and is not seen to be completed: the
\* plan looks at the first 50 items, the execution at the first 100.
SuperviseExpiry ==
  /\ ExpireStaleActionClaims
  /\ claims' # claims
  /\ UNCHANGED <<queue, workers, dlq, thread, supervisor, requeues, crowd, history,
                 faults>>

\* (Not the code: the plan does not look at the item's status.)
AnyItem(a) == queue[a].status # "none"

Recoverable(a) == crowd >= 1 \/ queue[a].status # "completed"

PlanRecoveryActions ==
  /\ supervisor = {}
  /\ supervisor' = {a \in expired : Recoverable(a)}
  /\ supervisor' # {}
  /\ UNCHANGED <<queue, workers, claims, expired, dlq, thread, requeues, crowd,
                 history, faults>>

\* The policy's retry_count is the one of the submission: it never grows.
Spent(a) == crowd < 2 /\ queue[a].spent

\* The reactivation spares only items that are queued.
ExecuteRecoveryPlan(a) ==
  /\ a \in supervisor
  /\ supervisor' = supervisor \ {a}
  /\ \/ /\ Spent(a)
        /\ dlq' = dlq \cup {a}
        /\ UNCHANGED <<queue, requeues>>
     \/ /\ ~Spent(a)
        /\ queue[a].status # "queued"
        /\ requeues < MaxRequeues
        /\ queue' = [queue EXCEPT ![a].status = "queued"]
        /\ requeues' = requeues + 1
        /\ UNCHANGED dlq
     \/ /\ ~Spent(a)
        /\ queue[a].status = "queued"
        /\ UNCHANGED <<queue, requeues, dlq>>
  /\ UNCHANGED <<workers, claims, expired, thread, crowd, history, faults>>

Process(t) ==
  \/ MarkBusy(t) \/ SelectAction(t) \/ TakeAction(t) \/ ExecuteAction(t)
  \/ CompleteAction(t) \/ LookForClaim(t) \/ InsertClaim(t)
  \/ ReleaseClaim(t) \/ MarkWorkerResult(t)

ActionsNext ==
  \/ \E a \in Actions :
       \/ \E spent \in BOOLEAN : EnqueueAction(a, spent)
       \/ ExecuteRecoveryPlan(a)
       \/ \E t \in Threads : LeaseLapses(a, t) \/ HeartbeatActionClaim(a, t)
  \/ \E t \in Threads :
       \/ Process(t)
       \/ ProcessWithoutWorker(t)
       \/ ThreadDies(t)
       \/ \E w \in ActionWorkers : SelectWorker(t, w)
  \/ \E w \in ActionWorkers : HeartbeatActionWorker(w)
  \/ QueueCrowds
  \/ SuperviseExpiry
  \/ PlanRecoveryActions

\* A request that has begun runs to its end; nothing starts one by itself.
ActionsFairness == \A t \in Threads : WF_actionVars(Process(t))

ActionsSpec == ActionsInit /\ [][ActionsNext]_actionVars /\ ActionsFairness

-----------------------------------------------------------------------------
\* plan_recovery_actions, execute_recovery_plan: as long as the listings hold
\* the whole queue, the supervisor requeues, or sends to the dead letters, only
\* what two threads had taken and one has executed.  A claim is made after its
\* action is completed: what a dead thread leaves dequeued has no claim of its
\* own and is not recovered, and what is recovered is executed once more.
RequeueFollowsOverlap ==
  crowd = 0 => \A a \in supervisor \cup dlq : queue[a].attempts > 1 /\ history[a] > 0

\* What is taken is completed or put back, unless its thread died.
ActionPending == \E a \in Actions : queue[a].status = "dequeued"

ActionEnded == faults > 0 \/ ~ActionPending
=============================================================================
