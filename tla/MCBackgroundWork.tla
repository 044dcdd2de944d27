-------------------------- MODULE MCBackgroundWork --------------------------
(***************************************************************************)
(* The background systems of the protocol beside the checkout.  The        *)
(* properties of one read no table of another, so a behaviour is one of    *)
(* any of them: system says which one moves, and the others stay in their  *)
(* initial state.                                                          *)
(***************************************************************************)
EXTENDS BuyerScheduler, HostedJobs, ActionQueue, DeliveryReceipts,
        GoiaCollection

VARIABLE
  system     \* the one that moves

backgroundVars == <<schedulerVars, hostedVars, actionVars, receiptVars,
                    collectionVars, system>>

Init ==
  /\ system \in {"scheduler", "hosted", "actions", "receipts",
                "collection", "prospects"}
  /\ SchedulerInit
  /\ HostedInit
  /\ ActionsInit
  /\ ReceiptsInit
  /\ CollectionInit
  /\ signing => system = "receipts"

schedulerOnly == <<job, anchor, turn, overruns, chain>>
hostedOnly == <<hosted, journal, shift, second>>
actionsOnly == <<queue, workers, claims, expired, dlq, thread, supervisor,
                 requeues, crowd, history>>
receiptsOnly == <<receipt, decided, review, signing, mailed, request>>

\* A step A of the system s, which leaves the tables of the others alone.
StepOf(s, A, others) ==
  /\ system = s
  /\ A
  /\ UNCHANGED others

\* Runners that are idle are alike: the next to claim is one of them.
NextRunner ==
  \A r \in Runners :
    turn[r] = IdleTurn /\ turn'[r] # IdleTurn
    => r = CHOOSE s \in Runners : turn[s] = IdleTurn

\* (Bound: once a job that was resumed has its anchor, nothing goes wrong any more.)
AnchorOfResumed ==
  \A d \in Decisions :
    job[d].budget > MaxAttempts /\ anchor[d].state # "none" => UNCHANGED <<faults, overruns>>

SchedulerStep(A) ==
  /\ StepOf("scheduler", A, <<hostedOnly, actionsOnly, receiptsOnly, collectionTables,
                              prospectTables, system>>)
  /\ NextRunner
  /\ AnchorOfResumed

HostedStep(A) ==
  StepOf("hosted", A, <<schedulerOnly, actionsOnly, receiptsOnly, collectionTables,
                        prospectTables, system>>)

ActionsStep(A) ==
  StepOf("actions", A, <<schedulerOnly, hostedOnly, receiptsOnly, collectionTables,
                         prospectTables, system>>)

\* Quotes are alike, so the first request is about one of them.  That the inbox
\* was opened is read by nothing, so it may as well be opened at the end.
NoRequests == \A t \in Handlers : request[t] = NoRequest

FirstQuote ==
  receipt = NoReceipt /\ NoRequests
  => \A t \in Handlers : request'[t].quote \in {NoQuote, CHOOSE q \in ReceiptQuotes : TRUE}

OpenedLast ==
  /\ ~receipt.opened
  /\ receipt'.opened => NoRequests /\ NotificationEnded

ReceiptsStep(A) ==
  /\ StepOf("receipts", A, <<schedulerOnly, hostedOnly, actionsOnly, collectionTables,
                             prospectTables, system>>)
  /\ FirstQuote
  /\ OpenedLast

CollectionStep(A) ==
  StepOf("collection", A, <<schedulerOnly, hostedOnly, actionsOnly, receiptsOnly,
                            prospectTables, system>>)

Next ==
  \/ SchedulerStep(SchedulerNext)
  \/ HostedStep(HostedNext)
  \/ ActionsStep(ActionsNext)
  \/ ReceiptsStep(ReceiptsNext)
  \/ CollectionStep(CollectionNext)
  \/ StepOf("prospects", ProspectsNext,
            <<schedulerOnly, hostedOnly, actionsOnly, receiptsOnly, collectionTables, system>>)

\* What the process p does again and again, in the system that moves.
Works(p) ==
  \/ p \in Runners /\ SchedulerStep(RunDueOnce(p) \/ SchedulerWork(p))
  \/ p \in HostedWorkers /\ HostedStep(RunOnce(p))
  \/ p \in Threads /\ ActionsStep(Process(p))
  \/ p \in Handlers /\ ReceiptsStep(Proceed(p))
  \/ p \in Collectors /\ CollectionStep(Collect(p))

Sweeps(p) == ReceiptsStep(ListDue(p))

TimePasses ==
  \/ \E d \in Decisions : SchedulerStep(LeaseEnds(d))
  \/ HostedStep(Tick)

\* Each system has the fairness of its own module, as long as it is the one
\* that moves.  A runner cannot claim while it is at work, nor work while it is
\* idle, so that one condition says both.
Fairness ==
  /\ \A p \in Runners \cup HostedWorkers \cup Threads \cup Handlers \cup Collectors :
       WF_backgroundVars(Works(p))
  /\ \A p \in Sweepers : WF_backgroundVars(Sweeps(p))
  /\ WF_backgroundVars(TimePasses)

Spec == Init /\ [][Next]_backgroundVars /\ Fairness

\* The tables and the processes of the systems keep their types.
WorkersTypeOK ==
  /\ SchedulerTypeOK
  /\ HostedTypeOK
  /\ ActionsTypeOK
  /\ ReceiptsTypeOK
  /\ CollectionTypeOK

\* Work that is pending ends: a scheduled purchase and its settlement phases, a
\* hosted job, an action that a thread has taken, a notification that is due, the
\* collection of a page.
WorkEnds ==
  (SchedulerPending \/ HostedPending \/ ActionPending \/ NotificationPending
     \/ CollectionPending)
    ~> (SchedulerEnded /\ HostedEnded /\ ActionEnded /\ NotificationEnded /\ CollectionEnded)
=============================================================================
