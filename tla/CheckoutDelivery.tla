-------------------------- MODULE CheckoutDelivery --------------------------
(***************************************************************************)
(* Delivery of one paid order: the lease-coordinated delivery worker       *)
(* (iat/checkout_delivery.py), the settlement allocation it triggers, the  *)
(* sealing of the buyer's result in the inbox, the buyer's decision and    *)
(* the compensation review (iat/checkout_compensation.py).                 *)
(*                                                                         *)
(* A quote has one delivery row, one order, at most one settlement, one    *)
(* receipt and one compensation, and no transaction below touches the rows *)
(* of two quotes, so one quote is modelled and the concurrency is among    *)
(* the runs of the worker: poller threads of several replicas and API      *)
(* requests, which all call run_checkout_delivery.  Every SQL transaction  *)
(* is one action; a run is at a program counter between two of them.       *)
(*                                                                         *)
(* Time is abstracted to what the code compares: `due' stands for          *)
(* next_attempt_at <= now, `leased' for lease_until >= now.                *)
(***************************************************************************)
EXTENDS Naturals

CONSTANTS
  Workers,        \* concurrent runs of the delivery loop or of an API call
  Results,        \* the authorized results the providers may return
  None,           \* SQL NULL
  MaxAttempts,    \* IAT_CHECKOUT_DELIVERY_MAX_ATTEMPTS
  MaxCrashes,     \* bound: runs that die between two transactions
  MaxOverruns,    \* bound: leases that end while their holder still works
  MaxRedrives,    \* bound: admin redrives
  MaxAllocErrors  \* bound: exceptions of the settlement allocation

ASSUME ConstantsAssumption ==
  /\ None \notin Workers \cup Results
  /\ None \notin {"completed", "retryable_failure"}   \* NULL is no state
  /\ MaxAttempts \in Nat \ {0}
  /\ {MaxCrashes, MaxOverruns, MaxRedrives, MaxAllocErrors} \subseteq Nat

VARIABLES
  delivery,      \* the row of universal_checkout_deliveries
  order,         \* the columns of the orders row that delivery writes
  allocation,    \* the result whose winner the settlements row pays
  receipt,       \* the row of universal_checkout_delivery_receipts
  compensation,  \* the row of universal_checkout_compensations
  requests,      \* what the requests for it that are under way have read
  run,           \* the local state of every run
  spent          \* how much of each bound has been used

vars == <<delivery, order, allocation, receipt, compensation, requests, run, spent>>

\* What the delivery worker leaves to the buyer's side, and the other way round.
refund == <<compensation, requests>>

TerminalStates == {"completed", "review_required", "blocked", "exhausted"}
DeliveryStates == TerminalStates \cup {"pending", "running", "retryable_failure"}
Grounds        == {"delivery_attempts_exhausted", "foundation_delivery_blocked",
                   "buyer_disputed_sealed_delivery"}
Outcomes       == {"completed", "blocked", "exhausted", "retryable_failure"}

(***************************************************************************)
(* A run that holds nothing.  The other program counters name the          *)
(* transaction, or the provider call, that comes next.                     *)
(***************************************************************************)
Idle == [pc |-> "idle", attempts |-> 0, outcome |-> None, error |-> "none",
         result |-> None, settlement |-> None]

PCs == {"idle", "load", "execute", "allocate", "mark", "finish", "publish",
        "compensate", "resettle", "record"}

TypeOK ==
  /\ delivery \in
       [state : DeliveryStates, attempts : Nat, due : BOOLEAN,
        token : Workers \cup {None}, leased : BOOLEAN,
        error : {"none", "not_ready", "other"}, result : Results \cup {None},
        settlement : {"pending", "completed", "retryable_failure"},
        settleDue : BOOLEAN]
  /\ order \in [status : {"paid", "delivered", "foundation_review_required",
                          "foundation_delivery_blocked"},
                used : BOOLEAN, result : Results \cup {None}]
  /\ allocation \in Results \cup {None}
  /\ receipt \in [state : {"none", "configured", "delivered", "accepted", "disputed"},
                  digest : Results \cup {None}]
  /\ compensation \in
       [state : {"none", "pending_review", "approved", "denied"},
        reason : Grounds \cup {"none"}]
  /\ requests \subseteq Grounds
  /\ run \in [Workers ->
       [pc : PCs, attempts : Nat, outcome : Outcomes \cup {None},
        error : {"none", "not_ready", "other"}, result : Results \cup {None},
        settlement : {"completed", "retryable_failure", None}]]
  /\ spent \in [crashes : Nat, overruns : Nat, redrives : Nat, allocErrors : Nat]

(***************************************************************************)
(* The payment has just been finalized (_finalize_checkout enqueued the    *)
(* row), or an older release left the row in review_required.              *)
(***************************************************************************)
NewDelivery == [state |-> "pending", attempts |-> 0, due |-> TRUE, token |-> None,
                leased |-> FALSE, error |-> "none", result |-> None,
                settlement |-> "pending", settleDue |-> FALSE]

LegacyReview == [NewDelivery EXCEPT !.state = "review_required", !.attempts = 1,
                                    !.error = "not_ready"]

Init ==
  /\ \/ /\ delivery = NewDelivery
        /\ order = [status |-> "paid", used |-> FALSE, result |-> None]
     \/ /\ delivery = LegacyReview
        /\ order = [status |-> "foundation_review_required", used |-> FALSE,
                    result |-> None]
  /\ allocation = None
  /\ receipt \in [state : {"none", "configured"}, digest : {None}]
  /\ compensation = [state |-> "none", reason |-> "none"]
  /\ requests = {}
  /\ run = [w \in Workers |-> Idle]
  /\ spent = [crashes |-> 0, overruns |-> 0, redrives |-> 0, allocErrors |-> 0]

-----------------------------------------------------------------------------
(* One run of run_checkout_delivery.                                        *)

\* The local state a run goes on with.
Becomes(w, local) == run' = [run EXCEPT ![w] = local]

\* (Not the code: a last write that is no compare-and-swap.)
HoldsUnchecked(w) == w \in Workers

Holds(w) == delivery.state = "running" /\ delivery.token = w

\* (Not the code: a claim that does not look at the lease of a running row.)
ClaimableUnderLease ==
  \/ delivery.state \in {"pending", "retryable_failure"} /\ delivery.due
  \/ delivery.state = "running"

\* (Not the code: a claim that never takes over an expired lease.)
ClaimableOnce == delivery.state \in {"pending", "retryable_failure"} /\ delivery.due

Claimable ==
  \/ delivery.state \in {"pending", "retryable_failure"} /\ delivery.due
  \/ delivery.state = "running" /\ ~delivery.leased

\* _claim: the compare-and-swap that takes the lease and counts the attempt.
Claim(w) ==
  /\ run[w].pc = "idle"
  /\ Claimable
  /\ delivery' = [delivery EXCEPT !.state = "running", !.token = w, !.leased = TRUE,
                                  !.attempts = @ + 1]
  /\ Becomes(w, [Idle EXCEPT !.pc = "load"])
  /\ UNCHANGED <<order, allocation, receipt, refund, spent>>

\* (Not the code: a run that never looks whether the order was delivered.)
NeverDelivered == FALSE

AlreadyDelivered == order.used \/ order.status = "delivered"

\* The row is read again after the claim has committed, then the order.  An
\* order already delivered only has its row completed.
Load(w) ==
  /\ run[w].pc = "load"
  /\ LET seen == [run[w] EXCEPT
                    !.attempts = IF delivery.attempts = 0 THEN 1 ELSE delivery.attempts]
     IN IF AlreadyDelivered
        THEN Becomes(w, [seen EXCEPT !.pc = "finish", !.outcome = "completed",
                                     !.result = order.result])
        ELSE Becomes(w, [seen EXCEPT !.pc = "execute"])
  /\ UNCHANGED <<delivery, order, allocation, receipt, refund, spent>>

\* (Not the code: the budget compared one attempt early.)
AfterFailureEarly(w) ==
  IF run[w].attempts + 1 >= MaxAttempts THEN "exhausted" ELSE "retryable_failure"

\* (Not the code: a state no reader of the row knows.)
AfterFailureUnknown(w) ==
  IF run[w].attempts >= MaxAttempts THEN "failed" ELSE "retryable_failure"

\* The state a failed attempt leads to: retried with backoff until the budget
\* is used up.
AfterFailure(w) ==
  IF run[w].attempts >= MaxAttempts THEN "exhausted" ELSE "retryable_failure"

\* The provider call: it is not idempotent and any attempt may end in any way.
Execute(w) ==
  /\ run[w].pc = "execute"
  /\ \/ \E r \in Results :
          Becomes(w, [run[w] EXCEPT !.pc = "allocate", !.outcome = "completed",
                                    !.result = r])
     \/ Becomes(w, [run[w] EXCEPT !.pc = "mark", !.outcome = "blocked"])
     \/ Becomes(w, [run[w] EXCEPT
          !.pc = IF AfterFailure(w) = "exhausted" THEN "mark" ELSE "finish",
          !.outcome = AfterFailure(w), !.error = "not_ready"])
     \/ Becomes(w, [run[w] EXCEPT !.pc = "finish", !.outcome = AfterFailure(w),
                                  !.error = "other"])
  /\ UNCHANGED <<delivery, order, allocation, receipt, refund, spent>>

\* allocate_checkout_settlement: one settlement per order_id, whose winner is
\* the seller of the result at hand; an existing one is kept.
AllocateTo(r) == IF allocation = None THEN r ELSE allocation

\* (Not the code: a failure that leaves the state set before the attempt.)
FailureAsPreset == "completed"

\* The settlement_state that an exception of the allocation leaves.
Unallocated == "retryable_failure"

\* An allocation that ends in an exception may have been committed: the answer
\* of the commit is lost, and so is the read that would have found the row.
AllocationFails(r) ==
  /\ spent.allocErrors < MaxAllocErrors
  /\ spent' = [spent EXCEPT !.allocErrors = @ + 1]
  /\ allocation' \in {allocation, AllocateTo(r)}

\* One attempt to allocate, after which the run goes on at `next'.
TryAllocation(w, next) ==
  \/ /\ allocation' = AllocateTo(run[w].result)
     /\ Becomes(w, [run[w] EXCEPT !.pc = next, !.settlement = "completed"])
     /\ UNCHANGED spent
  \/ /\ AllocationFails(run[w].result)
     /\ Becomes(w, [run[w] EXCEPT !.pc = next, !.settlement = Unallocated])

Allocate(w) ==
  /\ run[w].pc = "allocate"
  /\ TryAllocation(w, "mark")
  /\ UNCHANGED <<delivery, order, receipt, refund>>

\* (Not the code: a mark that overwrites a delivered order.)
OrderAlwaysOpen(w) == w \in Workers

\* (Not the code: a mark guarded by the lease too, but not the sealing.)
OrderOpenToHolder(w) == ~order.used /\ delivery.token = w

OrderOpen(w) == ~order.used

\* _mark_order: guarded by the order not being used, not by the lease.
MarkOrder(w) ==
  /\ run[w].pc = "mark"
  /\ order' =
       IF ~OrderOpen(w) THEN order
       ELSE CASE run[w].outcome = "completed" ->
                   [status |-> "delivered", used |-> TRUE, result |-> run[w].result]
              [] run[w].outcome = "blocked" ->
                   [status |-> "foundation_delivery_blocked", used |-> FALSE,
                    result |-> None]
              [] OTHER ->
                   [status |-> "foundation_review_required", used |-> FALSE,
                    result |-> None]
  /\ Becomes(w, [run[w] EXCEPT !.pc = "finish"])
  /\ UNCHANGED <<delivery, allocation, receipt, refund, spent>>

\* What the run does after its last write to the row: seal an authorized
\* result, or ask for compensation.
AfterFinish(w) ==
  CASE run[w].outcome = "completed" /\ run[w].settlement # None ->
         [run[w] EXCEPT !.pc = "publish"]
    [] run[w].outcome \in {"blocked", "exhausted"} ->
         [run[w] EXCEPT !.pc = "compensate"]
    [] OTHER -> Idle

\* _finish: writes only while this run still holds the row; the run goes on in
\* the same way whether it did or not.
Finish(w) ==
  /\ run[w].pc = "finish"
  /\ delivery' =
       IF ~Holds(w) THEN delivery
       ELSE [delivery EXCEPT
               !.state = run[w].outcome, !.token = None, !.leased = FALSE,
               !.due = run[w].outcome # "retryable_failure",
               !.error = run[w].error, !.result = run[w].result,
               !.settlement = IF run[w].settlement = None THEN @ ELSE run[w].settlement,
               !.settleDue = FALSE]
  /\ Becomes(w, AfterFinish(w))
  /\ UNCHANGED <<order, allocation, receipt, refund, spent>>

\* (Not the code: sealing that expects the buyer to have chosen a channel.)
SealConfigured(r) ==
  receipt' = IF receipt.digest = None /\ receipt.state = "configured"
             THEN [state |-> "delivered", digest |-> r] ELSE receipt

\* publish_delivery_payload: the first payload is sealed, any other is refused.
\* (The repair of receipts sealed by older releases is left out.)
Seal(r) ==
  receipt' = IF receipt.digest = None THEN [state |-> "delivered", digest |-> r]
             ELSE receipt

\* Sealing may fail (the signing key is unreadable): the run swallows it.
Publish(w) ==
  /\ run[w].pc = "publish"
  /\ Seal(run[w].result) \/ UNCHANGED receipt
  /\ Becomes(w, Idle)
  /\ UNCHANGED <<delivery, order, allocation, refund, spent>>

-----------------------------------------------------------------------------
(* Compensation.                                                            *)

\* (Not the code: a review left by an older release counted as non-delivery.)
EligibleOnReview == delivery.state \in {"exhausted", "blocked", "review_required"}

\* request_compensation accepts only these; the dispute names the reason first.
Disputed == receipt.state = "disputed"
Eligible == delivery.state \in {"exhausted", "blocked"} \/ Disputed

Ground ==
  CASE Disputed -> "buyer_disputed_sealed_delivery"
    [] ~Disputed /\ delivery.state = "exhausted" -> "delivery_attempts_exhausted"
    [] OTHER -> "foundation_delivery_blocked"

\* request_compensation reads the row and the receipt in one statement and
\* inserts the review in another: nothing is locked between them.  A request
\* that has read keeps its ground; it may also die there.
Read == requests \cup {Ground}

\* What a request reads: nothing when there is a review already, an error when
\* the row is not eligible.
ReadGround ==
  requests' = IF compensation.state = "none" /\ Eligible THEN Read ELSE requests

\* _request_protocol_compensation, the last call of a run; its errors are
\* swallowed.
Compensate(w) ==
  /\ run[w].pc = "compensate"
  /\ ReadGround \/ UNCHANGED requests
  /\ Becomes(w, Idle)
  /\ UNCHANGED <<delivery, order, allocation, receipt, compensation, spent>>

\* The buyer's own request through the API.
BuyerRequestsCompensation ==
  /\ compensation.state = "none" /\ Eligible
  /\ requests' = Read
  /\ UNCHANGED <<delivery, order, allocation, receipt, compensation, run, spent>>

\* The insert, whatever has become of the row since: quote_id is unique, so the
\* first request wins and the others find its review.
OpenCompensation ==
  /\ compensation.state = "none"
  /\ \E ground \in requests :
       compensation' = [state |-> "pending_review", reason |-> ground]
  /\ requests' = {}
  /\ UNCHANGED <<delivery, order, allocation, receipt, run, spent>>

DecideCompensation ==
  /\ compensation.state = "pending_review"
  /\ \E decision \in {"approved", "denied"} :
       compensation' = [compensation EXCEPT !.state = decision]
  /\ UNCHANGED <<delivery, order, allocation, receipt, requests, run, spent>>

-----------------------------------------------------------------------------
(* The receipt: the buyer's channel, the inbox and the decision.            *)

ConfigureReceipt ==
  /\ receipt.state = "none"
  /\ receipt' = [receipt EXCEPT !.state = "configured"]
  /\ UNCHANGED <<delivery, order, allocation, refund, run, spent>>

\* _sync_delivery_receipt, at the end of every confirm and deliver request.
SyncDeliveryReceipt ==
  /\ delivery.state = "completed" /\ delivery.result # None
  /\ Seal(delivery.result)
  /\ UNCHANGED <<delivery, order, allocation, refund, run, spent>>

\* acknowledge_delivery: final.  A dispute then asks for compensation, in
\* transactions of their own whose errors are swallowed: it reads the dispute,
\* which nothing undoes.
Acknowledge ==
  /\ receipt.state = "delivered"
  /\ \E decision \in {"accepted", "disputed"} :
       /\ receipt' = [receipt EXCEPT !.state = decision]
       /\ \/ /\ decision = "disputed" /\ compensation.state = "none"
             /\ requests' = requests \cup {"buyer_disputed_sealed_delivery"}
          \/ UNCHANGED requests
  /\ UNCHANGED <<delivery, order, allocation, compensation, run, spent>>

-----------------------------------------------------------------------------
(* run_settlement_sweep, by the same threads between two delivery sweeps.   *)

SettlementDue ==
  /\ delivery.state = "completed"
  /\ delivery.settlement = "retryable_failure" /\ delivery.settleDue

SelectSettlement(w) ==
  /\ run[w].pc = "idle" /\ SettlementDue
  /\ Becomes(w, [Idle EXCEPT !.pc = "resettle", !.result = delivery.result])
  /\ UNCHANGED <<delivery, order, allocation, receipt, refund, spent>>

Reallocate(w) ==
  /\ run[w].pc = "resettle"
  /\ TryAllocation(w, "record")
  /\ UNCHANGED <<delivery, order, receipt, refund>>

\* The compare-and-swap on the settlement columns; the payload rewritten after
\* it changes only the copy of the allocation it carries.
RecordSettlement(w) ==
  /\ run[w].pc = "record"
  /\ delivery' =
       IF delivery.state = "completed" /\ delivery.settlement = "retryable_failure"
       THEN [delivery EXCEPT !.settlement = run[w].settlement, !.settleDue = FALSE]
       ELSE delivery
  /\ Becomes(w, Idle)
  /\ UNCHANGED <<order, allocation, receipt, refund, spent>>

-----------------------------------------------------------------------------
(* Operators, buyers, time and crashes.                                     *)

\* redrive_exhausted_delivery, whatever became of the compensation.
Redrive ==
  /\ delivery.state = "exhausted" /\ spent.redrives < MaxRedrives
  /\ delivery' = [delivery EXCEPT !.state = "pending", !.attempts = 0, !.due = TRUE,
                                  !.token = None, !.leased = FALSE, !.error = "none"]
  /\ spent' = [spent EXCEPT !.redrives = @ + 1]
  /\ UNCHANGED <<order, allocation, receipt, refund, run>>

\* resume_review_required_delivery, from the deliver request.
ResumeReview ==
  /\ delivery.state = "review_required"
  /\ delivery' = [delivery EXCEPT !.state = "retryable_failure", !.due = TRUE,
                                  !.token = None, !.leased = FALSE]
  /\ UNCHANGED <<order, allocation, receipt, refund, run, spent>>

\* accelerate_foundation_retry, from the deliver request (after a cooldown).
AccelerateRetry ==
  /\ delivery.state = "retryable_failure" /\ delivery.error = "not_ready"
  /\ ~delivery.due
  /\ delivery' = [delivery EXCEPT !.due = TRUE]
  /\ UNCHANGED <<order, allocation, receipt, refund, run, spent>>

\* (Not the code: a failed allocation stored without its next attempt.)
NeverScheduled == delivery.settlement = "pending" /\ ~delivery.settleDue

\* A failed allocation waits for its own backoff.
Scheduled == delivery.settlement = "retryable_failure" /\ ~delivery.settleDue

BackoffElapses ==
  /\ \/ /\ delivery.state = "retryable_failure" /\ ~delivery.due
        /\ delivery' = [delivery EXCEPT !.due = TRUE]
     \/ /\ Scheduled
        /\ delivery' = [delivery EXCEPT !.settleDue = TRUE]
  /\ UNCHANGED <<order, allocation, receipt, refund, run, spent>>

\* Nothing renews a lease: it also ends under a run that is still at work.
HolderAtWork == delivery.token # None /\ run[delivery.token].pc # "idle"

LeaseExpires ==
  /\ delivery.state = "running" /\ delivery.leased
  /\ delivery' = [delivery EXCEPT !.leased = FALSE]
  /\ \/ ~HolderAtWork /\ UNCHANGED spent
     \/ /\ HolderAtWork /\ spent.overruns < MaxOverruns
        /\ spent' = [spent EXCEPT !.overruns = @ + 1]
  /\ UNCHANGED <<order, allocation, receipt, refund, run>>

\* The process dies, or a database error escapes to the sweep: the run is gone.
Crash(w) ==
  /\ run[w].pc # "idle" /\ spent.crashes < MaxCrashes
  /\ Becomes(w, Idle)
  /\ spent' = [spent EXCEPT !.crashes = @ + 1]
  /\ UNCHANGED <<delivery, order, allocation, receipt, refund>>

Step(w) ==
  \/ Load(w) \/ Execute(w) \/ Allocate(w) \/ MarkOrder(w) \/ Finish(w)
  \/ Publish(w) \/ Compensate(w) \/ Reallocate(w) \/ RecordSettlement(w)

Next ==
  \/ \E w \in Workers : Claim(w) \/ SelectSettlement(w) \/ Step(w) \/ Crash(w)
  \/ BuyerRequestsCompensation \/ OpenCompensation \/ DecideCompensation
  \/ ConfigureReceipt \/ SyncDeliveryReceipt \/ Acknowledge
  \/ Redrive \/ ResumeReview \/ AccelerateRetry
  \/ BackoffElapses \/ LeaseExpires

Spec == Init /\ [][Next]_vars

(***************************************************************************)
(* The poller of every replica never stops: a run that has started goes on *)
(* to its end, due rows are selected, leases and backoffs elapse.  The     *)
(* buyer keeps asking for the delivery, which resumes a legacy review and  *)
(* syncs the receipt; nothing else is promised of people.                  *)
(***************************************************************************)
Fairness ==
  /\ \A w \in Workers : WF_vars(Step(w))
  /\ WF_vars(\E w \in Workers : Claim(w))
  /\ WF_vars(\E w \in Workers : SelectSettlement(w))
  /\ WF_vars(LeaseExpires) /\ WF_vars(BackoffElapses)
  /\ WF_vars(ResumeReview) /\ WF_vars(SyncDeliveryReceipt)

FairSpec == Spec /\ Fairness

-----------------------------------------------------------------------------
(* Properties.                                                              *)

\* A row is completed only when the order itself has been marked delivered:
\* _finish is guarded by the lease and _mark_order is not, so this needs every
\* run to write the order first and no later write to reopen it.
CompletedIsDelivered == delivery.state = "completed" => order.used

\* A delivery is given up for lack of attempts only when the attempts counted
\* in the row have reached the budget, although the run decides on a count it
\* read before the provider call (run_checkout_delivery).
ExhaustedSpentBudget ==
  delivery.state = "exhausted" => delivery.attempts >= MaxAttempts

\* The buyer's inbox never holds the result of an order that is not delivered.
SealedIsDelivered == receipt.digest # None => order.used

\* A row tells of an allocation only when the settlement exists, whichever of
\* the late runs and the two pollers of a failed allocation wrote it last
\* (run_checkout_delivery, run_settlement_sweep).
AllocatedIsSettled ==
  delivery.state = "completed" /\ delivery.settlement = "completed" => allocation # None

\* Neither of the two that tell of a delivery, the worker's row and the buyer's
\* inbox, tells of one that the order has not had, nor the row of an allocation
\* that was not made.
ReportedIsDelivered == CompletedIsDelivered /\ SealedIsDelivered /\ AllocatedIsSettled

\* What the buyer's inbox holds, what the row reports and what the order
\* stores is one and the same result: holds while no lease ends under its run.
OneResult ==
  /\ receipt.digest # None => receipt.digest = order.result
  /\ delivery.state = "completed" => delivery.result = order.result

\* At most one run is between its claim and its last write to the row
\* (HYBRID_CHECKOUT.md:106 and 120: one replica executes an attempt).
AtWork(w) == run[w].pc \in {"load", "execute", "allocate", "mark", "finish"}
OneRunAtWork == \A v, w \in Workers : AtWork(v) /\ AtWork(w) => v = w

\* A buyer is never both delivered and in a refund procedure for non-delivery,
\* as long as no operator has redriven the delivery in between.
RefundExcludesDelivery ==
  /\ compensation.state # "none"
  /\ compensation.reason # "buyer_disputed_sealed_delivery"
  /\ spent.redrives = 0
  => ~order.used

\* An order comes to one outcome: one result, told alike by the order, the row
\* and the inbox, and either it or a refund (run_checkout_delivery and
\* review_delivery_compensation write their rows in transactions of their own).
OneOutcome == OneResult /\ RefundExcludesDelivery

\* A delivered order is closed: no late run changes its status or result
\* (the `used' guard of _mark_order).
DeliveredOrderIsFinal == [][order.used => UNCHANGED order]_order

\* A completed or blocked row is never reopened, whatever late runs do.
FinalRowStays ==
  [][delivery.state \in {"completed", "blocked"} => delivery'.state = delivery.state]_delivery

\* A failed allocation stays with the settlement sweep until it succeeds
\* (HYBRID_CHECKOUT.md:213 and 218: every delivery creates its allocation, and
\* the retry of a failed one is safe across restarts).
AllocationIsRetried ==
  delivery.state = "completed" =>
    allocation # None \/ delivery.settlement = "retryable_failure"

\* Every paid delivery comes to an end, and a legacy review is not one.
DeliveryEnds == <>[](delivery.state \in TerminalStates \ {"review_required"})

\* The result of a completed delivery reaches the buyer's inbox, also when the
\* run that completed it died before sealing: the next deliver request syncs it.
CompletedIsSealed == delivery.state = "completed" ~> receipt.digest # None

\* A failed allocation that a run lived to record is retried until it succeeds,
\* whatever becomes of the pollers that retry it (run_settlement_sweep).
FailureIsRetried ==
  delivery.state = "completed" /\ delivery.settlement = "retryable_failure"
    ~> delivery.settlement = "completed"

\* The delivery machine keeps the promise of PaidOrder, as long as no lease
\* ends under a run that is still at work: a late run would deliver an order
\* that another one has already closed.
Promise == INSTANCE PaidOrder WITH
  outcome <- IF order.used THEN "delivered"
              ELSE IF delivery.state \in {"exhausted", "blocked"} THEN "closed"
              ELSE "owed",
  decision <- IF receipt.state \in {"accepted", "disputed"} THEN receipt.state
              ELSE "none",
  asked <- requests # {} \/ compensation.state # "none",
  review <- compensation.state

KeepsPromise == Promise!Spec

\* Whatever runs and pollers die or lose their lease, a delivery is brought to its
\* end, its buyer is told and its winner is allocated what is known to be owed.
DeliveryConcludes == DeliveryEnds /\ CompletedIsSealed /\ FailureIsRetried
=============================================================================
