----------------------- MODULE CheckoutDeliveryProofs -----------------------
(***************************************************************************)
(* Theorems about CheckoutDelivery, for any set of runs and results and    *)
(* any value of the bounds.                                                *)
(***************************************************************************)
EXTENDS CheckoutDelivery, TLAPS

USE DEF refund   \* the tuple of two tables

-----------------------------------------------------------------------------
(* Type correctness.  TypeOK alone is not inductive: a run that is about to *)
(* write its outcome into the row must have one.                            *)

DeliveryType ==
  [state : DeliveryStates, attempts : Nat, due : BOOLEAN,
   token : Workers \cup {None}, leased : BOOLEAN,
   error : {"none", "not_ready", "other"}, result : Results \cup {None},
   settlement : {"pending", "completed", "retryable_failure"}, settleDue : BOOLEAN]

OrderType ==
  [status : {"paid", "delivered", "foundation_review_required",
             "foundation_delivery_blocked"},
   used : BOOLEAN, result : Results \cup {None}]

ReceiptType ==
  [state : {"none", "configured", "delivered", "accepted", "disputed"},
   digest : Results \cup {None}]

CompensationType ==
  [state : {"none", "pending_review", "approved", "denied"},
   reason : Grounds \cup {"none"}]

RunType ==
  [pc : PCs, attempts : Nat, outcome : Outcomes \cup {None},
   error : {"none", "not_ready", "other"}, result : Results \cup {None},
   settlement : {"completed", "retryable_failure", None}]

SpentType == [crashes : Nat, overruns : Nat, redrives : Nat, allocErrors : Nat]

\* A local state of a run: the outcome is set before it is written.
RunOK(r) ==
  /\ r \in RunType
  /\ r.pc \in {"allocate", "mark", "finish"} => r.outcome \in Outcomes
  /\ r.pc = "record" => r.settlement \in {"completed", "retryable_failure"}

RowsOK ==
  /\ delivery \in DeliveryType
  /\ order \in OrderType
  /\ allocation \in Results \cup {None}
  /\ receipt \in ReceiptType
  /\ compensation \in CompensationType
  /\ requests \subseteq Grounds
  /\ spent \in SpentType

RunsOK ==
  /\ run \in [Workers -> RunType]
  /\ \A w \in Workers : RunOK(run[w])

TypeInv == RowsOK /\ RunsOK

LEMMA TypeInvTypeOK == TypeInv => TypeOK
  BY DEF TypeInv, RowsOK, RunsOK, TypeOK, DeliveryType, OrderType, ReceiptType,
         CompensationType, RunType, SpentType

LEMMA IdleOK == RunOK(Idle) /\ Idle \in RunType
  BY DEF Idle, RunType, RunOK, PCs

\* A step that moves one run to a good local state leaves all runs good.
LEMMA BecomesOK ==
  ASSUME RunsOK, NEW w \in Workers, NEW r, RunOK(r), Becomes(w, r)
  PROVE  RunsOK'
  BY DEF RunsOK, RunOK, Becomes

\* The initial states are well typed.
LEMMA InitTypeInv == Init => TypeInv
  <1> SUFFICES ASSUME Init PROVE TypeInv
    OBVIOUS
  <1>1. NewDelivery \in DeliveryType
    BY DEF NewDelivery, DeliveryType, DeliveryStates, TerminalStates
  <1>2. LegacyReview \in DeliveryType
    BY <1>1 DEF LegacyReview, DeliveryType, DeliveryStates, TerminalStates
  <1>3. delivery \in DeliveryType
    BY <1>1, <1>2 DEF Init
  <1>7. order \in OrderType
    <2>1. CASE order = [status |-> "paid", used |-> FALSE, result |-> None]
      BY <2>1 DEF OrderType
    <2>2. CASE order = [status |-> "foundation_review_required", used |-> FALSE,
                        result |-> None]
      BY <2>2 DEF OrderType
    <2> QED
      BY <2>1, <2>2 DEF Init
  <1>4. receipt \in ReceiptType
    BY DEF Init, ReceiptType
  <1>5. allocation \in Results \cup {None} /\ compensation \in CompensationType
         /\ requests \subseteq Grounds /\ spent \in SpentType
    BY DEF Init, CompensationType, SpentType
  <1>6. RunsOK
    BY IdleOK DEF Init, RunsOK
  <1> QED
    BY <1>3, <1>4, <1>5, <1>6, <1>7 DEF TypeInv, RowsOK

\* Every step of a run keeps the types.
LEMMA StepTypeInv ==
  ASSUME TypeInv, NEW w \in Workers, Step(w) PROVE TypeInv'
  <1>0. RowsOK /\ RunsOK /\ RunOK(run[w]) /\ run[w] \in RunType
    BY DEF TypeInv, RunsOK
  <1>1. CASE Load(w)
    <2> DEFINE seen == [run[w] EXCEPT
                 !.attempts = IF delivery.attempts = 0 THEN 1 ELSE delivery.attempts]
               done == [seen EXCEPT !.pc = "finish", !.outcome = "completed",
                                    !.result = order.result]
               next == [seen EXCEPT !.pc = "execute"]
    <2>1. seen \in RunType
      BY <1>0 DEF RowsOK, DeliveryType, RunType
    <2>2. order.result \in Results \cup {None}
      BY <1>0 DEF RowsOK, OrderType
    <2> HIDE DEF seen
    <2>3. RunOK(done)
      BY <2>1, <2>2 DEF RunOK, RunType, PCs, Outcomes
    <2>4. RunOK(next)
      BY <2>1 DEF RunOK, RunType, PCs
    <2>5. RunsOK'
      BY <1>0, <1>1, <2>3, <2>4, BecomesOK DEF Load, seen
    <2> QED
      BY <1>0, <1>1, <2>5 DEF Load, TypeInv, RowsOK
  <1>2. CASE Execute(w)
    <2>1. AfterFailure(w) \in {"exhausted", "retryable_failure"}
      BY DEF AfterFailure
    <2>2. ASSUME NEW r \in Results
          PROVE  RunOK([run[w] EXCEPT !.pc = "allocate", !.outcome = "completed",
                                      !.result = r])
      BY <1>0 DEF RunOK, RunType, PCs, Outcomes
    <2>3. RunOK([run[w] EXCEPT !.pc = "mark", !.outcome = "blocked"])
      BY <1>0 DEF RunOK, RunType, PCs, Outcomes
    <2>4. RunOK([run[w] EXCEPT
             !.pc = IF AfterFailure(w) = "exhausted" THEN "mark" ELSE "finish",
             !.outcome = AfterFailure(w), !.error = "not_ready"])
      BY <1>0, <2>1 DEF RunOK, RunType, PCs, Outcomes
    <2>5. RunOK([run[w] EXCEPT !.pc = "finish", !.outcome = AfterFailure(w),
                               !.error = "other"])
      BY <1>0, <2>1 DEF RunOK, RunType, PCs, Outcomes
    <2>6. RunsOK'
      BY <1>0, <1>2, <2>2, <2>3, <2>4, <2>5, BecomesOK DEF Execute
    <2> QED
      BY <1>0, <1>2, <2>6 DEF Execute, TypeInv, RowsOK
  <1>3. CASE Allocate(w)
    <2>1. ASSUME NEW s \in {"completed", "retryable_failure"}
          PROVE  RunOK([run[w] EXCEPT !.pc = "mark", !.settlement = s])
      BY <1>0, <1>3 DEF RunOK, RunType, PCs, Allocate, TryAllocation
    <2>2. RunsOK'
      BY <1>0, <1>3, <2>1, BecomesOK DEF Allocate, TryAllocation, Unallocated
    <2>3. run[w].result \in Results \cup {None}
      BY <1>0 DEF RunType
    <2> QED
      BY <1>0, <1>3, <2>2, <2>3
         DEF Allocate, TryAllocation, AllocateTo, AllocationFails, TypeInv, RowsOK,
             SpentType
  <1>4. CASE MarkOrder(w)
    <2>1. RunOK([run[w] EXCEPT !.pc = "finish"])
      BY <1>0, <1>4 DEF RunOK, RunType, PCs, MarkOrder
    <2>2. RunsOK'
      BY <1>0, <1>4, <2>1, BecomesOK DEF MarkOrder
    <2>3. run[w].result \in Results \cup {None}
      BY <1>0 DEF RunType
    <2>4. order' \in OrderType
      BY <1>0, <1>4, <2>3 DEF MarkOrder, RowsOK, OrderType
    <2> QED
      BY <1>0, <1>4, <2>2, <2>4 DEF MarkOrder, TypeInv, RowsOK
  <1>5. CASE Finish(w)
    <2>1. RunOK(AfterFinish(w))
      BY <1>0, IdleOK DEF AfterFinish, RunOK, RunType, PCs
    <2>2. RunsOK'
      BY <1>0, <1>5, <2>1, BecomesOK DEF Finish
    <2>3. run[w].outcome \in DeliveryStates
      BY <1>0, <1>5 DEF Finish, RunOK, DeliveryStates, TerminalStates, Outcomes
    <2>4. delivery' \in DeliveryType
      <3> DEFINE kept == IF run[w].settlement = None THEN delivery.settlement
                         ELSE run[w].settlement
                 again == run[w].outcome # "retryable_failure"
                 row == [delivery EXCEPT
                           !.state = run[w].outcome, !.token = None, !.leased = FALSE,
                           !.due = again, !.error = run[w].error, !.result = run[w].result,
                           !.settlement = kept, !.settleDue = FALSE]
      <3>1. /\ run[w].error \in {"none", "not_ready", "other"}
            /\ run[w].result \in Results \cup {None}
            /\ run[w].settlement \in {"completed", "retryable_failure", None}
        BY <1>0 DEF RunType
      <3>2. delivery \in DeliveryType
        BY <1>0 DEF RowsOK
      <3>3. kept \in {"pending", "completed", "retryable_failure"}
        BY <3>1, <3>2 DEF DeliveryType
      <3>4. again \in BOOLEAN
        OBVIOUS
      <3>5. delivery' \in {delivery, row}
        BY <1>5, <3>2 DEF Finish, DeliveryType
      <3> HIDE DEF kept, again
      <3>6. row \in DeliveryType
        BY <2>3, <3>1, <3>2, <3>3, <3>4 DEF DeliveryType
      <3> QED
        BY <3>2, <3>5, <3>6
    <2> QED
      BY <1>0, <1>5, <2>2, <2>4 DEF Finish, TypeInv, RowsOK
  <1>6. CASE Publish(w)
    <2>1. RunsOK'
      BY <1>0, <1>6, IdleOK, BecomesOK DEF Publish
    <2>2. receipt' \in ReceiptType
      BY <1>0, <1>6 DEF Publish, Seal, RowsOK, ReceiptType, RunType
    <2> QED
      BY <1>0, <1>6, <2>1, <2>2 DEF Publish, TypeInv, RowsOK
  <1>7. CASE Compensate(w)
    <2>1. RunsOK'
      BY <1>0, <1>7, IdleOK, BecomesOK DEF Compensate
    <2>2. requests' \subseteq Grounds
      BY <1>0, <1>7 DEF Compensate, ReadGround, Read, Ground, Grounds, RowsOK
    <2> QED
      BY <1>0, <1>7, <2>1, <2>2 DEF Compensate, TypeInv, RowsOK
  <1>8. CASE Reallocate(w)
    <2>1. ASSUME NEW s \in {"completed", "retryable_failure"}
          PROVE  RunOK([run[w] EXCEPT !.pc = "record", !.settlement = s])
      BY <1>0 DEF RunOK, RunType, PCs
    <2>2. RunsOK'
      BY <1>0, <1>8, <2>1, BecomesOK DEF Reallocate, TryAllocation, Unallocated
    <2>3. run[w].result \in Results \cup {None}
      BY <1>0 DEF RunType
    <2> QED
      BY <1>0, <1>8, <2>2, <2>3
         DEF Reallocate, TryAllocation, AllocateTo, AllocationFails, TypeInv, RowsOK,
             SpentType
  <1>9. CASE RecordSettlement(w)
    <2>1. RunsOK'
      BY <1>0, <1>9, IdleOK, BecomesOK DEF RecordSettlement
    <2>3. run[w].settlement \in {"completed", "retryable_failure"}
      BY <1>0, <1>9 DEF RecordSettlement, RunOK
    <2>2. delivery' \in DeliveryType
      BY <1>0, <1>9, <2>3 DEF RecordSettlement, RowsOK, DeliveryType
    <2> QED
      BY <1>0, <1>9, <2>1, <2>2 DEF RecordSettlement, TypeInv, RowsOK
  <1> QED
    BY <1>1, <1>2, <1>3, <1>4, <1>5, <1>6, <1>7, <1>8, <1>9 DEF Step

\* Every action keeps the types.
LEMMA NextTypeInv ==
  ASSUME TypeInv, [Next]_vars PROVE TypeInv'
  <1>0. RowsOK /\ RunsOK
    BY DEF TypeInv
  <1>1. ASSUME NEW w \in Workers, Claim(w) PROVE TypeInv'
    <2>1. RunOK([Idle EXCEPT !.pc = "load"])
      BY IdleOK DEF RunOK, RunType, PCs
    <2>2. RunsOK'
      BY <1>0, <1>1, <2>1, BecomesOK DEF Claim
    <2>4. "running" \in DeliveryStates /\ w \in Workers \cup {None}
      BY DEF DeliveryStates
    <2>5. delivery \in DeliveryType /\ delivery.attempts + 1 \in Nat
      BY <1>0 DEF RowsOK, DeliveryType
    <2>3. delivery' \in DeliveryType
      BY <1>1, <2>4, <2>5 DEF Claim, DeliveryType
    <2> QED
      BY <1>0, <1>1, <2>2, <2>3 DEF Claim, TypeInv, RowsOK
  <1>2. ASSUME NEW w \in Workers, SelectSettlement(w) PROVE TypeInv'
    <2>1. delivery.result \in Results \cup {None}
      BY <1>0 DEF RowsOK, DeliveryType
    <2>2. RunOK([Idle EXCEPT !.pc = "resettle", !.result = delivery.result])
      BY <2>1, IdleOK DEF RunOK, RunType, PCs
    <2>3. RunsOK'
      BY <1>0, <1>2, <2>2, BecomesOK DEF SelectSettlement
    <2> QED
      BY <1>0, <1>2, <2>3 DEF SelectSettlement, TypeInv, RowsOK
  <1>3. ASSUME NEW w \in Workers, Step(w) PROVE TypeInv'
    BY <1>3, StepTypeInv
  <1>4. ASSUME NEW w \in Workers, Crash(w) PROVE TypeInv'
    <2>1. RunsOK'
      BY <1>0, <1>4, IdleOK, BecomesOK DEF Crash
    <2> QED
      BY <1>0, <1>4, <2>1 DEF Crash, TypeInv, RowsOK, SpentType
  <1>5. CASE BuyerRequestsCompensation \/ OpenCompensation \/ DecideCompensation
    <2>1. requests' \subseteq Grounds
      BY <1>0, <1>5 DEF BuyerRequestsCompensation, OpenCompensation, DecideCompensation,
         Read, Ground, Grounds, RowsOK
    <2>2. compensation' \in CompensationType
      BY <1>0, <1>5 DEF BuyerRequestsCompensation, OpenCompensation, DecideCompensation,
         CompensationType, RowsOK
    <2> QED
      BY <1>0, <1>5, <2>1, <2>2 DEF BuyerRequestsCompensation, OpenCompensation,
         DecideCompensation, TypeInv, RowsOK, RunsOK
  <1>6. CASE ConfigureReceipt \/ SyncDeliveryReceipt \/ Acknowledge
    <2>1. delivery.result \in Results \cup {None}
      BY <1>0 DEF RowsOK, DeliveryType
    <2>2. receipt' \in ReceiptType
      BY <1>0, <1>6, <2>1
         DEF ConfigureReceipt, SyncDeliveryReceipt, Acknowledge, Seal, RowsOK, ReceiptType
    <2>3. compensation' = compensation /\ requests' \subseteq Grounds
      BY <1>0, <1>6 DEF ConfigureReceipt, SyncDeliveryReceipt, Acknowledge, RowsOK,
                        Grounds
    <2> QED
      BY <1>0, <1>6, <2>2, <2>3 DEF ConfigureReceipt, SyncDeliveryReceipt, Acknowledge,
                                    TypeInv, RowsOK, RunsOK
  <1>7. CASE Redrive
    <2>1. delivery' \in DeliveryType
      BY <1>0, <1>7 DEF Redrive, RowsOK, DeliveryType, DeliveryStates
    <2>2. spent' \in SpentType
      BY <1>0, <1>7 DEF Redrive, RowsOK, SpentType
    <2> QED
      BY <1>0, <1>7, <2>1, <2>2 DEF Redrive, TypeInv, RowsOK, RunsOK
  <1>8. CASE ResumeReview \/ AccelerateRetry
    <2>1. delivery' \in DeliveryType
      BY <1>0, <1>8 DEF ResumeReview, AccelerateRetry, RowsOK, DeliveryType, DeliveryStates
    <2> QED
      BY <1>0, <1>8, <2>1 DEF ResumeReview, AccelerateRetry, TypeInv, RowsOK, RunsOK
  <1>10. CASE BackoffElapses \/ LeaseExpires
    <2>1. delivery' \in DeliveryType
      BY <1>0, <1>10 DEF BackoffElapses, LeaseExpires, RowsOK, DeliveryType
    <2>2. spent' \in SpentType
      BY <1>0, <1>10 DEF BackoffElapses, LeaseExpires, RowsOK, SpentType
    <2> QED
      BY <1>0, <1>10, <2>1, <2>2 DEF BackoffElapses, LeaseExpires, TypeInv, RowsOK, RunsOK
  <1>9. CASE UNCHANGED vars
    BY <1>0, <1>9 DEF vars, TypeInv, RowsOK, RunsOK
  <1> QED
    BY <1>1, <1>2, <1>3, <1>4, <1>5, <1>6, <1>7, <1>8, <1>9, <1>10 DEF Next

\* Every reachable state is well typed (the columns of the rows and the local
\* variables of run_checkout_delivery and run_settlement_sweep).
THEOREM TypeCorrect == Spec => []TypeOK
  <1>1. Spec => []TypeInv
    BY InitTypeInv, NextTypeInv, PTL DEF Spec
  <1> QED
    BY <1>1, TypeInvTypeOK, PTL

-----------------------------------------------------------------------------
(* What a transaction of a run leaves of the run: its program counter and   *)
(* the columns it carries to its next transaction.                          *)

LEMMA BecomesLocal ==
  ASSUME RunsOK, NEW w \in Workers, NEW r, Becomes(w, r)
  PROVE  /\ run'[w] = r
         /\ \A v \in Workers : v # w => run'[v] = run[v]
  BY DEF RunsOK, Becomes

OthersStay(w) == \A v \in Workers : v # w => run'[v] = run[v]

LEMMA LoadEffect ==
  ASSUME TypeInv, NEW w \in Workers, Load(w)
  PROVE  /\ OthersStay(w)
         /\ AlreadyDelivered => /\ run'[w].pc = "finish"
                                /\ run'[w].outcome = "completed"
                                /\ run'[w].result = order.result
         /\ ~AlreadyDelivered => run'[w].pc = "execute"
         /\ run'[w].settlement = run[w].settlement
         /\ run'[w].attempts = IF delivery.attempts = 0 THEN 1 ELSE delivery.attempts
  <1>0. RunsOK /\ run[w] \in RunType
    BY DEF TypeInv, RunsOK
  <1> DEFINE seen == [run[w] EXCEPT
               !.attempts = IF delivery.attempts = 0 THEN 1 ELSE delivery.attempts]
             done == [seen EXCEPT !.pc = "finish", !.outcome = "completed",
                                  !.result = order.result]
             next == [seen EXCEPT !.pc = "execute"]
  <1>1. OthersStay(w)
    BY <1>0, BecomesLocal DEF Load, OthersStay
  <1>2. /\ DOMAIN seen = DOMAIN run[w] /\ seen.settlement = run[w].settlement
        /\ seen.attempts = IF delivery.attempts = 0 THEN 1 ELSE delivery.attempts
    BY <1>0 DEF RunType
  <1>3. /\ AlreadyDelivered => run'[w] = done
        /\ ~AlreadyDelivered => run'[w] = next
    BY <1>0, BecomesLocal DEF Load
  <1>4. DOMAIN run[w] = {"pc", "attempts", "outcome", "error", "result", "settlement"}
    BY <1>0 DEF RunType
  <1> HIDE DEF seen
  <1>5. /\ done.pc = "finish" /\ done.outcome = "completed"
        /\ done.result = order.result /\ done.settlement = seen.settlement
        /\ next.pc = "execute" /\ next.settlement = seen.settlement
        /\ done.attempts = seen.attempts /\ next.attempts = seen.attempts
    BY <1>2, <1>4
  <1> QED
    BY <1>1, <1>2, <1>3, <1>5

LEMMA ExecuteEffect ==
  ASSUME TypeInv, NEW w \in Workers, Execute(w)
  PROVE  /\ OthersStay(w)
         /\ \/ /\ run'[w].pc = "allocate" /\ run'[w].outcome = "completed"
               /\ run'[w].result \in Results
            \/ /\ run'[w].pc \in {"mark", "finish"}
               /\ run'[w].outcome \in {"blocked", "exhausted", "retryable_failure"}
         /\ run'[w].settlement = run[w].settlement
  <1>0. RunsOK /\ run[w] \in RunType
    BY DEF TypeInv, RunsOK
  <1>1. OthersStay(w)
    <2>1. \E r : Becomes(w, r)
      BY DEF Execute
    <2> QED
      BY <1>0, <2>1, BecomesLocal DEF OthersStay
  <1>2. AfterFailure(w) \in {"exhausted", "retryable_failure"}
    BY DEF AfterFailure
  <1>3. ASSUME NEW r \in Results,
               Becomes(w, [run[w] EXCEPT !.pc = "allocate", !.outcome = "completed",
                                         !.result = r])
        PROVE  /\ run'[w].pc = "allocate" /\ run'[w].outcome = "completed"
               /\ run'[w].result = r /\ run'[w].settlement = run[w].settlement
    BY <1>0, <1>3 DEF Becomes, RunsOK, RunType
  <1>4. ASSUME Becomes(w, [run[w] EXCEPT !.pc = "mark", !.outcome = "blocked"])
        PROVE  /\ run'[w].pc = "mark" /\ run'[w].outcome = "blocked"
               /\ run'[w].settlement = run[w].settlement
    BY <1>0, <1>4 DEF Becomes, RunsOK, RunType
  <1>5. ASSUME NEW pc \in {"mark", "finish"}, NEW e,
               Becomes(w, [run[w] EXCEPT !.pc = pc, !.outcome = AfterFailure(w),
                                         !.error = e])
        PROVE  /\ run'[w].pc = pc /\ run'[w].outcome = AfterFailure(w)
               /\ run'[w].settlement = run[w].settlement
    BY <1>0, <1>5 DEF Becomes, RunsOK, RunType
  <1>6. CASE \E r \in Results :
               Becomes(w, [run[w] EXCEPT !.pc = "allocate", !.outcome = "completed",
                                         !.result = r])
    BY <1>1, <1>3, <1>6
  <1>7. CASE Becomes(w, [run[w] EXCEPT !.pc = "mark", !.outcome = "blocked"])
    BY <1>1, <1>4, <1>7
  <1>8. CASE \/ Becomes(w, [run[w] EXCEPT
                  !.pc = IF AfterFailure(w) = "exhausted" THEN "mark" ELSE "finish",
                  !.outcome = AfterFailure(w), !.error = "not_ready"])
             \/ Becomes(w, [run[w] EXCEPT !.pc = "finish", !.outcome = AfterFailure(w),
                                          !.error = "other"])
    BY <1>1, <1>2, <1>5, <1>8
  <1> QED
    BY <1>6, <1>7, <1>8 DEF Execute

LEMMA AllocateEffect ==
  ASSUME TypeInv, NEW w \in Workers, Allocate(w)
  PROVE  /\ OthersStay(w)
         /\ run'[w].pc = "mark"
         /\ run'[w].attempts = run[w].attempts
         /\ run'[w].outcome = run[w].outcome
         /\ run'[w].result = run[w].result
         /\ \/ /\ run'[w].settlement = "completed" /\ spent' = spent
               /\ allocation' = AllocateTo(run[w].result)
            \/ /\ run'[w].settlement = "retryable_failure" /\ AllocationFails(run[w].result)
  <1>0. RunsOK /\ run[w] \in RunType
    BY DEF TypeInv, RunsOK
  <1> DEFINE after(result) == [run[w] EXCEPT !.pc = "mark", !.settlement = result]
  <1>1. OthersStay(w)
    BY <1>0, BecomesLocal DEF Allocate, TryAllocation, OthersStay
  <1>2. \/ /\ run'[w] = after("completed") /\ spent' = spent
           /\ allocation' = AllocateTo(run[w].result)
        \/ run'[w] = after("retryable_failure") /\ AllocationFails(run[w].result)
    BY <1>0, BecomesLocal DEF Allocate, TryAllocation, Unallocated
  <1>3. \A e \in {"completed", "retryable_failure"} :
           /\ after(e).pc = "mark" /\ after(e).settlement = e
           /\ after(e).attempts = run[w].attempts
           /\ after(e).outcome = run[w].outcome /\ after(e).result = run[w].result
    BY <1>0 DEF RunType
  <1> HIDE DEF after
  <1> QED
    BY <1>1, <1>2, <1>3

LEMMA MarkEffect ==
  ASSUME TypeInv, NEW w \in Workers, MarkOrder(w)
  PROVE  /\ OthersStay(w)
         /\ run'[w].pc = "finish"
         /\ run'[w].attempts = run[w].attempts
         /\ run'[w].outcome = run[w].outcome
         /\ run'[w].result = run[w].result
         /\ run'[w].settlement = run[w].settlement
  <1>0. RunsOK /\ run[w] \in RunType
    BY DEF TypeInv, RunsOK
  <1>1. OthersStay(w) /\ run'[w] = [run[w] EXCEPT !.pc = "finish"]
    BY <1>0, BecomesLocal DEF MarkOrder, OthersStay
  <1> QED
    BY <1>0, <1>1 DEF RunType

LEMMA FinishEffect ==
  ASSUME TypeInv, NEW w \in Workers, Finish(w)
  PROVE  /\ OthersStay(w)
         /\ run'[w].pc \in {"publish", "compensate", "idle"}
         /\ run'[w].pc = "publish" => /\ run[w].outcome = "completed"
                                      /\ run'[w].result = run[w].result
         /\ run'[w].settlement \in {run[w].settlement, None}
         /\ Holds(w) => /\ delivery'.state = run[w].outcome
                        /\ delivery'.result = run[w].result
                        /\ delivery'.settlement =
                             IF run[w].settlement = None THEN delivery.settlement
                             ELSE run[w].settlement
         /\ run[w].outcome \in Outcomes
  <1>0. RunsOK /\ run[w] \in RunType /\ RunOK(run[w]) /\ delivery \in DeliveryType
    BY DEF TypeInv, RunsOK, RowsOK
  <1>1. OthersStay(w) /\ run'[w] = AfterFinish(w)
    BY <1>0, BecomesLocal DEF Finish, OthersStay
  <1>2. /\ AfterFinish(w).pc \in {"publish", "compensate", "idle"}
        /\ AfterFinish(w).pc = "publish" =>
             /\ run[w].outcome = "completed" /\ AfterFinish(w).result = run[w].result
        /\ AfterFinish(w).settlement \in {run[w].settlement, None}
    BY <1>0 DEF AfterFinish, RunType, Idle
  <1>3. run[w].outcome \in Outcomes
    BY <1>0 DEF Finish, RunOK
  <1>4. Holds(w) => /\ delivery'.state = run[w].outcome
                    /\ delivery'.result = run[w].result
                    /\ delivery'.settlement =
                         IF run[w].settlement = None THEN delivery.settlement
                         ELSE run[w].settlement
    BY <1>0 DEF Finish, DeliveryType
  <1> QED
    BY <1>1, <1>2, <1>3, <1>4

LEMMA LastEffect ==
  ASSUME TypeInv, NEW w \in Workers,
         Publish(w) \/ Compensate(w) \/ RecordSettlement(w) \/ Crash(w)
  PROVE  /\ OthersStay(w)
         /\ run'[w].pc = "idle" /\ run'[w].settlement = None
         /\ delivery'.state = delivery.state /\ delivery'.token = delivery.token
         /\ delivery'.result = delivery.result
  <1>0. RunsOK /\ delivery \in DeliveryType
    BY DEF TypeInv, RowsOK
  <1>1. Becomes(w, Idle)
    BY DEF Publish, Compensate, RecordSettlement, Crash
  <1>2. run'[w].pc = "idle" /\ run'[w].settlement = None /\ OthersStay(w)
    BY <1>0, <1>1, BecomesLocal DEF Idle, OthersStay
  <1> QED
    BY <1>0, <1>2 DEF Publish, Compensate, RecordSettlement, Crash, DeliveryType

LEMMA ReallocateEffect ==
  ASSUME TypeInv, NEW w \in Workers, Reallocate(w)
  PROVE  /\ OthersStay(w)
         /\ run'[w].pc = "record"
         /\ \/ /\ run'[w].settlement = "completed" /\ spent' = spent
               /\ allocation' = AllocateTo(run[w].result)
            \/ /\ run'[w].settlement = "retryable_failure" /\ AllocationFails(run[w].result)
  <1>0. RunsOK /\ run[w] \in RunType
    BY DEF TypeInv, RunsOK
  <1> DEFINE after(result) == [run[w] EXCEPT !.pc = "record", !.settlement = result]
  <1>1. OthersStay(w)
    BY <1>0, BecomesLocal DEF Reallocate, TryAllocation, OthersStay
  <1>2. \/ /\ run'[w] = after("completed") /\ spent' = spent
           /\ allocation' = AllocateTo(run[w].result)
        \/ run'[w] = after("retryable_failure") /\ AllocationFails(run[w].result)
    BY <1>0, BecomesLocal DEF Reallocate, TryAllocation, Unallocated
  <1>3. \A e \in {"completed", "retryable_failure"} :
           after(e).pc = "record" /\ after(e).settlement = e
    BY <1>0 DEF RunType
  <1> HIDE DEF after
  <1> QED
    BY <1>1, <1>2, <1>3

\* The first transaction of a run: the claim of the row, or the selection of an
\* allocation to retry.
LEMMA ClaimEffect ==
  ASSUME TypeInv, NEW w \in Workers, Claim(w)
  PROVE  /\ OthersStay(w)
         /\ run'[w].pc = "load" /\ run'[w].settlement = None
         /\ delivery'.state = "running" /\ delivery'.token = w
         /\ delivery'.result = delivery.result
         /\ delivery'.settlement = delivery.settlement
  <1>0. RunsOK /\ delivery \in DeliveryType
    BY DEF TypeInv, RowsOK
  <1>1. [Idle EXCEPT !.pc = "load"].pc = "load" /\ [Idle EXCEPT !.pc = "load"].settlement = None
    BY DEF Idle
  <1>2. OthersStay(w) /\ run'[w] = [Idle EXCEPT !.pc = "load"]
    BY <1>0, BecomesLocal DEF Claim, OthersStay
  <1> QED
    BY <1>0, <1>1, <1>2 DEF Claim, DeliveryType

LEMMA SelectEffect ==
  ASSUME TypeInv, NEW w \in Workers, SelectSettlement(w)
  PROVE  /\ OthersStay(w)
         /\ run'[w].pc = "resettle" /\ run'[w].result = delivery.result
         /\ run'[w].settlement = None
  <1>0. RunsOK
    BY DEF TypeInv
  <1>1. OthersStay(w)
    BY <1>0, BecomesLocal DEF SelectSettlement, OthersStay
  <1> QED
    BY <1>0, <1>1 DEF SelectSettlement, Idle, Becomes, RunsOK

-----------------------------------------------------------------------------
(* Delivered orders.  _finish is guarded by the lease and _mark_order is    *)
(* not: the invariant ties them through what each run is about to write.    *)

RunKnowsDelivery(w) ==
  /\ run[w].pc = "publish" => order.used
  /\ run[w].pc = "finish" /\ run[w].outcome = "completed" => order.used

DeliveredInv ==
  /\ order.status = "delivered" => order.used
  /\ CompletedIsDelivered
  /\ SealedIsDelivered
  /\ \A w \in Workers : RunKnowsDelivery(w)

\* Only _mark_order writes the order, and never after its delivery.
LEMMA OrderWrites ==
  ASSUME TypeInv, [Next]_vars
  PROVE  /\ order' = order \/ \E w \in Workers : MarkOrder(w)
         /\ order.used => order' = order
  <1>1. order' = order \/ \E w \in Workers : MarkOrder(w)
    BY DEF Next, Step, vars, Claim, Load, Execute, Allocate, TryAllocation, Finish,
           Publish, Compensate, SelectSettlement, Reallocate, RecordSettlement,
           BuyerRequestsCompensation, OpenCompensation, DecideCompensation,
           ConfigureReceipt, SyncDeliveryReceipt, Acknowledge, Redrive, ResumeReview,
           AccelerateRetry, BackoffElapses, LeaseExpires, Crash
  <1>2. ASSUME NEW w \in Workers, MarkOrder(w) PROVE order.used => order' = order
    BY <1>2 DEF MarkOrder, OrderOpen
  <1> QED
    BY <1>1, <1>2

LEMMA InitDeliveredInv == Init => DeliveredInv
  <1> SUFFICES ASSUME Init PROVE DeliveredInv
    OBVIOUS
  <1>1. delivery.state # "completed"
    <2>1. NewDelivery.state = "pending" /\ LegacyReview.state = "review_required"
      BY DEF NewDelivery, LegacyReview
    <2> QED
      BY <2>1 DEF Init
  <1>2. order.status # "delivered"
    <2>1. CASE order = [status |-> "paid", used |-> FALSE, result |-> None]
      BY <2>1
    <2>2. CASE order = [status |-> "foundation_review_required", used |-> FALSE,
                        result |-> None]
      BY <2>2
    <2> QED
      BY <2>1, <2>2 DEF Init
  <1>4. receipt.digest = None
    BY DEF Init
  <1>3. \A w \in Workers : RunKnowsDelivery(w)
    BY DEF Init, RunKnowsDelivery, Idle
  <1> QED
    BY <1>1, <1>2, <1>3, <1>4 DEF DeliveredInv, CompletedIsDelivered, SealedIsDelivered

LEMMA StepDeliveredInv ==
  ASSUME TypeInv, DeliveredInv, NEW w \in Workers, Step(w) PROVE DeliveredInv'
  <1>0. RunsOK /\ RunOK(run[w]) /\ run[w] \in RunType
    BY DEF TypeInv, RunsOK
  <1>1. CASE Load(w)
    <2>1. AlreadyDelivered => order.used
      BY DEF AlreadyDelivered, DeliveredInv
    <2>2. run'[w].pc \in {"finish", "execute"} /\ (run'[w].pc = "finish" => order.used)
      BY <1>1, <2>1, LoadEffect
    <2>3. \A v \in Workers : v # w => run'[v] = run[v]
      BY <1>0, <1>1, BecomesLocal DEF Load
    <2> QED
      BY <1>1, <2>2, <2>3
         DEF Load, DeliveredInv, CompletedIsDelivered, SealedIsDelivered, RunKnowsDelivery
  <1>2. CASE Execute(w)
    <2>1. run'[w].pc \in {"allocate", "mark", "finish"}
           /\ (run'[w].pc = "finish" => run'[w].outcome # "completed")
      <3>1. AfterFailure(w) \in {"exhausted", "retryable_failure"}
        BY DEF AfterFailure
      <3>2. ASSUME NEW r \in Results,
                   Becomes(w, [run[w] EXCEPT !.pc = "allocate", !.outcome = "completed",
                                             !.result = r])
            PROVE  run'[w].pc = "allocate"
        BY <1>0, <3>2 DEF Becomes, RunsOK, RunType
      <3>3. ASSUME Becomes(w, [run[w] EXCEPT !.pc = "mark", !.outcome = "blocked"])
            PROVE  run'[w].pc = "mark"
        BY <1>0, <3>3 DEF Becomes, RunsOK, RunType
      <3>4. ASSUME NEW pc \in {"mark", "finish"}, NEW e,
                   Becomes(w, [run[w] EXCEPT !.pc = pc, !.outcome = AfterFailure(w),
                                             !.error = e])
            PROVE  run'[w].pc = pc /\ run'[w].outcome = AfterFailure(w)
        BY <1>0, <3>4 DEF Becomes, RunsOK, RunType
      <3> QED
        BY <1>2, <3>1, <3>2, <3>3, <3>4 DEF Execute
    <2>2. \A v \in Workers : v # w => run'[v] = run[v]
      BY <1>0, <1>2, BecomesLocal DEF Execute
    <2> QED
      BY <1>2, <2>1, <2>2
         DEF Execute, DeliveredInv, CompletedIsDelivered, SealedIsDelivered, RunKnowsDelivery
  <1>3. CASE Allocate(w)
    <2>1. run'[w].pc = "mark"
      BY <1>3, AllocateEffect
    <2>2. \A v \in Workers : v # w => run'[v] = run[v]
      BY <1>0, <1>3, BecomesLocal DEF Allocate, TryAllocation
    <2> QED
      BY <1>3, <2>1, <2>2
         DEF Allocate, TryAllocation, DeliveredInv, CompletedIsDelivered,
             SealedIsDelivered, RunKnowsDelivery
  <1>4. CASE MarkOrder(w)
    <2>1. run'[w].pc = "finish" /\ run'[w].outcome = run[w].outcome
      BY <1>0, <1>4, BecomesLocal DEF MarkOrder, RunType
    <2>2. \A v \in Workers : v # w => run'[v] = run[v]
      BY <1>0, <1>4, BecomesLocal DEF MarkOrder
    <2>3. order.used => order'.used
      BY <1>4 DEF MarkOrder, OrderOpen
    <2>4. run[w].outcome = "completed" => order'.used
      BY <1>4 DEF MarkOrder, OrderOpen
    <2>5. order'.status = "delivered" => order'.used
      BY <1>4 DEF MarkOrder, OrderOpen, DeliveredInv
    <2>6. delivery' = delivery /\ receipt' = receipt
      BY <1>4 DEF MarkOrder
    <2> QED
      BY <2>1, <2>2, <2>3, <2>4, <2>5, <2>6
         DEF DeliveredInv, CompletedIsDelivered, SealedIsDelivered, RunKnowsDelivery
  <1>5. CASE Finish(w)
    <2>1. run'[w].pc = "publish" => run[w].outcome = "completed"
      BY <1>0, <1>5, BecomesLocal DEF Finish, AfterFinish, RunType, Idle
    <2>2. run'[w].pc # "finish"
      BY <1>0, <1>5, BecomesLocal DEF Finish, AfterFinish, RunType, Idle
    <2>3. \A v \in Workers : v # w => run'[v] = run[v]
      BY <1>0, <1>5, BecomesLocal DEF Finish
    <2>4. run[w].outcome = "completed" => order.used
      BY <1>5 DEF Finish, DeliveredInv, RunKnowsDelivery
    <2>5. delivery'.state = "completed" =>
            delivery.state = "completed" \/ run[w].outcome = "completed"
      BY <1>5 DEF Finish, TypeInv, RowsOK, DeliveryType
    <2>6. order' = order /\ receipt' = receipt
      BY <1>5 DEF Finish
    <2> QED
      BY <2>1, <2>2, <2>3, <2>4, <2>5, <2>6
         DEF DeliveredInv, CompletedIsDelivered, SealedIsDelivered, RunKnowsDelivery
  <1>6. CASE Publish(w)
    <2>1. run'[w].pc = "idle" /\ \A v \in Workers : v # w => run'[v] = run[v]
      BY <1>0, <1>6, BecomesLocal DEF Publish, Idle
    <2>2. order.used
      BY <1>6 DEF Publish, DeliveredInv, RunKnowsDelivery
    <2> QED
      BY <1>6, <2>1, <2>2
         DEF Publish, DeliveredInv, CompletedIsDelivered, SealedIsDelivered, RunKnowsDelivery
  <1>7. CASE Compensate(w) \/ RecordSettlement(w)
    <2>1. run'[w].pc = "idle" /\ \A v \in Workers : v # w => run'[v] = run[v]
      BY <1>0, <1>7, BecomesLocal DEF Compensate, RecordSettlement, Idle
    <2>2. order' = order /\ receipt' = receipt /\ delivery'.state = delivery.state
      BY <1>7 DEF Compensate, RecordSettlement, TypeInv, RowsOK, DeliveryType
    <2> QED
      BY <2>1, <2>2
         DEF DeliveredInv, CompletedIsDelivered, SealedIsDelivered, RunKnowsDelivery
  <1>8. CASE Reallocate(w)
    <2>1. run'[w].pc = "record" /\ \A v \in Workers : v # w => run'[v] = run[v]
      BY <1>8, ReallocateEffect DEF OthersStay
    <2> QED
      BY <1>8, <2>1
         DEF Reallocate, TryAllocation, DeliveredInv, CompletedIsDelivered,
             SealedIsDelivered, RunKnowsDelivery
  <1> QED
    BY <1>1, <1>2, <1>3, <1>4, <1>5, <1>6, <1>7, <1>8 DEF Step

LEMMA NextDeliveredInv ==
  ASSUME TypeInv, DeliveredInv, [Next]_vars PROVE DeliveredInv'
  <1>0. RunsOK /\ delivery \in DeliveryType /\ receipt \in ReceiptType
    BY DEF TypeInv, RowsOK
  <1>1. ASSUME NEW w \in Workers, Step(w) PROVE DeliveredInv'
    BY <1>1, StepDeliveredInv
  <1>2. ASSUME NEW w \in Workers, Claim(w) \/ SelectSettlement(w) \/ Crash(w)
        PROVE  DeliveredInv'
    <2>1. run'[w].pc \in {"load", "resettle", "idle"}
      <3>1. CASE Claim(w)
        BY <1>0, <3>1 DEF Claim, Idle, Becomes, RunsOK
      <3>2. CASE SelectSettlement(w)
        BY <1>0, <3>2 DEF SelectSettlement, Idle, Becomes, RunsOK
      <3>3. CASE Crash(w)
        BY <1>0, <3>3 DEF Crash, Idle, Becomes, RunsOK
      <3> QED
        BY <1>2, <3>1, <3>2, <3>3
    <2>2. \A v \in Workers : v # w => run'[v] = run[v]
      BY <1>0, <1>2, BecomesLocal DEF Claim, SelectSettlement, Crash
    <2>3. order' = order /\ receipt' = receipt
           /\ delivery'.state \in {delivery.state, "running"}
      BY <1>0, <1>2 DEF Claim, SelectSettlement, Crash, DeliveryType
    <2> QED
      BY <2>1, <2>2, <2>3
         DEF DeliveredInv, CompletedIsDelivered, SealedIsDelivered, RunKnowsDelivery
  <1>3. CASE SyncDeliveryReceipt
    BY <1>3 DEF SyncDeliveryReceipt, DeliveredInv, CompletedIsDelivered,
       SealedIsDelivered, RunKnowsDelivery
  <1>4. CASE BuyerRequestsCompensation \/ OpenCompensation \/ DecideCompensation
             \/ ConfigureReceipt \/ Acknowledge
    <2>1. receipt'.digest = receipt.digest
      BY <1>0, <1>4 DEF BuyerRequestsCompensation, OpenCompensation, DecideCompensation,
                        ConfigureReceipt, Acknowledge, ReceiptType
    <2> QED
      BY <1>4, <2>1 DEF BuyerRequestsCompensation, OpenCompensation, DecideCompensation,
                        ConfigureReceipt, Acknowledge, DeliveredInv,
                        CompletedIsDelivered, SealedIsDelivered, RunKnowsDelivery
  <1>5. CASE Redrive \/ ResumeReview \/ AccelerateRetry \/ BackoffElapses \/ LeaseExpires
    <2>1. delivery'.state \in {delivery.state, "pending", "retryable_failure"}
      BY <1>0, <1>5 DEF Redrive, ResumeReview, AccelerateRetry, BackoffElapses,
         LeaseExpires, DeliveryType
    <2>2. order' = order /\ receipt' = receipt /\ run' = run
      BY <1>5 DEF Redrive, ResumeReview, AccelerateRetry, BackoffElapses, LeaseExpires
    <2> QED
      BY <2>1, <2>2
         DEF DeliveredInv, CompletedIsDelivered, SealedIsDelivered, RunKnowsDelivery
  <1>6. CASE UNCHANGED vars
    BY <1>6 DEF vars, DeliveredInv, CompletedIsDelivered, SealedIsDelivered, RunKnowsDelivery
  <1> QED
    BY <1>1, <1>2, <1>3, <1>4, <1>5, <1>6 DEF Next

LEMMA AlwaysDeliveredInv == Spec => [](TypeInv /\ DeliveredInv)
  BY InitTypeInv, NextTypeInv, InitDeliveredInv, NextDeliveredInv, PTL DEF Spec

\* No late run changes a delivered order (_mark_order).
THEOREM DeliveredOrdersAreFinal == Spec => DeliveredOrderIsFinal
  <1>1. TypeInv /\ [Next]_vars => [order.used => UNCHANGED order]_order
    BY OrderWrites
  <1> QED
    BY <1>1, AlwaysDeliveredInv, PTL DEF Spec, DeliveredOrderIsFinal

-----------------------------------------------------------------------------
(* The attempt budget.  The run compares the count it read after its claim  *)
(* with the budget; while it holds the row that count is the row's.         *)

CountsKept(w) ==
  /\ Holds(w) /\ run[w].pc \in {"execute", "allocate", "mark", "finish"}
       => run[w].attempts = delivery.attempts
  /\ run[w].pc \in {"allocate", "mark", "finish"} /\ run[w].outcome = "exhausted"
       => run[w].attempts >= MaxAttempts

BudgetInv ==
  /\ delivery.state = "running" => delivery.attempts >= 1
  /\ ExhaustedSpentBudget
  /\ \A w \in Workers : CountsKept(w)

LEMMA InitBudgetInv == Init => BudgetInv
  <1> SUFFICES ASSUME Init PROVE BudgetInv
    OBVIOUS
  <1>1. delivery.state \in {"pending", "review_required"}
    <2>1. NewDelivery.state = "pending" /\ LegacyReview.state = "review_required"
      BY DEF NewDelivery, LegacyReview
    <2> QED
      BY <2>1 DEF Init
  <1>2. \A w \in Workers : CountsKept(w)
    BY DEF Init, CountsKept, Idle
  <1> QED
    BY <1>1, <1>2 DEF BudgetInv, ExhaustedSpentBudget

LEMMA StepBudgetInv ==
  ASSUME TypeInv, BudgetInv, NEW w \in Workers, Step(w) PROVE BudgetInv'
  <1>0. RunsOK /\ RunOK(run[w]) /\ run[w] \in RunType /\ delivery \in DeliveryType
    BY DEF TypeInv, RunsOK, RowsOK
  <1>a. MaxAttempts \in Nat
    BY ConstantsAssumption
  <1>b. SUFFICES /\ delivery'.state = "running" => delivery'.attempts >= 1
                 /\ ExhaustedSpentBudget'
                 /\ CountsKept(w)'
                 /\ \A v \in Workers : v # w => CountsKept(v)'
    BY DEF BudgetInv
  <1>1. CASE Load(w)
    <2>1. delivery' = delivery /\ \A v \in Workers : v # w => run'[v] = run[v]
      BY <1>0, <1>1, BecomesLocal DEF Load
    <2>2. Holds(w) => delivery.attempts # 0
      BY <1>0 DEF Holds, BudgetInv, DeliveryType
    <2>3. /\ run'[w].attempts = IF delivery.attempts = 0 THEN 1 ELSE delivery.attempts
          /\ run'[w].pc \in {"finish", "execute"}
          /\ run'[w].pc = "finish" => run'[w].outcome = "completed"
      BY <1>1, LoadEffect
    <2> QED
      BY <2>1, <2>2, <2>3 DEF BudgetInv, ExhaustedSpentBudget, CountsKept, Holds
  <1>2. CASE Execute(w)
    <2>1. delivery' = delivery /\ \A v \in Workers : v # w => run'[v] = run[v]
      BY <1>0, <1>2, BecomesLocal DEF Execute
    <2>2. /\ run'[w].attempts = run[w].attempts
          /\ run'[w].outcome \in {"completed", "blocked"}
                \/ run'[w].outcome = AfterFailure(w)
      <3>2. ASSUME NEW r \in Results,
                   Becomes(w, [run[w] EXCEPT !.pc = "allocate", !.outcome = "completed",
                                             !.result = r])
            PROVE  run'[w].attempts = run[w].attempts /\ run'[w].outcome = "completed"
        BY <1>0, <3>2 DEF Becomes, RunsOK, RunType
      <3>3. ASSUME Becomes(w, [run[w] EXCEPT !.pc = "mark", !.outcome = "blocked"])
            PROVE  run'[w].attempts = run[w].attempts /\ run'[w].outcome = "blocked"
        BY <1>0, <3>3 DEF Becomes, RunsOK, RunType
      <3>4. ASSUME NEW pc \in {"mark", "finish"}, NEW e,
                   Becomes(w, [run[w] EXCEPT !.pc = pc, !.outcome = AfterFailure(w),
                                             !.error = e])
            PROVE  run'[w].attempts = run[w].attempts /\ run'[w].outcome = AfterFailure(w)
        BY <1>0, <3>4 DEF Becomes, RunsOK, RunType
      <3> QED
        BY <1>2, <3>2, <3>3, <3>4 DEF Execute
    <2>3. AfterFailure(w) = "exhausted" => run[w].attempts >= MaxAttempts
      BY DEF AfterFailure
    <2>4. run[w].pc = "execute"
      BY <1>2 DEF Execute
    <2> QED
      BY <2>1, <2>2, <2>3, <2>4 DEF BudgetInv, ExhaustedSpentBudget, CountsKept, Holds
  <1>3. CASE Allocate(w)
    <2>1. delivery' = delivery /\ \A v \in Workers : v # w => run'[v] = run[v]
      BY <1>0, <1>3, BecomesLocal DEF Allocate, TryAllocation
    <2>2. run'[w].attempts = run[w].attempts /\ run'[w].outcome = run[w].outcome
      BY <1>3, AllocateEffect
    <2>3. run[w].pc = "allocate"
      BY <1>3 DEF Allocate, TryAllocation
    <2> QED
      BY <2>1, <2>2, <2>3 DEF BudgetInv, ExhaustedSpentBudget, CountsKept, Holds
  <1>4. CASE MarkOrder(w)
    <2>1. delivery' = delivery /\ \A v \in Workers : v # w => run'[v] = run[v]
      BY <1>0, <1>4, BecomesLocal DEF MarkOrder
    <2>2. run'[w].attempts = run[w].attempts /\ run'[w].outcome = run[w].outcome
      BY <1>4, MarkEffect
    <2>3. run[w].pc = "mark"
      BY <1>4 DEF MarkOrder
    <2> QED
      BY <2>1, <2>2, <2>3 DEF BudgetInv, ExhaustedSpentBudget, CountsKept, Holds
  <1>5. CASE Finish(w)
    <2>1. run'[w].pc \in {"publish", "compensate", "idle"}
      BY <1>0, <1>5, BecomesLocal DEF Finish, AfterFinish, RunType, Idle
    <2>2. \A v \in Workers : v # w => run'[v] = run[v]
      BY <1>0, <1>5, BecomesLocal DEF Finish
    <2>3. CASE ~Holds(w)
      <3>1. delivery' = delivery
        BY <1>5, <2>3 DEF Finish
      <3> QED
        BY <2>1, <2>2, <3>1 DEF BudgetInv, ExhaustedSpentBudget, CountsKept, Holds
    <2>4. CASE Holds(w)
      <3>1. /\ delivery'.state = run[w].outcome
            /\ delivery'.attempts = delivery.attempts
        BY <1>0, <1>5, <2>4 DEF Finish, DeliveryType
      <3>2. run[w].outcome # "running"
        BY <1>0, <1>5 DEF Finish, RunOK, Outcomes
      <3>3. run[w].outcome = "exhausted" => delivery.attempts >= MaxAttempts
        BY <1>5, <2>4 DEF Finish, BudgetInv, CountsKept
      <3> QED
        BY <2>1, <2>2, <3>1, <3>2, <3>3
           DEF BudgetInv, ExhaustedSpentBudget, CountsKept, Holds
    <2> QED
      BY <2>3, <2>4
  <1>6. CASE Publish(w) \/ Compensate(w) \/ RecordSettlement(w)
    <2>1. run'[w].pc = "idle" /\ \A v \in Workers : v # w => run'[v] = run[v]
      BY <1>0, <1>6, BecomesLocal DEF Publish, Compensate, RecordSettlement, Idle
    <2>2. /\ delivery'.state = delivery.state /\ delivery'.token = delivery.token
          /\ delivery'.attempts = delivery.attempts
      BY <1>0, <1>6 DEF Publish, Compensate, RecordSettlement, DeliveryType
    <2> QED
      BY <2>1, <2>2 DEF BudgetInv, ExhaustedSpentBudget, CountsKept, Holds
  <1>7. CASE Reallocate(w)
    <2>1. run'[w].pc = "record"
      BY <1>7, ReallocateEffect
    <2>2. delivery' = delivery /\ \A v \in Workers : v # w => run'[v] = run[v]
      BY <1>0, <1>7, BecomesLocal DEF Reallocate, TryAllocation
    <2> QED
      BY <2>1, <2>2 DEF BudgetInv, ExhaustedSpentBudget, CountsKept, Holds
  <1> QED
    BY <1>1, <1>2, <1>3, <1>4, <1>5, <1>6, <1>7 DEF Step

LEMMA NextBudgetInv ==
  ASSUME TypeInv, BudgetInv, [Next]_vars PROVE BudgetInv'
  <1>0. RunsOK /\ delivery \in DeliveryType
    BY DEF TypeInv, RowsOK
  <1>1. ASSUME NEW w \in Workers, Step(w) PROVE BudgetInv'
    BY <1>1, StepBudgetInv
  <1>2. ASSUME NEW w \in Workers, Claim(w) PROVE BudgetInv'
    <2>1. run'[w].pc = "load" /\ \A v \in Workers : v # w => run'[v] = run[v]
      <3>1. [Idle EXCEPT !.pc = "load"].pc = "load"
        BY DEF Idle
      <3> QED
        BY <1>0, <1>2, <3>1, BecomesLocal DEF Claim
    <2>2. delivery'.state = "running" /\ delivery'.token = w
           /\ delivery'.attempts = delivery.attempts + 1 /\ delivery.attempts \in Nat
      BY <1>0, <1>2 DEF Claim, DeliveryType
    <2> QED
      BY <2>1, <2>2 DEF BudgetInv, ExhaustedSpentBudget, CountsKept, Holds
  <1>3. ASSUME NEW w \in Workers, SelectSettlement(w) \/ Crash(w) PROVE BudgetInv'
    <2>1. run'[w].pc \in {"resettle", "idle"}
      <3>1. CASE SelectSettlement(w)
        BY <1>0, <3>1 DEF SelectSettlement, Idle, Becomes, RunsOK
      <3>2. CASE Crash(w)
        BY <1>0, <3>2 DEF Crash, Idle, Becomes, RunsOK
      <3> QED
        BY <1>3, <3>1, <3>2
    <2>2. delivery' = delivery /\ \A v \in Workers : v # w => run'[v] = run[v]
      BY <1>0, <1>3, BecomesLocal DEF SelectSettlement, Crash
    <2> QED
      BY <2>1, <2>2 DEF BudgetInv, ExhaustedSpentBudget, CountsKept, Holds
  <1>4. CASE BuyerRequestsCompensation \/ OpenCompensation \/ DecideCompensation
             \/ ConfigureReceipt \/ SyncDeliveryReceipt \/ Acknowledge
    BY <1>4 DEF BuyerRequestsCompensation, OpenCompensation, DecideCompensation,
                ConfigureReceipt, SyncDeliveryReceipt, Acknowledge, BudgetInv,
                ExhaustedSpentBudget, CountsKept, Holds
  <1>5. CASE Redrive \/ ResumeReview
    <2>1. delivery'.state \in {"pending", "retryable_failure"} /\ run' = run
      BY <1>0, <1>5 DEF Redrive, ResumeReview, DeliveryType
    <2> QED
      BY <2>1 DEF BudgetInv, ExhaustedSpentBudget, CountsKept, Holds
  <1>6. CASE AccelerateRetry \/ BackoffElapses \/ LeaseExpires
    <2>1. /\ delivery'.state = delivery.state /\ delivery'.token = delivery.token
          /\ delivery'.attempts = delivery.attempts /\ run' = run
      BY <1>0, <1>6 DEF AccelerateRetry, BackoffElapses, LeaseExpires, DeliveryType
    <2> QED
      BY <2>1 DEF BudgetInv, ExhaustedSpentBudget, CountsKept, Holds
  <1>7. CASE UNCHANGED vars
    BY <1>7 DEF vars, BudgetInv, ExhaustedSpentBudget, CountsKept, Holds
  <1> QED
    BY <1>1, <1>2, <1>3, <1>4, <1>5, <1>6, <1>7 DEF Next

\* A delivery is exhausted only when its whole budget has been used, also when
\* runs overtake each other (run_checkout_delivery, _claim, _finish).
THEOREM BudgetIsSpent == Spec => []ExhaustedSpentBudget
  <1>1. Spec => [](TypeInv /\ BudgetInv)
    BY InitTypeInv, NextTypeInv, InitBudgetInv, NextBudgetInv, PTL DEF Spec
  <1> QED
    BY <1>1, PTL DEF BudgetInv

-----------------------------------------------------------------------------
(* Mutual exclusion of the runs, when leases outlive their runs.            *)

SoleInv ==
  /\ spent.overruns = 0
  /\ \A w \in Workers : AtWork(w) => Holds(w) /\ delivery.leased

LEMMA SoleOne == TypeInv /\ SoleInv => OneRunAtWork
  BY DEF SoleInv, OneRunAtWork, Holds

LEMMA InitSoleInv == Init => SoleInv
  BY DEF Init, SoleInv, AtWork, Idle

LEMMA StepSoleInv ==
  ASSUME TypeInv, SoleInv, NEW w \in Workers, Step(w) PROVE SoleInv'
  <1>0. RunsOK /\ RunOK(run[w]) /\ run[w] \in RunType /\ delivery \in DeliveryType
         /\ spent \in SpentType
    BY DEF TypeInv, RunsOK, RowsOK
  <1>1. spent'.overruns = 0
    BY <1>0 DEF SoleInv, Step, Load, Execute, Allocate, TryAllocation, AllocationFails,
                MarkOrder, Finish, Publish, Compensate, Reallocate, RecordSettlement,
                SpentType
  <1>2. \A v \in Workers : v # w => run'[v] = run[v]
    BY <1>0, BecomesLocal DEF Step, Load, Execute, Allocate, TryAllocation, MarkOrder,
                              Finish, Publish, Compensate, Reallocate, RecordSettlement
  <1>3. CASE Load(w) \/ Execute(w) \/ Allocate(w) \/ MarkOrder(w)
    <2>1. AtWork(w) /\ delivery' = delivery
      BY <1>3 DEF Load, Execute, Allocate, TryAllocation, MarkOrder, AtWork
    <2> QED
      BY <1>1, <1>2, <2>1 DEF SoleInv, AtWork, Holds
  <1>4. CASE Finish(w)
    <2>1. ~AtWork(w)'
      BY <1>0, <1>4, BecomesLocal DEF Finish, AfterFinish, RunType, Idle, AtWork
    <2>2. Holds(w)
      BY <1>4 DEF Finish, SoleInv, AtWork
    <2>3. \A v \in Workers : v # w => ~AtWork(v)
      BY <2>2 DEF SoleInv, Holds
    <2> QED
      BY <1>1, <1>2, <2>1, <2>3 DEF SoleInv, AtWork
  <1>5. CASE Publish(w) \/ Compensate(w) \/ RecordSettlement(w)
    <2>1. ~AtWork(w)'
      BY <1>0, <1>5, BecomesLocal DEF Publish, Compensate, RecordSettlement, Idle, AtWork
    <2>2. /\ delivery'.state = delivery.state /\ delivery'.token = delivery.token
          /\ delivery'.leased = delivery.leased
      BY <1>0, <1>5 DEF Publish, Compensate, RecordSettlement, DeliveryType
    <2> QED
      BY <1>1, <1>2, <2>1, <2>2 DEF SoleInv, AtWork, Holds
  <1>6. CASE Reallocate(w)
    <2>1. run'[w].pc = "record" /\ delivery' = delivery
      BY <1>6, ReallocateEffect DEF Reallocate, TryAllocation
    <2> QED
      BY <1>1, <1>2, <2>1 DEF SoleInv, AtWork, Holds
  <1> QED
    BY <1>3, <1>4, <1>5, <1>6 DEF Step

LEMMA NextSoleInv ==
  ASSUME TypeInv, SoleInv, MaxOverruns = 0, [Next]_vars PROVE SoleInv'
  <1>0. RunsOK /\ delivery \in DeliveryType /\ spent \in SpentType
    BY DEF TypeInv, RowsOK
  <1>1. ASSUME NEW w \in Workers, Step(w) PROVE SoleInv'
    BY <1>1, StepSoleInv
  <1>2. ASSUME NEW w \in Workers, Claim(w) PROVE SoleInv'
    <2>1. \A v \in Workers : ~AtWork(v)
      BY <1>2 DEF Claim, Claimable, SoleInv, Holds
    <2>2. \A v \in Workers : v # w => run'[v] = run[v]
      BY <1>0, <1>2, BecomesLocal DEF Claim
    <2>3. delivery'.state = "running" /\ delivery'.token = w /\ delivery'.leased
      BY <1>0, <1>2 DEF Claim, DeliveryType
    <2> QED
      BY <1>2, <2>1, <2>2, <2>3 DEF Claim, SoleInv, AtWork, Holds
  <1>3. ASSUME NEW w \in Workers, SelectSettlement(w) \/ Crash(w) PROVE SoleInv'
    <2>1. run'[w].pc \in {"resettle", "idle"}
      <3>1. CASE SelectSettlement(w)
        BY <1>0, <3>1 DEF SelectSettlement, Idle, Becomes, RunsOK
      <3>2. CASE Crash(w)
        BY <1>0, <3>2 DEF Crash, Idle, Becomes, RunsOK
      <3> QED
        BY <1>3, <3>1, <3>2
    <2>2. delivery' = delivery /\ \A v \in Workers : v # w => run'[v] = run[v]
      BY <1>0, <1>3, BecomesLocal DEF SelectSettlement, Crash
    <2>3. spent'.overruns = spent.overruns
      BY <1>0, <1>3 DEF SelectSettlement, Crash, SpentType
    <2> QED
      BY <2>1, <2>2, <2>3 DEF SoleInv, AtWork, Holds
  <1>4. CASE BuyerRequestsCompensation \/ OpenCompensation \/ DecideCompensation
             \/ ConfigureReceipt \/ SyncDeliveryReceipt \/ Acknowledge
    BY <1>4 DEF BuyerRequestsCompensation, OpenCompensation, DecideCompensation,
                ConfigureReceipt, SyncDeliveryReceipt, Acknowledge, SoleInv, AtWork,
                Holds
  <1>5. CASE Redrive \/ ResumeReview
    <2>1. \A v \in Workers : ~AtWork(v)
      BY <1>5 DEF Redrive, ResumeReview, SoleInv, Holds
    <2>2. run' = run /\ spent'.overruns = spent.overruns
      BY <1>0, <1>5 DEF Redrive, ResumeReview, SpentType
    <2> QED
      BY <2>1, <2>2 DEF SoleInv, AtWork
  <1>6. CASE AccelerateRetry \/ BackoffElapses
    <2>1. /\ delivery'.state = delivery.state /\ delivery'.token = delivery.token
          /\ delivery'.leased = delivery.leased /\ run' = run /\ spent' = spent
      BY <1>0, <1>6 DEF AccelerateRetry, BackoffElapses, DeliveryType
    <2> QED
      BY <2>1 DEF SoleInv, AtWork, Holds
  <1>7. CASE LeaseExpires
    <2>1. ~HolderAtWork /\ spent' = spent /\ run' = run
      BY <1>0, <1>7 DEF LeaseExpires, SoleInv
    <2>2. \A v \in Workers : ~AtWork(v)
      BY <2>1, ConstantsAssumption DEF SoleInv, Holds, HolderAtWork, AtWork
    <2> QED
      BY <2>1, <2>2 DEF SoleInv, AtWork
  <1>8. CASE UNCHANGED vars
    BY <1>8 DEF vars, SoleInv, AtWork, Holds
  <1> QED
    BY <1>1, <1>2, <1>3, <1>4, <1>5, <1>6, <1>7, <1>8 DEF Next

\* The leases do make the runs exclude one another, crashes included, provided
\* that no lease ends while its run is still at work: the very assumption
\* run_checkout_delivery does not enforce.
THEOREM LeasesExcludeRuns ==
  ASSUME MaxOverruns = 0
  PROVE  Spec => []OneRunAtWork
  <1>1. TypeInv /\ SoleInv /\ [Next]_vars => TypeInv' /\ SoleInv'
    BY NextTypeInv, NextSoleInv
  <1>2. TypeInv /\ SoleInv => OneRunAtWork
    BY SoleOne
  <1> QED
    BY <1>1, <1>2, InitTypeInv, InitSoleInv, PTL DEF Spec

-----------------------------------------------------------------------------
(* One outcome for an order, when leases outlive their runs.  The order is  *)
(* delivered while its row is running or after it, so a run at work finds   *)
(* it delivered only by itself or by a run that died, and then completes    *)
(* the row with the result of the order.                                    *)

RunKeepsOutcome(w) ==
  /\ AtWork(w) /\ order.used =>
       \/ run[w].pc = "load"
       \/ run[w].pc = "finish" /\ run[w].outcome = "completed"
  /\ run[w].pc = "publish" => run[w].result = order.result
  /\ run[w].pc = "finish" /\ run[w].outcome = "completed"
       => run[w].result = order.result
  /\ run[w].pc = "allocate" => run[w].outcome = "completed"
  /\ run[w].pc \in {"allocate", "mark"} /\ run[w].outcome = "completed"
       => run[w].result # None

SealedStates == {"delivered", "accepted", "disputed"}

\* A review, or a request that is to open one, is of a row that was given up, or
\* of a dispute.
OfDispute == {"buyer_disputed_sealed_delivery"}

RefundIsOfClosed ==
  /\ spent.redrives = 0
  /\ \/ compensation.state # "none" /\ compensation.reason \notin OfDispute
     \/ ~(requests \subseteq OfDispute)
  => delivery.state \in {"exhausted", "blocked"}

DeliveredRow ==
  order.used => delivery.state \in {"running", "completed"} /\ order.result # None

SealedReceipt == (receipt.digest # None) <=> (receipt.state \in SealedStates)

OutcomeInv ==
  /\ DeliveredRow
  /\ OneResult
  /\ SealedReceipt
  /\ RefundIsOfClosed
  /\ \A w \in Workers : RunKeepsOutcome(w)

OutcomeParts == DeliveredRow /\ OneResult /\ SealedReceipt /\ RefundIsOfClosed

LEMMA OutcomeOne == DeliveredInv /\ OutcomeInv => OneOutcome
  BY DEF DeliveredInv, OutcomeInv, OneOutcome, RefundExcludesDelivery, RefundIsOfClosed,
         OfDispute, DeliveredRow

LEMMA InitOutcomeInv == Init => OutcomeInv
  <1> SUFFICES ASSUME Init PROVE OutcomeInv
    OBVIOUS
  <1>1. delivery.state \in {"pending", "review_required"}
    <2>1. NewDelivery.state = "pending" /\ LegacyReview.state = "review_required"
      BY DEF NewDelivery, LegacyReview
    <2> QED
      BY <2>1 DEF Init
  <1>2. ~order.used
    <2>1. CASE order = [status |-> "paid", used |-> FALSE, result |-> None]
      BY <2>1
    <2>2. CASE order = [status |-> "foundation_review_required", used |-> FALSE,
                        result |-> None]
      BY <2>2
    <2> QED
      BY <2>1, <2>2 DEF Init
  <1>3. receipt.digest = None /\ receipt.state \in {"none", "configured"}
    BY DEF Init
  <1>4. compensation.state = "none" /\ requests = {}
    BY DEF Init
  <1>5. \A w \in Workers : run[w].pc = "idle"
    BY DEF Init, Idle
  <1>6. \A w \in Workers : RunKeepsOutcome(w)
    BY <1>5 DEF RunKeepsOutcome, AtWork
  <1> QED
    BY <1>1, <1>2, <1>3, <1>4, <1>6 DEF OutcomeInv, DeliveredRow, OneResult, SealedReceipt,
       SealedStates, RefundIsOfClosed

\* A step that leaves the order and the runs alone.
LEMMA RunsOutcomeKept ==
  ASSUME OutcomeInv, UNCHANGED <<order, run>>
  PROVE  \A w \in Workers : RunKeepsOutcome(w)'
  BY DEF OutcomeInv, RunKeepsOutcome, AtWork

\* A step of one run that leaves the order alone.
LEMMA OthersOutcomeKept ==
  ASSUME OutcomeInv, UNCHANGED order, NEW w \in Workers, OthersStay(w),
         RunKeepsOutcome(w)'
  PROVE  \A v \in Workers : RunKeepsOutcome(v)'
  <1>1. ASSUME NEW v \in Workers, v # w PROVE RunKeepsOutcome(v)'
    BY <1>1 DEF OutcomeInv, RunKeepsOutcome, AtWork, OthersStay
  <1> QED
    BY <1>1

\* What a request reads, of a row that was not given up, is a dispute.
LEMMA ReadsDispute ==
  ASSUME ReadGround \/ UNCHANGED requests
  PROVE  \/ requests' \subseteq requests \cup OfDispute
         \/ delivery.state \in {"exhausted", "blocked"}
  BY DEF ReadGround, Read, Ground, Eligible, OfDispute

LEMMA StepOutcomeInv ==
  ASSUME TypeInv, DeliveredInv, SoleInv, OutcomeInv, NEW w \in Workers, Step(w)
  PROVE  OutcomeInv'
  <1>0. /\ delivery \in DeliveryType /\ order \in OrderType /\ receipt \in ReceiptType
        /\ compensation \in CompensationType /\ spent \in SpentType
        /\ OutcomeParts /\ RunKeepsOutcome(w)
    BY DEF TypeInv, RowsOK, OutcomeInv, OutcomeParts
  <1>1. CASE Load(w)
    <2>1. OutcomeParts' /\ UNCHANGED order
      BY <1>0, <1>1 DEF Load, OutcomeParts, DeliveredRow, OneResult, SealedReceipt,
                        RefundIsOfClosed
    <2>2. AlreadyDelivered <=> order.used
      BY DEF AlreadyDelivered, DeliveredInv
    <2>3. RunKeepsOutcome(w)'
      BY <1>1, <2>1, <2>2, LoadEffect DEF RunKeepsOutcome, AtWork
    <2> QED
      BY <1>1, <2>1, <2>3, LoadEffect, OthersOutcomeKept DEF OutcomeInv, OutcomeParts
  <1>2. CASE Execute(w)
    <2>1. OutcomeParts' /\ UNCHANGED order
      BY <1>0, <1>2 DEF Execute, OutcomeParts, DeliveredRow, OneResult, SealedReceipt,
                        RefundIsOfClosed
    <2>2. ~order.used
      BY <1>0, <1>2 DEF Execute, RunKeepsOutcome, AtWork
    <2>3. RunKeepsOutcome(w)'
      BY <1>2, <2>1, <2>2, ExecuteEffect, ConstantsAssumption DEF RunKeepsOutcome, AtWork
    <2> QED
      <3>1. OthersStay(w)
        BY <1>2, ExecuteEffect
      <3>2. \A v \in Workers : RunKeepsOutcome(v)'
        BY <2>1, <2>3, <3>1, OthersOutcomeKept
      <3> QED
        BY <2>1, <3>2 DEF OutcomeInv, OutcomeParts
  <1>3. CASE Allocate(w)
    <2>1. OutcomeParts' /\ UNCHANGED order
      BY <1>0, <1>3 DEF Allocate, TryAllocation, AllocationFails, OutcomeParts,
                        DeliveredRow, OneResult, SealedReceipt, RefundIsOfClosed,
                        SpentType
    <2>2. RunKeepsOutcome(w)'
      BY <1>0, <1>3, <2>1, AllocateEffect DEF Allocate, TryAllocation, RunKeepsOutcome,
                                              AtWork
    <2> QED
      BY <1>3, <2>1, <2>2, AllocateEffect, OthersOutcomeKept DEF OutcomeInv, OutcomeParts
  <1>4. CASE MarkOrder(w)
    <2>1. run[w].pc = "mark" /\ AtWork(w) /\ ~order.used
      BY <1>0, <1>4 DEF MarkOrder, RunKeepsOutcome, AtWork
    <2>2. delivery.state = "running" /\ \A v \in Workers : v # w => ~AtWork(v)
      BY <2>1 DEF SoleInv, Holds
    <2>3. \A v \in Workers : run[v].pc # "publish"
      BY <2>1 DEF DeliveredInv, RunKnowsDelivery
    <2>4. receipt.digest = None
      BY <2>1 DEF DeliveredInv, SealedIsDelivered
    <2>5. order'.used => run[w].outcome = "completed" /\ order'.result = run[w].result
      BY <1>4, <2>1 DEF MarkOrder, OrderOpen
    <2>6. run[w].outcome = "completed" => order'.used
      BY <1>4, <2>1 DEF MarkOrder, OrderOpen
    <2>7. OutcomeParts'
      BY <1>0, <1>4, <2>1, <2>2, <2>4, <2>5
         DEF MarkOrder, OutcomeParts, DeliveredRow, OneResult, SealedReceipt,
             RefundIsOfClosed, RunKeepsOutcome
    <2>8. RunKeepsOutcome(w)'
      BY <1>4, <2>5, <2>6, MarkEffect DEF RunKeepsOutcome, AtWork
    <2>9. ASSUME NEW v \in Workers, v # w PROVE RunKeepsOutcome(v)'
      <3>1. ~AtWork(v) /\ run[v].pc # "publish" /\ run'[v] = run[v]
        BY <1>4, <2>2, <2>3, <2>9, MarkEffect DEF OthersStay
      <3> QED
        BY <3>1 DEF RunKeepsOutcome, AtWork
    <2> QED
      BY <2>7, <2>8, <2>9 DEF OutcomeInv, OutcomeParts
  <1>5. CASE Finish(w)
    <2>1. run[w].pc = "finish" /\ Holds(w) /\ UNCHANGED <<order, receipt, refund, spent>>
      BY <1>5 DEF Finish, SoleInv, AtWork
    <2>2. /\ delivery'.state = run[w].outcome
          /\ delivery'.result = run[w].result
      BY <1>5, <2>1, FinishEffect
    <2>3. order.used <=> run[w].outcome = "completed"
      BY <1>0, <2>1 DEF RunKeepsOutcome, AtWork, DeliveredInv, RunKnowsDelivery
    <2>4. delivery.state = "running"
      BY <2>1 DEF Holds
    <2>5. OutcomeParts'
      BY <1>0, <2>1, <2>2, <2>3, <2>4
         DEF OutcomeParts, DeliveredRow, OneResult, SealedReceipt, RefundIsOfClosed,
             RunKeepsOutcome
    <2>6. RunKeepsOutcome(w)'
      BY <1>0, <1>5, <2>1, FinishEffect DEF RunKeepsOutcome, AtWork
    <2> QED
      BY <1>5, <2>1, <2>5, <2>6, FinishEffect, OthersOutcomeKept DEF OutcomeInv, OutcomeParts
  <1>6. CASE Publish(w)
    <2>1. /\ order.used /\ run[w].result = order.result
          /\ UNCHANGED <<delivery, order, refund, spent>>
      BY <1>0, <1>6 DEF Publish, DeliveredInv, RunKnowsDelivery, RunKeepsOutcome
    <2>2. receipt' = receipt \/ (receipt.digest = None /\ receipt'.digest = order.result
                                   /\ receipt'.state = "delivered")
      BY <1>6, <2>1 DEF Publish, Seal
    <2>3. OutcomeParts'
      BY <1>0, <2>1, <2>2
         DEF OutcomeParts, DeliveredRow, OneResult, SealedReceipt, SealedStates,
             RefundIsOfClosed
    <2>4. RunKeepsOutcome(w)'
      BY <1>6, LastEffect DEF RunKeepsOutcome, AtWork
    <2> QED
      BY <1>6, <2>1, <2>3, <2>4, LastEffect, OthersOutcomeKept DEF OutcomeInv, OutcomeParts
  <1>7. CASE Compensate(w)
    <2>1. UNCHANGED <<delivery, order, receipt, compensation, spent>>
      BY <1>7 DEF Compensate
    <2>2. requests' \subseteq requests \cup OfDispute
            \/ delivery.state \in {"exhausted", "blocked"}
      BY <1>7, ReadsDispute DEF Compensate
    <2>3. OutcomeParts'
      BY <1>0, <2>1, <2>2
         DEF OutcomeParts, DeliveredRow, OneResult, SealedReceipt, RefundIsOfClosed
    <2>4. RunKeepsOutcome(w)'
      BY <1>7, LastEffect DEF RunKeepsOutcome, AtWork
    <2> QED
      BY <1>7, <2>1, <2>3, <2>4, LastEffect, OthersOutcomeKept DEF OutcomeInv, OutcomeParts
  <1>8. CASE RecordSettlement(w)
    <2>1. UNCHANGED <<order, receipt, refund, spent>>
      BY <1>8 DEF RecordSettlement
    <2>2. delivery'.state = delivery.state /\ delivery'.result = delivery.result
      BY <1>8, LastEffect
    <2>3. OutcomeParts'
      BY <1>0, <2>1, <2>2
         DEF OutcomeParts, DeliveredRow, OneResult, SealedReceipt, RefundIsOfClosed
    <2>4. RunKeepsOutcome(w)'
      BY <1>8, LastEffect DEF RunKeepsOutcome, AtWork
    <2> QED
      BY <1>8, <2>1, <2>3, <2>4, LastEffect, OthersOutcomeKept DEF OutcomeInv, OutcomeParts
  <1>9. CASE Reallocate(w)
    <2>1. UNCHANGED <<delivery, order, receipt, refund>>
           /\ spent'.redrives = spent.redrives
      BY <1>0, <1>9 DEF Reallocate, TryAllocation, AllocationFails, SpentType
    <2>2. OutcomeParts'
      BY <1>0, <2>1
         DEF OutcomeParts, DeliveredRow, OneResult, SealedReceipt, RefundIsOfClosed
    <2>3. RunKeepsOutcome(w)'
      BY <1>9, ReallocateEffect DEF RunKeepsOutcome, AtWork
    <2> QED
      BY <1>9, <2>1, <2>2, <2>3, ReallocateEffect, OthersOutcomeKept
         DEF OutcomeInv, OutcomeParts
  <1> QED
    BY <1>1, <1>2, <1>3, <1>4, <1>5, <1>6, <1>7, <1>8, <1>9 DEF Step

LEMMA NextOutcomeInv ==
  ASSUME TypeInv, DeliveredInv, SoleInv, OutcomeInv, [Next]_vars
  PROVE  OutcomeInv'
  <1>0. /\ delivery \in DeliveryType /\ order \in OrderType /\ receipt \in ReceiptType
        /\ compensation \in CompensationType /\ spent \in SpentType /\ OutcomeParts
    BY DEF TypeInv, RowsOK, OutcomeInv, OutcomeParts
  <1>1. ASSUME NEW w \in Workers, Step(w) PROVE OutcomeInv'
    BY <1>1, StepOutcomeInv
  <1>2. ASSUME NEW w \in Workers, Claim(w) PROVE OutcomeInv'
    <2>1. UNCHANGED <<order, receipt, refund, spent>>
      BY <1>2 DEF Claim
    <2>2. delivery.state \notin {"exhausted", "blocked", "completed"}
      BY <1>2 DEF Claim, Claimable
    <2>3. OutcomeParts'
      BY <1>0, <1>2, <2>1, <2>2, ClaimEffect
         DEF OutcomeParts, DeliveredRow, OneResult, SealedReceipt, RefundIsOfClosed
    <2>4. RunKeepsOutcome(w)'
      BY <1>2, ClaimEffect DEF RunKeepsOutcome
    <2> QED
      BY <1>2, <2>1, <2>3, <2>4, ClaimEffect, OthersOutcomeKept DEF OutcomeInv, OutcomeParts
  <1>3. ASSUME NEW w \in Workers, SelectSettlement(w) \/ Crash(w) PROVE OutcomeInv'
    <2>1. UNCHANGED <<delivery, order, receipt, refund>>
           /\ spent'.redrives = spent.redrives
      BY <1>0, <1>3 DEF SelectSettlement, Crash, SpentType
    <2>2. OutcomeParts'
      BY <1>0, <2>1
         DEF OutcomeParts, DeliveredRow, OneResult, SealedReceipt, RefundIsOfClosed
    <2>3. OthersStay(w) /\ run'[w].pc \in {"resettle", "idle"}
      BY <1>3, SelectEffect, LastEffect
    <2>4. RunKeepsOutcome(w)'
      BY <2>3 DEF RunKeepsOutcome, AtWork
    <2> QED
      BY <2>1, <2>2, <2>3, <2>4, OthersOutcomeKept DEF OutcomeInv, OutcomeParts
  <1>4. CASE BuyerRequestsCompensation
    <2>1. UNCHANGED <<delivery, order, receipt, compensation, run, spent>>
      BY <1>4 DEF BuyerRequestsCompensation
    <2>2. requests' \subseteq requests \cup OfDispute
            \/ delivery.state \in {"exhausted", "blocked"}
      BY <1>4, ReadsDispute DEF BuyerRequestsCompensation, ReadGround
    <2> QED
      BY <1>0, <2>1, <2>2, RunsOutcomeKept
         DEF OutcomeInv, OutcomeParts, DeliveredRow, OneResult, SealedReceipt,
             RefundIsOfClosed
  <1>5. CASE OpenCompensation \/ DecideCompensation
    <2>1. UNCHANGED <<delivery, order, receipt, run, spent>> /\ requests' \subseteq requests
      BY <1>5 DEF OpenCompensation, DecideCompensation
    <2>2. \/ compensation.state # "none" /\ compensation'.reason = compensation.reason
          \/ compensation'.reason \in requests
      BY <1>0, <1>5 DEF OpenCompensation, DecideCompensation, CompensationType
    <2> QED
      BY <1>0, <2>1, <2>2, RunsOutcomeKept
         DEF OutcomeInv, OutcomeParts, DeliveredRow, OneResult, SealedReceipt,
             RefundIsOfClosed
  <1>6. CASE ConfigureReceipt \/ Acknowledge
    <2>1. UNCHANGED <<delivery, order, run, spent>> /\ receipt'.digest = receipt.digest
      BY <1>0, <1>6 DEF ConfigureReceipt, Acknowledge, ReceiptType
    <2>2. receipt'.state \in SealedStates <=> receipt.state \in SealedStates
      BY <1>0, <1>6 DEF ConfigureReceipt, Acknowledge, ReceiptType, SealedStates
    <2>3. compensation' = compensation /\ requests' \subseteq requests \cup OfDispute
      BY <1>6 DEF ConfigureReceipt, Acknowledge, OfDispute
    <2> QED
      BY <1>0, <2>1, <2>2, <2>3, RunsOutcomeKept
         DEF OutcomeInv, OutcomeParts, DeliveredRow, OneResult, SealedReceipt,
             RefundIsOfClosed
  <1>7. CASE SyncDeliveryReceipt
    <2>1. UNCHANGED <<delivery, order, refund, run, spent>>
      BY <1>7 DEF SyncDeliveryReceipt
    <2>2. delivery.result = order.result /\ delivery.result # None
      BY <1>0, <1>7 DEF SyncDeliveryReceipt, OutcomeParts, OneResult
    <2>3. \/ receipt' = receipt
          \/ /\ receipt.digest = None /\ receipt'.digest = order.result
             /\ receipt'.state = "delivered"
      BY <1>7, <2>2 DEF SyncDeliveryReceipt, Seal
    <2> QED
      BY <1>0, <2>1, <2>2, <2>3, RunsOutcomeKept
         DEF OutcomeInv, OutcomeParts, DeliveredRow, OneResult, SealedReceipt,
             SealedStates, RefundIsOfClosed
  <1>8. CASE Redrive
    <2>1. /\ UNCHANGED <<order, receipt, refund, run>>
          /\ delivery.state = "exhausted" /\ delivery'.state = "pending"
          /\ spent'.redrives # 0
      BY <1>0, <1>8 DEF Redrive, DeliveryType, SpentType
    <2> QED
      BY <1>0, <2>1, RunsOutcomeKept
         DEF OutcomeInv, OutcomeParts, DeliveredRow, OneResult, SealedReceipt,
             RefundIsOfClosed
  <1>9. CASE ResumeReview
    <2>1. /\ UNCHANGED <<order, receipt, refund, run, spent>>
          /\ delivery.state = "review_required" /\ delivery'.state = "retryable_failure"
      BY <1>0, <1>9 DEF ResumeReview, DeliveryType
    <2> QED
      BY <1>0, <2>1, RunsOutcomeKept
         DEF OutcomeInv, OutcomeParts, DeliveredRow, OneResult, SealedReceipt,
             RefundIsOfClosed
  <1>10. CASE AccelerateRetry \/ BackoffElapses \/ LeaseExpires
    <2>1. /\ UNCHANGED <<order, receipt, refund, run>>
          /\ delivery'.state = delivery.state /\ delivery'.result = delivery.result
          /\ spent'.redrives = spent.redrives
      BY <1>0, <1>10 DEF AccelerateRetry, BackoffElapses, LeaseExpires, DeliveryType,
                         SpentType
    <2> QED
      BY <1>0, <2>1, RunsOutcomeKept
         DEF OutcomeInv, OutcomeParts, DeliveredRow, OneResult, SealedReceipt,
             RefundIsOfClosed
  <1>11. CASE UNCHANGED vars
    BY <1>0, <1>11, RunsOutcomeKept
       DEF vars, OutcomeInv, OutcomeParts, DeliveredRow, OneResult, SealedReceipt,
           RefundIsOfClosed
  <1> QED
    BY <1>1, <1>2, <1>3, <1>4, <1>5, <1>6, <1>7, <1>8, <1>9, <1>10, <1>11 DEF Next

PromiseInv == TypeInv /\ DeliveredInv /\ SoleInv /\ OutcomeInv

LEMMA PromiseInductive ==
  ASSUME MaxOverruns = 0
  PROVE  Spec => []PromiseInv
  <1>1. Init => PromiseInv
    BY InitTypeInv, InitDeliveredInv, InitSoleInv, InitOutcomeInv DEF PromiseInv
  <1>2. PromiseInv /\ [Next]_vars => PromiseInv'
    BY NextTypeInv, NextDeliveredInv, NextSoleInv, NextOutcomeInv DEF PromiseInv
  <1> QED
    BY <1>1, <1>2, PTL DEF Spec

\* As long as no lease ends under a run that is still at work, the order, the
\* worker's row and the buyer's inbox tell of one and the same result, and a
\* delivered order has no refund for non-delivery unless an operator has
\* redriven it, whatever runs die (run_checkout_delivery, _mark_order, _finish,
\* publish_delivery_payload, request_compensation).
THEOREM OrdersHaveOneOutcome ==
  ASSUME MaxOverruns = 0
  PROVE  Spec => []OneOutcome
  <1>1. PromiseInv => OneOutcome
    BY OutcomeOne DEF PromiseInv
  <1> QED
    BY <1>1, PromiseInductive, PTL

-----------------------------------------------------------------------------
(* The refinement of PaidOrder.                                             *)

MappedOutcome ==
  IF order.used THEN "delivered"
  ELSE IF delivery.state \in {"exhausted", "blocked"} THEN "closed" ELSE "owed"

MappedDecision ==
  IF receipt.state \in {"accepted", "disputed"} THEN receipt.state ELSE "none"

MappedAsked == requests # {} \/ compensation.state # "none"

LEMMA InitPromise == Init => Promise!Init
  <1> SUFFICES ASSUME Init PROVE Promise!Init
    OBVIOUS
  <1>1. delivery.state \in {"pending", "review_required"}
    <2>1. NewDelivery.state = "pending" /\ LegacyReview.state = "review_required"
      BY DEF NewDelivery, LegacyReview
    <2> QED
      BY <2>1 DEF Init
  <1>2. ~order.used
    <2>1. CASE order = [status |-> "paid", used |-> FALSE, result |-> None]
      BY <2>1
    <2>2. CASE order = [status |-> "foundation_review_required", used |-> FALSE,
                        result |-> None]
      BY <2>2
    <2> QED
      BY <2>1, <2>2 DEF Init
  <1>3. /\ receipt.state \in {"none", "configured"}
        /\ compensation.state = "none" /\ requests = {}
    BY DEF Init
  <1> QED
    BY <1>1, <1>2, <1>3 DEF Promise!Init

\* What the steps of PaidOrder say of the mapped columns.
LEMMA Stutters ==
  ASSUME MappedOutcome' = MappedOutcome, MappedDecision' = MappedDecision,
         UNCHANGED refund
  PROVE  UNCHANGED Promise!vars
  BY DEF Promise!vars, MappedOutcome, MappedDecision

LEMMA OutcomeSteps ==
  ASSUME MappedDecision' = MappedDecision, UNCHANGED refund,
         \/ MappedOutcome = "owed" /\ MappedOutcome' \in {"delivered", "closed"}
         \/ MappedOutcome = "closed" /\ MappedOutcome' = "owed"
  PROVE  Promise!Next
  BY DEF Promise!Next, Promise!Deliver, Promise!Close, Promise!Reopen, MappedOutcome,
         MappedDecision

LEMMA ReviewIsAsked ==
  ASSUME OutcomeInv, UNCHANGED <<delivery, order, receipt, compensation>>,
         ReadGround \/ UNCHANGED requests
  PROVE  Promise!Next \/ UNCHANGED Promise!vars
  <1>1. MappedOutcome' = MappedOutcome /\ MappedDecision' = MappedDecision
    BY DEF MappedOutcome, MappedDecision
  <1>2. CASE compensation.state = "none" /\ Eligible /\ ReadGround
    <2>1. requests' # {}
      BY <1>2 DEF ReadGround, Read
    <2>2. MappedOutcome = "closed" \/ MappedDecision = "disputed"
      BY <1>2 DEF Eligible, Disputed, MappedOutcome, MappedDecision, OutcomeInv,
                  DeliveredRow
    <2>3. Promise!Ask
      BY <1>1, <2>1, <2>2 DEF Promise!Ask, MappedOutcome, MappedDecision
    <2> QED
      BY <2>3 DEF Promise!Next
  <1>3. CASE UNCHANGED requests
    BY <1>1, <1>3, Stutters
  <1> QED
    BY <1>2, <1>3 DEF ReadGround

LEMMA ReviewOpens ==
  ASSUME OpenCompensation
  PROVE  Promise!Next
  <1>1. UNCHANGED <<delivery, order, receipt>> /\ requests # {}
         /\ compensation.state = "none" /\ compensation'.state = "pending_review"
    BY DEF OpenCompensation
  <1>2. Promise!OpenReview
    BY <1>1 DEF Promise!OpenReview
  <1> QED
    BY <1>2 DEF Promise!Next

LEMMA SealStutters ==
  ASSUME OutcomeInv, NEW r, Seal(r)
  PROVE  MappedDecision' = MappedDecision
  BY DEF Seal, OutcomeInv, SealedReceipt, SealedStates, MappedDecision

LEMMA StepPromise ==
  ASSUME PromiseInv, NEW w \in Workers, Step(w)
  PROVE  Promise!Next \/ UNCHANGED Promise!vars
  <1>0. /\ TypeInv /\ OutcomeInv /\ DeliveredInv /\ SoleInv /\ RunKeepsOutcome(w)
        /\ delivery \in DeliveryType /\ order \in OrderType
    BY DEF PromiseInv, OutcomeInv, TypeInv, RowsOK
  <1>1. CASE Load(w) \/ Execute(w) \/ Allocate(w) \/ Reallocate(w)
    <2>1. UNCHANGED <<delivery, order, receipt, refund>>
      BY <1>1 DEF Load, Execute, Allocate, TryAllocation, Reallocate
    <2> QED
      BY <2>1, Stutters DEF MappedOutcome, MappedDecision
  <1>2. CASE MarkOrder(w)
    <2>1. UNCHANGED <<delivery, receipt, refund>>
      BY <1>2 DEF MarkOrder
    <2>2. ~order.used /\ delivery.state = "running"
      BY <1>0, <1>2 DEF MarkOrder, RunKeepsOutcome, AtWork, SoleInv, Holds
    <2>3. MappedDecision' = MappedDecision /\ UNCHANGED refund
      BY <2>1 DEF MappedDecision
    <2>4. MappedOutcome = "owed" /\ MappedOutcome' \in {"owed", "delivered"}
      BY <2>1, <2>2 DEF MappedOutcome
    <2> QED
      BY <2>3, <2>4, Stutters, OutcomeSteps
  <1>3. CASE Finish(w)
    <2>1. run[w].pc = "finish" /\ Holds(w) /\ UNCHANGED <<order, receipt, refund>>
      BY <1>0, <1>3 DEF Finish, SoleInv, AtWork
    <2>2. delivery'.state = run[w].outcome /\ delivery.state = "running"
      BY <1>0, <1>3, <2>1, FinishEffect DEF Holds
    <2>3. MappedDecision' = MappedDecision /\ UNCHANGED refund
      BY <2>1 DEF MappedDecision
    <2>4. \/ MappedOutcome' = MappedOutcome
          \/ MappedOutcome = "owed" /\ MappedOutcome' \in {"owed", "closed"}
      BY <2>1, <2>2 DEF MappedOutcome
    <2> QED
      BY <2>3, <2>4, Stutters, OutcomeSteps
  <1>4. CASE Publish(w)
    <2>1. UNCHANGED <<delivery, order, refund>>
      BY <1>4 DEF Publish
    <2>2. MappedDecision' = MappedDecision
      BY <1>0, <1>4, SealStutters DEF Publish, MappedDecision
    <2> QED
      BY <2>1, <2>2, Stutters DEF MappedOutcome
  <1>5. CASE Compensate(w)
    BY <1>0, <1>5, ReviewIsAsked DEF Compensate
  <1>6. CASE RecordSettlement(w)
    <2>1. UNCHANGED <<order, receipt, refund>> /\ delivery'.state = delivery.state
      BY <1>0, <1>6, LastEffect DEF RecordSettlement
    <2> QED
      BY <2>1, Stutters DEF MappedOutcome, MappedDecision
  <1> QED
    BY <1>1, <1>2, <1>3, <1>4, <1>5, <1>6 DEF Step

LEMMA NextPromise ==
  ASSUME PromiseInv, [Next]_vars
  PROVE  Promise!Next \/ UNCHANGED Promise!vars
  <1>0. /\ TypeInv /\ OutcomeInv /\ DeliveredInv
        /\ delivery \in DeliveryType /\ order \in OrderType
        /\ compensation \in CompensationType /\ receipt \in ReceiptType
    BY DEF PromiseInv, TypeInv, RowsOK
  <1>1. ASSUME NEW w \in Workers, Step(w) PROVE Promise!Next \/ UNCHANGED Promise!vars
    BY <1>1, StepPromise
  <1>2. ASSUME NEW w \in Workers, Claim(w) PROVE UNCHANGED Promise!vars
    <2>1. /\ UNCHANGED <<order, receipt, refund>>
          /\ delivery.state \notin {"exhausted", "blocked"} /\ delivery'.state = "running"
      BY <1>0, <1>2, ClaimEffect DEF Claim, Claimable
    <2> QED
      BY <2>1, Stutters DEF MappedOutcome, MappedDecision
  <1>3. ASSUME NEW w \in Workers, SelectSettlement(w) \/ Crash(w)
        PROVE  UNCHANGED Promise!vars
    <2>1. UNCHANGED <<delivery, order, receipt, refund>>
      BY <1>3 DEF SelectSettlement, Crash
    <2> QED
      BY <2>1, Stutters DEF MappedOutcome, MappedDecision
  <1>4. CASE BuyerRequestsCompensation \/ OpenCompensation
    BY <1>0, <1>4, ReviewIsAsked, ReviewOpens DEF BuyerRequestsCompensation, ReadGround
  <1>5. CASE DecideCompensation
    <2>1. UNCHANGED <<delivery, order, receipt, requests>>
           /\ compensation.state = "pending_review"
           /\ compensation'.state \in {"approved", "denied"}
      BY <1>0, <1>5 DEF DecideCompensation, CompensationType
    <2> QED
      BY <2>1 DEF Promise!Next, Promise!DecideReview
  <1>6. CASE ConfigureReceipt
    <2>1. UNCHANGED <<delivery, order, refund>>
           /\ receipt.state = "none" /\ receipt'.state = "configured"
      BY <1>0, <1>6 DEF ConfigureReceipt, ReceiptType
    <2> QED
      BY <2>1, Stutters DEF MappedOutcome, MappedDecision
  <1>7. CASE SyncDeliveryReceipt
    <2>1. UNCHANGED <<delivery, order, refund>>
      BY <1>7 DEF SyncDeliveryReceipt
    <2>2. MappedDecision' = MappedDecision
      BY <1>0, <1>7, SealStutters DEF SyncDeliveryReceipt
    <2> QED
      BY <2>1, <2>2, Stutters DEF MappedOutcome
  <1>8. CASE Acknowledge
    <2>1. UNCHANGED <<delivery, order>> /\ receipt.state = "delivered"
           /\ receipt'.state \in {"accepted", "disputed"}
      BY <1>0, <1>8 DEF Acknowledge, ReceiptType
    <2>2. /\ compensation' = compensation
          /\ \/ requests' = requests
             \/ receipt'.state = "disputed" /\ requests' # {}
      BY <1>0, <1>8 DEF Acknowledge, ReceiptType
    <2>3. order.used
      BY <1>0, <2>1 DEF OutcomeInv, SealedReceipt, SealedStates, DeliveredInv,
                        SealedIsDelivered
    <2>4. /\ MappedOutcome = "delivered" /\ MappedOutcome' = "delivered"
          /\ MappedDecision = "none" /\ MappedDecision' = receipt'.state
      BY <2>1, <2>3 DEF MappedOutcome, MappedDecision
    <2>5. Promise!Decide
      BY <2>1, <2>2, <2>4 DEF Promise!Decide, MappedOutcome, MappedDecision
    <2> QED
      BY <2>5 DEF Promise!Next
  <1>9. CASE Redrive
    <2>1. /\ UNCHANGED <<order, receipt, refund>>
          /\ delivery.state = "exhausted" /\ delivery'.state = "pending"
      BY <1>0, <1>9 DEF Redrive, DeliveryType
    <2>2. ~order.used
      BY <1>0, <2>1 DEF OutcomeInv, DeliveredRow
    <2>3. MappedOutcome = "closed" /\ MappedOutcome' = "owed"
           /\ MappedDecision' = MappedDecision
      BY <2>1, <2>2 DEF MappedOutcome, MappedDecision
    <2> QED
      BY <2>1, <2>3, OutcomeSteps
  <1>10. CASE ResumeReview
    <2>1. /\ UNCHANGED <<order, receipt, refund>>
          /\ delivery.state = "review_required" /\ delivery'.state = "retryable_failure"
      BY <1>0, <1>10 DEF ResumeReview, DeliveryType
    <2> QED
      BY <2>1, Stutters DEF MappedOutcome, MappedDecision
  <1>11. CASE AccelerateRetry \/ BackoffElapses \/ LeaseExpires
    <2>1. UNCHANGED <<order, receipt, refund>> /\ delivery'.state = delivery.state
      BY <1>0, <1>11 DEF AccelerateRetry, BackoffElapses, LeaseExpires, DeliveryType
    <2> QED
      BY <2>1, Stutters DEF MappedOutcome, MappedDecision
  <1>12. CASE UNCHANGED vars
    BY <1>12, Stutters DEF vars, MappedOutcome, MappedDecision
  <1> QED
    BY <1>1, <1>2, <1>3, <1>4, <1>5, <1>6, <1>7, <1>8, <1>9, <1>10, <1>11, <1>12 DEF Next

\* The delivery machine implements PaidOrder for any number of runs, results,
\* attempts, crashes and redrives, as long as no lease ends under a run that is
\* still at work: the buyer of a paid order is delivered or closed, decides once
\* and has at most one refund review, of a closed order or a disputed delivery.
THEOREM DeliveryKeepsPromise ==
  ASSUME MaxOverruns = 0
  PROVE  Spec => KeepsPromise
  <1>1. PromiseInv /\ [Next]_vars => [Promise!Next]_Promise!vars
    BY NextPromise
  <1> QED
    BY <1>1, InitPromise, PromiseInductive, PTL DEF Spec, KeepsPromise, Promise!Spec

-----------------------------------------------------------------------------
(* Final rows.                                                              *)

\* No transaction writes the state of a row that is completed or blocked: the
\* claim, the redrive and the resumption look at the state, and a late run no
\* longer holds the row when it comes to _finish.
THEOREM FinalRowsStay == Spec => FinalRowStays
  <1>1. ASSUME TypeInv, [Next]_vars, delivery.state \in {"completed", "blocked"}
        PROVE  delivery'.state = delivery.state
    <2>0. delivery \in DeliveryType
      BY <1>1 DEF TypeInv, RowsOK
    <2>1. ASSUME NEW w \in Workers, Step(w) PROVE delivery'.state = delivery.state
      BY <1>1, <2>0, <2>1
         DEF Step, Load, Execute, Allocate, TryAllocation, MarkOrder, Finish, Holds,
             Publish, Compensate, Reallocate, RecordSettlement, DeliveryType
    <2>2. ASSUME NEW w \in Workers, Claim(w) PROVE FALSE
      BY <1>1, <2>2 DEF Claim, Claimable
    <2>3. CASE Redrive \/ ResumeReview
      BY <1>1, <2>3 DEF Redrive, ResumeReview
    <2>4. CASE AccelerateRetry \/ BackoffElapses \/ LeaseExpires
      BY <2>0, <2>4 DEF AccelerateRetry, BackoffElapses, LeaseExpires, DeliveryType
    <2> QED
      BY <1>1, <2>1, <2>2, <2>3, <2>4
         DEF Next, vars, SelectSettlement, Crash, BuyerRequestsCompensation,
             OpenCompensation, DecideCompensation, ConfigureReceipt,
             SyncDeliveryReceipt, Acknowledge
  <1>2. TypeInv /\ [Next]_vars =>
          [delivery.state \in {"completed", "blocked"}
             => delivery'.state = delivery.state]_delivery
    BY <1>1
  <1> QED
    BY <1>2, InitTypeInv, NextTypeInv, PTL DEF Spec, FinalRowStays

-----------------------------------------------------------------------------
(* Allocations.  A delivered order lacks its allocation only when the       *)
(* allocation fails and the run that knows of it dies, or loses its lease,  *)
(* before it can leave the failure in the row.                              *)

\* No allocation fails: whoever marks the order delivered has allocated it.
RunHasAllocated(w) ==
  /\ run[w].pc = "mark" /\ run[w].outcome = "completed" => allocation # None
  /\ run[w].pc = "allocate" => run[w].result # None

AllocatedInv ==
  /\ spent.allocErrors = 0
  /\ order.used => allocation # None
  /\ \A w \in Workers : RunHasAllocated(w)

\* No run dies or loses its lease: the run that marks the order delivered is the
\* one that completes the row, and it knows how the allocation went.
RunKnowsAllocation(w) ==
  /\ AtWork(w) /\ order.used => run[w].pc = "finish"
  /\ run[w].pc \in {"mark", "finish"} /\ run[w].outcome = "completed"
       => run[w].settlement # None
  /\ run[w].pc \in {"mark", "finish", "record"} /\ run[w].settlement = "completed"
       => allocation # None
  /\ run[w].pc \in {"load", "execute"} => run[w].settlement = None
  /\ run[w].pc \in {"allocate", "resettle"} => run[w].result # None

RunningIsHeld ==
  delivery.state = "running" => delivery.token \in Workers /\ AtWork(delivery.token)

UninterruptedInv ==
  /\ spent.crashes = 0
  /\ RunningIsHeld
  /\ delivery.state = "completed" => delivery.result # None
  /\ AllocationIsRetried
  /\ \A w \in Workers : RunKnowsAllocation(w)

LEMMA InitAllocatedInv == Init => AllocatedInv
  <1> SUFFICES ASSUME Init PROVE AllocatedInv
    OBVIOUS
  <1>1. ~order.used
    <2>1. CASE order = [status |-> "paid", used |-> FALSE, result |-> None]
      BY <2>1
    <2>2. CASE order = [status |-> "foundation_review_required", used |-> FALSE,
                        result |-> None]
      BY <2>2
    <2> QED
      BY <2>1, <2>2 DEF Init
  <1> QED
    BY <1>1 DEF Init, AllocatedInv, RunHasAllocated, Idle

\* An allocation is never taken back.
LEMMA AllocationStays ==
  ASSUME TypeInv, [Next]_vars, allocation # None
  PROVE  allocation' # None
  <1>1. ASSUME NEW w \in Workers, Allocate(w) \/ Reallocate(w) PROVE allocation' # None
    BY <1>1 DEF Allocate, TryAllocation, Reallocate, AllocateTo, AllocationFails
  <1> QED
    BY <1>1 DEF Next, Step, vars, Claim, Load, Execute, MarkOrder, Finish, Publish,
                Compensate, SelectSettlement, RecordSettlement,
                BuyerRequestsCompensation, OpenCompensation, DecideCompensation,
                ConfigureReceipt, SyncDeliveryReceipt, Acknowledge, Redrive,
                ResumeReview, AccelerateRetry, BackoffElapses, LeaseExpires, Crash

LEMMA NextAllocatedInv ==
  ASSUME TypeInv, AllocatedInv, MaxAllocErrors = 0, [Next]_vars
  PROVE  AllocatedInv'
  <1>0. spent \in SpentType /\ None \notin Results
    BY ConstantsAssumption DEF TypeInv, RowsOK
  <1>a. spent'.allocErrors = 0
    <2>1. \A x : ~AllocationFails(x)
      BY <1>0 DEF AllocationFails, AllocatedInv
    <2> QED
      BY <1>0, <2>1
         DEF Next, Step, vars, Claim, Load, Execute, Allocate, TryAllocation, MarkOrder,
             Finish, Publish, Compensate, SelectSettlement, Reallocate,
             RecordSettlement, BuyerRequestsCompensation, OpenCompensation,
             DecideCompensation, ConfigureReceipt, SyncDeliveryReceipt, Acknowledge,
             Redrive, ResumeReview, AccelerateRetry, BackoffElapses, LeaseExpires,
             Crash, SpentType, AllocatedInv
  <1>b. order'.used => allocation' # None
    <2>1. CASE order' = order
      BY <2>1, AllocationStays DEF AllocatedInv
    <2>2. ASSUME NEW w \in Workers, MarkOrder(w), order'.used PROVE allocation # None
      BY <2>2 DEF MarkOrder, AllocatedInv, RunHasAllocated
    <2> QED
      BY <2>1, <2>2, AllocationStays, OrderWrites
  <1>c. ASSUME NEW w \in Workers, OthersStay(w), RunHasAllocated(w)'
        PROVE  AllocatedInv'
    <2>1. ASSUME NEW v \in Workers, v # w PROVE RunHasAllocated(v)'
      BY <1>c, <2>1, AllocationStays DEF OthersStay, AllocatedInv, RunHasAllocated
    <2> QED
      BY <1>a, <1>b, <1>c, <2>1 DEF AllocatedInv
  <1>1. ASSUME NEW w \in Workers, Load(w) PROVE AllocatedInv'
    BY <1>1, <1>c, LoadEffect DEF RunHasAllocated
  <1>2. ASSUME NEW w \in Workers, Execute(w) PROVE AllocatedInv'
    BY <1>0, <1>2, <1>c, ExecuteEffect DEF RunHasAllocated
  <1>3. ASSUME NEW w \in Workers, Allocate(w) PROVE AllocatedInv'
    <2>1. run[w].result # None
      BY <1>3 DEF Allocate, TryAllocation, AllocatedInv, RunHasAllocated
    <2>2. ~AllocationFails(run[w].result)
      BY <1>0 DEF AllocationFails, AllocatedInv
    <2> QED
      BY <1>3, <1>c, <2>1, <2>2, AllocateEffect DEF RunHasAllocated, AllocateTo
  <1>4. ASSUME NEW w \in Workers, MarkOrder(w) PROVE AllocatedInv'
    BY <1>4, <1>c, MarkEffect DEF RunHasAllocated
  <1>5. ASSUME NEW w \in Workers, Finish(w) PROVE AllocatedInv'
    BY <1>5, <1>c, FinishEffect DEF RunHasAllocated
  <1>6. ASSUME NEW w \in Workers,
               Publish(w) \/ Compensate(w) \/ RecordSettlement(w) \/ Crash(w)
        PROVE  AllocatedInv'
    BY <1>6, <1>c, LastEffect DEF RunHasAllocated
  <1>7. ASSUME NEW w \in Workers, Reallocate(w) PROVE AllocatedInv'
    BY <1>7, <1>c, ReallocateEffect DEF RunHasAllocated
  <1>8. ASSUME NEW w \in Workers, Claim(w) PROVE AllocatedInv'
    BY <1>8, <1>c, ClaimEffect DEF RunHasAllocated
  <1>9. ASSUME NEW w \in Workers, SelectSettlement(w) PROVE AllocatedInv'
    BY <1>9, <1>c, SelectEffect DEF RunHasAllocated
  <1>10. CASE UNCHANGED run
    BY <1>a, <1>b, <1>10, AllocationStays DEF AllocatedInv, RunHasAllocated
  <1> QED
    BY <1>1, <1>2, <1>3, <1>4, <1>5, <1>6, <1>7, <1>8, <1>9, <1>10
       DEF Next, Step, vars, BuyerRequestsCompensation, OpenCompensation,
           DecideCompensation, ConfigureReceipt, SyncDeliveryReceipt, Acknowledge,
           Redrive, ResumeReview, AccelerateRetry, BackoffElapses, LeaseExpires

LEMMA InitUninterruptedInv == Init => UninterruptedInv
  <1> SUFFICES ASSUME Init PROVE UninterruptedInv
    OBVIOUS
  <1>1. delivery.state \in {"pending", "review_required"}
    <2>1. NewDelivery.state = "pending" /\ LegacyReview.state = "review_required"
      BY DEF NewDelivery, LegacyReview
    <2> QED
      BY <2>1 DEF Init
  <1>2. \A w \in Workers : run[w].pc = "idle"
    BY DEF Init, Idle
  <1>3. \A w \in Workers : RunKnowsAllocation(w)
    BY <1>2 DEF RunKnowsAllocation, AtWork
  <1>4. spent.crashes = 0
    BY DEF Init
  <1> QED
    BY <1>1, <1>3, <1>4 DEF UninterruptedInv, RunningIsHeld, AllocationIsRetried

\* The row, when a step moves one run: it is left alone, or given up by that run.
RowKept ==
  /\ delivery'.state = delivery.state /\ delivery'.token = delivery.token
  /\ delivery'.result = delivery.result /\ delivery'.settlement = delivery.settlement

LEMMA RunUninterrupted ==
  ASSUME TypeInv, UninterruptedInv, [Next]_vars, spent'.crashes = 0,
         UNCHANGED order, RowKept, NEW w \in Workers, OthersStay(w),
         AtWork(w) => AtWork(w)', RunKnowsAllocation(w)'
  PROVE  UninterruptedInv'
  <1>1. RunningIsHeld'
    BY DEF UninterruptedInv, RunningIsHeld, RowKept, OthersStay, AtWork
  <1>2. AllocationIsRetried' /\ (delivery'.state = "completed" => delivery'.result # None)
    BY AllocationStays DEF UninterruptedInv, AllocationIsRetried, RowKept
  <1>3. ASSUME NEW v \in Workers, v # w PROVE RunKnowsAllocation(v)'
    BY <1>3, AllocationStays DEF UninterruptedInv, RunKnowsAllocation, AtWork, OthersStay
  <1> QED
    BY <1>1, <1>2, <1>3 DEF UninterruptedInv

\* The row, when a step moves no run.
LEMMA RowsUninterrupted ==
  ASSUME TypeInv, UninterruptedInv, [Next]_vars, spent'.crashes = 0,
         UNCHANGED <<order, run>>,
         RowKept \/ delivery'.state \notin {"running", "completed"}
  PROVE  UninterruptedInv'
  <1>1. RunningIsHeld'
    BY DEF UninterruptedInv, RunningIsHeld, RowKept, AtWork
  <1>2. AllocationIsRetried' /\ (delivery'.state = "completed" => delivery'.result # None)
    BY AllocationStays DEF UninterruptedInv, AllocationIsRetried, RowKept
  <1>3. ASSUME NEW v \in Workers PROVE RunKnowsAllocation(v)'
    BY AllocationStays DEF UninterruptedInv, RunKnowsAllocation, AtWork
  <1> QED
    BY <1>1, <1>2, <1>3 DEF UninterruptedInv

LEMMA StepUninterrupted ==
  ASSUME PromiseInv, UninterruptedInv, [Next]_vars, NEW w \in Workers, Step(w)
  PROVE  UninterruptedInv'
  <1>0. /\ TypeInv /\ DeliveredInv /\ SoleInv /\ OutcomeInv /\ RunKnowsAllocation(w)
        /\ delivery \in DeliveryType /\ spent \in SpentType /\ None \notin Results
        /\ run[w] \in RunType
    BY ConstantsAssumption DEF PromiseInv, TypeInv, RowsOK, RunsOK, UninterruptedInv
  <1>a. spent'.crashes = 0
    BY <1>0 DEF UninterruptedInv, Step, Load, Execute, Allocate, TryAllocation,
                AllocationFails, MarkOrder, Finish, Publish, Compensate, Reallocate,
                RecordSettlement, SpentType
  <1>1. CASE Load(w)
    <2>1. UNCHANGED <<order, delivery>> /\ RowKept
      BY <1>1 DEF Load, RowKept
    <2>2. ~AlreadyDelivered
      BY <1>0, <1>1 DEF Load, AlreadyDelivered, DeliveredInv, RunKnowsAllocation, AtWork
    <2>3. RunKnowsAllocation(w)' /\ AtWork(w)'
      BY <1>0, <1>1, <2>1, <2>2, LoadEffect
         DEF Load, AlreadyDelivered, RunKnowsAllocation, AtWork
    <2> QED
      BY <1>0, <1>1, <1>a, <2>1, <2>3, LoadEffect, RunUninterrupted
  <1>2. CASE Execute(w)
    <2>1. UNCHANGED <<order, delivery>> /\ RowKept
      BY <1>2 DEF Execute, RowKept
    <2>2. ~order.used /\ run[w].settlement = None
      BY <1>0, <1>2 DEF Execute, RunKnowsAllocation, AtWork
    <2>3. RunKnowsAllocation(w)' /\ AtWork(w)'
      BY <1>0, <1>2, <2>1, <2>2, ExecuteEffect, ConstantsAssumption
         DEF RunKnowsAllocation, AtWork
    <2> QED
      BY <1>0, <1>2, <1>a, <2>1, <2>3, ExecuteEffect, RunUninterrupted
  <1>3. CASE Allocate(w)
    <2>1. UNCHANGED <<order, delivery>> /\ RowKept
      BY <1>3 DEF Allocate, TryAllocation, RowKept
    <2>2. ~order.used /\ run[w].result # None
      BY <1>0, <1>3 DEF Allocate, TryAllocation, RunKnowsAllocation, AtWork
    <2>3. RunKnowsAllocation(w)' /\ AtWork(w)'
      BY <1>0, <1>3, <2>1, <2>2, AllocateEffect, ConstantsAssumption
         DEF RunKnowsAllocation, AtWork, AllocateTo
    <2> QED
      BY <1>0, <1>3, <1>a, <2>1, <2>3, AllocateEffect, RunUninterrupted
  <1>4. CASE MarkOrder(w)
    <2>1. /\ run[w].pc = "mark" /\ RowKept /\ UNCHANGED <<delivery, allocation>>
          /\ AtWork(w)
      BY <1>4 DEF MarkOrder, RowKept, AtWork
    <2>2. \A v \in Workers : v # w => ~AtWork(v)
      BY <1>0, <2>1 DEF SoleInv, Holds
    <2>3. RunKnowsAllocation(w)' /\ AtWork(w)'
      BY <1>0, <1>4, <2>1, MarkEffect DEF RunKnowsAllocation, AtWork
    <2>4. ASSUME NEW v \in Workers, v # w PROVE RunKnowsAllocation(v)'
      <3>1. run'[v] = run[v] /\ ~AtWork(v)
        BY <1>0, <1>4, <2>2, <2>4, MarkEffect DEF OthersStay
      <3> QED
        BY <2>1, <3>1 DEF UninterruptedInv, RunKnowsAllocation, AtWork
    <2>5. RunningIsHeld'
      BY <1>0, <1>4, <2>1, <2>2, <2>3, MarkEffect
         DEF UninterruptedInv, RunningIsHeld, AtWork, OthersStay
    <2> QED
      BY <1>a, <2>1, <2>3, <2>4, <2>5 DEF UninterruptedInv, AllocationIsRetried
  <1>5. CASE Finish(w)
    <2>1. run[w].pc = "finish" /\ Holds(w) /\ UNCHANGED <<order, allocation>>
      BY <1>0, <1>5 DEF Finish, SoleInv, AtWork
    <2>2. /\ delivery'.state = run[w].outcome /\ run[w].outcome \in Outcomes
          /\ delivery'.result = run[w].result
          /\ run[w].settlement # None => delivery'.settlement = run[w].settlement
      BY <1>0, <1>5, <2>1, FinishEffect
    <2>3. run[w].outcome = "completed" => run[w].result # None
      BY <1>0, <2>1 DEF OutcomeInv, RunKeepsOutcome, DeliveredRow, DeliveredInv,
                        RunKnowsDelivery
    <2>4. run[w].settlement \in {"completed", "retryable_failure", None}
      BY <1>0 DEF RunType
    <2>5. run[w].outcome = "completed" => allocation # None
                                          \/ run[w].settlement = "retryable_failure"
      BY <1>0, <2>1, <2>4 DEF RunKnowsAllocation
    <2>6. run[w].outcome = "completed" => run[w].settlement # None
      BY <1>0, <2>1 DEF RunKnowsAllocation
    <2>7. RunKnowsAllocation(w)'
      BY <1>0, <1>5, FinishEffect DEF RunKnowsAllocation, AtWork
    <2>8. ASSUME NEW v \in Workers, v # w PROVE RunKnowsAllocation(v)'
      BY <1>0, <1>5, <2>1, <2>8, FinishEffect
         DEF UninterruptedInv, RunKnowsAllocation, AtWork, OthersStay
    <2>9. RunningIsHeld'
      BY <2>2 DEF RunningIsHeld, Outcomes
    <2> QED
      BY <1>a, <2>1, <2>2, <2>3, <2>5, <2>6, <2>7, <2>8, <2>9
         DEF UninterruptedInv, AllocationIsRetried
  <1>6. CASE Publish(w) \/ Compensate(w)
    <2>1. UNCHANGED <<order, delivery>> /\ RowKept /\ ~AtWork(w)
      BY <1>6 DEF Publish, Compensate, RowKept, AtWork
    <2>2. RunKnowsAllocation(w)'
      BY <1>0, <1>6, LastEffect DEF RunKnowsAllocation, AtWork
    <2> QED
      BY <1>0, <1>6, <1>a, <2>1, <2>2, LastEffect, RunUninterrupted
  <1>7. CASE Reallocate(w)
    <2>1. UNCHANGED <<order, delivery>> /\ RowKept /\ ~AtWork(w)
      BY <1>7 DEF Reallocate, TryAllocation, RowKept, AtWork
    <2>2. run[w].result # None
      BY <1>0, <1>7 DEF Reallocate, TryAllocation, RunKnowsAllocation
    <2>3. RunKnowsAllocation(w)'
      BY <1>0, <1>7, <2>2, ReallocateEffect DEF RunKnowsAllocation, AtWork, AllocateTo
    <2> QED
      BY <1>0, <1>7, <1>a, <2>1, <2>3, ReallocateEffect, RunUninterrupted
  <1>8. CASE RecordSettlement(w)
    <2>1. UNCHANGED <<order, allocation>> /\ ~AtWork(w)
      BY <1>8 DEF RecordSettlement, AtWork
    <2>2. run[w].settlement \in {"completed", "retryable_failure"}
      BY <1>0, <1>8 DEF RecordSettlement, TypeInv, RunsOK, RunOK
    <2>3. run[w].settlement = "completed" => allocation # None
      BY <1>0, <1>8 DEF RecordSettlement, RunKnowsAllocation
    <2>4. CASE delivery.state = "completed" /\ delivery.settlement = "retryable_failure"
      <3>1. /\ delivery'.state = "completed" /\ delivery'.settlement = run[w].settlement
            /\ delivery'.result = delivery.result
        BY <1>0, <1>8, <2>4 DEF RecordSettlement, DeliveryType
      <3>2. \A v \in Workers : RunKnowsAllocation(v)'
        BY <1>0, <1>8, <2>1, LastEffect
           DEF UninterruptedInv, RunKnowsAllocation, AtWork, OthersStay
      <3> QED
        BY <1>a, <2>1, <2>2, <2>3, <2>4, <3>1, <3>2
           DEF UninterruptedInv, RunningIsHeld, AllocationIsRetried
    <2>5. CASE ~(delivery.state = "completed" /\ delivery.settlement = "retryable_failure")
      <3>1. RowKept
        BY <1>8, <2>5 DEF RecordSettlement, RowKept
      <3>2. RunKnowsAllocation(w)'
        BY <1>0, <1>8, LastEffect DEF RunKnowsAllocation, AtWork
      <3> QED
        BY <1>0, <1>8, <1>a, <2>1, <3>1, <3>2, LastEffect, RunUninterrupted
    <2> QED
      BY <2>4, <2>5
  <1> QED
    BY <1>1, <1>2, <1>3, <1>4, <1>5, <1>6, <1>7, <1>8 DEF Step

LEMMA NextUninterrupted ==
  ASSUME PromiseInv, UninterruptedInv, MaxCrashes = 0, [Next]_vars
  PROVE  UninterruptedInv'
  <1>0. /\ TypeInv /\ SoleInv /\ OutcomeInv
        /\ delivery \in DeliveryType /\ spent \in SpentType
    BY DEF PromiseInv, TypeInv, RowsOK
  <1>1. ASSUME NEW w \in Workers, Step(w) PROVE UninterruptedInv'
    BY <1>1, StepUninterrupted
  <1>2. ASSUME NEW w \in Workers, Claim(w) PROVE UninterruptedInv'
    <2>1. delivery.state \in {"pending", "retryable_failure"}
      BY <1>0, <1>2 DEF Claim, Claimable, UninterruptedInv, RunningIsHeld, SoleInv
    <2>2. UNCHANGED <<order, allocation, spent>> /\ ~order.used
      BY <1>0, <1>2, <2>1 DEF Claim, OutcomeInv, DeliveredRow
    <2>3. RunKnowsAllocation(w)' /\ AtWork(w)'
      BY <1>0, <1>2, <2>2, ClaimEffect DEF RunKnowsAllocation, AtWork
    <2>4. ASSUME NEW v \in Workers, v # w PROVE RunKnowsAllocation(v)'
      BY <1>0, <1>2, <2>2, <2>4, ClaimEffect
         DEF UninterruptedInv, RunKnowsAllocation, AtWork, OthersStay
    <2>5. delivery'.state = "running" /\ delivery'.token = w
      BY <1>0, <1>2, ClaimEffect
    <2> QED
      BY <2>2, <2>3, <2>4, <2>5
         DEF UninterruptedInv, RunningIsHeld, AllocationIsRetried
  <1>3. ASSUME NEW w \in Workers, SelectSettlement(w) PROVE UninterruptedInv'
    <2>1. UNCHANGED <<order, delivery, spent>> /\ RowKept /\ ~AtWork(w)
      BY <1>3 DEF SelectSettlement, RowKept, AtWork
    <2>2. delivery.result # None
      BY <1>3 DEF SelectSettlement, SettlementDue, UninterruptedInv
    <2>3. RunKnowsAllocation(w)'
      BY <1>0, <1>3, <2>2, SelectEffect DEF RunKnowsAllocation, AtWork
    <2>4. spent'.crashes = 0
      BY <2>1 DEF UninterruptedInv
    <2> QED
      BY <1>0, <1>3, <2>1, <2>3, <2>4, SelectEffect, RunUninterrupted
  <1>4. ASSUME NEW w \in Workers, Crash(w) PROVE FALSE
    BY <1>4 DEF Crash, UninterruptedInv
  <1>5. CASE BuyerRequestsCompensation \/ OpenCompensation \/ DecideCompensation
             \/ ConfigureReceipt \/ SyncDeliveryReceipt \/ Acknowledge \/ UNCHANGED vars
    <2>1. UNCHANGED <<delivery, order, run, spent>> /\ RowKept
      BY <1>5 DEF BuyerRequestsCompensation, OpenCompensation, DecideCompensation,
                  ConfigureReceipt, SyncDeliveryReceipt, Acknowledge, vars, RowKept
    <2> QED
      BY <1>0, <2>1, RowsUninterrupted DEF UninterruptedInv
  <1>6. CASE Redrive \/ ResumeReview
    <2>1. /\ UNCHANGED <<order, run>> /\ spent'.crashes = spent.crashes
          /\ delivery'.state \in {"pending", "retryable_failure"}
      BY <1>0, <1>6 DEF Redrive, ResumeReview, DeliveryType, SpentType
    <2> QED
      BY <1>0, <2>1, RowsUninterrupted DEF UninterruptedInv
  <1>7. CASE AccelerateRetry \/ BackoffElapses \/ LeaseExpires
    <2>1. UNCHANGED <<order, run>> /\ spent'.crashes = spent.crashes /\ RowKept
      BY <1>0, <1>7 DEF AccelerateRetry, BackoffElapses, LeaseExpires, DeliveryType,
                        SpentType, RowKept
    <2> QED
      BY <1>0, <2>1, RowsUninterrupted DEF UninterruptedInv
  <1> QED
    BY <1>1, <1>2, <1>3, <1>4, <1>5, <1>6, <1>7 DEF Next

\* Every completed delivery has its allocation, or the settlement sweep still
\* retries it, provided that allocations do not fail, or that no run dies or
\* loses its lease: it takes both, a failed allocation and the loss of the run
\* that knows of it, to lose one (allocate_checkout_settlement,
\* run_checkout_delivery, run_settlement_sweep).
THEOREM AllocationsAreRetried ==
  ASSUME MaxAllocErrors = 0 \/ (MaxCrashes = 0 /\ MaxOverruns = 0)
  PROVE  Spec => []AllocationIsRetried
  <1>1. CASE MaxAllocErrors = 0
    <2>1. TypeInv /\ DeliveredInv /\ AllocatedInv /\ [Next]_vars
            => TypeInv' /\ DeliveredInv' /\ AllocatedInv'
      BY <1>1, NextTypeInv, NextDeliveredInv, NextAllocatedInv
    <2>2. DeliveredInv /\ AllocatedInv => AllocationIsRetried
      BY DEF DeliveredInv, CompletedIsDelivered, AllocatedInv, AllocationIsRetried
    <2> QED
      BY <2>1, <2>2, InitTypeInv, InitDeliveredInv, InitAllocatedInv, PTL DEF Spec
  <1>2. CASE MaxCrashes = 0 /\ MaxOverruns = 0
    <2>1. PromiseInv /\ UninterruptedInv /\ [Next]_vars => UninterruptedInv'
      BY <1>2, NextUninterrupted
    <2>2. UninterruptedInv => AllocationIsRetried
      BY DEF UninterruptedInv
    <2>3. Spec => []PromiseInv
      BY <1>2, PromiseInductive
    <2> QED
      BY <2>1, <2>2, <2>3, InitUninterruptedInv, PTL DEF Spec
  <1> QED
    BY <1>1, <1>2
-----------------------------------------------------------------------------
(* What a row tells of its allocation, whatever runs die or lose their      *)
(* lease: a run that has allocated knows it, and the settlements row stays. *)

\* An allocation succeeds for a result, so one is carried to it.
RunHasSettled(w) ==
  /\ run[w].settlement = "completed" => allocation # None
  /\ run[w].pc \in {"allocate", "resettle"} => run[w].result # None
  /\ run[w].pc \in {"mark", "finish"} /\ run[w].outcome = "completed"
       => run[w].result # None

SettledRows ==
  /\ order.status = "delivered" => order.used
  /\ order.used => order.result # None
  /\ delivery.state = "completed" => delivery.result # None
  /\ delivery.settlement = "completed" => allocation # None

SettledInv == SettledRows /\ \A w \in Workers : RunHasSettled(w)

LEMMA InitSettledInv == Init => SettledInv
  <1> SUFFICES ASSUME Init PROVE SettledInv
    OBVIOUS
  <1>1. delivery.state # "completed" /\ delivery.settlement = "pending"
    <2>1. /\ NewDelivery.state = "pending" /\ LegacyReview.state = "review_required"
          /\ NewDelivery.settlement = "pending" /\ LegacyReview.settlement = "pending"
      BY DEF NewDelivery, LegacyReview
    <2> QED
      BY <2>1 DEF Init
  <1>2. ~order.used /\ order.status # "delivered"
    <2>1. CASE order = [status |-> "paid", used |-> FALSE, result |-> None]
      BY <2>1
    <2>2. CASE order = [status |-> "foundation_review_required", used |-> FALSE,
                        result |-> None]
      BY <2>2
    <2> QED
      BY <2>1, <2>2 DEF Init
  <1>3. \A w \in Workers : run[w].pc = "idle" /\ run[w].settlement = None
    BY DEF Init, Idle
  <1>4. \A w \in Workers : RunHasSettled(w)
    BY <1>3, ConstantsAssumption DEF RunHasSettled
  <1> QED
    BY <1>1, <1>2, <1>4 DEF SettledInv, SettledRows

\* A step of one run.
LEMMA RunSettled ==
  ASSUME TypeInv, SettledInv, [Next]_vars, SettledRows', NEW w \in Workers,
         OthersStay(w), RunHasSettled(w)'
  PROVE  SettledInv'
  <1>1. ASSUME NEW v \in Workers, v # w PROVE RunHasSettled(v)'
    BY <1>1, AllocationStays DEF SettledInv, RunHasSettled, OthersStay
  <1> QED
    BY <1>1 DEF SettledInv

\* A step that leaves the order alone, and in the row what it tells.
LEMMA RowsSettled ==
  ASSUME TypeInv, SettledInv, [Next]_vars, UNCHANGED order,
         delivery'.settlement = delivery.settlement,
         delivery'.state = "completed" =>
           delivery.state = "completed" /\ delivery'.result = delivery.result
  PROVE  SettledRows'
  BY AllocationStays DEF SettledInv, SettledRows

LEMMA StepSettledInv ==
  ASSUME TypeInv, SettledInv, [Next]_vars, NEW w \in Workers, Step(w)
  PROVE  SettledInv'
  <1>0. /\ RunHasSettled(w) /\ SettledRows /\ delivery \in DeliveryType
        /\ run[w] \in RunType /\ RunOK(run[w])
        /\ None \notin Results /\ None \notin {"completed", "retryable_failure"}
    BY ConstantsAssumption DEF SettledInv, TypeInv, RowsOK, RunsOK
  <1>1. CASE Load(w)
    <2>1. SettledRows'
      BY <1>1, RowsSettled DEF Load
    <2>2. AlreadyDelivered => order.result # None
      BY <1>0 DEF SettledRows, AlreadyDelivered
    <2>3. allocation' = allocation
      BY <1>1 DEF Load
    <2>4. RunHasSettled(w)'
      BY <1>0, <1>1, <2>2, <2>3, LoadEffect DEF RunHasSettled
    <2> QED
      BY <1>1, <2>1, <2>4, LoadEffect, RunSettled
  <1>2. CASE Execute(w)
    <2>1. SettledRows' /\ allocation' = allocation
      BY <1>2, RowsSettled DEF Execute
    <2>2. OthersStay(w) /\ run'[w].settlement = run[w].settlement
      BY <1>2, ExecuteEffect
    <2>3. CASE run'[w].pc = "allocate" /\ run'[w].result \in Results
      BY <1>0, <2>1, <2>2, <2>3, RunSettled DEF RunHasSettled
    <2>4. CASE /\ run'[w].pc \in {"mark", "finish"}
               /\ run'[w].outcome \in {"blocked", "exhausted", "retryable_failure"}
      BY <1>0, <2>1, <2>2, <2>4, RunSettled DEF RunHasSettled
    <2> QED
      BY <1>2, <2>3, <2>4, ExecuteEffect
  <1>3. CASE Allocate(w)
    <2>1. SettledRows'
      BY <1>3, RowsSettled DEF Allocate
    <2>2. run[w].result # None /\ AllocateTo(run[w].result) # None
      BY <1>0, <1>3 DEF Allocate, RunHasSettled, AllocateTo
    <2>3. RunHasSettled(w)'
      BY <1>0, <1>3, <2>2, AllocateEffect DEF RunHasSettled
    <2> QED
      BY <1>3, <2>1, <2>3, AllocateEffect, RunSettled
  <1>4. CASE MarkOrder(w)
    <2>1. run[w].pc = "mark" /\ UNCHANGED <<delivery, allocation>>
      BY <1>4 DEF MarkOrder
    <2>2. \/ order' = order
          \/ /\ run[w].outcome = "completed" /\ order'.result = run[w].result
             /\ order'.used
          \/ ~order'.used /\ order'.status # "delivered"
      BY <1>4 DEF MarkOrder
    <2>3. SettledRows'
      BY <1>0, <2>1, <2>2 DEF SettledRows, RunHasSettled
    <2>4. RunHasSettled(w)'
      BY <1>0, <1>4, <2>1, MarkEffect DEF RunHasSettled
    <2> QED
      BY <1>4, <2>3, <2>4, MarkEffect, RunSettled
  <1>5. CASE Finish(w)
    <2>1. run[w].pc = "finish" /\ UNCHANGED <<order, allocation>>
      BY <1>5 DEF Finish
    <2>2. run'[w].settlement \in {run[w].settlement, None}
           /\ run'[w].pc \in {"publish", "compensate", "idle"} /\ OthersStay(w)
      BY <1>5, FinishEffect
    <2>3. RunHasSettled(w)'
      BY <1>0, <2>1, <2>2 DEF RunHasSettled
    <2>4. CASE Holds(w)
      <3>1. /\ delivery'.state = run[w].outcome /\ delivery'.result = run[w].result
            /\ delivery'.settlement \in {run[w].settlement, delivery.settlement}
        BY <1>5, <2>4, FinishEffect
      <3>2. SettledRows'
        BY <1>0, <2>1, <3>1 DEF SettledRows, RunHasSettled
      <3> QED
        BY <2>2, <2>3, <3>2, RunSettled
    <2>5. CASE ~Holds(w)
      <3>1. delivery' = delivery
        BY <1>5, <2>5 DEF Finish
      <3>2. SettledRows'
        BY <2>1, <3>1, RowsSettled
      <3> QED
        BY <2>2, <2>3, <3>2, RunSettled
    <2> QED
      BY <2>4, <2>5
  <1>6. CASE Publish(w) \/ Compensate(w)
    <2>1. SettledRows'
      BY <1>6, RowsSettled DEF Publish, Compensate
    <2>2. OthersStay(w) /\ run'[w].pc = "idle" /\ run'[w].settlement = None
      BY <1>6, LastEffect
    <2> QED
      BY <1>0, <2>1, <2>2, RunSettled DEF RunHasSettled
  <1>7. CASE Reallocate(w)
    <2>1. SettledRows'
      BY <1>7, RowsSettled DEF Reallocate
    <2>2. run[w].result # None /\ AllocateTo(run[w].result) # None
      BY <1>0, <1>7 DEF Reallocate, RunHasSettled, AllocateTo
    <2>3. RunHasSettled(w)'
      BY <1>0, <1>7, <2>2, ReallocateEffect DEF RunHasSettled
    <2> QED
      BY <1>7, <2>1, <2>3, ReallocateEffect, RunSettled
  <1>8. CASE RecordSettlement(w)
    <2>1. UNCHANGED <<order, allocation>>
      BY <1>8 DEF RecordSettlement
    <2>2. /\ delivery'.state = delivery.state /\ delivery'.result = delivery.result
          /\ delivery'.settlement \in {delivery.settlement, run[w].settlement}
      BY <1>0, <1>8, LastEffect DEF RecordSettlement, DeliveryType
    <2>3. SettledRows'
      BY <1>0, <2>1, <2>2 DEF SettledRows, RunHasSettled
    <2>4. OthersStay(w) /\ run'[w].pc = "idle" /\ run'[w].settlement = None
      BY <1>8, LastEffect
    <2> QED
      BY <1>0, <2>3, <2>4, RunSettled DEF RunHasSettled
  <1> QED
    BY <1>1, <1>2, <1>3, <1>4, <1>5, <1>6, <1>7, <1>8 DEF Step

LEMMA NextSettledInv ==
  ASSUME TypeInv, SettledInv, [Next]_vars
  PROVE  SettledInv'
  <1>0. /\ SettledRows /\ delivery \in DeliveryType
        /\ None \notin {"completed", "retryable_failure"}
    BY ConstantsAssumption DEF SettledInv, TypeInv, RowsOK
  <1>1. ASSUME NEW w \in Workers, Step(w) PROVE SettledInv'
    BY <1>1, StepSettledInv
  <1>2. ASSUME NEW w \in Workers, Claim(w) PROVE SettledInv'
    <2>1. order' = order /\ delivery'.state = "running"
           /\ delivery'.settlement = delivery.settlement
      BY <1>2, ClaimEffect DEF Claim
    <2>2. SettledRows'
      BY <2>1, RowsSettled
    <2>3. OthersStay(w) /\ RunHasSettled(w)'
      BY <1>0, <1>2, ClaimEffect DEF RunHasSettled
    <2> QED
      BY <2>2, <2>3, RunSettled
  <1>3. ASSUME NEW w \in Workers, SelectSettlement(w) PROVE SettledInv'
    <2>1. UNCHANGED <<delivery, order>> /\ delivery.result # None
      BY <1>0, <1>3 DEF SelectSettlement, SettlementDue, SettledRows
    <2>2. SettledRows'
      BY <2>1, RowsSettled
    <2>3. OthersStay(w) /\ RunHasSettled(w)'
      BY <1>0, <1>3, <2>1, SelectEffect DEF RunHasSettled
    <2> QED
      BY <2>2, <2>3, RunSettled
  <1>4. ASSUME NEW w \in Workers, Crash(w) PROVE SettledInv'
    <2>1. SettledRows'
      BY <1>4, RowsSettled DEF Crash
    <2>2. OthersStay(w) /\ RunHasSettled(w)'
      BY <1>0, <1>4, LastEffect DEF RunHasSettled
    <2> QED
      BY <2>1, <2>2, RunSettled
  <1>5. ASSUME UNCHANGED <<order, run>>, delivery'.settlement = delivery.settlement,
               delivery'.state = "completed" =>
                 delivery.state = "completed" /\ delivery'.result = delivery.result
        PROVE  SettledInv'
    BY <1>5, RowsSettled, AllocationStays DEF SettledInv, RunHasSettled
  <1>6. CASE BuyerRequestsCompensation \/ OpenCompensation \/ DecideCompensation
             \/ ConfigureReceipt \/ SyncDeliveryReceipt \/ Acknowledge \/ UNCHANGED vars
    BY <1>5, <1>6 DEF BuyerRequestsCompensation, OpenCompensation, DecideCompensation,
       ConfigureReceipt, SyncDeliveryReceipt, Acknowledge, vars
  <1>7. CASE Redrive \/ ResumeReview
    <2>1. /\ UNCHANGED <<order, run>> /\ delivery'.state # "completed"
          /\ delivery'.settlement = delivery.settlement
      BY <1>0, <1>7 DEF Redrive, ResumeReview, DeliveryType
    <2> QED
      BY <1>5, <2>1
  <1>8. CASE AccelerateRetry \/ BackoffElapses \/ LeaseExpires
    <2>1. /\ UNCHANGED <<order, run>> /\ delivery'.state = delivery.state
          /\ delivery'.settlement = delivery.settlement
          /\ delivery'.result = delivery.result
      BY <1>0, <1>8 DEF AccelerateRetry, BackoffElapses, LeaseExpires, DeliveryType
    <2> QED
      BY <1>5, <2>1
  <1> QED
    BY <1>1, <1>2, <1>3, <1>4, <1>6, <1>7, <1>8 DEF Next

\* A completed row never tells of an allocation that the settlements table does
\* not hold, whatever allocations fail, runs die or lose their lease, and pollers
\* retry at once (run_checkout_delivery, run_settlement_sweep,
\* allocate_checkout_settlement).
THEOREM AllocationsAreSettled == Spec => []AllocatedIsSettled
  <1>1. TypeInv /\ SettledInv /\ [Next]_vars => TypeInv' /\ SettledInv'
    BY NextTypeInv, NextSettledInv
  <1>2. SettledInv => AllocatedIsSettled
    BY DEF SettledInv, SettledRows, AllocatedIsSettled
  <1> QED
    BY <1>1, <1>2, InitTypeInv, InitSettledInv, PTL DEF Spec

\* However many runs die or lose their lease, a completed row belongs to a
\* delivered order (_finish, _mark_order) and tells of an allocation only if there
\* is one, and the buyer's inbox never holds a result of an order that is not
\* delivered (publish_delivery_payload, _sync_delivery_receipt).
THEOREM ReportsAreOfDeliveries == Spec => []ReportedIsDelivered
  BY AlwaysDeliveredInv, AllocationsAreSettled, PTL DEF DeliveredInv, ReportedIsDelivered
=============================================================================
