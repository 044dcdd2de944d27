----------------------------- MODULE PaidOrder -----------------------------
(***************************************************************************)
(* What the checkout promises the buyer of one paid order: the order is    *)
(* delivered or closed without delivery, only a closed order is reopened,  *)
(* the buyer decides once about a delivery, and a refund is reviewed only  *)
(* when it was asked for while the order was closed without delivery or    *)
(* after the buyer had disputed the delivery.  The review is opened later  *)
(* than it is asked for: the order may have been reopened, and even        *)
(* delivered, in between.                                                  *)
(***************************************************************************)
VARIABLES outcome, decision, asked, review

vars == <<outcome, decision, asked, review>>

TypeOK ==
  /\ outcome \in {"owed", "delivered", "closed"}
  /\ decision \in {"none", "accepted", "disputed"}
  /\ asked \in BOOLEAN
  /\ review \in {"none", "pending_review", "approved", "denied"}

Init == outcome = "owed" /\ decision = "none" /\ asked = FALSE /\ review = "none"

Deliver ==
  /\ outcome = "owed" /\ outcome' = "delivered"
  /\ UNCHANGED <<decision, asked, review>>

Close ==
  /\ outcome = "owed" /\ outcome' = "closed"
  /\ UNCHANGED <<decision, asked, review>>

Reopen ==
  /\ outcome = "closed" /\ outcome' = "owed"
  /\ UNCHANGED <<decision, asked, review>>

\* A dispute may ask for the refund at once.
Decide ==
  /\ outcome = "delivered" /\ decision = "none"
  /\ decision' \in {"accepted", "disputed"}
  /\ \/ UNCHANGED asked
     \/ decision' = "disputed" /\ asked' = TRUE
  /\ UNCHANGED <<outcome, review>>

Ask ==
  /\ outcome = "closed" \/ decision = "disputed"
  /\ asked' = TRUE
  /\ UNCHANGED <<outcome, decision, review>>

OpenReview ==
  /\ asked /\ review = "none" /\ review' = "pending_review"
  /\ UNCHANGED <<outcome, decision, asked>>

DecideReview ==
  /\ review = "pending_review" /\ review' \in {"approved", "denied"}
  /\ UNCHANGED <<outcome, decision, asked>>

Next == Deliver \/ Close \/ Reopen \/ Decide \/ Ask \/ OpenReview \/ DecideReview

Spec == Init /\ [][Next]_vars
=============================================================================
