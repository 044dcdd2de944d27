--------------------------- MODULE SellerAccounts ---------------------------
(***************************************************************************)
(* The account of a seller (iat/api/db.py): the proofs of its identity,    *)
(* the decisions of staff, of the deadline and of the onboarding review,   *)
(* the events of the risk engine, its requests to recover, and what they   *)
(* do to an agent of it.                                                   *)
(*                                                                         *)
(* risk is the band of risk_score that the engine tells apart, from 0 to   *)
(* restricted, 3; an event may raise it by any amount.  The limits on the  *)
(* number and the value of orders and agents are left out, and so whether  *)
(* the agent is one of those beyond the limit is a free choice, as is when *)
(* the deadline passes.                                                    *)
(***************************************************************************)
EXTENDS StaffCalls

VARIABLES
  account,      \* the sellers row: its status, whether verification_status is
                \* foundation_verified, and the band of risk_score
  proofs,       \* email_verified, wallet_verified
  capability,   \* the agent: seller_agents.status and agents.available; limited
                \* stands for throttled, frozen and under review as well
  recovery,     \* the row of seller_recovery_requests, and how often its
                \* transition was made
  ruledOut,     \* it has been rejected or banned, and neither an override nor an
                \* administrator's activation has lifted that, nor a risk event
                \* overwritten it
  forced,       \* an administrator's activation has vouched for it
  relit,        \* the agent was last made available by a call that does not look at
                \* the seller's status, or by a risk event though it is not active
  torn          \* a decision on the recovery died in the middle, or another began
                \* before it had ended

accountTables == <<account, proofs, capability, recovery, ruledOut, forced,
                   relit, torn>>

accountVars == <<accountTables, callVars, faults>>

Terminal == {"rejected", "banned"}

Blocked == {"restricted", "contained"} \cup Terminal

AccountStatuses == {"pending", "active", "watchlist", "limited"} \cup Blocked

NoRecovery == [status |-> "none", made |-> 0]

NoCapability == [status |-> "none", available |-> FALSE]

\* create_seller_db, for a registration.
AccountsInit ==
  /\ account = [status |-> "pending", verified |-> FALSE, risk |-> 0]
  /\ proofs = {}
  /\ capability = NoCapability
  /\ recovery = NoRecovery
  /\ ruledOut = FALSE /\ forced = FALSE /\ relit = FALSE /\ torn = FALSE
  /\ CallsInit
  /\ faults = 0

AccountsTypeOK ==
  /\ account \in [status : AccountStatuses, risk : 0 .. 3, verified : BOOLEAN]
  /\ proofs \subseteq {"email", "wallet"}
  /\ capability \in
       [status : {"none", "active", "limited", "disabled"}, available : BOOLEAN]
  /\ recovery \in [status : {"none", "pending", "approved", "rejected"}, made : 0 .. 2]
  /\ {ruledOut, forced, relit, torn, overlapped} \subseteq BOOLEAN
  /\ desk \in [Staff ->
       [task : {"none", "register", "approve", "lapse", "risk", "move", "decide",
                "mark"},
        outcome : {"none", "approved", "override"} \cup AccountStatuses, left : 0 .. 3]]
  /\ outdated \subseteq Staff
  /\ faults \in 0 .. MaxFaults

-----------------------------------------------------------------------------
OnlyAccount == UNCHANGED <<proofs, recovery, torn>>

\* mark_seller_wallet_verified_db, confirm_seller_email_verification_db.  (The
\* token that this answers is left out.)
Proves(proof) ==
  /\ proof \notin proofs
  /\ proof = "wallet" => account.status # "banned"
  /\ proofs' = proofs \cup {proof}
  /\ WritesAtOnce
  /\ UNCHANGED <<account, capability, recovery, ruledOut, forced, relit, torn>>

\* register_seller_agent authenticates the seller, and probes the agent's runtime
\* before it writes the agent's rows as the seller was then.  (The factory's agents,
\* generated and then activated, come as SetCapability leaves them.)
BeginRegistration(t) ==
  /\ capability = NoCapability
  /\ account.status \notin {"banned", "restricted"}
  /\ Takes(t, Work("register", "none",
                   IF account.status = "active" /\ account.verified THEN 1 ELSE 0))
  /\ UNCHANGED accountTables

RegisterCapability(t) ==
  /\ desk[t].task = "register"
  /\ IF capability = NoCapability
     THEN capability' = [status |-> "active", available |-> desk[t].left = 1]
     ELSE UNCHANGED capability
  /\ Writes(t, NoWork)
  /\ UNCHANGED <<account, ruledOut, forced, relit>> /\ OnlyAccount

\* The calls that write the agent without looking at the seller's row, or on a
\* look at it in an earlier transaction: activations, runtime actions, probes,
\* capacity, failed orders, the seller's own disabling.  SellerAgents models them
\* one by one; here they are what any of them may write.  They outdate nothing
\* that the calls below have read.
SetCapability ==
  /\ capability # NoCapability
  /\ capability' \in [status : {"active", "limited", "disabled"}, available : BOOLEAN]
  /\ relit' = capability'.available
  /\ UNCHANGED <<account, ruledOut, forced, callVars, faults>> /\ OnlyAccount

\* admin_activate_seller_runtime_parent, of any seller that has an agent: it asks
\* for no proof, lifts every ruling and forgives all risk.
ActivateParentAccount ==
  /\ capability # NoCapability
  /\ account' = [status |-> "active", verified |-> TRUE, risk |-> 0]
  /\ capability' = [capability EXCEPT !.available = TRUE]
  /\ ruledOut' = FALSE /\ forced' = TRUE /\ relit' = TRUE
  /\ WritesAtOnce
  /\ OnlyAccount

-----------------------------------------------------------------------------
\* (Not the code: no state asks for an override.)
BeginAnyApproval(t) ==
  /\ {"email", "wallet"} \subseteq proofs
  /\ Decides(t, "approve", "override") \/ Decides(t, "approve", "approved")
  /\ UNCHANGED accountTables

\* approve_seller_db, for staff: the identity is proven and, but for an override,
\* the state is not terminal.
BeginAccountApproval(t) ==
  /\ {"email", "wallet"} \subseteq proofs
  /\ \/ Decides(t, "approve", "override")
     \/ account.status \notin Terminal /\ Decides(t, "approve", "approved")
  /\ UNCHANGED accountTables

\* run_autonomous_seller_onboarding_review_db, when the runtime is proven as well:
\* a free choice.
BeginOnboarding(t) ==
  /\ account.status \in {"pending", "active"}
  /\ ~account.verified
  /\ proofs = {"email", "wallet"}
  /\ Decides(t, "approve", "approved")
  /\ UNCHANGED accountTables

\* It leaves the availability of agents alone.
ApproveAccount(t) ==
  /\ desk[t].task = "approve"
  /\ account' = [account EXCEPT !.status = "active", !.verified = TRUE]
  /\ ruledOut' = (ruledOut /\ desk[t].outcome # "override")
  /\ forced' = FALSE
  /\ Writes(t, NoWork)
  /\ UNCHANGED <<capability, relit>> /\ OnlyAccount

\* reject_seller_db, in any state.
RejectAccount ==
  /\ account' = [account EXCEPT !.status = "rejected", !.verified = FALSE]
  /\ capability' = [capability EXCEPT !.available = FALSE]
  /\ ruledOut' = TRUE /\ forced' = FALSE /\ relit' = FALSE
  /\ WritesAtOnce
  /\ OnlyAccount

\* enforce_seller_governance_deadline_db
BeginLapse(t) ==
  /\ account.status = "pending"
  /\ Decides(t, "lapse", "none")
  /\ UNCHANGED accountTables

\* The update asks whether the review is still pending; the event is recorded
\* whatever it answers.
Lapse(t) ==
  /\ desk[t].task = "lapse"
  /\ IF account.status = "pending"
     THEN /\ account' = [account EXCEPT !.status = "rejected", !.verified = FALSE]
          /\ ruledOut' = TRUE /\ forced' = FALSE
     ELSE UNCHANGED <<account, ruledOut, forced>>
  /\ Writes(t, NoWork)
  /\ UNCHANGED <<capability, relit>> /\ OnlyAccount

-----------------------------------------------------------------------------
\* The status that goes with a band of risk; in the lowest the status stays.
StatusAt(risk, status) ==
  CASE risk = 3 -> "restricted"
    [] risk = 2 -> "limited"
    [] risk = 1 -> "watchlist"
    [] OTHER -> status

\* apply_seller_risk_event_db reads the row and computes what it comes to.
BeginRiskEvent(t) ==
  /\ \E risk \in account.risk .. 3 :
       Takes(t, Work("risk", StatusAt(risk, account.status), risk))
  /\ UNCHANGED accountTables

\* apply_seller_dynamic_exposure_control_with_cursor
AvailableAt(risk, status) == risk = 0 /\ status = "active"

\* It writes what it came to, limits agents beyond the number allowed at the
\* band, and makes all agents of the seller available, or none.
RiskEvent(t) ==
  /\ desk[t].task = "risk"
  /\ LET risk == desk[t].left
         status == desk[t].outcome
     IN
       /\ account' = [account EXCEPT !.status = status, !.risk = risk]
       /\ \E left \in {capability.status} \cup
            (IF risk > 0 /\ capability.status = "active" THEN {"limited"} ELSE {}) :
            capability' = IF capability = NoCapability THEN capability
              ELSE [capability EXCEPT !.status = left, !.available = AvailableAt(risk, status)]
       /\ relit' = (capability'.available /\ capability.status # "active")
       /\ ruledOut' = (ruledOut /\ status \in Terminal)
  /\ Writes(t, NoWork)
  /\ UNCHANGED forced /\ OnlyAccount

-----------------------------------------------------------------------------
\* SELLER_ALLOWED_TRANSITIONS
AllowedMoves(status) ==
  {status} \cup
  CASE status = "pending" -> {"active", "rejected", "watchlist"}
    [] status = "active" -> {"watchlist", "restricted", "contained", "rejected"}
    [] status = "watchlist" -> {"active", "restricted", "contained", "rejected"}
    [] status = "restricted" -> {"watchlist", "contained", "rejected"}
    [] status = "contained" -> {"restricted", "rejected", "banned"}
    [] OTHER -> {}

\* update_seller_status_governed_db, for staff or, as left says, for a recovery.
BeginAccountMove(t) ==
  /\ \E next \in AllowedMoves(account.status) : Decides(t, "move", next)
  /\ UNCHANGED accountTables

MoveAccount(t) ==
  /\ desk[t].task = "move"
  /\ LET next == desk[t].outcome IN
       /\ account' = [account EXCEPT !.status = next]
       /\ capability' = IF next \in Blocked /\ capability # NoCapability
            THEN [capability EXCEPT !.status = "disabled", !.available = FALSE]
            ELSE capability
       /\ ruledOut' = (ruledOut \/ next \in Terminal)
  /\ relit' = (relit /\ capability'.available)
  /\ IF desk[t].left = 1
     THEN /\ recovery' = [recovery EXCEPT !.made = IF @ < 2 THEN @ + 1 ELSE @]
          /\ Writes(t, Work("mark", "approved", 0))
     ELSE UNCHANGED recovery /\ Writes(t, NoWork)
  /\ UNCHANGED <<proofs, forced, torn>>

\* create_seller_recovery_request_db, for a seller whose API key is refused, too.
\* (Bound: one request, for the status it has by default.)
RequestRecovery ==
  /\ account.status \in {"restricted", "contained"}
  /\ recovery = NoRecovery
  /\ recovery' = [status |-> "pending", made |-> 0]
  /\ WritesAtOnce
  /\ UNCHANGED <<account, proofs, capability, ruledOut, forced, relit, torn>>

RecoveryCalls ==
  {t \in Staff : \/ desk[t].task \in {"decide", "mark"}
                 \/ desk[t].task = "move" /\ desk[t].left = 1}

\* decide_seller_recovery_request_db reads that the request is pending; an
\* approval makes its transition first, in a transaction of its own.
BeginDecision(t) ==
  /\ recovery.status = "pending"
  /\ Decides(t, "decide", "approved") \/ Decides(t, "mark", "rejected")
  /\ torn' = (torn \/ RecoveryCalls # {})
  /\ UNCHANGED <<account, proofs, capability, recovery, ruledOut, forced, relit>>

BeginRecovery(t) ==
  /\ desk[t].task = "decide"
  /\ IF "watchlist" \in AllowedMoves(account.status)
     THEN /\ desk' = [desk EXCEPT ![t] = Work("move", "watchlist", 1)]
          /\ UNCHANGED <<outdated, overlapped>>
     ELSE Leaves(t)
  /\ UNCHANGED <<accountTables, faults>>

MarkRecovery(t) ==
  /\ desk[t].task = "mark"
  /\ recovery' = [recovery EXCEPT !.status = desk[t].outcome]
  /\ Writes(t, NoWork)
  /\ UNCHANGED <<account, proofs, capability, ruledOut, forced, relit, torn>>

DecisionDies(t) ==
  /\ desk[t] = Work("mark", "approved", 0)
  /\ Fault
  /\ Leaves(t)
  /\ torn' = TRUE
  /\ UNCHANGED <<account, proofs, capability, recovery, ruledOut, forced, relit>>

\* (Bound: once a call has written over what it had not read, no more is asked.)
AccountsNext ==
  /\ ~overlapped
  /\ \/ \E proof \in {"email", "wallet"} : Proves(proof)
     \/ SetCapability \/ ActivateParentAccount
     \/ RejectAccount \/ RequestRecovery
     \/ \E t \in Staff :
          \/ BeginRegistration(t) \/ RegisterCapability(t)
          \/ BeginAccountApproval(t) \/ BeginOnboarding(t) \/ ApproveAccount(t)
          \/ BeginLapse(t) \/ Lapse(t)
          \/ BeginRiskEvent(t) \/ RiskEvent(t)
          \/ BeginAccountMove(t) \/ MoveAccount(t)
          \/ BeginDecision(t) \/ BeginRecovery(t) \/ MarkRecovery(t) \/ DecisionDies(t)

AccountsSpec == AccountsInit /\ [][AccountsNext]_accountVars

-----------------------------------------------------------------------------
\* approve_seller_db: a seller the Foundation vouches for has proven its email
\* and its wallet, unless an administrator has activated it over one of its
\* agents, which vouches for it without a look.
ApprovedIsIdentified ==
  account.verified => {"email", "wallet"} \subseteq proofs \/ forced

\* SELLER_ALLOWED_TRANSITIONS: a rejection or a ban stands until it is overridden,
\* the seller is activated over one of its agents, or a risk event overwrites it,
\* unless a call has written over what it had not read.
RulingHolds ==
  ruledOut /\ ~overlapped => account.status \in Terminal

\* update_seller_status_governed_db, reject_seller_db, the exposure control: to
\* block a seller takes its agent out of service, and what puts an agent into
\* service on a look at the seller finds it neither blocked nor the agent
\* inactive; unless a call has written over what it had not read.
AvailableIsAllowed ==
  capability.available /\ ~relit =>
    /\ account.status \notin Blocked \/ overlapped
    /\ capability.status = "active"

\* decide_seller_recovery_request_db: the transition a request asks for is made
\* once, if it is approved, and not if it is not.
RecoveryIsMadeOnce ==
  ~overlapped /\ ~torn =>
    /\ recovery.status = "approved" => recovery.made = 1
    /\ recovery.status \in {"none", "rejected"} => recovery.made = 0
    /\ recovery.made <= 1

\* apply_seller_risk_event_db: nothing lowers the risk of a seller but its
\* activation over one of its agents, unless a call writes over what it had not
\* read.
RiskStays ==
  account'.risk >= account.risk \/ ActivateParentAccount \/ overlapped'

SellerIsGoverned ==
  /\ [](ApprovedIsIdentified /\ RulingHolds /\ AvailableIsAllowed /\ RecoveryIsMadeOnce)
  /\ [][RiskStays]_accountVars
=============================================================================
