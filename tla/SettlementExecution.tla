------------------------ MODULE SettlementExecution ------------------------
(***************************************************************************)
(* The workflow of one settlement (iat/api/db.py) and the release of its   *)
(* escrow on chain (iat/action_engine/adapters/settlement_atomic.py): the  *)
(* execution claim, the execution permit it consumes, the one broadcast,   *)
(* and the reconciliation of a broadcast whose outcome is unknown.         *)
(*                                                                         *)
(* Workers are the API requests and the autonomous loop.  Each of them     *)
(* reads the settlement, decides, and writes with a compare-and-swap on a  *)
(* status it reads again, so that a decision may meet a status it was not  *)
(* taken on.                                                               *)
(***************************************************************************)
EXTENDS Naturals, Sequences, FiniteSets

CONSTANTS
  Workers,
  Permits,     \* execution permits, one per simulation of the release
  Txs,         \* transactions the wallet sidecar may send
  Typed,       \* signatures that administrators type, of a release or not
  None,        \* SQL NULL
  MaxByHand,   \* bound: administrators' transitions with a signature, or
               \* to release_confirmed
  MaxCrashes   \* bound: requests that die between two steps

ASSUME ConstantsAssumption ==
  /\ None \notin Workers \cup Permits \cup Txs \cup Typed
  /\ MaxByHand \in Nat /\ MaxCrashes \in Nat

VARIABLES
  status,   \* settlements.settlement_status
  claim,    \* execution_claim_status and execution_claim_token
  sig,      \* commission_tx_signature and seller_payout_tx_signature
  acts,     \* how many such transitions were asked for
  byHand,   \* what state_history has of administrators: signatures passed,
            \* releases confirmed
  permit,   \* protocol_settlement_execution_permits
  chain,    \* the transactions sent
  run,      \* what every worker is in the middle of
  crashes

vars == <<status, claim, sig, byHand, permit, chain, run, crashes, acts>>

\* What record_settlement_db stores: the first four for a checkout, the others
\* for the legacy payment flow.
Recorded == {"pending_escrow_release", "no_payment_due", "blocked_no_winner",
             "blocked_invalid_winner_wallet", "created", "dry_run_ready",
             "blocked", "direct_payment_mode_no_escrow_release"}

Released == {"release_confirmed", "settled"}

Statuses == Recorded \cup Released \cup
  {"foundation_review", "risk_review", "policy_review", "manual_review",
   "authorized", "ready_for_release", "release_submitted", "release_failed"}

Allowed(s) ==
  CASE s = "created" -> {"foundation_review", "authorized", "blocked",
         "dry_run_ready", "direct_payment_mode_no_escrow_release"}
    [] s = "foundation_review" -> {"risk_review", "manual_review", "blocked"}
    [] s = "risk_review"   -> {"policy_review", "manual_review", "blocked"}
    [] s = "policy_review" -> {"authorized", "manual_review", "blocked"}
    [] s = "manual_review" -> {"authorized", "blocked"}
    [] s = "dry_run_ready" -> {"authorized", "ready_for_release", "blocked"}
    [] s = "authorized"    -> {"ready_for_release", "manual_review", "blocked"}
    [] s = "ready_for_release" -> {"release_submitted", "blocked"}
    [] s = "release_submitted" -> {"release_confirmed", "release_failed"}
    [] s = "release_confirmed" -> {"settled"}
    [] s = "release_failed"    -> {"blocked", "ready_for_release"}
    [] s = "blocked" -> {"foundation_review", "authorized"}
    [] s = "blocked_invalid_winner_wallet" ->
         {"foundation_review", "authorized", "blocked"}
    [] s = "direct_payment_mode_no_escrow_release" -> {"blocked"}
    [] OTHER -> {}

\* What a handler that reads nothing but the settlement's payload decides.
\* The policy review depends on evaluations that are not modelled.
Decisions(s) ==
  CASE s = "created"           -> {"foundation_review"}
    [] s = "foundation_review" -> {"risk_review"}
    [] s = "risk_review"       -> {"policy_review"}
    [] s = "policy_review"     -> {"authorized", "manual_review", "blocked"}
    [] s = "authorized"        -> {"ready_for_release"}
    [] s = "release_confirmed" -> {"settled"}
    [] OTHER -> {}

Signatures == Txs \cup Typed

Columns == [commission : Signatures \cup {None}, payout : Signatures \cup {None}]

Both(x) == [commission |-> x, payout |-> x]

Unsigned == Both(None)

\* What a transition of an administrator may vouch for.
Acts == {"signature", "confirmation"}

Idle == [pc |-> "idle", permit |-> None, tx |-> None, sig |-> Unsigned,
         plan |-> <<>>, again |-> FALSE, read |-> None, hand |-> {}]

PCs == {"idle", "permit", "claim", "send", "record", "unknown", "verify",
        "recover", "move", "write", "again"}

TypeOK ==
  /\ status \in Statuses
  /\ claim \in [state : {"unclaimed", "claimed", "broadcast_submitted",
                         "broadcast_unknown"},
                token : Workers \cup {None}]
  /\ sig \in Columns
  /\ byHand \subseteq Acts
  /\ permit \in [Permits -> {"none", "issued", "claimed", "expired"}]
  /\ chain \in [Txs -> {"none", "sent", "ok", "err"}]
  /\ run \in [Workers ->
       [pc : PCs, permit : Permits \cup {None}, tx : Signatures \cup {None},
        sig : Columns, plan : Seq(Statuses), again : BOOLEAN,
        read : Statuses \cup {None}, hand : SUBSET Acts]]
  /\ crashes \in Nat /\ acts \in Nat

Init ==
  /\ status \in Recorded
  /\ claim = [state |-> "unclaimed", token |-> None]
  /\ sig = Unsigned /\ byHand = {}
  /\ permit = [p \in Permits |-> "none"]
  /\ chain = [t \in Txs |-> "none"]
  /\ run = [w \in Workers |-> Idle]
  /\ crashes = 0 /\ acts = 0

row == <<status, claim, sig, byHand, permit, chain, crashes, acts>>

Set(w, r) == run' = [run EXCEPT ![w] = r]

\* The transitions a worker goes on to ask for, the signatures it passes with
\* them, and whether it then advances the workflow once more.
Plan(plan, s, again) ==
  IF plan # <<>>
  THEN [Idle EXCEPT !.pc = "move", !.plan = plan, !.sig = s, !.again = again]
  ELSE [Idle EXCEPT !.pc = IF again THEN "again" ELSE "idle"]

-----------------------------------------------------------------------------
(* advance_settlement_workflow_db: read, and route to the handler.          *)

\* Both columns are filled, and with one signature.
Filled(x) == x.commission # None /\ x.payout # None
Agreed(x) == Filled(x) /\ x.commission = x.payout

Advance(w) ==
  /\ run[w].pc \in {"idle", "again"}
  /\ \/ \E n \in Decisions(status) : Set(w, Plan(<<n>>, Unsigned, FALSE))
     \/ /\ status = "ready_for_release"
        /\ Set(w, [Idle EXCEPT !.pc = "permit"])
     \/ /\ status = "release_submitted" /\ ~Agreed(sig)
        /\ Set(w, Plan(<<"release_failed">>, Unsigned, FALSE))
     \/ /\ status = "release_submitted" /\ Agreed(sig)
        /\ Set(w, [Idle EXCEPT !.pc = "verify", !.tx = sig.commission,
                               !.sig = sig])
  /\ UNCHANGED row

\* No handler manages the status any more.
GiveUp(w) ==
  /\ run[w].pc = "again"
  /\ Decisions(status) = {}
  /\ status \notin {"ready_for_release", "release_submitted"}
  /\ Set(w, Idle)
  /\ UNCHANGED row

\* (Not the code: confirm what the node has merely accepted.)
VerifySent(w) ==
  /\ run[w].pc = "verify"
  /\ Set(w, Plan(<<"release_confirmed">>, run[w].sig, FALSE))
  /\ UNCHANGED row

\* verify_tx_signature: the transaction is on chain and without error, as far
\* as the node answers.  What was typed may name some other transaction.
Verify(w) ==
  /\ run[w].pc = "verify"
  /\ \/ /\ run[w].tx \in Txs => chain[run[w].tx] = "ok"
        /\ Set(w, Plan(<<"release_confirmed">>, run[w].sig, FALSE))
     \/ Set(w, Idle)
  /\ UNCHANGED row

\* run_settlement_orchestrator_once_db, where it differs from Advance.  It
\* submits on two signatures, whether or not they are one, and passes none when
\* it confirms.
Orchestrate(w) ==
  /\ run[w].pc = "idle"
  /\ \/ /\ status = "dry_run_ready"
        /\ Set(w, Plan(<<"ready_for_release">>, Unsigned, FALSE))
     \/ /\ status = "ready_for_release" /\ Filled(sig)
        /\ Set(w, Plan(<<"release_submitted">>, sig, FALSE))
     \/ /\ status = "release_submitted" /\ Filled(sig) /\ ~Agreed(sig)
        /\ Set(w, Plan(<<"release_failed">>, Unsigned, FALSE))
     \/ /\ status = "release_submitted" /\ Agreed(sig)
        /\ Set(w, [Idle EXCEPT !.pc = "verify", !.tx = sig.commission])
  /\ UNCHANGED row

Vouched(n, s) ==
  {k \in Acts : \/ k = "signature" /\ s # Unsigned
                \/ k = "confirmation" /\ n = "release_confirmed"}

\* The transition endpoints of the administrator, who passes any signatures, or
\* none, with any transition of the table, a confirmation included.  Nothing is
\* read before the validation, and nothing asked of the chain.
AdminTransition(w, n, s) ==
  /\ run[w].pc = "idle"
  /\ n \in Allowed(status)
  /\ IF Vouched(n, s) = {}
     THEN UNCHANGED acts
     ELSE acts < MaxByHand /\ acts' = acts + 1
  /\ Set(w, [Plan(<<n>>, s, FALSE) EXCEPT !.pc = "write", !.read = status,
                                          !.hand = Vouched(n, s)])
  /\ UNCHANGED <<status, claim, sig, byHand, permit, chain, crashes>>

\* recover_settlement_wallet_configuration_db.  The wallets are not modelled.
RecoverWallets(w) ==
  /\ run[w].pc = "idle"
  /\ status \in {"blocked_invalid_winner_wallet", "manual_review"}
  /\ \E n \in {"authorized", "manual_review"} \ {status} :
       Set(w, Plan(<<n>>, Unsigned, FALSE))
  /\ UNCHANGED row

-----------------------------------------------------------------------------
(* update_settlement_status_db: read the status again and validate, then    *)
(* write if it is still the one read.                                       *)

\* The rest of the plan: its caller does not look at the result.
Rest(w) == Plan(Tail(run[w].plan), run[w].sig, run[w].again)

Move(w) ==
  /\ run[w].pc = "move"
  /\ IF Head(run[w].plan) \in Allowed(status)
     THEN Set(w, [run[w] EXCEPT !.pc = "write", !.read = status])
     ELSE Set(w, Rest(w))
  /\ UNCHANGED row

\* COALESCE: what is passed is preferred to what is stored, column by column.
Preferred(x, y) == [c \in {"commission", "payout"} |->
                      IF x[c] # None THEN x[c] ELSE y[c]]

\* (Not the code: a transition without a signature clears the column.)
WriteAll(w) ==
  /\ run[w].pc = "write"
  /\ IF status = run[w].read
     THEN /\ status' = Head(run[w].plan) /\ sig' = run[w].sig
          /\ byHand' = byHand \cup run[w].hand
     ELSE UNCHANGED <<status, sig, byHand>>
  /\ Set(w, Rest(w))
  /\ UNCHANGED <<claim, permit, chain, crashes, acts>>

Write(w) ==
  /\ run[w].pc = "write"
  /\ IF status = run[w].read
     THEN /\ status' = Head(run[w].plan)
          /\ sig' = Preferred(run[w].sig, sig)
          /\ byHand' = byHand \cup run[w].hand
     ELSE UNCHANGED <<status, sig, byHand>>
  /\ Set(w, Rest(w))
  /\ UNCHANGED <<claim, permit, chain, crashes, acts>>

-----------------------------------------------------------------------------
(* The release of the escrow.                                               *)

\* One permit is issued per simulation, and lives for a while.
IssuePermit(p) ==
  /\ permit[p] = "none"
  /\ permit' = [permit EXCEPT ![p] = "issued"]
  /\ UNCHANGED <<status, byHand, claim, sig, chain, run, crashes, acts>>

ExpirePermit(p) ==
  /\ permit[p] = "issued"
  /\ permit' = [permit EXCEPT ![p] = "expired"]
  /\ UNCHANGED <<status, byHand, claim, sig, chain, run, crashes, acts>>

\* get_active_settlement_execution_permit_db.
LookPermit(w) ==
  /\ run[w].pc = "permit"
  /\ IF \E p \in Permits : permit[p] = "issued"
     THEN \E p \in Permits :
            /\ permit[p] = "issued"
            /\ Set(w, [run[w] EXCEPT !.pc = "claim", !.permit = p])
     ELSE Set(w, Idle)
  /\ UNCHANGED row

Fail(w) == Set(w, Plan(<<"release_failed">>, Unsigned, FALSE))

\* The adapter's own checks: release disabled, sidecar or wallet missing.
RefuseRelease(w) ==
  /\ run[w].pc = "claim"
  /\ Fail(w)
  /\ UNCHANGED row

Claimable(w) == claim.state = "unclaimed" /\ permit[run[w].permit] = "issued"

\* (Not the code: the permit is spent before the claim is looked at.)
SpendThenClaim(w) ==
  /\ run[w].pc = "claim"
  /\ permit' = [permit EXCEPT ![run[w].permit] = "claimed"]
  /\ \/ /\ sig = Unsigned /\ Claimable(w)
        /\ claim' = [state |-> "claimed", token |-> w]
        /\ Set(w, [Idle EXCEPT !.pc = "send"])
     \/ /\ sig # Unsigned \/ ~Claimable(w)
        /\ Fail(w)
        /\ UNCHANGED claim
  /\ UNCHANGED <<status, byHand, sig, chain, crashes, acts>>

\* What the adapter answers for a recorded signature, be it of one column.
Existing ==
  Preferred(sig, Both(IF sig.commission # None THEN sig.commission ELSE sig.payout))

\* claim_settlement_execution_db: one transaction consumes the permit and
\* takes the claim.  A recorded signature is returned, and the handler goes on
\* with it unless there are two.
ClaimExecution(w) ==
  /\ run[w].pc = "claim"
  /\ \/ /\ sig # Unsigned
        /\ IF Agreed(Existing)
           THEN Set(w, Plan(<<"release_submitted">>, Existing, FALSE))
           ELSE Fail(w)
        /\ UNCHANGED <<claim, permit>>
     \/ /\ sig = Unsigned /\ ~Claimable(w)
        /\ Fail(w)
        /\ UNCHANGED <<claim, permit>>
     \/ /\ sig = Unsigned /\ Claimable(w)
        /\ permit' = [permit EXCEPT ![run[w].permit] = "claimed"]
        /\ claim' = [state |-> "claimed", token |-> w]
        /\ Set(w, [Idle EXCEPT !.pc = "send"])
  /\ UNCHANGED <<status, byHand, sig, chain, crashes, acts>>

\* send_iat_split_atomic: simulate, sign, broadcast.  It may fail before the
\* transaction is sent, or lose the sidecar's answer after.
Send(w) ==
  /\ run[w].pc = "send"
  /\ \/ UNCHANGED chain /\ Set(w, [run[w] EXCEPT !.pc = "unknown"])
     \/ \E t \in Txs :
          /\ chain[t] = "none"
          /\ chain' = [chain EXCEPT ![t] = "sent"]
          /\ \/ Set(w, [run[w] EXCEPT !.pc = "record", !.tx = t])
             \/ Set(w, [run[w] EXCEPT !.pc = "unknown"])
  /\ UNCHANGED <<status, byHand, claim, sig, permit, crashes, acts>>

Owns(w) == claim = [state |-> "claimed", token |-> w]

\* The columns that record_settlement_broadcast_db writes.
Submitted(t) ==
  claim' = [claim EXCEPT !.state = "broadcast_submitted"] /\ sig' = Both(t)

Record(w) ==
  /\ run[w].pc = "record" /\ Owns(w) /\ sig = Unsigned
  /\ Submitted(run[w].tx)
  /\ Set(w, Plan(<<"release_submitted">>, Both(run[w].tx), FALSE))
  /\ UNCHANGED <<status, byHand, permit, chain, crashes, acts>>

\* The write fails or finds another claim, or its answer is lost.
RecordFails(w) ==
  /\ run[w].pc = "record"
  /\ \/ Owns(w) /\ sig = Unsigned /\ Submitted(run[w].tx)
     \/ UNCHANGED <<claim, sig>>
  /\ Set(w, [run[w] EXCEPT !.pc = "unknown"])
  /\ UNCHANGED <<status, byHand, permit, chain, crashes, acts>>

\* (Not the code: the mark does not look at the state of the claim.)
MarkAnyway(w) ==
  /\ run[w].pc = "unknown"
  /\ claim' = [claim EXCEPT !.state = "broadcast_unknown"]
  /\ Fail(w)
  /\ UNCHANGED <<status, byHand, sig, permit, chain, crashes, acts>>

\* (Not the code: the mark says that nothing was broadcast, its default.)
MarkNotBroadcast(w) ==
  /\ run[w].pc = "unknown"
  /\ \/ Owns(w) /\ claim' = [claim EXCEPT !.state = "execution_failed_locked"]
     \/ UNCHANGED claim
  /\ Fail(w)
  /\ UNCHANGED <<status, byHand, sig, permit, chain, crashes, acts>>

\* mark_settlement_execution_error_db, which may fail too.
MarkUnknown(w) ==
  /\ run[w].pc = "unknown"
  /\ \/ Owns(w) /\ claim' = [claim EXCEPT !.state = "broadcast_unknown"]
     \/ UNCHANGED claim
  /\ Fail(w)
  /\ UNCHANGED <<status, byHand, sig, permit, chain, crashes, acts>>

-----------------------------------------------------------------------------
(* Reconciliation of an unknown broadcast.                                  *)

\* The chain executes a transaction or not, and nothing says when.
Land(t) ==
  /\ chain[t] = "sent"
  /\ \E r \in {"ok", "err"} : chain' = [chain EXCEPT ![t] = r]
  /\ UNCHANGED <<status, byHand, claim, sig, permit, run, crashes, acts>>

\* The statuses a recovered broadcast goes on to, from the one it was read on.
Recovery(s) ==
  CASE s = "release_failed"    -> <<"ready_for_release", "release_submitted">>
    [] s = "ready_for_release" -> <<"release_submitted">>
    [] OTHER -> <<>>

\* execute_settlement_supervisor_action_db, reconcile_unknown_broadcast: read
\* the settlement, then look for the transaction by its memo.
Reconcile(w) ==
  /\ run[w].pc = "idle" /\ claim.state = "broadcast_unknown"
  /\ Set(w, [Idle EXCEPT !.pc = "recover", !.plan = Recovery(status),
                !.again = status \in {"release_failed", "ready_for_release",
                                      "release_submitted"}])
  /\ UNCHANGED row

\* The transaction found succeeded.  record_recovered_settlement_broadcast_db,
\* with the token of the claim (there is only one), and then the transitions.
Recover(w) ==
  /\ run[w].pc = "recover"
  /\ \E t \in Txs :
       /\ chain[t] = "ok"
       /\ IF claim.state = "broadcast_unknown" /\ sig = Unsigned
          THEN Submitted(t) /\ Set(w, Plan(run[w].plan, Both(t), run[w].again))
          ELSE UNCHANGED <<claim, sig>> /\ Set(w, Idle)
  /\ UNCHANGED <<status, byHand, permit, chain, crashes, acts>>

\* Nothing found, or no answer from the node: wait for the next call.
RecoverNothing(w) ==
  /\ run[w].pc = "recover"
  /\ Set(w, Idle)
  /\ UNCHANGED row

\* The supervisor's retry_release.  (The retry count, which only makes it
\* refuse, is left out.)
RetryRelease(w) ==
  /\ run[w].pc = "idle"
  /\ status = "release_failed" /\ claim.state # "broadcast_unknown"
  /\ Set(w, Plan(<<"ready_for_release">>, Unsigned, FALSE))
  /\ UNCHANGED row

Crash(w) ==
  /\ run[w].pc # "idle" /\ crashes < MaxCrashes
  /\ crashes' = crashes + 1
  /\ Set(w, Idle)
  /\ UNCHANGED <<status, byHand, claim, sig, permit, chain, acts>>

-----------------------------------------------------------------------------

\* What a worker does once it has started.
Step(w) ==
  \/ run[w].pc = "again" /\ Advance(w)
  \/ GiveUp(w) \/ Verify(w) \/ Move(w) \/ Write(w)
  \/ LookPermit(w) \/ RefuseRelease(w) \/ ClaimExecution(w) \/ Send(w)
  \/ Record(w) \/ RecordFails(w) \/ MarkUnknown(w)
  \/ Recover(w) \/ RecoverNothing(w)

\* What makes it start: a request, or the orchestrator's loop.
Request(w) ==
  \/ run[w].pc = "idle" /\ Advance(w)
  \/ Orchestrate(w) \/ RecoverWallets(w) \/ Reconcile(w) \/ RetryRelease(w)
  \/ \E n \in Statuses :
       \E s \in [commission : Typed \cup {None}, payout : Typed \cup {None}] :
         AdminTransition(w, n, s)

Next ==
  \/ \E w \in Workers : Step(w) \/ Request(w) \/ Crash(w)
  \/ \E p \in Permits : IssuePermit(p) \/ ExpirePermit(p)
  \/ \E t \in Txs : Land(t)

Spec == Init /\ [][Next]_vars

\* A started request goes on, operators keep running the supervisor, and the
\* node does not fail it forever.
FairSpec ==
  /\ Spec
  /\ \A w \in Workers : WF_vars(Step(w))
  /\ SF_vars(\E w \in Workers : Reconcile(w))
  /\ SF_vars(\E w \in Workers : Recover(w))

\* The administrator also keeps trying every transition.
GovernedSpec ==
  /\ FairSpec
  /\ \A n \in Statuses :
       SF_vars(\E w \in Workers : AdminTransition(w, n, Unsigned))

-----------------------------------------------------------------------------
(* Properties                                                               *)

\* The escrow is released by one transaction at the most, whatever requests
\* race, crash or are retried (the execution guard's purpose).
AtMostOneBroadcast ==
  \A t, u \in Txs : chain[t] # "none" /\ chain[u] # "none" => t = u

\* Permits are spent with the claim: one if the settlement is claimed, and a
\* refused request spends none (claim_settlement_execution_db rolls back).
PermitIsSpentOnce ==
  /\ \A p, q \in Permits : permit[p] = "claimed" /\ permit[q] = "claimed" => p = q
  /\ (\E p \in Permits : permit[p] = "claimed") <=> claim.state # "unclaimed"

\* So one permit releases the escrow, once.
ReleasedOnce == AtMostOneBroadcast /\ PermitIsSpentOnce

\* The claim and the signature columns agree: a broadcast that is submitted is
\* signed, in both columns.  As long as administrators pass no signature, the
\* columns are one, and a signed settlement is never marked unknown, where the
\* recovery, which wants no signature, could not close it.
SignedIsSubmitted ==
  /\ claim.state = "broadcast_submitted" => Filled(sig)
  /\ "signature" \notin byHand =>
       /\ sig.commission = sig.payout
       /\ sig # Unsigned => claim.state = "broadcast_submitted"

\* A settlement that no administrator confirmed is confirmed or settled only with
\* its signatures recorded, and if they are not an administrator's, only when
\* their transaction has succeeded on chain.
SettledIsPaid ==
  status \in Released /\ "confirmation" \notin byHand =>
    /\ Filled(sig)
    /\ "signature" \notin byHand =>
         sig.commission \in Txs /\ chain[sig.commission] = "ok"

\* update_settlement_status_db, record_settlement_broadcast_db: what the
\* settlement says of its release - the claim, the signatures and the status, which
\* are written by different calls - is true of the chain, as far as the code and
\* not an administrator's transition says it.
ReleaseIsRecorded == SignedIsSubmitted /\ SettledIsPaid

\* A signature recorded is never cleared, and never replaced as long as
\* administrators pass none, though every transition may pass one and
\* update_settlement_status_db prefers it to the one stored.
SignatureIsFinal ==
  [][/\ sig.commission # None => sig'.commission # None
     /\ sig.payout # None => sig'.payout # None
     /\ "signature" \notin byHand' /\ sig # Unsigned => sig' = sig]_vars

\* A claim whose request died, or could not mark its failure, before the
\* signature was stored: nothing reconciles it.
Orphaned ==
  /\ claim.state = "claimed"
  /\ \A w \in Workers : run[w].pc \notin {"send", "record", "unknown"}

\* A release that landed is recorded in the end, by its own request or by the
\* supervisor, unless its claim is orphaned or an administrator signed.
LandedIsRecorded ==
  \A t \in Txs :
    chain[t] = "ok" ~> sig = Both(t) \/ Orphaned \/ "signature" \in byHand

\* (Violated.)  The settlement of a checkout leaves pending_escrow_release:
\* the governance pipeline has the authority to release it.
AllocationIsGoverned ==
  status = "pending_escrow_release" ~> status # "pending_escrow_release"

\* (Violated.)  A release that failed is marked release_failed, the status
\* from which the supervisor retries it.
FailedReleaseIsMarked ==
  \A w \in Workers :
    (/\ run[w].pc = "move" /\ Head(run[w].plan) = "release_failed"
     /\ status = "ready_for_release")
    ~> status # "ready_for_release"
=============================================================================
