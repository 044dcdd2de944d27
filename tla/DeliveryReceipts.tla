-------------------------- MODULE DeliveryReceipts --------------------------
(***************************************************************************)
(* The final receipt of one order (iat/checkout_receipt.py): the result is *)
(* sealed in the buyer's inbox, the buyer is notified by e-mail or webhook *)
(* and accepts or disputes it; the settlement's release waits for that.    *)
(*                                                                         *)
(* An order has one receipt, bound to one of its quotes; a quote's result  *)
(* is named by the quote.  A request reads the row in one transaction and  *)
(* writes it in another, and other requests run between the two.  The      *)
(* states payload_ready, pending_dispatch and dispatched are read by the   *)
(* code and written nowhere.                                               *)
(***************************************************************************)
EXTENDS Faults

CONSTANTS
  ReceiptQuotes,      \* the quotes of the order
  NoQuote,            \* no quote, or nothing sealed
  Channels,           \* the channels buyers choose
  Requests,           \* requests of buyers, of delivery workers and of the provider
  Sweepers,           \* dispatch sweeps of the delivery workers
  DispatchAttempts    \* IAT_DELIVERY_DISPATCH_MAX_ATTEMPTS

VARIABLES
  receipt,   \* universal_checkout_delivery_receipts: the row of the order
  decided,   \* the decisions among the receipt's events
  review,    \* the dispute has opened a compensation review
  signing,   \* the signing keypair is configured
  mailed,    \* an e-mail has left: the provider may report on it
  request    \* what each request has read and is about to write

receiptVars == <<receipt, decided, review, signing, mailed, request, faults>>

ASSUME ReceiptsAssumption ==
  /\ NoQuote \notin ReceiptQuotes
  /\ "api_pull" \in Channels
  /\ Channels \subseteq {"api_pull", "webhook", "email"}
  /\ Requests \cap Sweepers = {}
  /\ DispatchAttempts \in Nat \ {0}

Handlers == Requests \cup Sweepers

DECISIONS == {"accepted", "disputed"}

NoReceipt == [quote |-> NoQuote, channel |-> "api_pull", state |-> "none",
              sealed |-> NoQuote, signed |-> FALSE, opened |-> FALSE,
              dispatched |-> FALSE, attempts |-> 0, retry |-> FALSE]

NoRequest == [pc |-> "idle", quote |-> NoQuote, from |-> NoQuote,
              channel |-> "api_pull", publishing |-> FALSE, signs |-> FALSE,
              state |-> "none", attempts |-> 0, ok |-> FALSE]

ReceiptsInit ==
  /\ receipt = NoReceipt
  /\ decided = {}
  /\ review = FALSE
  /\ signing \in BOOLEAN
  /\ mailed = FALSE
  /\ request = [t \in Handlers |-> NoRequest]
  /\ faults = 0

ReceiptStates == {"none", "configured", "delivered"} \cup DECISIONS

ReceiptRows == [quote : ReceiptQuotes \cup {NoQuote}, channel : Channels,
                state : ReceiptStates, sealed : ReceiptQuotes \cup {NoQuote},
                signed : BOOLEAN, opened : BOOLEAN, dispatched : BOOLEAN,
                attempts : Nat, retry : BOOLEAN]

RequestSteps == {"idle", "bind", "insert", "update", "rebind", "publish",
                 "seal", "repair", "review", "listed", "report", "event"}

RequestCopies == [pc : RequestSteps, quote : ReceiptQuotes \cup {NoQuote},
                  from : ReceiptQuotes \cup {NoQuote}, channel : Channels,
                  publishing : BOOLEAN, signs : BOOLEAN, state : ReceiptStates,
                  attempts : Nat, ok : BOOLEAN]

ReceiptsTypeOK ==
  /\ receipt \in ReceiptRows
  /\ decided \subseteq DECISIONS
  /\ review \in BOOLEAN
  /\ signing \in BOOLEAN
  /\ mailed \in BOOLEAN
  /\ request \in [Handlers -> RequestCopies]
  /\ faults \in 0 .. MaxFaults

-----------------------------------------------------------------------------
Becomes(t, r) == request' = [request EXCEPT ![t] = r]

Returns(t) == Becomes(t, NoRequest)

At(t, pc) == request[t].pc = pc

\* The row is bound to the quote of the request: WHERE quote_id = ...
Bound(t) == receipt.quote = request[t].quote

\* configure_delivery_receipt reads the row of the quote, else of the order;
\* a receipt that is sealed or bound to a sealed quote is refused.
ReadsForConfiguration(t, q, channel, publishing) ==
  LET write(pc) == [NoRequest EXCEPT !.pc = pc, !.quote = q, !.channel = channel,
                                     !.from = receipt.quote,
                                     !.publishing = publishing]
  IN Becomes(t, CASE receipt.quote = NoQuote -> write("insert")
                  [] receipt.quote = q /\ receipt.state = "configured" ->
                       write("update")
                  [] receipt.quote \notin {NoQuote, q}
                       /\ receipt.state = "configured"
                       /\ receipt.sealed = NoQuote -> write("rebind")
                  [] OTHER -> NoRequest)

Configure(t, q, channel) ==
  /\ At(t, "idle")
  /\ ReadsForConfiguration(t, q, channel, FALSE)
  /\ UNCHANGED <<receipt, decided, review, signing, mailed, faults>>

\* The receipt of an order is unique.
Insertable(t) == At(t, "insert") /\ receipt.quote = NoQuote

\* The update of one's own receipt has no condition on its state, and does
\* nothing when the receipt has been bound to another quote.
Updatable(t) == At(t, "update")

\* (Not the code: the rebinding only checks the quote it read.)
RebindableUnread(t) == At(t, "rebind") /\ receipt.quote = request[t].from

Rebindable(t) ==
  /\ At(t, "rebind")
  /\ receipt.quote = request[t].from
  /\ receipt.state = "configured"
  /\ receipt.sealed = NoQuote

WriteConfiguration(t) ==
  LET r == request[t]
      done == IF r.publishing THEN [NoRequest EXCEPT !.pc = "publish", !.quote = r.quote]
                              ELSE NoRequest
  IN /\ r.pc \in {"insert", "update", "rebind"}
     /\ \/ /\ Insertable(t)
           /\ receipt' = [NoReceipt EXCEPT !.quote = r.quote, !.channel = r.channel,
                                           !.state = "configured"]
           /\ Becomes(t, done)
        \/ /\ Updatable(t)
           /\ receipt' = IF Bound(t) THEN [receipt EXCEPT !.channel = r.channel]
                                     ELSE receipt
           /\ Becomes(t, done)
        \/ /\ Rebindable(t)
           /\ receipt' = [receipt EXCEPT !.quote = r.quote, !.channel = r.channel]
           /\ Becomes(t, done)
        \/ /\ ~(Insertable(t) \/ Updatable(t) \/ Rebindable(t))
           /\ receipt' = receipt
           /\ Returns(t)
     /\ UNCHANGED <<decided, review, signing, mailed, faults>>

-----------------------------------------------------------------------------
\* What a publisher does with the receipt it has read: seal it, repair one
\* that was sealed before there was a keypair, or nothing: the result is
\* published already, or it differs from the sealed one.
ReadsForPublication(t, q) ==
  LET write(pc) == [NoRequest EXCEPT !.pc = pc, !.quote = q, !.signs = signing]
  IN Becomes(t, CASE receipt.sealed = NoQuote -> write("seal")
                  [] receipt.sealed = q /\ signing /\ ~receipt.signed ->
                       write("repair")
                  [] OTHER -> NoRequest)

\* The result of quote q is published, possibly again, by the delivery that
\* completed or by any later reader of its outcome.
Publish(t, q) ==
  /\ At(t, "idle")
  /\ IF receipt.quote = q
     THEN ReadsForPublication(t, q)
     ELSE Becomes(t, [NoRequest EXCEPT !.pc = "bind", !.quote = q])
  /\ UNCHANGED <<receipt, decided, review, signing, mailed, faults>>

\* A quote without a receipt gets one with no notification.
Bind(t) ==
  /\ At(t, "bind")
  /\ ReadsForConfiguration(t, request[t].quote, "api_pull", TRUE)
  /\ UNCHANGED <<receipt, decided, review, signing, mailed, faults>>

PublishBound(t) ==
  /\ At(t, "publish")
  /\ IF Bound(t) THEN ReadsForPublication(t, request[t].quote) ELSE Returns(t)
  /\ UNCHANGED <<receipt, decided, review, signing, mailed, faults>>

Seal(t) ==
  /\ At(t, "seal")
  /\ receipt' = IF Bound(t) /\ receipt.sealed = NoQuote
                THEN [receipt EXCEPT !.state = "delivered",
                                     !.sealed = request[t].quote,
                                     !.signed = request[t].signs,
                                     !.dispatched = FALSE]
                ELSE receipt
  /\ Returns(t)
  /\ UNCHANGED <<decided, review, signing, mailed, faults>>

\* The repair adds the signature and writes the state with it.
Repair(t) ==
  /\ At(t, "repair")
  /\ receipt' = IF Bound(t) THEN [receipt EXCEPT !.state = "delivered", !.signed = TRUE]
                            ELSE receipt
  /\ Returns(t)
  /\ UNCHANGED <<decided, review, signing, mailed, faults>>

-----------------------------------------------------------------------------
\* open_delivery_inbox: reading the result accepts nothing.
OpenInbox ==
  /\ receipt.sealed # NoQuote
  /\ ~receipt.opened
  /\ receipt' = [receipt EXCEPT !.opened = TRUE]
  /\ UNCHANGED <<decided, review, signing, mailed, request, faults>>

\* (Not the code: only a decision that was made is in the way.)
Undecided == receipt.state # "none" /\ receipt.state \notin DECISIONS

Decidable == receipt.state = "delivered"

\* acknowledge_delivery compares and swaps the state: the decision is read
\* and written as one.  A dispute goes on to ask for a review.
Acknowledge(t, decision) ==
  /\ At(t, "idle")
  /\ Decidable
  /\ receipt' = [receipt EXCEPT !.state = decision]
  /\ decided' = decided \cup {decision}
  /\ Becomes(t, IF decision = "disputed"
                THEN [NoRequest EXCEPT !.pc = "review", !.quote = receipt.quote]
                ELSE NoRequest)
  /\ UNCHANGED <<review, signing, mailed, faults>>

\* request_compensation looks at the receipt again; its errors are swallowed.
RequestReview(t) ==
  /\ At(t, "review")
  /\ review' = (review \/ receipt.state = "disputed")
  /\ Returns(t)
  /\ UNCHANGED <<receipt, decided, signing, mailed, faults>>

-----------------------------------------------------------------------------
NotificationDue ==
  /\ receipt.state = "delivered"
  /\ receipt.channel \in {"webhook", "email"}
  /\ receipt.sealed # NoQuote
  /\ ~receipt.dispatched
  /\ receipt.retry \/ receipt.attempts = 0

\* list_due_receipt_dispatches
ListDue(t) ==
  /\ At(t, "idle")
  /\ NotificationDue
  /\ Becomes(t, [NoRequest EXCEPT !.pc = "listed", !.quote = receipt.quote])
  /\ UNCHANGED <<receipt, decided, review, signing, mailed, faults>>

\* What another sweep has left to do of a notification that was listed; whether
\* its attempts are used up is not asked again.
Dispatchable(t) ==
  /\ Bound(t)
  /\ receipt.state = "delivered" /\ receipt.channel \in {"webhook", "email"}
  /\ ~receipt.dispatched

\* dispatch_webhook and dispatch_email read the row again and send.  Without a
\* keypair they raise before.
Dispatch(t) ==
  /\ At(t, "listed")
  /\ \/ /\ Dispatchable(t) /\ signing
        /\ \E ok \in BOOLEAN :
             /\ IF ok THEN UNCHANGED faults ELSE Fault
             /\ mailed' = (mailed \/ (ok /\ receipt.channel = "email"))
             /\ Becomes(t, [NoRequest EXCEPT !.pc = "report", !.quote = receipt.quote,
                                             !.attempts = receipt.attempts, !.ok = ok])
     \/ ~(Dispatchable(t) /\ signing) /\ Returns(t) /\ UNCHANGED <<mailed, faults>>
  /\ UNCHANGED <<receipt, decided, review, signing>>

\* (Not the code: the write of a dispatch is guarded by its own time only.)
UndispatchedYet(t) == Bound(t) /\ ~receipt.dispatched

\* The write of a dispatch is guarded by the state the buyer may have left.
Undispatched(t) == Bound(t) /\ receipt.state = "delivered" /\ ~receipt.dispatched

Report(t) ==
  LET r == request[t]
      attempt == r.attempts + 1
  IN /\ At(t, "report")
     /\ receipt' = IF Undispatched(t)
                   THEN [receipt EXCEPT !.state = "delivered", !.attempts = attempt,
                                        !.dispatched = r.ok,
                                        !.retry = ~r.ok /\ attempt < DispatchAttempts]
                   ELSE receipt
     /\ Returns(t)
     /\ UNCHANGED <<decided, review, signing, mailed, faults>>

\* record_email_provider_event: the provider reports on an e-mail.
ProviderEvent(t) ==
  /\ At(t, "idle")
  /\ mailed /\ receipt.channel = "email"
  /\ Becomes(t, [NoRequest EXCEPT !.pc = "event", !.quote = receipt.quote,
                                  !.state = receipt.state])
  /\ UNCHANGED <<receipt, decided, review, signing, mailed, faults>>

\* It writes back the state it has read, whatever the state has become.
RecordProviderEvent(t) ==
  /\ At(t, "event")
  /\ receipt' = IF Bound(t) THEN [receipt EXCEPT !.state = request[t].state] ELSE receipt
  /\ Returns(t)
  /\ UNCHANGED <<decided, review, signing, mailed, faults>>

-----------------------------------------------------------------------------
\* The operator configures the keypair.
ConfigureSigning ==
  /\ ~signing
  /\ signing' = TRUE
  /\ UNCHANGED <<receipt, decided, review, mailed, request, faults>>

\* A request dies, or its transaction fails, before its next write.
RequestFails(t) ==
  /\ ~At(t, "idle")
  /\ Fault
  /\ Returns(t)
  /\ UNCHANGED <<receipt, decided, review, signing, mailed>>

Proceed(t) ==
  \/ WriteConfiguration(t) \/ Bind(t) \/ PublishBound(t) \/ Seal(t) \/ Repair(t)
  \/ RequestReview(t) \/ Dispatch(t) \/ Report(t) \/ RecordProviderEvent(t)

Arrive(t) ==
  \/ \E q \in ReceiptQuotes : Publish(t, q) \/ \E ch \in Channels : Configure(t, q, ch)
  \/ \E decision \in DECISIONS : Acknowledge(t, decision)
  \/ ProviderEvent(t)

ReceiptsNext ==
  \/ \E t \in Requests : Arrive(t)
  \/ \E t \in Sweepers : ListDue(t)
  \/ \E t \in Handlers : Proceed(t) \/ RequestFails(t)
  \/ OpenInbox
  \/ ConfigureSigning

\* A request that has begun goes on, and the sweep comes round again.
ReceiptsFairness ==
  /\ \A t \in Handlers : WF_receiptVars(Proceed(t))
  /\ \A t \in Sweepers : WF_receiptVars(ListDue(t))

ReceiptsSpec == ReceiptsInit /\ [][ReceiptsNext]_receiptVars /\ ReceiptsFairness

-----------------------------------------------------------------------------
\* settlement_release_receipt_gate lets a release through when the receipt
\* says accepted, and a dispute opens a review: each stands on a decision the
\* buyer recorded about the sealed result of that very quote, whatever
\* configurations, publications, notifications and provider events run between
\* the reads and the writes of one another.
ReleaseRestsOnDecision ==
  /\ receipt.state \in DECISIONS =>
       receipt.state \in decided /\ receipt.sealed = receipt.quote
  /\ review => "disputed" \in decided

\* Once sealed, the result of a receipt and the quote it is bound to never
\* change: not by a second publication, and not by the rebinding of a request
\* that read the receipt when it was still open.
SealIsPermanent ==
  [][receipt.sealed # NoQuote =>
       receipt'.sealed = receipt.sealed /\ receipt'.quote = receipt.quote]_receiptVars

\* A decision is undone by nothing but two writes: the repair of an unsigned
\* seal, and a provider event that read the receipt in another state.  A
\* notification that was under way when the buyer decided does not undo it.
DecisionStays ==
  [][receipt.state \in DECISIONS /\ receipt'.state # receipt.state =>
       \E t \in Handlers :
         /\ request'[t] = NoRequest
         /\ \/ At(t, "repair")
            \/ At(t, "event") /\ request[t].state # receipt.state]_receiptVars

\* What was published and what the buyer said of it stay, whatever requests,
\* rebindings, notifications and events race over the receipt.
ReceiptIsFinal == SealIsPermanent /\ DecisionStays

\* With a keypair configured, a notification that is due is sent, or given up
\* after its attempts, or overtaken by the buyer's decision.
NotificationPending == signing /\ NotificationDue

NotificationEnded == ~NotificationPending
=============================================================================
