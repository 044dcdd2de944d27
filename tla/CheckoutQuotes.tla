--------------------------- MODULE CheckoutQuotes ---------------------------
(***************************************************************************)
(* Quotes and payments of the universal checkout (iat/api/checkout_api.py, *)
(* treasury route): reservation of a quote under the advisory lock,        *)
(* prepare, authorize, submit, confirm, and the reconciliation sweep of    *)
(* the delivery worker that recovers payments nobody submitted.            *)
(*                                                                         *)
(* Callers are API requests of one buyer wallet; the worker is the poller  *)
(* thread.  Prepare, authorize, submit and attach are single               *)
(* compare-and-swap transactions.  Creating a quote and confirming a       *)
(* payment look first and write later, so they are two steps.              *)
(***************************************************************************)
EXTENDS Naturals, FiniteSets, FiniteSetsExt

CONSTANTS
  Quotes, Orders, Callers,
  Sigs,         \* signatures of the transactions the buyer may send
  Worker,       \* the delivery worker's thread
  None,         \* SQL NULL
  Price,        \* the IAT an order requires
  Cap,          \* the treasury's daily cap (the day does not change)
  Ttl,          \* IAT_CHECKOUT_QUOTE_TTL_SECONDS, in clock steps
  SweepLimit,   \* IAT_CHECKOUT_RECONCILIATION_BATCH_SIZE: rows a sweep selects
  Lookback,     \* IAT_CHECKOUT_RECONCILIATION_LOOKBACK_SECONDS, in clock steps
  MaxAttempts,  \* IAT_CHECKOUT_DELIVERY_MAX_ATTEMPTS
  Postgres,     \* DATABASE_URL is set: not the SQLite of development
  Horizon,      \* bound: the last instant
  MaxCrashes    \* bound: requests and sweeps that die between two steps

ASSUME ConstantsAssumption ==
  /\ None \notin Quotes \cup Orders \cup Sigs \cup Callers \cup {Worker}
  /\ Worker \notin Callers
  /\ Price \in [Orders -> Nat] /\ Postgres \in BOOLEAN
  /\ {Cap, Ttl, SweepLimit, Lookback, MaxAttempts, Horizon, MaxCrashes} \subseteq Nat

VARIABLES
  now,     \* time(), and the chain's clock
  quotes,  \* universal_checkout_quotes
  orders,  \* the columns of orders that payment and delivery write
  rows,    \* universal_checkout_deliveries, by its unique order_id
  chain,   \* the transactions the buyer signed
  lock,    \* the reservation lock
  proc,    \* what every caller, and the worker, is in the middle of
  sweep,   \* the loop of the worker
  crashes

vars == <<now, quotes, orders, rows, chain, lock, proc, sweep, crashes>>

Procs == Callers \cup {Worker}
ActiveStates == {"quoted", "prepared", "submitted"}

NoQuote == [state |-> "none", order |-> None, expires |-> 0, updated |-> 0, sig |-> None]
NoRow   == [quote |-> None, state |-> "none", attempts |-> 0]
Idle    == [pc |-> "idle", order |-> None, created |-> 0, quote |-> None]

TypeOK ==
  /\ now \in Nat /\ crashes \in Nat
  /\ quotes \in [Quotes ->
       [state : ActiveStates \cup {"none", "confirmed", "failed"},
        order : Orders \cup {None}, expires : Nat, updated : Nat,
        sig : Sigs \cup {None}]]
  /\ orders \in [Orders -> [status : {"created", "paid", "held", "delivered"},
                            tx : Sigs \cup {None}]]
  /\ rows \in [Orders -> [quote : Quotes \cup {None}, attempts : Nat,
                          state : {"none", "due", "completed", "closed"}]]
  /\ chain \in [Sigs -> [quote : Quotes \cup {None},
                         status : {"unsent", "sent", "ok", "err"}]]
  /\ lock \in Callers \cup {None}
  /\ proc \in [Procs -> [pc : {"idle", "insert", "finalize", "reject", "deliver"},
                         order : Orders \cup {None}, created : Nat,
                         quote : Quotes \cup {None}]]
  /\ sweep \in [phase : {"idle", "reconcile", "deliver"},
                todo : SUBSET [quote : Quotes, state : {"prepared", "submitted"}],
                due : SUBSET Orders, recent : BOOLEAN]

\* The loop between two turns, when a new process has just started it.
Asleep == [phase |-> "idle", todo |-> {}, due |-> {}, recent |-> FALSE]

Init ==
  /\ now = 0 /\ crashes = 0
  /\ quotes = [q \in Quotes |-> NoQuote]
  /\ orders = [o \in Orders |-> [status |-> "created", tx |-> None]]
  /\ rows = [o \in Orders |-> NoRow]
  /\ chain = [s \in Sigs |-> [quote |-> None, status |-> "unsent"]]
  /\ lock = None
  /\ proc = [p \in Procs |-> Idle]
  /\ sweep = Asleep

-----------------------------------------------------------------------------
(* Quotes: reserve, prepare, authorize, submit.                             *)

Active(q)   == quotes[q].state \in ActiveStates /\ quotes[q].expires >= now
Paid(q, s)  == chain[s].quote = q /\ chain[s].status = "ok"

\* required_iat of every quote.
Requires == [q \in Quotes |-> IF quotes[q].state = "none" THEN 0
                              ELSE Price[quotes[q].order]]

\* The IAT that the quotes of S require.
Required(S) == MapThenSumSet(LAMBDA q : Requires[q], S)

\* (Not the code: a submitted quote reserves nothing any more.)
ReservedBeforeSubmission ==
  Required({q \in Quotes : Active(q) /\ quotes[q].state # "submitted"})

\* _reserved_iat: what the unexpired active quotes of the day have reserved.
Reserved == Required({q \in Quotes : Active(q)})

\* (Not the code: cap checks that nothing serializes.)
NoGuard(c) == c \in Callers

\* _reservation_guard: one creation at a time, over all workers.
ReservationGuard(c) == lock = None

\* The checks of _create_universal_quote, up to quote_hybrid_checkout.
BeginQuote(c, o) ==
  /\ proc[c].pc = "idle" /\ ReservationGuard(c)
  /\ orders[o].status # "delivered"
  /\ ~\E q \in Quotes : quotes[q].order = o /\ Active(q)
  /\ Reserved + Price[o] <= Cap
  /\ lock' = c
  /\ proc' = [proc EXCEPT ![c] = [Idle EXCEPT !.pc = "insert", !.order = o,
                                              !.created = now]]
  /\ UNCHANGED <<now, quotes, orders, rows, chain, sweep, crashes>>

\* The insert; the live route asks the DEX between the checks and it.
InsertQuote(c) ==
  /\ proc[c].pc = "insert"
  /\ \E q \in Quotes :
       /\ quotes[q].state = "none"
       /\ quotes' = [quotes EXCEPT ![q] =
            [state |-> "quoted", order |-> proc[c].order,
             expires |-> proc[c].created + Ttl, updated |-> proc[c].created,
             sig |-> None]]
  /\ proc' = [proc EXCEPT ![c] = Idle]
  /\ lock' = None
  /\ UNCHANGED <<now, orders, rows, chain, sweep, crashes>>

Prepare(q) ==
  /\ quotes[q].state = "quoted" /\ now < quotes[q].expires
  /\ quotes' = [quotes EXCEPT ![q].state = "prepared", ![q].updated = now]
  /\ UNCHANGED <<now, orders, rows, chain, lock, proc, sweep, crashes>>

\* The quote authority cosigns a transaction of the buyer, who sends it.  It
\* cosigns any number of transactions (blockhashes) for one quote.
Authorize(q, s) ==
  /\ quotes[q].state = "prepared" /\ now < quotes[q].expires
  /\ chain[s].status = "unsent"
  /\ chain' = [chain EXCEPT ![s] = [quote |-> q, status |-> "sent"]]
  /\ UNCHANGED <<now, quotes, orders, rows, lock, proc, sweep, crashes>>

\* The checkout program: a quote is paid before it expires, and once (the
\* account of its payment intent is created by the payment).  A transaction
\* may also fail, or never land at all.
Land(s) ==
  /\ chain[s].status = "sent"
  /\ LET q == chain[s].quote
     IN \/ /\ now < quotes[q].expires /\ ~\E t \in Sigs : Paid(q, t)
           /\ chain' = [chain EXCEPT ![s].status = "ok"]
        \/ chain' = [chain EXCEPT ![s].status = "err"]
  /\ UNCHANGED <<now, quotes, orders, rows, lock, proc, sweep, crashes>>

\* (Not the code: no unique index on the signatures.)
AnySignature(s) == s \in Sigs

\* The unique index on tx_signature.
Unclaimed(s) == \A q \in Quotes : quotes[q].sig # s

Claim(q, s) ==
  quotes' = [quotes EXCEPT ![q].state = "submitted", ![q].sig = s, ![q].updated = now]

\* The end of a quote.
Ends(q, final) ==
  quotes' = [quotes EXCEPT ![q].state = final, ![q].updated = now]

\* submit_universal_checkout: the client may name any transaction, also one
\* that was never sent or that pays another quote.
Submit(q, s) ==
  /\ quotes[q].state = "prepared" /\ Unclaimed(s)
  /\ Claim(q, s)
  /\ UNCHANGED <<now, orders, rows, chain, lock, proc, sweep, crashes>>

-----------------------------------------------------------------------------
(* Confirmation, by a request or by the sweep.                              *)

\* (Not the code: a transaction not found yet is a failed one.)
VerdictTooEarly(q) ==
  IF quotes[q].state = "submitted" /\ ~Paid(q, quotes[q].sig) THEN "reject"
  ELSE IF quotes[q].state = "submitted" THEN "finalize" ELSE "deliver"

\* (Not the code: a request that waits for a transaction to be finalized.)
VerdictWaits(q) ==
  IF quotes[q].state = "submitted" THEN chain[quotes[q].sig].status ELSE "deliver"

\* What confirm_universal_checkout goes on with once it has read the row and
\* the chain; a transaction that is not finalized leaves everything as it is.
Verdict(q) ==
  CASE quotes[q].state = "confirmed" -> "deliver"
    [] quotes[q].state = "submitted" /\ Paid(q, quotes[q].sig) -> "finalize"
    [] quotes[q].state = "submitted" /\ ~Paid(q, quotes[q].sig)
         /\ chain[quotes[q].sig].status \in {"ok", "err"} -> "reject"
    [] OTHER -> "idle"

Confirms(p, q) ==
  proc' = [proc EXCEPT ![p] =
             IF Verdict(q) = "idle" THEN Idle
             ELSE [Idle EXCEPT !.pc = Verdict(q), !.quote = q]]

Confirm(c, q) ==
  /\ proc[c].pc = "idle" /\ Verdict(q) # "idle"
  /\ Confirms(c, q)
  /\ UNCHANGED <<now, quotes, orders, rows, chain, lock, sweep, crashes>>

StillSubmitted(q) == quotes[q].state = "submitted"

Taken(o, q) == rows[o].quote \notin {None, q}

\* (Not the code: the order is paid and its delivery is left to the caller.)
NotEnqueued(o, q) == rows

\* enqueue_delivery_tx, in the transaction that confirms the payment.  The row
\* of another quote of the order stays.
Enqueued(o, q) ==
  IF rows[o].quote # None THEN rows
  ELSE [rows EXCEPT ![o] = [quote |-> q, state |-> "due", attempts |-> 0]]

\* On PostgreSQL the row of another quote makes the insert raise: the
\* transaction is rolled back, and the exception ends a sweep.
Finalize(p) ==
  LET q == proc[p].quote
      o == quotes[q].order
      s == quotes[q].sig
  IN /\ proc[p].pc = "finalize"
     /\ \/ /\ StillSubmitted(q) /\ ~(Postgres /\ Taken(o, q))
           /\ Ends(q, "confirmed")
           /\ orders' = [orders EXCEPT ![o] =
                IF @.status = "delivered" THEN @ ELSE [status |-> "paid", tx |-> s]]
           /\ rows' = Enqueued(o, q)
           /\ proc' = [proc EXCEPT ![p].pc = "deliver"]
           /\ UNCHANGED sweep
        \/ /\ ~StillSubmitted(q) \/ (Postgres /\ Taken(o, q))
           /\ proc' = [proc EXCEPT ![p] = Idle]
           /\ sweep' = IF p = Worker /\ StillSubmitted(q)
                       THEN [Asleep EXCEPT !.recent = sweep.recent] ELSE sweep
           /\ UNCHANGED <<quotes, orders, rows>>
     /\ UNCHANGED <<now, chain, lock, crashes>>

\* The verification failed for good.
Reject(p) ==
  /\ proc[p].pc = "reject"
  /\ IF StillSubmitted(proc[p].quote) THEN Ends(proc[p].quote, "failed")
     ELSE UNCHANGED quotes
  /\ proc' = [proc EXCEPT ![p] = Idle]
  /\ UNCHANGED <<now, orders, rows, chain, lock, sweep, crashes>>

BudgetSpent(o) == rows[o].attempts + 1 >= MaxAttempts

\* One attempt to deliver the order of a row that is due, as CheckoutDelivery
\* has it: the order is delivered; or nothing but the attempt is recorded, and
\* the row stays due; or the row is closed, because Foundation blocks the
\* delivery or the attempts are spent, and the order may be held for review.
Attempt(o) ==
  /\ rows[o].state = "due"
  /\ \/ /\ rows' = [rows EXCEPT ![o].state = "completed"]
        /\ orders' = [orders EXCEPT ![o] =
             [status |-> "delivered", tx |-> quotes[rows[o].quote].sig]]
     \/ /\ ~BudgetSpent(o)
        /\ rows' = [rows EXCEPT ![o].attempts = @ + 1]
        /\ UNCHANGED orders
     \/ /\ rows' = [rows EXCEPT ![o].state = "closed"]
        /\ \/ orders' = [orders EXCEPT ![o] =
                [status |-> "held", tx |-> quotes[rows[o].quote].sig]]
           \/ BudgetSpent(o) /\ UNCHANGED orders

\* run_checkout_delivery at the end of a confirmation: at most one attempt, as
\* the row may be backing off or leased.
TryDelivery(p) ==
  /\ proc[p].pc = "deliver"
  /\ \/ \E o \in Orders : rows[o].quote = proc[p].quote /\ Attempt(o)
     \/ UNCHANGED <<rows, orders>>
  /\ proc' = [proc EXCEPT ![p] = Idle]
  /\ UNCHANGED <<now, quotes, chain, lock, sweep, crashes>>

-----------------------------------------------------------------------------
(* The loop of the worker: reconcile when it is time, then deliver.         *)

\* (Not the code: a sweep of submitted quotes only.)
OnlySubmitted == {q \in Quotes : quotes[q].state = "submitted"}

\* A prepared quote is looked at for as long as its creation is in the lookback.
Overlooked(q) == quotes[q].expires + Lookback < now + Ttl

Reconcilable ==
  {q \in Quotes : \/ quotes[q].state = "submitted"
                  \/ quotes[q].state = "prepared" /\ ~Overlooked(q)}

\* The order of the selection: submitted quotes first, then by updated_at, which
\* a look at the quote does not touch.
Before(q, r) ==
  \/ quotes[q].state = "submitted" /\ quotes[r].state = "prepared"
  \/ quotes[q].state = quotes[r].state /\ quotes[q].updated < quotes[r].updated

\* _reconcilable_treasury_quotes.
Selections ==
  {S \in SUBSET Reconcilable :
     /\ Cardinality(S) = IF Cardinality(Reconcilable) < SweepLimit
                         THEN Cardinality(Reconcilable) ELSE SweepLimit
     /\ \A q \in S, r \in Reconcilable \ S : ~Before(r, q)}

StartSweep ==
  /\ sweep.phase = "idle" /\ ~sweep.recent
  /\ \E S \in Selections :
       sweep' = [sweep EXCEPT !.phase = "reconcile",
                   !.todo = {[quote |-> q, state |-> quotes[q].state] : q \in S}]
  /\ UNCHANGED <<now, quotes, orders, rows, chain, lock, proc, crashes>>

\* (Not the code: rows that have failed once are not listed again.)
DueOnce == {o \in Orders : rows[o].state = "due" /\ rows[o].attempts = 0}

\* list_due_deliveries.  A row whose backoff has not elapsed yet is not due: the
\* attempts of CheckoutDelivery are further apart, and end in the same ways.
DueOrders == {o \in Orders : rows[o].state = "due"}

SkipSweep ==
  /\ sweep.phase = "idle" /\ sweep.recent
  /\ sweep' = [sweep EXCEPT !.phase = "deliver", !.due = DueOrders]
  /\ UNCHANGED <<now, quotes, orders, rows, chain, lock, proc, crashes>>

\* A row selected as submitted is confirmed.
SweepConfirms ==
  /\ sweep.phase = "reconcile" /\ proc[Worker].pc = "idle"
  /\ \E item \in sweep.todo :
       /\ item.state = "submitted"
       /\ Confirms(Worker, item.quote)
       /\ sweep' = [sweep EXCEPT !.todo = @ \ {item}]
  /\ UNCHANGED <<now, quotes, orders, rows, chain, lock, crashes>>

\* (Not the code: an update by quote_id alone.)
AnyAttachable(q, s) == Unclaimed(s)

\* _attach_reconciled_signature.
Attachable(q, s) == quotes[q].state = "prepared" /\ Unclaimed(s)

\* A row selected as prepared: the finalized payment found at its payment
\* intent, if any, is attached; the quote is then confirmed in any case.
SweepAttaches ==
  /\ sweep.phase = "reconcile" /\ proc[Worker].pc = "idle"
  /\ \E item \in sweep.todo :
       /\ item.state = "prepared"
       /\ IF \E s \in Sigs : Paid(item.quote, s)
          THEN \E s \in Sigs :
                 /\ Paid(item.quote, s)
                 /\ IF Attachable(item.quote, s) THEN Claim(item.quote, s)
                    ELSE UNCHANGED quotes
                 /\ sweep' = [sweep EXCEPT !.todo =
                      (@ \ {item}) \cup {[quote |-> item.quote, state |-> "submitted"]}]
          ELSE /\ sweep' = [sweep EXCEPT !.todo = @ \ {item}]
               /\ UNCHANGED quotes
  /\ UNCHANGED <<now, orders, rows, chain, lock, proc, crashes>>

EndSweep ==
  /\ sweep.phase = "reconcile" /\ sweep.todo = {} /\ proc[Worker].pc = "idle"
  /\ sweep' = [sweep EXCEPT !.phase = "deliver", !.due = DueOrders, !.recent = TRUE]
  /\ UNCHANGED <<now, quotes, orders, rows, chain, lock, proc, crashes>>

\* run_delivery_sweep: one attempt for every row that was due, one after the
\* other.  Another request may have delivered, or hold, one of them by now.
DeliverNext ==
  /\ sweep.phase = "deliver"
  /\ \E o \in sweep.due :
       /\ sweep' = [sweep EXCEPT !.due = @ \ {o}]
       /\ \/ Attempt(o)
          \/ rows[o].state # "due" /\ UNCHANGED <<rows, orders>>
  /\ UNCHANGED <<now, quotes, chain, lock, proc, crashes>>

EndDeliveries ==
  /\ sweep.phase = "deliver" /\ sweep.due = {}
  /\ sweep' = [sweep EXCEPT !.phase = "idle"]
  /\ UNCHANGED <<now, quotes, orders, rows, chain, lock, proc, crashes>>

\* The reconciliation interval elapses.
SweepDue ==
  /\ sweep.recent
  /\ sweep' = [sweep EXCEPT !.recent = FALSE]
  /\ UNCHANGED <<now, quotes, orders, rows, chain, lock, proc, crashes>>

Tick ==
  /\ now < Horizon
  /\ now' = now + 1
  /\ UNCHANGED <<quotes, orders, rows, chain, lock, proc, sweep, crashes>>

\* A process dies; the advisory lock goes with its connection.
Crash(p) ==
  /\ crashes < MaxCrashes
  /\ proc[p].pc # "idle" \/ (p = Worker /\ sweep.phase # "idle")
  /\ proc' = [proc EXCEPT ![p] = Idle]
  /\ lock' = IF lock = p THEN None ELSE lock
  /\ sweep' = IF p = Worker THEN Asleep ELSE sweep
  /\ crashes' = crashes + 1
  /\ UNCHANGED <<now, quotes, orders, rows, chain>>

WorkerStep ==
  \/ StartSweep \/ SkipSweep \/ SweepConfirms \/ SweepAttaches \/ EndSweep
  \/ DeliverNext \/ EndDeliveries \/ Finalize(Worker) \/ Reject(Worker) \/ TryDelivery(Worker)

CallerStep(c) ==
  \/ \E o \in Orders : BeginQuote(c, o)
  \/ InsertQuote(c)
  \/ \E q \in Quotes : Confirm(c, q)
  \/ Finalize(c) \/ Reject(c) \/ TryDelivery(c)

BuyerStep ==
  \/ \E q \in Quotes : Prepare(q)
  \/ \E q \in Quotes, s \in Sigs : Authorize(q, s) \/ Submit(q, s)
  \/ \E s \in Sigs : Land(s)

Next ==
  \/ \E c \in Callers : CallerStep(c)
  \/ BuyerStep \/ WorkerStep \/ SweepDue \/ Tick
  \/ \E p \in Procs : Crash(p)

Spec == Init /\ [][Next]_vars

\* The worker's loop never stops: the chain and the providers answer it, one way
\* or another, and its interval elapses.  Nothing is promised of buyers, of
\* requests, of transactions or of the clock.
FairSpec == Spec /\ WF_vars(WorkerStep) /\ WF_vars(SweepDue)

-----------------------------------------------------------------------------
(* Properties.                                                              *)

\* No order has two live quotes: the check and the insert of a creation are
\* two transactions, and only the reservation guard keeps them together.
OneActiveQuote ==
  \A q, r \in Quotes :
    Active(q) /\ Active(r) /\ quotes[q].order = quotes[r].order => q = r

\* The live quotes never reserve more than the treasury's cap
\* (HYBRID_CHECKOUT.md:28).
ReservedWithinCap == Required({q \in Quotes : Active(q)}) <= Cap

\* One transaction pays one quote, whoever claims it: a request, the sweep, or
\* both at once.
OneSignatureOneQuote ==
  \A q, r \in Quotes : quotes[q].sig # None /\ quotes[q].sig = quotes[r].sig => q = r

\* Neither an order nor a transaction serves two quotes at a time, whatever
\* requests and sweeps race (_create_universal_quote, submit_universal_checkout).
QuotesAreExclusive == OneActiveQuote /\ OneSignatureOneQuote

\* A quote is confirmed only by a payment of that very quote that the chain
\* has finalized, although the row and the chain are read in an earlier step.
ConfirmedIsPaid ==
  \A q \in Quotes : quotes[q].state = "confirmed" => Paid(q, quotes[q].sig)

\* A quote is never failed over a transaction that pays it, now or later.
FailedIsUnpaid ==
  \A q \in Quotes : quotes[q].state = "failed" => ~Paid(q, quotes[q].sig)

\* So what a quote ends with is what the chain says of its payment, whichever
\* request or sweep ended it (confirm_universal_checkout).
OutcomeIsOnChain == ConfirmedIsPaid /\ FailedIsUnpaid

\* An order is paid or delivered exactly when its delivery is enqueued, and
\* that row is of one of its confirmed quotes.
PaidIsEnqueued ==
  \A o \in Orders :
    /\ orders[o].status # "created" <=> rows[o].quote # None
    /\ rows[o].quote # None =>
         quotes[rows[o].quote].order = o /\ quotes[rows[o].quote].state = "confirmed"

\* The end of a quote is true of its payment and of its order (_finalize_checkout,
\* after whatever raced with it).
OutcomeIsTrue == OutcomeIsOnChain /\ PaidIsEnqueued

\* A quote that has left the live states never comes back
\* (confirm_universal_checkout and the sweep race on stale reads).
FinalQuoteStays ==
  [][\A q \in Quotes : quotes[q].state \in {"confirmed", "failed"}
       => quotes'[q] = quotes[q]]_quotes

\* What keeps the sweep from a payment.  The client has named another transaction
\* for the quote, or this one for another quote;
Misnamed(q) ==
  \E s \in Sigs : /\ Paid(q, s)
                 /\ \/ quotes[q].sig \notin {None, s}
                    \/ \E r \in Quotes \ {q} : quotes[r].sig = s

\* as many quotes as a sweep selects do not come after this one, and none of
\* them need ever leave the selection (a submitted transaction that never lands);
Crowded(q) ==
  Cardinality({r \in Reconcilable \ {q} : ~Before(q, r)}) >= SweepLimit

\* a second payment of an order raises in every sweep that confirms it, and ends
\* the worker's turn there (PostgreSQL).
Halted ==
  Postgres /\ \E q \in Quotes :
    /\ quotes[q].state = "submitted" /\ Paid(q, quotes[q].sig)
    /\ Taken(quotes[q].order, q)

\* The sweep finds a payment whose signature nobody submitted, except for those
\* three and for a payment it has not come to within its lookback
\* (run_checkout_reconciliation_sweep).
PaymentIsRecovered ==
  \A q \in Quotes :
    (\E s \in Sigs : Paid(q, s)) ~>
      \/ quotes[q].state = "confirmed"
      \/ Misnamed(q) \/ Overlooked(q) \/ Halted
      \/ []<>Crowded(q)

\* The persistent worker brings what has been paid to an end without any request:
\* the order is delivered or its row is closed (HYBRID_CHECKOUT.md:105).
PaidIsConcluded ==
  \A o \in Orders : orders[o].status = "paid" ~> rows[o].state \in {"completed", "closed"}

\* So whoever has paid is served, with no request of theirs, unless a second
\* payment of an order holds up the loop (_delivery_worker_loop).
PaidIsServed ==
  \A o \in Orders :
    orders[o].status = "paid" ~> rows[o].state \in {"completed", "closed"} \/ Halted

PaymentIsServed == PaymentIsRecovered /\ PaidIsServed
=============================================================================
