------------------------ MODULE CheckoutQuotesProofs ------------------------
(***************************************************************************)
(* Theorems about CheckoutQuotes, for any number of quotes, orders,        *)
(* requests and transactions, on SQLite and on PostgreSQL.                 *)
(*                                                                         *)
(* The properties are not inductive: a write trusts what an earlier step   *)
(* of its request has read.  ProcsOK says what those reads still imply at  *)
(* the time of the write, and Exclusive what the reservation lock gives    *)
(* its holder.  Covered, about the cap, is about a sum over the live       *)
(* quotes: what module Sums shows of sums carries it from step to step.    *)
(***************************************************************************)
EXTENDS CheckoutQuotes, Sums

QuoteType == [state : ActiveStates \cup {"none", "confirmed", "failed"},
              order : Orders \cup {None}, expires : Nat, updated : Nat,
              sig : Sigs \cup {None}]
OrderType == [status : {"created", "paid", "held", "delivered"}, tx : Sigs \cup {None}]
RowType   == [quote : Quotes \cup {None}, attempts : Nat,
              state : {"none", "due", "completed", "closed"}]
TxType    == [quote : Quotes \cup {None}, status : {"unsent", "sent", "ok", "err"}]
ProcType  == [pc : {"idle", "insert", "finalize", "reject", "deliver"},
              order : Orders \cup {None}, created : Nat, quote : Quotes \cup {None}]
ItemType  == [quote : Quotes, state : {"prepared", "submitted"}]
SweepType == [phase : {"idle", "reconcile", "deliver"}, todo : SUBSET ItemType,
              due : SUBSET Orders, recent : BOOLEAN]

\* A quote names its order from the insert on and a transaction from the
\* submission on.
QuotesOK ==
  \A q \in Quotes :
    /\ quotes[q].state # "none" => quotes[q].order \in Orders
    /\ quotes[q].state \in {"none", "quoted", "prepared"} <=> quotes[q].sig = None

\* A delivery row names the quote that it delivers.
RowsOK == \A o \in Orders : rows[o].state # "none" => rows[o].quote # None

\* A transaction whose fate is sealed, and that does not pay the quote.
Refuted(q) == /\ quotes[q].sig \in Sigs
              /\ chain[quotes[q].sig].status \in {"ok", "err"}
              /\ ~Paid(q, quotes[q].sig)

\* What a request in the middle of its work may rely on.
ProcOK(p) ==
  /\ proc[p].pc = "insert" => proc[p].order \in Orders
  /\ proc[p].pc \in {"finalize", "reject", "deliver"} => proc[p].quote \in Quotes
  /\ proc[p].pc = "finalize" => /\ quotes[proc[p].quote].sig \in Sigs
                               /\ Paid(proc[p].quote, quotes[proc[p].quote].sig)
  /\ proc[p].pc = "reject" => Refuted(proc[p].quote)

ProcsOK == \A p \in Procs : ProcOK(p)

\* The final states of a quote keep what the verification found.
Verified ==
  \A q \in Quotes :
    /\ quotes[q].state = "confirmed" => Paid(q, quotes[q].sig)
    /\ quotes[q].state = "failed" => Refuted(q)

\* The holder of the reservation lock is the one request about to insert, and
\* its order has no live quote.
Exclusive ==
  \A p \in Procs : proc[p].pc = "insert" =>
    /\ p = lock
    /\ ~\E q \in Quotes : Active(q) /\ quotes[q].order = proc[p].order

-----------------------------------------------------------------------------
(* Types.                                                                   *)

Typed == TypeOK /\ QuotesOK /\ RowsOK /\ ProcsOK

\* The chain never changes its mind on a finalized transaction.
ChainGrows ==
  \A s \in Sigs : chain[s].status \in {"ok", "err"} => chain'[s] = chain[s]

\* No step replaces the signature of a quote that has one.
SigsStay ==
  \A q \in Quotes : quotes[q].sig # None =>
    quotes'[q].sig = quotes[q].sig /\ quotes'[q].order = quotes[q].order

LEMMA ClaimOK ==
  ASSUME Typed, NEW q \in Quotes, NEW s \in Sigs, quotes[q].state = "prepared",
         Claim(q, s)
  PROVE  /\ quotes' \in [Quotes -> QuoteType]
         /\ QuotesOK'
         /\ SigsStay
         /\ \A r \in Quotes : quotes[r].state # "prepared" => quotes'[r] = quotes[r]
  BY ConstantsAssumption DEF Typed, TypeOK, QuotesOK, Claim, QuoteType, SigsStay

LEMMA InsertOK ==
  ASSUME Typed, NEW c \in Callers, InsertQuote(c)
  PROVE  /\ quotes' \in [Quotes -> QuoteType]
         /\ QuotesOK'
         /\ SigsStay
         /\ \A r \in Quotes : quotes[r].state # "none" => quotes'[r] = quotes[r]
  <1>1. c \in Procs
    BY DEF Procs
  <1>2. PICK q \in Quotes :
          /\ quotes[q].state = "none"
          /\ quotes' = [quotes EXCEPT ![q] =
               [state |-> "quoted", order |-> proc[c].order,
                expires |-> proc[c].created + Ttl, updated |-> proc[c].created, sig |-> None]]
    BY DEF InsertQuote
  <1>3. proc[c].order \in Orders /\ proc[c].created \in Nat
    BY <1>1 DEF InsertQuote, Typed, TypeOK, ProcsOK, ProcOK
  <1>4. [state |-> "quoted", order |-> proc[c].order,
         expires |-> proc[c].created + Ttl, updated |-> proc[c].created, sig |-> None] \in QuoteType
    BY <1>3, ConstantsAssumption DEF QuoteType, ActiveStates
  <1> QED
    BY <1>2, <1>3, <1>4, ConstantsAssumption
    DEF Typed, TypeOK, QuotesOK, QuoteType, SigsStay

\* A step that only moves a submitted quote to a final state, or nothing.
LEMMA SettleOK ==
  ASSUME Typed, NEW q \in Quotes, NEW final \in {"confirmed", "failed"},
         quotes[q].state = "submitted",
         Ends(q, final)
  PROVE  /\ quotes' \in [Quotes -> QuoteType]
         /\ QuotesOK'
         /\ SigsStay
         /\ quotes'[q].state = final
         /\ \A r \in Quotes : /\ quotes'[r].sig = quotes[r].sig
                              /\ quotes'[r].order = quotes[r].order
                              /\ quotes'[r].expires = quotes[r].expires
         /\ \A r \in Quotes : r # q => quotes'[r] = quotes[r]
  <1>1. quotes \in [Quotes -> QuoteType] /\ now \in Nat
    BY DEF Typed, TypeOK, QuoteType
  <1>2. quotes' \in [Quotes -> QuoteType]
    BY <1>1 DEF Ends, QuoteType
  <1>3. /\ quotes'[q].state = final
        /\ \A r \in Quotes : r # q => quotes'[r] = quotes[r]
    BY <1>1 DEF Ends, QuoteType
  <1>4. /\ quotes'[q].sig = quotes[q].sig /\ quotes'[q].order = quotes[q].order
        /\ quotes'[q].expires = quotes[q].expires
    BY <1>1 DEF Ends, QuoteType
  <1>5. QuotesOK' /\ SigsStay
    BY <1>3, <1>4, SMTT(30) DEF Typed, QuotesOK, SigsStay
  <1> QED
    BY <1>2, <1>3, <1>4, <1>5

\* A quote that is prepared: nothing but its state changes, and its date.
LEMMA PrepareOK ==
  ASSUME Typed, NEW q \in Quotes, Prepare(q)
  PROVE  /\ quotes' \in [Quotes -> QuoteType]
         /\ QuotesOK'
         /\ SigsStay
  <1>1. quotes \in [Quotes -> QuoteType] /\ now \in Nat /\ quotes[q].state = "quoted"
    BY DEF Typed, TypeOK, QuoteType, Prepare
  <1>2. "prepared" \in ActiveStates
    BY DEF ActiveStates
  <1>3. quotes' \in [Quotes -> QuoteType]
    BY <1>1, <1>2 DEF Prepare, QuoteType
  <1>4. /\ quotes'[q].state = "prepared"
        /\ \A r \in Quotes : r # q => quotes'[r] = quotes[r]
    BY <1>1 DEF Prepare, QuoteType
  <1>5. quotes'[q].sig = quotes[q].sig /\ quotes'[q].order = quotes[q].order
    BY <1>1 DEF Prepare, QuoteType
  <1>6. QuotesOK' /\ SigsStay
    BY <1>1, <1>4, <1>5, SMTT(30) DEF Typed, QuotesOK, SigsStay
  <1> QED
    BY <1>3, <1>6

\* The ways a step can touch the quotes.
LEMMA QuotesMove ==
  ASSUME Typed, Next
  PROVE  \/ UNCHANGED quotes
         \/ \E c \in Callers : InsertQuote(c)
         \/ \E q \in Quotes : Prepare(q)
         \/ \E q \in Quotes, s \in Sigs :
              quotes[q].state = "prepared" /\ Unclaimed(s) /\ Claim(q, s)
         \/ \E p \in Procs : Finalize(p) \/ Reject(p)
  <1>1. ASSUME SweepAttaches
        PROVE  \/ UNCHANGED quotes
               \/ \E q \in Quotes, s \in Sigs :
                    quotes[q].state = "prepared" /\ Unclaimed(s) /\ Claim(q, s)
    BY <1>1 DEF SweepAttaches, Attachable, Typed, TypeOK
  <1>2. \/ UNCHANGED quotes
        \/ \E c \in Callers : InsertQuote(c)
        \/ \E q \in Quotes : Prepare(q)
        \/ \E q \in Quotes, s \in Sigs : Submit(q, s)
        \/ \E p \in Procs : Finalize(p) \/ Reject(p)
        \/ SweepAttaches
    BY DEF Next, CallerStep, BuyerStep, WorkerStep, BeginQuote, Confirm, TryDelivery,
           Authorize, Land, StartSweep, SkipSweep, SweepConfirms, EndSweep, DeliverNext,
           EndDeliveries, SweepDue, Tick, Crash, Procs
  <1> QED
    BY <1>1, <1>2 DEF Submit

\* Every step keeps the quotes well formed.
LEMMA QuotesStep ==
  ASSUME Typed, Next
  PROVE  quotes' \in [Quotes -> QuoteType] /\ QuotesOK' /\ SigsStay
  <1> USE DEF Typed, TypeOK
  <1>0. quotes \in [Quotes -> QuoteType]
    BY DEF QuoteType
  <1>1. ASSUME UNCHANGED quotes PROVE quotes' \in [Quotes -> QuoteType] /\ QuotesOK' /\ SigsStay
    BY <1>0, <1>1 DEF QuotesOK, SigsStay
  <1>2. ASSUME NEW c \in Callers, InsertQuote(c)
        PROVE  quotes' \in [Quotes -> QuoteType] /\ QuotesOK' /\ SigsStay
    BY <1>2, InsertOK
  <1>3. ASSUME NEW q \in Quotes, Prepare(q)
        PROVE  quotes' \in [Quotes -> QuoteType] /\ QuotesOK' /\ SigsStay
    BY <1>3, PrepareOK
  <1>4. ASSUME NEW q \in Quotes, NEW s \in Sigs, quotes[q].state = "prepared", Claim(q, s)
        PROVE  quotes' \in [Quotes -> QuoteType] /\ QuotesOK' /\ SigsStay
    BY <1>4, ClaimOK
  <1>5. ASSUME NEW p \in Procs, Finalize(p) \/ Reject(p)
        PROVE  quotes' \in [Quotes -> QuoteType] /\ QuotesOK' /\ SigsStay
    <2>1. proc[p].quote \in Quotes
      BY <1>5 DEF Finalize, Reject, ProcsOK, ProcOK
    <2>2. \/ UNCHANGED quotes
          \/ /\ quotes[proc[p].quote].state = "submitted"
             /\ \E final \in {"confirmed", "failed"} : Ends(proc[p].quote, final)
      BY <1>5 DEF Finalize, Reject, StillSubmitted
    <2> QED
      BY <1>1, <2>1, <2>2, SettleOK
  <1> QED
    BY <1>1, <1>2, <1>3, <1>4, <1>5, QuotesMove

LEMMA ChainStep ==
  ASSUME Typed, Next
  PROVE  chain' \in [Sigs -> TxType] /\ ChainGrows
  <1> USE DEF Typed, TypeOK
  <1>0. chain \in [Sigs -> TxType]
    BY DEF TxType
  <1>1. CASE UNCHANGED chain
    BY <1>0, <1>1 DEF ChainGrows
  <1>2. ASSUME NEW q \in Quotes, NEW s \in Sigs, Authorize(q, s)
        PROVE  chain' \in [Sigs -> TxType] /\ ChainGrows
    BY <1>0, <1>2 DEF Authorize, TxType, ChainGrows
  <1>3. ASSUME NEW s \in Sigs, Land(s)
        PROVE  chain' \in [Sigs -> TxType] /\ ChainGrows
    <2>1. PICK v \in {"ok", "err"} : chain' = [chain EXCEPT ![s].status = v]
      BY <1>3 DEF Land
    <2>2. chain[s].status = "sent"
      BY <1>3 DEF Land
    <2>3. chain' \in [Sigs -> TxType]
      BY <1>0, <2>1 DEF TxType
    <2> QED
      BY <1>0, <2>1, <2>2, <2>3 DEF ChainGrows
  <1>4. \/ UNCHANGED chain
        \/ \E q \in Quotes, s \in Sigs : Authorize(q, s)
        \/ \E s \in Sigs : Land(s)
    BY DEF Next, CallerStep, BuyerStep, WorkerStep, BeginQuote, InsertQuote, Prepare,
           Submit, Confirm, Finalize, Reject, TryDelivery, StartSweep, SkipSweep,
           SweepConfirms, SweepAttaches, EndSweep, DeliverNext, EndDeliveries, SweepDue,
           Tick, Crash
  <1> QED
    BY <1>1, <1>2, <1>3, <1>4

\* What was paid stays paid, and what was refuted stays refuted.
LEMMA VerdictsStand ==
  ASSUME Typed, Next, NEW q \in Quotes, quotes[q].sig \in Sigs
  PROVE  /\ Paid(q, quotes[q].sig) => Paid(q, quotes[q].sig)'
         /\ Refuted(q) => Refuted(q)'
  <1>1. quotes'[q].sig = quotes[q].sig
    BY QuotesStep, ConstantsAssumption DEF SigsStay
  <1>2. chain[quotes[q].sig].status \in {"ok", "err"}
        => chain'[quotes[q].sig] = chain[quotes[q].sig]
    BY ChainStep DEF ChainGrows
  <1> QED
    BY <1>1, <1>2 DEF Paid, Refuted

\* A request whose local state a step does not touch may go on relying on it.
LEMMA OthersOK ==
  ASSUME Typed, Next, NEW p \in Procs, proc'[p] = proc[p]
  PROVE  ProcOK(p)'
  <1>1. ProcOK(p)
    BY DEF Typed, ProcsOK
  <1>2. ASSUME NEW q \in Quotes, quotes[q].sig \in Sigs
        PROVE  quotes'[q].sig = quotes[q].sig
    BY <1>2, QuotesStep, ConstantsAssumption DEF SigsStay
  <1>3. CASE proc[p].pc = "finalize"
    BY <1>1, <1>2, <1>3, VerdictsStand DEF Paid, ProcOK
  <1>4. CASE proc[p].pc = "reject"
    <2>1. proc[p].quote \in Quotes /\ Refuted(proc[p].quote)
      BY <1>1, <1>4, SMTT(30) DEF ProcOK
    <2>2. Refuted(proc[p].quote)'
      BY <2>1, <1>2, VerdictsStand DEF Refuted, Paid
    <2> QED
      BY <2>1, <2>2, <1>4 DEF ProcOK
  <1>5. CASE proc[p].pc \notin {"finalize", "reject"}
    BY <1>1, <1>5 DEF ProcOK
  <1> QED
    BY <1>3, <1>4, <1>5

LEMMA VerdictOK ==
  ASSUME Typed, NEW q \in Quotes
  PROVE  /\ Verdict(q) \in {"idle", "deliver", "finalize", "reject"}
         /\ Verdict(q) = "finalize" => quotes[q].sig \in Sigs /\ Paid(q, quotes[q].sig)
         /\ Verdict(q) = "reject" => Refuted(q)
  <1>1. quotes[q].state = "submitted" => quotes[q].sig \in Sigs
    BY DEF Typed, TypeOK, QuotesOK
  <1> QED
    BY <1>1 DEF Verdict, Refuted

\* Reading the row and the chain leaves the process with what it has found.
LEMMA ConfirmsOK ==
  ASSUME Typed, NEW p \in Procs, NEW q \in Quotes, Confirms(p, q),
         UNCHANGED <<quotes, chain>>
  PROVE  /\ proc' \in [Procs -> ProcType]
         /\ ProcOK(p)'
         /\ \A r \in Procs : r # p => proc'[r] = proc[r]
         /\ proc'[p].pc # "insert"
  <1> DEFINE new == IF Verdict(q) = "idle" THEN Idle
                    ELSE [Idle EXCEPT !.pc = Verdict(q), !.quote = q]
  <1>1. new \in ProcType /\ new.pc = Verdict(q) /\ (new.pc # "idle" => new.quote = q)
    BY VerdictOK DEF Idle, ProcType
  <1>2. proc \in [Procs -> ProcType]
    BY DEF Typed, TypeOK, ProcType
  <1>3. proc' = [proc EXCEPT ![p] = new]
    BY DEF Confirms
  <1>4. proc'[p] = new /\ proc' \in [Procs -> ProcType]
        /\ \A r \in Procs : r # p => proc'[r] = proc[r]
    BY <1>1, <1>2, <1>3
  <1>5. proc'[p].pc = Verdict(q) /\ (proc'[p].pc # "idle" => proc'[p].quote = q)
    BY <1>1, <1>4
  <1>6. Refuted(q) => Refuted(q)'
    BY DEF Refuted, Paid
  <1> HIDE DEF new
  <1>7. proc'[p].pc # "insert"
    BY <1>5, VerdictOK
  <1>8. ProcOK(p)'
    BY <1>5, <1>6, <1>7, VerdictOK DEF ProcOK, Paid
  <1> QED
    BY <1>4, <1>7, <1>8

LEMMA ProcsStep ==
  ASSUME Typed, Next
  PROVE  /\ proc' \in [Procs -> ProcType]
         /\ ProcsOK'
         /\ \A p \in Procs : proc'[p].pc = "insert" =>
              \/ proc'[p] = proc[p]
              \/ \E o \in Orders : p \in Callers /\ BeginQuote(p, o)
  <1> DEFINE Goal == /\ proc' \in [Procs -> ProcType]
                     /\ ProcsOK'
                     /\ \A p \in Procs : proc'[p].pc = "insert" =>
                          \/ proc'[p] = proc[p]
                          \/ \E o \in Orders : p \in Callers /\ BeginQuote(p, o)
  <1>0. proc \in [Procs -> ProcType] /\ Callers \subseteq Procs /\ Worker \in Procs
    BY DEF Typed, TypeOK, ProcType, Procs
  <1>1. CASE UNCHANGED proc
    BY <1>0, <1>1, OthersOK DEF ProcsOK
  <1>2. ASSUME NEW c \in Callers, NEW o \in Orders, BeginQuote(c, o) PROVE Goal
    <2> DEFINE new == [Idle EXCEPT !.pc = "insert", !.order = o, !.created = now]
    <2>1. new \in ProcType /\ new.pc = "insert" /\ new.order = o
      BY DEF Idle, ProcType, Typed, TypeOK
    <2>2. proc' = [proc EXCEPT ![c] = new]
      BY <1>2 DEF BeginQuote
    <2> HIDE DEF new
    <2>3. /\ proc' \in [Procs -> ProcType] /\ proc'[c] = new
          /\ \A r \in Procs : r # c => proc'[r] = proc[r]
      BY <1>0, <2>1, <2>2
    <2>4. ProcOK(c)'
      BY <2>1, <2>3 DEF ProcOK
    <2> QED
      BY <1>2, <2>3, <2>4, OthersOK DEF ProcsOK
  <1>3. ASSUME NEW c \in Callers, NEW q \in Quotes, Confirm(c, q) PROVE Goal
    <2>1. Confirms(c, q) /\ UNCHANGED <<quotes, chain>> /\ c \in Procs
      BY <1>0, <1>3 DEF Confirm
    <2>2. /\ proc' \in [Procs -> ProcType] /\ ProcOK(c)' /\ proc'[c].pc # "insert"
          /\ \A r \in Procs : r # c => proc'[r] = proc[r]
      BY <2>1, ConfirmsOK
    <2> QED
      BY <2>2, OthersOK DEF ProcsOK
  <1>4. ASSUME SweepConfirms PROVE Goal
    <2>1. PICK q \in Quotes : Confirms(Worker, q)
      BY <1>4 DEF SweepConfirms, Typed, TypeOK
    <2>2. UNCHANGED <<quotes, chain>>
      BY <1>4 DEF SweepConfirms
    <2>3. /\ proc' \in [Procs -> ProcType] /\ ProcOK(Worker)' /\ proc'[Worker].pc # "insert"
          /\ \A r \in Procs : r # Worker => proc'[r] = proc[r]
      BY <1>0, <2>1, <2>2, ConfirmsOK
    <2> QED
      BY <2>3, OthersOK DEF ProcsOK
  <1>5. ASSUME NEW p \in Procs, proc' = [proc EXCEPT ![p] = Idle] PROVE Goal
    <2>1. Idle \in ProcType /\ Idle.pc = "idle"
      BY DEF Idle, ProcType
    <2>2. /\ proc' \in [Procs -> ProcType] /\ proc'[p].pc = "idle"
          /\ \A r \in Procs : r # p => proc'[r] = proc[r]
      BY <1>0, <1>5, <2>1
    <2>3. ProcOK(p)'
      BY <2>2 DEF ProcOK
    <2> QED
      BY <2>2, <2>3, OthersOK DEF ProcsOK
  <1>6. ASSUME NEW p \in Procs, proc[p].pc = "finalize",
               proc' = [proc EXCEPT ![p].pc = "deliver"] PROVE Goal
    <2>1. proc[p].quote \in Quotes
      BY <1>6 DEF Typed, ProcsOK, ProcOK
    <2>2. /\ proc' \in [Procs -> ProcType] /\ proc'[p].pc = "deliver"
          /\ proc'[p].quote = proc[p].quote
          /\ \A r \in Procs : r # p => proc'[r] = proc[r]
      BY <1>0, <1>6 DEF ProcType
    <2>3. ProcOK(p)'
      BY <2>1, <2>2 DEF ProcOK
    <2> QED
      BY <2>2, <2>3, OthersOK DEF ProcsOK
  <1>7. \/ UNCHANGED proc
        \/ \E c \in Callers, o \in Orders : BeginQuote(c, o)
        \/ \E c \in Callers, q \in Quotes : Confirm(c, q)
        \/ SweepConfirms
        \/ \E p \in Procs : proc' = [proc EXCEPT ![p] = Idle]
        \/ \E p \in Procs : /\ proc[p].pc = "finalize"
                            /\ proc' = [proc EXCEPT ![p].pc = "deliver"]
    BY <1>0, ZenonT(40) DEF Next, CallerStep, BuyerStep, WorkerStep, InsertQuote,
                            Prepare, Submit, Authorize, Land, Finalize, Reject,
                            TryDelivery, StartSweep, SkipSweep, SweepAttaches, EndSweep,
                            DeliverNext, EndDeliveries, SweepDue, Tick, Crash
  <1> QED
    BY <1>1, <1>2, <1>3, <1>4, <1>5, <1>6, <1>7

LEMMA SweepStep ==
  ASSUME Typed, Next PROVE sweep' \in SweepType
  <1>0. sweep \in SweepType /\ quotes \in [Quotes -> QuoteType]
    BY DEF Typed, TypeOK, SweepType, ItemType, QuoteType
  <1>1. ASSUME StartSweep PROVE sweep' \in SweepType
    <2>1. PICK S \in Selections :
            sweep' = [sweep EXCEPT !.phase = "reconcile",
                        !.todo = {[quote |-> q, state |-> quotes[q].state] : q \in S}]
      BY <1>1 DEF StartSweep
    <2>2. S \subseteq Reconcilable
      BY DEF Selections
    <2>3. {[quote |-> q, state |-> quotes[q].state] : q \in S} \subseteq ItemType
      BY <2>2 DEF Reconcilable, ItemType
    <2> QED
      BY <1>0, <2>1, <2>3 DEF SweepType
  <1>2. ASSUME SweepAttaches PROVE sweep' \in SweepType
    <2>1. PICK item \in sweep.todo :
            \/ sweep' = [sweep EXCEPT !.todo = @ \ {item}]
            \/ sweep' = [sweep EXCEPT !.todo = (@ \ {item})
                          \cup {[quote |-> item.quote, state |-> "submitted"]}]
      BY <1>2 DEF SweepAttaches
    <2>2. [quote |-> item.quote, state |-> "submitted"] \in ItemType
      BY <1>0 DEF SweepType, ItemType
    <2> QED
      BY <1>0, <2>1, <2>2 DEF SweepType
  <1>3. ASSUME SweepConfirms PROVE sweep' \in SweepType
    BY <1>0, <1>3 DEF SweepConfirms, SweepType
  <1>4. ASSUME NEW p \in Procs, Finalize(p) \/ Crash(p) PROVE sweep' \in SweepType
    <2>1. \/ UNCHANGED sweep
          \/ sweep' = [Asleep EXCEPT !.recent = sweep.recent]
          \/ sweep' = Asleep
      <3>1. CASE Finalize(p)
        BY <3>1 DEF Finalize
      <3>2. CASE Crash(p)
        BY <3>2 DEF Crash
      <3> QED
        BY <1>4, <3>1, <3>2
    <2>2. CASE UNCHANGED sweep
      BY <1>0, <2>2
    <2>3. CASE sweep' = [Asleep EXCEPT !.recent = sweep.recent]
      BY <1>0, <2>3 DEF SweepType, Asleep
    <2>4. CASE sweep' = Asleep
      BY <2>4 DEF SweepType, Asleep
    <2> QED
      BY <2>1, <2>2, <2>3, <2>4
  <1>5. CASE SkipSweep \/ EndSweep \/ DeliverNext \/ EndDeliveries \/ SweepDue
    <2>1. DueOrders \in SUBSET Orders
      BY DEF DueOrders
    <2> QED
      BY <1>0, <1>5, <2>1
      DEF SkipSweep, EndSweep, DeliverNext, EndDeliveries, SweepDue, SweepType
  <1>6. CASE UNCHANGED sweep
    BY <1>0, <1>6
  <1>7. \/ UNCHANGED sweep
        \/ StartSweep \/ SweepAttaches \/ SweepConfirms
        \/ \E p \in Procs : Finalize(p) \/ Crash(p)
        \/ SkipSweep \/ EndSweep \/ DeliverNext \/ EndDeliveries \/ SweepDue
    BY DEF Next, CallerStep, BuyerStep, WorkerStep, BeginQuote, InsertQuote, Prepare, Submit,
       Authorize, Land, Confirm, Reject, TryDelivery, Tick, Procs
  <1> QED
    BY <1>1, <1>2, <1>3, <1>4, <1>5, <1>6, <1>7

\* Payment and delivery: the columns of the orders and the delivery rows.
LEMMA AttemptOK ==
  ASSUME Typed, NEW o \in Orders, Attempt(o)
  PROVE  /\ orders' \in [Orders -> OrderType] /\ rows' \in [Orders -> RowType] /\ RowsOK'
         /\ rows[o].quote # None
         /\ \A r \in Orders : rows'[r].quote = rows[r].quote
         /\ orders'[o].status \in {orders[o].status, "delivered", "held"}
         /\ \A r \in Orders \ {o} : orders'[r] = orders[r]
  <1>1. orders \in [Orders -> OrderType] /\ rows \in [Orders -> RowType]
    BY DEF Typed, TypeOK, OrderType, RowType
  <1>2. rows[o].state = "due" /\ rows[o].quote # None /\ rows[o].quote \in Quotes
    BY <1>1 DEF Attempt, Typed, RowsOK, RowType
  <1>3. quotes[rows[o].quote].sig \in Sigs \cup {None}
    BY <1>2 DEF Typed, TypeOK
  <1>4. /\ orders' \in [Orders -> OrderType]
        /\ orders'[o].status \in {orders[o].status, "delivered", "held"}
        /\ \A r \in Orders \ {o} : orders'[r] = orders[r]
    <2>1. \/ UNCHANGED orders
          \/ \E st \in {"delivered", "held"} :
               orders' = [orders EXCEPT ![o] =
                            [status |-> st, tx |-> quotes[rows[o].quote].sig]]
      BY DEF Attempt
    <2> QED
      BY <1>1, <1>3, <2>1 DEF OrderType
  <1>5. /\ rows' \in [Orders -> RowType]
        /\ \A r \in Orders : rows'[r].quote = rows[r].quote
        /\ \A r \in Orders \ {o} : rows'[r] = rows[r]
    <2>1. \/ rows' = [rows EXCEPT ![o].state = "completed"]
          \/ rows' = [rows EXCEPT ![o].state = "closed"]
          \/ rows' = [rows EXCEPT ![o].attempts = @ + 1]
      BY DEF Attempt
    <2> QED
      BY <1>1, <2>1 DEF RowType
  <1>6. RowsOK'
    BY <1>2, <1>5 DEF Typed, RowsOK
  <1> QED
    BY <1>2, <1>4, <1>5, <1>6

LEMMA FinalizeOK ==
  ASSUME Typed, NEW p \in Procs, Finalize(p)
  PROVE  \/ UNCHANGED <<quotes, orders, rows>>
         \/ \E q \in Quotes, o \in Orders :
              /\ quotes[q].state = "submitted" /\ quotes[q].order = o
              /\ Paid(q, quotes[q].sig)
              /\ Ends(q, "confirmed")
              /\ orders' \in [Orders -> OrderType] /\ rows' \in [Orders -> RowType]
              /\ RowsOK'
              /\ orders'[o].status # "created"
              /\ rows'[o].quote = IF rows[o].quote # None THEN rows[o].quote ELSE q
              /\ \A r \in Orders \ {o} : orders'[r] = orders[r] /\ rows'[r] = rows[r]
  <1> DEFINE q == proc[p].quote
             o == quotes[q].order
  <1>1. proc[p].pc = "finalize" /\ q \in Quotes /\ Paid(q, quotes[q].sig)
    BY DEF Finalize, Typed, ProcsOK, ProcOK
  <1>2. CASE UNCHANGED <<quotes, orders, rows>>
    BY <1>2
  <1>3. CASE ~UNCHANGED <<quotes, orders, rows>>
    <2>1. /\ quotes[q].state = "submitted"
          /\ Ends(q, "confirmed")
          /\ orders' = [orders EXCEPT ![o] =
               IF @.status = "delivered" THEN @
               ELSE [status |-> "paid", tx |-> quotes[q].sig]]
          /\ rows' = Enqueued(o, q)
      BY <1>3 DEF Finalize, StillSubmitted
    <2>2. o \in Orders /\ quotes[q].sig \in Sigs
      BY <1>1, <2>1, ConstantsAssumption DEF Typed, TypeOK, QuotesOK
    <2>3. orders \in [Orders -> OrderType] /\ rows \in [Orders -> RowType]
      BY DEF Typed, TypeOK, OrderType, RowType
    <2>4. /\ orders' \in [Orders -> OrderType] /\ orders'[o].status # "created"
          /\ \A r \in Orders \ {o} : orders'[r] = orders[r]
      BY <2>1, <2>2, <2>3 DEF OrderType
    <2>5. /\ rows' \in [Orders -> RowType]
          /\ rows'[o].quote = IF rows[o].quote # None THEN rows[o].quote ELSE q
          /\ \A r \in Orders \ {o} : rows'[r] = rows[r]
      BY <1>1, <2>1, <2>2, <2>3 DEF RowType, Enqueued
    <2>9. RowsOK'
      BY <1>1, <2>2, <2>3, <2>5, ConstantsAssumption DEF Typed, RowsOK, RowType
    <2> DEFINE Finalized(x, y) ==
                 /\ quotes[x].state = "submitted" /\ quotes[x].order = y
                 /\ Paid(x, quotes[x].sig)
                 /\ Ends(x, "confirmed")
                 /\ orders' \in [Orders -> OrderType] /\ rows' \in [Orders -> RowType]
                 /\ RowsOK'
                 /\ orders'[y].status # "created"
                 /\ rows'[y].quote = IF rows[y].quote # None THEN rows[y].quote ELSE x
                 /\ \A r \in Orders \ {y} : orders'[r] = orders[r] /\ rows'[r] = rows[r]
    <2>6. quotes[q].order = o /\ q \in Quotes /\ Paid(q, quotes[q].sig)
      BY <1>1
    <2> HIDE DEF q, o
    <2>7. Finalized(q, o)
      BY <2>1, <2>4, <2>5, <2>6, <2>9
    <2> HIDE DEF Finalized
    <2>8. \E x \in Quotes, y \in Orders : Finalized(x, y)
      BY <2>2, <2>6, <2>7
    <2> QED
      BY <2>8 DEF Finalized
  <1> QED
    BY <1>2, <1>3

\* The three ways a step can touch the orders and the delivery rows.
LEMMA OrdersStep ==
  ASSUME Typed, Next
  PROVE  \/ UNCHANGED <<orders, rows>>
         \/ \E p \in Procs : Finalize(p)
         \/ \E o \in Orders : Attempt(o) /\ UNCHANGED quotes
  <1>1. ASSUME NEW p \in Procs, TryDelivery(p)
        PROVE  \/ UNCHANGED <<orders, rows>>
               \/ \E o \in Orders : Attempt(o) /\ UNCHANGED quotes
    BY <1>1 DEF TryDelivery
  <1>2. ASSUME DeliverNext
        PROVE  \/ UNCHANGED <<orders, rows>>
               \/ \E o \in Orders : Attempt(o) /\ UNCHANGED quotes
    <2>1. sweep.due \subseteq Orders
      BY DEF Typed, TypeOK
    <2> QED
      BY <1>2, <2>1 DEF DeliverNext
  <1>3. \/ UNCHANGED <<orders, rows>>
        \/ \E p \in Procs : Finalize(p)
        \/ \E p \in Procs : TryDelivery(p)
        \/ DeliverNext
    BY ZenonT(40) DEF Next, CallerStep, BuyerStep, WorkerStep, BeginQuote, InsertQuote,
                      Prepare, Submit, Authorize, Land, Confirm, Reject, TryDelivery,
                      StartSweep, SkipSweep, SweepConfirms, SweepAttaches, EndSweep,
                      DeliverNext, EndDeliveries, SweepDue, Tick, Crash, Procs
  <1> QED
    BY <1>1, <1>2, <1>3

LEMMA RowsStep ==
  ASSUME Typed, Next
  PROVE  orders' \in [Orders -> OrderType] /\ rows' \in [Orders -> RowType] /\ RowsOK'
  <1>1. /\ orders \in [Orders -> OrderType] /\ rows \in [Orders -> RowType]
        /\ RowsOK
    BY DEF Typed, TypeOK, OrderType, RowType
  <1>2. CASE UNCHANGED <<orders, rows>>
    BY <1>1, <1>2 DEF RowsOK
  <1>3. ASSUME NEW p \in Procs, Finalize(p)
        PROVE  /\ orders' \in [Orders -> OrderType] /\ rows' \in [Orders -> RowType]
               /\ RowsOK'
    BY <1>2, <1>3, FinalizeOK
  <1>4. ASSUME NEW o \in Orders, Attempt(o)
        PROVE  /\ orders' \in [Orders -> OrderType] /\ rows' \in [Orders -> RowType]
               /\ RowsOK'
    BY <1>4, AttemptOK
  <1> QED
    BY <1>2, <1>3, <1>4, OrdersStep

LEMMA TypeStep ==
  ASSUME Typed, Next PROVE TypeOK'
  <1>1. now' \in Nat /\ crashes' \in Nat
    <2>1. now' \in {now, now + 1} /\ crashes' \in {crashes, crashes + 1}
      BY ZenonT(40) DEF Next, CallerStep, BuyerStep, WorkerStep, BeginQuote,
                        InsertQuote, Prepare, Submit, Authorize, Land, Confirm,
                        Finalize, Reject, TryDelivery, StartSweep, SkipSweep,
                        SweepConfirms, SweepAttaches, EndSweep, DeliverNext,
                        EndDeliveries, SweepDue, Tick, Crash
    <2> QED
      BY <2>1 DEF Typed, TypeOK
  <1>3. lock' \in Callers \cup {None}
    BY DEF Typed, TypeOK, Next, CallerStep, BuyerStep, WorkerStep, BeginQuote,
           InsertQuote, Prepare, Submit, Authorize, Land, Confirm, Finalize, Reject,
           TryDelivery, StartSweep, SkipSweep, SweepConfirms, SweepAttaches, EndSweep,
           DeliverNext, EndDeliveries, SweepDue, Tick, Crash
  <1>2. orders' \in [Orders -> OrderType] /\ rows' \in [Orders -> RowType]
    BY RowsStep
  <1> QED
    BY <1>1, <1>2, <1>3, QuotesStep, ChainStep, ProcsStep, SweepStep
    DEF TypeOK, QuoteType, TxType, ProcType, SweepType, ItemType, OrderType, RowType

LEMMA InitTyped == Init => Typed
  BY ConstantsAssumption
  DEF Init, Typed, TypeOK, QuotesOK, RowsOK, ProcsOK, ProcOK, NoQuote, NoRow, Idle, Asleep,
      Procs, ActiveStates

LEMMA NextTyped ==
  ASSUME Typed, [Next]_vars PROVE Typed'
  <1>1. CASE Next
    BY <1>1, TypeStep, QuotesStep, RowsStep, ProcsStep DEF Typed
  <1>2. CASE UNCHANGED vars
    BY <1>2 DEF vars, Typed, TypeOK, QuotesOK, RowsOK, ProcsOK, ProcOK, Paid, Refuted
  <1> QED
    BY <1>1, <1>2

\* Every variable keeps its type (the database's constraints on the rows, and
\* the handlers' own local state).
THEOREM TypeCorrect == Spec => []TypeOK
  <1>1. Typed => TypeOK
    BY DEF Typed
  <1> QED
    BY <1>1, InitTyped, NextTyped, PTL DEF Spec

-----------------------------------------------------------------------------
(* Payments.                                                                *)

LEMMA NextVerified ==
  ASSUME Typed, Verified, [Next]_vars PROVE Verified'
  <1>1. ASSUME NEW q \in Quotes, Next, quotes'[q].state = quotes[q].state
        PROVE  /\ quotes'[q].state = "confirmed" => Paid(q, quotes[q].sig)'
               /\ quotes'[q].state = "failed" => Refuted(q)'
    <2>1. quotes[q].state \in {"confirmed", "failed"} => quotes[q].sig \in Sigs
      BY DEF Typed, TypeOK, QuotesOK
    <2> QED
      BY <1>1, <2>1, VerdictsStand DEF Verified
  <1>2. ASSUME NEW p \in Procs, Next, Finalize(p) PROVE Verified'
    <2>1. CASE UNCHANGED quotes
      BY <1>1, <1>2, <2>1 DEF Verified
    <2>2. ASSUME NEW q \in Quotes, quotes[q].state = "submitted", Paid(q, quotes[q].sig),
                 Ends(q, "confirmed")
          PROVE  Verified'
      <3>1. quotes'[q].state = "confirmed" /\ \A r \in Quotes : r # q => quotes'[r] = quotes[r]
        BY <2>2 DEF Ends, Typed, TypeOK
      <3>2. Paid(q, quotes[q].sig)'
        BY <1>2, <2>2, VerdictsStand, ConstantsAssumption DEF Typed, TypeOK, QuotesOK
      <3> QED
        BY <1>1, <1>2, <3>1, <3>2 DEF Verified
    <2> QED
      BY <1>2, <2>1, <2>2, FinalizeOK
  <1>3. ASSUME NEW p \in Procs, Next, Reject(p) PROVE Verified'
    <2>1. proc[p].quote \in Quotes /\ Refuted(proc[p].quote)
      BY <1>3 DEF Reject, Typed, ProcsOK, ProcOK
    <2>2. /\ quotes'[proc[p].quote].state \in {quotes[proc[p].quote].state, "failed"}
          /\ \A r \in Quotes : r # proc[p].quote => quotes'[r] = quotes[r]
      BY <1>3, <2>1 DEF Reject, Ends, Typed, TypeOK
    <2>3. ASSUME NEW q \in Quotes, Refuted(q) PROVE Refuted(q)'
      BY <1>3, <2>3, VerdictsStand DEF Refuted
    <2> QED
      BY <1>1, <1>3, <2>1, <2>2, <2>3 DEF Verified
  <1>4. ASSUME Next, \A q \in Quotes : quotes'[q].state \in {"confirmed", "failed"} =>
                        quotes'[q].state = quotes[q].state
        PROVE  Verified'
    BY <1>1, <1>4 DEF Verified
  <1>5. ASSUME Next, UNCHANGED quotes \/ (\E c \in Callers : InsertQuote(c))
                     \/ (\E q \in Quotes : Prepare(q))
        PROVE  Verified'
    <2>1. CASE UNCHANGED quotes
      BY <1>4, <1>5, <2>1
    <2>2. ASSUME NEW c \in Callers, InsertQuote(c) PROVE Verified'
      BY <1>4, <1>5, <2>2 DEF InsertQuote, Typed, TypeOK
    <2>3. ASSUME NEW q \in Quotes, Prepare(q) PROVE Verified'
      BY <1>4, <1>5, <2>3 DEF Prepare, Typed, TypeOK
    <2> QED
      BY <1>5, <2>1, <2>2, <2>3
  <1>7. ASSUME Next, NEW q \in Quotes, NEW s \in Sigs, Claim(q, s) PROVE Verified'
    BY <1>4, <1>7 DEF Claim, Typed, TypeOK
  <1>6. CASE UNCHANGED vars
    BY <1>6 DEF vars, Verified, Paid, Refuted
  <1> QED
    BY <1>2, <1>3, <1>5, <1>6, <1>7, QuotesMove

LEMMA InitVerified == Init => Verified
  BY DEF Init, Verified, NoQuote

\* No quote is confirmed without a finalized payment of that very quote, though
\* confirm_universal_checkout verifies in one step and writes in another; and
\* none is failed over a transaction that pays it, whatever the order in which
\* requests, sweeps and the chain take their steps.
THEOREM OutcomesAreGenuine == Spec => []OutcomeIsOnChain
  <1>1. Verified => OutcomeIsOnChain
    BY DEF Verified, OutcomeIsOnChain, ConfirmedIsPaid, FailedIsUnpaid, Refuted
  <1> QED
    BY <1>1, InitTyped, NextTyped, InitVerified, NextVerified, PTL DEF Spec

-----------------------------------------------------------------------------
(* Signatures, reservations and deliveries.                                 *)

LEMMA NextOneSignature ==
  ASSUME Typed, OneSignatureOneQuote, [Next]_vars PROVE OneSignatureOneQuote'
  <1>1. ASSUME Next, \A q \in Quotes : quotes'[q].sig \in {quotes[q].sig, None}
        PROVE  OneSignatureOneQuote'
    BY <1>1 DEF OneSignatureOneQuote
  <1>2. ASSUME NEW c \in Callers, InsertQuote(c)
        PROVE  \A q \in Quotes : quotes'[q].sig \in {quotes[q].sig, None}
    BY <1>2 DEF InsertQuote, Typed, TypeOK
  <1>3. ASSUME NEW q \in Quotes, Prepare(q)
        PROVE  \A r \in Quotes : quotes'[r].sig \in {quotes[r].sig, None}
    BY <1>3 DEF Prepare, Typed, TypeOK
  <1>4. ASSUME NEW p \in Procs, Finalize(p) \/ Reject(p)
        PROVE  \A q \in Quotes : quotes'[q].sig \in {quotes[q].sig, None}
    <2>1. \/ UNCHANGED quotes
          \/ \E final \in {"confirmed", "failed"} :
               Ends(proc[p].quote, final)
      BY <1>4 DEF Finalize, Reject
    <2> QED
      BY <2>1 DEF Ends, Typed, TypeOK
  <1>5. ASSUME NEW q \in Quotes, NEW s \in Sigs, Unclaimed(s), Claim(q, s)
        PROVE  OneSignatureOneQuote'
    <2>1. quotes'[q].sig = s /\ \A r \in Quotes : r # q => quotes'[r].sig = quotes[r].sig
      BY <1>5 DEF Claim, Typed, TypeOK
    <2> QED
      BY <1>5, <2>1 DEF OneSignatureOneQuote, Unclaimed
  <1>6. CASE UNCHANGED vars
    BY <1>6 DEF vars, OneSignatureOneQuote
  <1> QED
    BY <1>1, <1>2, <1>3, <1>4, <1>5, <1>6, QuotesMove

LEMMA InitOneSignature == Init => OneSignatureOneQuote
  BY DEF Init, OneSignatureOneQuote, NoQuote

\* One transaction pays one quote: requests and the sweep may race for it, the
\* unique index decides (submit_universal_checkout, _attach_reconciled_signature).
THEOREM SignaturesAreUnique == Spec => []OneSignatureOneQuote
  BY InitTyped, NextTyped, InitOneSignature, NextOneSignature, PTL DEF Spec

\* A quote that is live after a step was live before, or is being inserted.
LEMMA ActiveStep ==
  ASSUME Typed, Next, NEW q \in Quotes, Active(q)'
  PROVE  \/ Active(q) /\ quotes'[q].order = quotes[q].order
         \/ \E c \in Callers : InsertQuote(c) /\ quotes'[q].order = proc[c].order
  <1>1. now' \in {now, now + 1} /\ now \in Nat
    BY DEF Typed, TypeOK, Next, CallerStep, BuyerStep, WorkerStep, BeginQuote,
           InsertQuote, Prepare, Submit, Authorize, Land, Confirm, Finalize, Reject,
           TryDelivery, StartSweep, SkipSweep, SweepConfirms, SweepAttaches, EndSweep,
           DeliverNext, EndDeliveries, SweepDue, Tick, Crash
  <1>2. ASSUME quotes'[q].order = quotes[q].order, quotes'[q].expires = quotes[q].expires,
               quotes'[q].state \in ActiveStates => quotes[q].state \in ActiveStates
        PROVE  Active(q) /\ quotes'[q].order = quotes[q].order
    BY <1>1, <1>2 DEF Active, Typed, TypeOK
  <1>3. CASE UNCHANGED quotes
    BY <1>2, <1>3
  <1>4. ASSUME NEW c \in Callers, InsertQuote(c), quotes'[q] # quotes[q]
        PROVE  quotes'[q].order = proc[c].order
    BY <1>4 DEF InsertQuote, Typed, TypeOK
  <1>5. ASSUME NEW r \in Quotes, Prepare(r) PROVE Active(q) /\ quotes'[q].order = quotes[q].order
    BY <1>2, <1>5 DEF Prepare, Typed, TypeOK, ActiveStates
  <1>6. ASSUME NEW r \in Quotes, NEW s \in Sigs, quotes[r].state = "prepared", Claim(r, s)
        PROVE  Active(q) /\ quotes'[q].order = quotes[q].order
    BY <1>2, <1>6 DEF Claim, Typed, TypeOK, ActiveStates
  <1>7. ASSUME NEW p \in Procs, Finalize(p) \/ Reject(p)
        PROVE  Active(q) /\ quotes'[q].order = quotes[q].order
    <2>1. \/ UNCHANGED quotes
          \/ \E final \in {"confirmed", "failed"} :
               Ends(proc[p].quote, final)
      BY <1>7 DEF Finalize, Reject
    <2> QED
      BY <1>2, <2>1, SMTT(30) DEF Ends, Typed, TypeOK, ActiveStates
  <1> QED
    BY <1>2, <1>3, <1>4, <1>5, <1>6, <1>7, QuotesMove

\* The lock stays with the request that is about to insert.
LEMMA LockStep ==
  ASSUME Typed, Exclusive, Next, NEW p \in Procs, proc'[p].pc = "insert", proc'[p] = proc[p]
  PROVE  lock' = p /\ ~\E c \in Callers : InsertQuote(c)
  <1>1. lock = p /\ p # None /\ Callers \subseteq Procs
    BY ConstantsAssumption DEF Exclusive, Procs
  <1>2. ASSUME NEW c \in Callers, InsertQuote(c) PROVE FALSE
    <2>1. proc[c].pc = "insert" /\ proc'[c].pc = "idle"
      BY <1>1, <1>2 DEF InsertQuote, Typed, TypeOK, Idle
    <2> QED
      BY <1>1, <2>1 DEF Exclusive
  <1>3. ASSUME NEW c \in Callers, NEW o \in Orders, BeginQuote(c, o) PROVE FALSE
    BY <1>1, <1>3 DEF BeginQuote, ReservationGuard
  <1>4. ASSUME NEW r \in Procs, Crash(r) PROVE lock' = lock
    BY <1>1, <1>4 DEF Crash, Typed, TypeOK, Idle
  <1>5. \/ UNCHANGED lock
        \/ \E c \in Callers : InsertQuote(c)
        \/ \E c \in Callers, o \in Orders : BeginQuote(c, o)
        \/ \E r \in Procs : Crash(r)
    BY DEF Next, CallerStep, BuyerStep, WorkerStep, Prepare, Submit, Authorize, Land,
           Confirm, Finalize, Reject, TryDelivery, StartSweep, SkipSweep, SweepConfirms,
           SweepAttaches, EndSweep, DeliverNext, EndDeliveries, SweepDue, Tick
  <1> QED
    BY <1>1, <1>2, <1>3, <1>4, <1>5

LEMMA NextExclusive ==
  ASSUME Typed, Exclusive, OneActiveQuote, [Next]_vars
  PROVE  Exclusive' /\ OneActiveQuote'
  <1>1. ASSUME Next, NEW p \in Procs, proc'[p].pc = "insert"
        PROVE  /\ p = lock'
               /\ ~\E q \in Quotes : Active(q)' /\ quotes'[q].order = proc'[p].order
    <2>1. CASE proc'[p] = proc[p]
      BY <1>1, <2>1, LockStep, ActiveStep DEF Exclusive
    <2>2. ASSUME NEW o \in Orders, p \in Callers, BeginQuote(p, o)
          PROVE  /\ p = lock'
                 /\ ~\E q \in Quotes : Active(q)' /\ quotes'[q].order = proc'[p].order
      <3>1. proc'[p].order = o /\ UNCHANGED <<quotes, now>> /\ lock' = p
        BY <2>2, <1>1 DEF BeginQuote, Idle, Typed, TypeOK
      <3> QED
        BY <2>2, <3>1 DEF BeginQuote, Active
    <2> QED
      BY <1>1, <2>1, <2>2, ProcsStep
  <1>2. ASSUME Next, NEW q \in Quotes, NEW r \in Quotes, Active(q)', Active(r)',
               quotes'[q].order = quotes'[r].order, q # r
        PROVE  FALSE
    <2>1. CASE \A c \in Callers : ~InsertQuote(c)
      BY <1>2, <2>1, ActiveStep DEF OneActiveQuote
    <2>2. ASSUME NEW c \in Callers, InsertQuote(c) PROVE FALSE
      <3>1. PICK new \in Quotes :
              quotes' = [quotes EXCEPT ![new] =
                [state |-> "quoted", order |-> proc[c].order,
                 expires |-> proc[c].created + Ttl, updated |-> proc[c].created, sig |-> None]]
        BY <2>2 DEF InsertQuote
      <3>2. /\ quotes'[new].order = proc[c].order /\ now' = now
            /\ \A x \in Quotes : x # new => quotes'[x] = quotes[x]
        BY <2>2, <3>1 DEF InsertQuote, Typed, TypeOK
      <3>3. ~\E x \in Quotes : Active(x) /\ quotes[x].order = proc[c].order
        BY <2>2 DEF InsertQuote, Exclusive, Procs
      <3> QED
        BY <1>2, <3>2, <3>3 DEF Active, OneActiveQuote
    <2> QED
      BY <2>1, <2>2
  <1>3. CASE UNCHANGED vars
    BY <1>3 DEF vars, Exclusive, OneActiveQuote, Active
  <1>4. CASE Next
    BY <1>1, <1>2, <1>4 DEF Exclusive, OneActiveQuote
  <1> QED
    BY <1>3, <1>4

\* No order ever has two live quotes: the check and the insert of
\* _create_universal_quote are apart, _reservation_guard holds them together,
\* also when the request that holds it dies.
THEOREM ReservationsAreExclusive == Spec => []OneActiveQuote
  <1>1. Init => Exclusive /\ OneActiveQuote
    BY DEF Init, Exclusive, OneActiveQuote, Active, NoQuote, Idle, ActiveStates
  <1> QED
    BY <1>1, InitTyped, NextTyped, NextExclusive, PTL DEF Spec

-----------------------------------------------------------------------------
(* The cap.                                                                 *)

Live    == {q \in Quotes : Active(q)}
Counted == {q \in Quotes : quotes[q].state # "none"}

\* A request that is about to insert has been promised its price, and what the
\* others do meanwhile only frees some of the cap.
Covered ==
  /\ IsFiniteSet(Counted)
  /\ Reserved <= Cap
  /\ \A p \in Procs : proc[p].pc = "insert" => Reserved + Price[proc[p].order] <= Cap

\* The cap is about a sum over the live quotes.
LEMMA ReservedIsSum ==
  /\ Reserved = SumOver(Requires, Live)
  /\ Reserved' = SumOver(Requires', Live')
  <1>1. Reserved = SumOver(Requires, Live)
    BY DEF Reserved, Required, SumOver, Live, MapThenSumSet, MapThenFoldSet
  <1>2. Reserved' = SumOver(Requires', Live')
    BY DEF Reserved, Required, SumOver, Live, MapThenSumSet, MapThenFoldSet
  <1> QED
    BY <1>1, <1>2

LEMMA RequiresType ==
  ASSUME Typed
  PROVE  /\ \A q \in Quotes : Requires[q] \in Nat
         /\ Live \subseteq Counted /\ Counted \subseteq Quotes
  BY ConstantsAssumption DEF Requires, Typed, TypeOK, QuotesOK, Live, Counted, Active, ActiveStates

LEMMA ReservedType ==
  ASSUME Typed, Covered
  PROVE  Reserved \in Nat /\ IsFiniteSet(Live)
  <1>1. IsFiniteSet(Live)
    BY RequiresType, FS_Subset DEF Covered
  <1> QED
    BY <1>1, RequiresType, ReservedIsSum, SumType

\* What is live and stays, costs what it did.
LEMMA LiveStep ==
  ASSUME Typed, Next, NEW q \in Quotes, Active(q)', \A c \in Callers : ~InsertQuote(c)
  PROVE  Active(q) /\ Requires'[q] = Requires[q]
  <1>1. Active(q) /\ quotes'[q].order = quotes[q].order
    BY ActiveStep
  <1>2. quotes[q].state # "none" /\ quotes'[q].state # "none"
    BY <1>1 DEF Active, ActiveStates
  <1> QED
    BY <1>1, <1>2 DEF Requires

LEMMA CountedStep ==
  ASSUME Typed, Next, \A c \in Callers : ~InsertQuote(c)
  PROVE  Counted' \subseteq Counted
  <1>1. CASE UNCHANGED quotes
    BY <1>1 DEF Counted
  <1>2. ASSUME NEW r \in Quotes, Prepare(r) PROVE Counted' \subseteq Counted
    BY <1>2 DEF Prepare, Counted, Typed, TypeOK
  <1>3. ASSUME NEW r \in Quotes, NEW s \in Sigs, quotes[r].state = "prepared", Claim(r, s)
        PROVE  Counted' \subseteq Counted
    BY <1>3 DEF Claim, Counted, Typed, TypeOK
  <1>4. ASSUME NEW p \in Procs, Finalize(p) \/ Reject(p)
        PROVE  Counted' \subseteq Counted
    <2>1. \/ UNCHANGED quotes
          \/ \E final \in {"confirmed", "failed"} :
               /\ Ends(proc[p].quote, final)
               /\ StillSubmitted(proc[p].quote)
      BY <1>4 DEF Finalize, Reject
    <2> QED
      BY <2>1 DEF Ends, Counted, Typed, TypeOK, StillSubmitted
  <1> QED
    BY <1>1, <1>2, <1>3, <1>4, QuotesMove

\* Nothing but an insert reserves anything.
LEMMA ReservedShrinks ==
  ASSUME Typed, Covered, Next, \A c \in Callers : ~InsertQuote(c)
  PROVE  IsFiniteSet(Counted') /\ Reserved' \in Nat /\ Reserved' <= Reserved
  <1>1. IsFiniteSet(Counted')
    BY CountedStep, FS_Subset DEF Covered
  <1>2. Live' \subseteq Live /\ \A q \in Live' : Requires'[q] = Requires[q]
    BY LiveStep DEF Live
  <1>3. IsFiniteSet(Live) /\ IsFiniteSet(Live')
    BY <1>2, ReservedType, FS_Subset
  <1>4. \A q \in Live : Requires[q] \in Nat
    BY RequiresType
  <1>5. Reserved' = SumOver(Requires, Live')
    BY <1>2, <1>3, ReservedIsSum, SumsAgree
  <1>6. Reserved' \in Nat
    BY <1>2, <1>3, <1>4, <1>5, SumType
  <1> QED
    BY <1>1, <1>2, <1>3, <1>4, <1>5, <1>6, ReservedIsSum, SumOfAPart

\* An insert reserves the price it was promised, or nothing when the quote is
\* late.
LEMMA ReservedGrows ==
  ASSUME Typed, Covered, NEW c \in Callers, InsertQuote(c)
  PROVE  /\ IsFiniteSet(Counted') /\ Reserved' \in Nat
         /\ Reserved' <= Reserved + Price[proc[c].order]
  <1>1. PICK new \in Quotes :
          /\ quotes[new].state = "none"
          /\ quotes' = [quotes EXCEPT ![new] =
               [state |-> "quoted", order |-> proc[c].order,
                expires |-> proc[c].created + Ttl, updated |-> proc[c].created, sig |-> None]]
    BY DEF InsertQuote
  <1>2. /\ quotes'[new].order = proc[c].order /\ quotes'[new].state = "quoted" /\ now' = now
        /\ \A q \in Quotes : q # new => quotes'[q] = quotes[q]
        /\ proc[c].order \in Orders
    BY <1>1 DEF InsertQuote, Typed, TypeOK, ProcsOK, ProcOK, Procs
  <1>3. Requires'[new] = Price[proc[c].order] /\ Requires'[new] \in Nat
    BY <1>2, ConstantsAssumption DEF Requires
  <1>4. \A q \in Quotes : q # new => Requires'[q] = Requires[q] /\ Active(q)' = Active(q)
    BY <1>2 DEF Requires, Active
  <1>5. Counted' \subseteq Counted \cup {new} /\ new \notin Live
    BY <1>1, <1>2 DEF Counted, Live, Active, ActiveStates
  <1>6. IsFiniteSet(Counted')
    <2>1. IsFiniteSet(Counted \cup {new})
      BY FS_AddElement DEF Covered
    <2> QED
      BY <1>5, <2>1, FS_Subset
  <1>7. Live' \ {new} = Live
    BY <1>4, <1>5 DEF Live
  <1>8. IsFiniteSet(Live) /\ Reserved \in Nat /\ IsFiniteSet(Live')
    <2>1. IsFiniteSet(Live \cup {new})
      BY ReservedType, FS_AddElement
    <2> QED
      BY <1>7, <2>1, ReservedType, FS_Subset
  <1>9. SumOver(Requires', Live) = Reserved
    <2>1. \A q \in Live : Requires'[q] = Requires[q]
      BY <1>4, <1>5 DEF Live
    <2> QED
      BY <1>8, <2>1, ReservedIsSum, SumsAgree
  <1>10. CASE new \in Live'
    <2>1. \A q \in Live' : Requires'[q] \in Nat
      BY <1>3, <1>4, RequiresType DEF Live
    <2>2. SumOver(Requires', Live') = Requires'[new] + SumOver(Requires', Live' \ {new})
      BY <1>8, <1>10, <2>1, SumWithout
    <2>3. Reserved' = Requires'[new] + Reserved
      BY <1>7, <1>9, <2>2, ReservedIsSum
    <2> QED
      BY <1>3, <1>6, <1>8, <2>3
  <1>11. CASE new \notin Live'
    <2>1. Live' = Live
      BY <1>7, <1>11
    <2> QED
      BY <1>3, <1>6, <1>8, <1>9, <2>1, ReservedIsSum
  <1> QED
    BY <1>10, <1>11

LEMMA NextCovered ==
  ASSUME Typed, Exclusive, Covered, [Next]_vars
  PROVE  Covered'
  <1>1. ASSUME Next, \A c \in Callers : ~InsertQuote(c), NEW p \in Procs, proc'[p].pc = "insert"
        PROVE  Reserved' + Price[proc'[p].order] <= Cap
    <2>1. Reserved' \in Nat /\ Reserved \in Nat /\ Reserved' <= Reserved /\ Cap \in Nat
      BY <1>1, ReservedShrinks, ReservedType, ConstantsAssumption
    <2>2. CASE proc'[p] = proc[p]
      <3>1. proc[p].order \in Orders /\ Price[proc[p].order] \in Nat
        BY <1>1, <2>2, ConstantsAssumption DEF Typed, ProcsOK, ProcOK
      <3> QED
        BY <1>1, <2>1, <2>2, <3>1 DEF Covered
    <2>3. ASSUME NEW o \in Orders, p \in Callers, BeginQuote(p, o)
          PROVE  Reserved' + Price[proc'[p].order] <= Cap
      <3>1. proc'[p].order = o /\ Price[o] \in Nat
        BY <2>3, <1>1, ConstantsAssumption DEF BeginQuote, Idle, Typed, TypeOK
      <3>2. Reserved + Price[o] <= Cap
        BY <2>3 DEF BeginQuote
      <3> QED
        BY <2>1, <3>1, <3>2
    <2> QED
      BY <1>1, <2>2, <2>3, ProcsStep
  <1>2. ASSUME NEW c \in Callers, Next, InsertQuote(c) PROVE Covered'
    <2>1. c \in Procs /\ proc[c].pc = "insert" /\ proc[c].order \in Orders
      BY <1>2 DEF InsertQuote, Procs, Typed, ProcsOK, ProcOK
    <2>2. Reserved + Price[proc[c].order] <= Cap /\ Price[proc[c].order] \in Nat
          /\ Reserved \in Nat /\ Cap \in Nat
      BY <2>1, ReservedType, ConstantsAssumption DEF Covered
    <2>3. IsFiniteSet(Counted') /\ Reserved' <= Cap
      BY <1>2, <2>2, ReservedGrows
    <2>4. ASSUME NEW p \in Procs PROVE proc'[p].pc # "insert"
      BY <1>2, <2>1 DEF InsertQuote, Exclusive, Idle, Typed, TypeOK
    <2> QED
      BY <2>3, <2>4 DEF Covered
  <1>3. ASSUME Next, \A c \in Callers : ~InsertQuote(c) PROVE Covered'
    <2>1. IsFiniteSet(Counted') /\ Reserved' <= Cap
      BY <1>3, ReservedShrinks, ReservedType, ConstantsAssumption DEF Covered
    <2> QED
      BY <1>1, <1>3, <2>1 DEF Covered
  <1>4. CASE UNCHANGED vars
    <2>1. Live' = Live /\ Requires' = Requires /\ Counted' = Counted /\ proc' = proc
      BY <1>4 DEF vars, Live, Active, Requires, Counted
    <2>2. Reserved' = Reserved
      BY <2>1, ReservedIsSum
    <2> QED
      BY <2>1, <2>2 DEF Covered
  <1> QED
    BY <1>2, <1>3, <1>4

LEMMA InitCovered == Init => Covered
  <1> SUFFICES ASSUME Init PROVE Covered
    OBVIOUS
  <1>1. Counted = {} /\ Live = {}
    BY DEF Init, Counted, Live, Active, NoQuote, ActiveStates
  <1>2. Reserved = 0
    BY <1>1, ReservedIsSum, SumOfNothing
  <1>3. IsFiniteSet(Counted)
    BY <1>1, FS_EmptySet
  <1>4. \A p \in Procs : proc[p].pc # "insert"
    BY DEF Init, Idle
  <1> QED
    BY <1>2, <1>3, <1>4, ConstantsAssumption DEF Covered

\* The live quotes never reserve more than the treasury's cap, for any prices
\* and any number of requests: _reserved_iat is read and the quote inserted in
\* two transactions, and _reservation_guard lets no other quote in between.
THEOREM ReservationsAreCovered == Spec => []ReservedWithinCap
  <1>1. Covered => ReservedWithinCap
    BY DEF Covered, ReservedWithinCap, Reserved
  <1>2. Init => Exclusive /\ OneActiveQuote
    BY DEF Init, Exclusive, OneActiveQuote, Active, NoQuote, Idle, ActiveStates
  <1> QED
    BY <1>1, <1>2, InitTyped, NextTyped, NextExclusive, InitCovered, NextCovered, PTL DEF Spec

\* An order has one live quote and a transaction pays one quote, for any number
\* of requests, sweeps and crashes.
THEOREM QuotesAreApart == Spec => []QuotesAreExclusive
  <1>1. OneActiveQuote /\ OneSignatureOneQuote => QuotesAreExclusive
    BY DEF QuotesAreExclusive
  <1> QED
    BY <1>1, ReservationsAreExclusive, SignaturesAreUnique, PTL

LEMMA NextEnqueued ==
  ASSUME Typed, PaidIsEnqueued, [Next]_vars PROVE PaidIsEnqueued'
  <1>1. ASSUME Next, NEW q \in Quotes, quotes[q].state = "confirmed"
        PROVE  quotes'[q].state = "confirmed" /\ quotes'[q].order = quotes[q].order
    <2>1. quotes'[q].order = quotes[q].order
      BY <1>1, QuotesStep DEF SigsStay, Typed, TypeOK, QuotesOK
    <2>2. ASSUME NEW p \in Procs, Finalize(p) \/ Reject(p)
          PROVE  quotes'[q].state = "confirmed"
      BY <1>1, <2>2
      DEF Finalize, Reject, Ends, StillSubmitted, Typed, TypeOK, ProcsOK, ProcOK
    <2>3. ASSUME NEW c \in Callers, InsertQuote(c) PROVE quotes'[q].state = "confirmed"
      BY <1>1, <2>3 DEF InsertQuote, Typed, TypeOK
    <2>4. ASSUME NEW r \in Quotes, Prepare(r) PROVE quotes'[q].state = "confirmed"
      BY <1>1, <2>4 DEF Prepare, Typed, TypeOK
    <2>5. ASSUME NEW r \in Quotes, NEW s \in Sigs, quotes[r].state = "prepared", Claim(r, s)
          PROVE  quotes'[q].state = "confirmed"
      BY <1>1, <2>5 DEF Claim, Typed, TypeOK
    <2> QED
      BY <1>1, <2>1, <2>2, <2>3, <2>4, <2>5, QuotesMove
  <1>2. ASSUME Next, NEW o \in Orders, orders'[o].status = orders[o].status,
               rows'[o].quote = rows[o].quote
        PROVE  /\ orders'[o].status # "created" <=> rows'[o].quote # None
               /\ rows'[o].quote # None =>
                    /\ quotes'[rows'[o].quote].order = o
                    /\ quotes'[rows'[o].quote].state = "confirmed"
    BY <1>1, <1>2 DEF PaidIsEnqueued, Typed, TypeOK
  <1>3. ASSUME Next, UNCHANGED <<orders, rows>> PROVE PaidIsEnqueued'
    BY <1>2, <1>3 DEF PaidIsEnqueued
  <1>4. ASSUME Next, NEW p \in Procs, Finalize(p), NEW q \in Quotes, NEW o \in Orders,
               quotes[q].state = "submitted", quotes[q].order = o,
               Ends(q, "confirmed"),
               orders'[o].status # "created",
               rows'[o].quote = (IF rows[o].quote # None THEN rows[o].quote ELSE q),
               \A r \in Orders \ {o} : orders'[r] = orders[r] /\ rows'[r] = rows[r]
        PROVE  PaidIsEnqueued'
    <2>1. quotes'[q].state = "confirmed" /\ quotes'[q].order = o /\ q # None
      BY <1>4, ConstantsAssumption DEF Ends, Typed, TypeOK
    <2>2. rows[o].quote # None =>
            /\ quotes'[rows[o].quote].order = o
            /\ quotes'[rows[o].quote].state = "confirmed"
      BY <1>1, <1>4 DEF PaidIsEnqueued, Typed, TypeOK
    <2> QED
      BY <1>2, <1>4, <2>1, <2>2 DEF PaidIsEnqueued
  <1>5. ASSUME Next, NEW o \in Orders, Attempt(o) PROVE PaidIsEnqueued'
    <2>1. /\ rows[o].quote # None
          /\ \A r \in Orders : rows'[r].quote = rows[r].quote
          /\ orders'[o].status \in {orders[o].status, "delivered", "held"}
          /\ \A r \in Orders \ {o} : orders'[r] = orders[r]
      BY <1>5, AttemptOK
    <2>2. /\ orders'[o].status # "created" /\ rows'[o].quote # None
          /\ quotes'[rows'[o].quote].order = o
          /\ quotes'[rows'[o].quote].state = "confirmed"
      BY <1>1, <1>5, <2>1 DEF PaidIsEnqueued, Typed, TypeOK
    <2> QED
      BY <1>2, <1>5, <2>1, <2>2 DEF PaidIsEnqueued
  <1>6. CASE UNCHANGED vars
    BY <1>6 DEF vars, PaidIsEnqueued
  <1>7. ASSUME Next, NEW p \in Procs, Finalize(p) PROVE PaidIsEnqueued'
    BY <1>3, <1>4, <1>7, FinalizeOK
  <1> QED
    BY <1>3, <1>5, <1>6, <1>7, OrdersStep

\* Payment and delivery stay together: an order is paid exactly when its
\* delivery row exists, and the row is that of a confirmed quote of the order
\* (_finalize_checkout enqueues in its own transaction).
THEOREM PaymentsAreEnqueued == Spec => []PaidIsEnqueued
  <1>1. Init => PaidIsEnqueued
    BY DEF Init, PaidIsEnqueued, NoRow
  <1> QED
    BY <1>1, InitTyped, NextTyped, NextEnqueued, PTL DEF Spec

\* A quote ends as its payment did, and with it the order and its delivery row.
THEOREM OutcomesAreTrue == Spec => []OutcomeIsTrue
  <1>1. OutcomeIsOnChain /\ PaidIsEnqueued => OutcomeIsTrue
    BY DEF OutcomeIsTrue
  <1> QED
    BY <1>1, OutcomesAreGenuine, PaymentsAreEnqueued, PTL

-----------------------------------------------------------------------------
(* The end of a quote.                                                      *)

\* Every way to touch a quote asks again for the state it leaves.
LEMMA NextFinal ==
  ASSUME Typed, Next, NEW q \in Quotes, quotes[q].state \in {"confirmed", "failed"}
  PROVE  quotes'[q] = quotes[q]
  <1> USE DEF Typed, TypeOK
  <1>1. ASSUME NEW c \in Callers, InsertQuote(c) PROVE quotes'[q] = quotes[q]
    BY <1>1, InsertOK
  <1>2. ASSUME NEW r \in Quotes, Prepare(r) PROVE quotes'[q] = quotes[q]
    BY <1>2 DEF Prepare
  <1>3. ASSUME NEW r \in Quotes, NEW s \in Sigs, quotes[r].state = "prepared", Claim(r, s)
        PROVE  quotes'[q] = quotes[q]
    BY <1>3, ClaimOK
  <1>4. ASSUME NEW p \in Procs, Finalize(p) \/ Reject(p) PROVE quotes'[q] = quotes[q]
    BY <1>4 DEF Finalize, Reject, Ends, StillSubmitted, ProcsOK, ProcOK
  <1> QED
    BY <1>1, <1>2, <1>3, <1>4, QuotesMove

\* A quote that was confirmed or failed never changes again, however stale what
\* a request or the sweep has read of it (confirm_universal_checkout).
THEOREM FinalQuotesStay == Spec => FinalQuoteStays
  <1>1. Typed /\ [Next]_vars =>
          [\A q \in Quotes : quotes[q].state \in {"confirmed", "failed"}
             => quotes'[q] = quotes[q]]_quotes
    BY NextFinal DEF vars
  <1> QED
    BY <1>1, InitTyped, NextTyped, PTL DEF Spec, FinalQuoteStays
=============================================================================
