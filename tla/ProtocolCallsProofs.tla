------------------------ MODULE ProtocolCallsProofs ------------------------
(***************************************************************************)
(* Theorems about the protocol's calls, for any number of them at work and *)
(* of faults: GoiaPartnerships (no proposal is claimed without permission, *)
(* nor two at a time, and an opt-out stays), FoundationRulings (one pending*)
(* decision for a target, one verified execution of an order),             *)
(* ProtocolAdaptation (limits are raised on reviews only, and can be       *)
(* restored), ManagedOrders (a direct payment is never lost),              *)
(* ProtocolLearning (each report and each experiment is counted once),     *)
(* SellerAccounts (a rejection stands, a recovery is made once) and        *)
(* ThreatResponse (the responses to threats keep their limits).            *)
(* The argument is the same: what a call at work has read still holds,     *)
(* unless another has written since, which StaffCalls notes.               *)
(***************************************************************************)
EXTENDS GoiaPartnerships, FoundationRulings, ProtocolAdaptation, ProtocolLearning,
        ManagedOrders, SellerAccounts, ThreatResponse, Sums,
        FiniteSetTheorems, TLAPS

-----------------------------------------------------------------------------
(* Calls (StaffCalls).                                                      *)

CallsTyped(Works) ==
  /\ desk \in [Staff -> Works]
  /\ outdated \subseteq Staff
  /\ overlapped \in BOOLEAN

FaultsTyped == faults \in 0 .. MaxFaults

\* What a call has read still stands.
Current(t) == t \notin outdated /\ ~overlapped

LEMMA NoWorkTask == NoWork.task = "none"
  BY DEF NoWork, Work

LEMMA FaultTyped == FaultsTyped /\ Fault => FaultsTyped' /\ faults' = faults + 1
  BY FaultsAssumption DEF FaultsTyped, Fault

\* A call begins, on a thread that is idle: only its own desk changes.
LEMMA TakesEffect ==
  ASSUME NEW CONSTANT Works, CallsTyped(Works), FaultsTyped, NEW t \in Staff,
         NEW work \in Works, Takes(t, work)
  PROVE  /\ CallsTyped(Works)' /\ FaultsTyped' /\ faults <= faults'
         /\ t \notin Busy /\ desk'[t] = work
         /\ \A u \in Staff : u # t => desk'[u] = desk[u]
         /\ UNCHANGED <<outdated, overlapped>>
  <1>1. FaultsTyped' /\ faults <= faults'
    BY FaultTyped DEF Takes, FaultsTyped
  <1>2. t \notin Busy
    <2>1. Staff \ Busy # {}
      BY DEF Takes, Busy
    <2> QED
      BY <2>1 DEF Takes
  <1> QED
    BY <1>1, <1>2 DEF Takes, CallsTyped

\* A call writes: its desk is what comes next, and of the others at work none
\* is current any more.
LEMMA WritesEffect ==
  ASSUME NEW CONSTANT Works, CallsTyped(Works), FaultsTyped, NEW t \in Staff,
         NEW next \in Works, Writes(t, next)
  PROVE  /\ CallsTyped(Works)' /\ FaultsTyped' /\ faults' = faults
         /\ desk'[t] = next
         /\ \A u \in Staff : u # t => desk'[u] = desk[u]
         /\ overlapped' = (overlapped \/ t \in outdated)
         /\ \A u \in Staff : u # t => desk[u].task = "none" \/ ~Current(u)'
  <1>1. /\ CallsTyped(Works)' /\ FaultsTyped' /\ desk'[t] = next /\ faults' = faults
        /\ \A u \in Staff : u # t => desk'[u] = desk[u]
        /\ overlapped' = (overlapped \/ t \in outdated)
    BY DEF Writes, Outdates, Busy, CallsTyped, FaultsTyped
  <1>2. ASSUME NEW u \in Staff, u # t, desk[u].task # "none"
        PROVE  ~Current(u)'
    BY <1>2, NoWorkTask DEF Writes, Outdates, Busy, Current
  <1> QED
    BY <1>1, <1>2

\* The same of a call that reads and writes in one statement.
LEMMA WritesAtOnceEffect ==
  ASSUME NEW CONSTANT Works, CallsTyped(Works), FaultsTyped, WritesAtOnce
  PROVE  /\ CallsTyped(Works)' /\ FaultsTyped'
         /\ UNCHANGED <<desk, overlapped, faults>>
         /\ \A u \in Staff : desk[u].task = "none" \/ ~Current(u)'
  <1>1. CallsTyped(Works)' /\ FaultsTyped' /\ UNCHANGED <<desk, overlapped, faults>>
    BY DEF WritesAtOnce, Outdates, Busy, CallsTyped, FaultsTyped
  <1>2. ASSUME NEW u \in Staff, desk[u].task # "none"
        PROVE  ~Current(u)'
    BY <1>2, NoWorkTask DEF WritesAtOnce, Outdates, Busy, Current
  <1> QED
    BY <1>1, <1>2

\* A call ends without writing: the others keep what they have read.
LEMMA LeavesEffect ==
  ASSUME NEW CONSTANT Works, NoWork \in Works, CallsTyped(Works), NEW t \in Staff, Leaves(t)
  PROVE  /\ CallsTyped(Works)'
         /\ desk'[t] = NoWork
         /\ \A u \in Staff : u # t => desk'[u] = desk[u]
         /\ \A u \in Staff : u # t => (Current(u)' <=> Current(u))
         /\ UNCHANGED overlapped
  BY DEF Leaves, CallsTyped, Current

-----------------------------------------------------------------------------
(* Outreach: the invariant.                                                 *)

PartnerWork ==
  [task : {"none", "prepare", "claim", "send", "finish", "record", "respond"},
   outcome : {"none"} \cup PartnerAnswers \cup PartnerDecisions, left : {0}]

ProposalType ==
  [status : {"none", "prepared", "delivering", "retryable", "delivered", "closed"},
   attempts : 0 .. MaxDeliveries + MaxFaults, holder : {{}} \cup {{t} : t \in Staff}]

MerchantsTyped ==
  /\ lacking \subseteq Markets /\ found \subseteq Merchants
  /\ linked \subseteq Markets \X Merchants
  /\ manifest \in [Merchants -> Manifests \cup {NoManifest}]
  /\ proof \in [Merchants -> Manifests \cup {NoManifest}]
  /\ permission \in [Merchants -> {"none", "declared_opt_in", "verified_opt_in", "suppressed"}]
  /\ suppressed \subseteq Merchants /\ contacted \subseteq Merchants
  /\ relation \in [Merchants -> {"none"} \cup PartnerDecisions]

ProposalsTyped ==
  /\ outbox \in [Proposals -> ProposalType]
  /\ lapsed \subseteq Proposals
  /\ matter \in [Staff -> SUBSET Proposals]

\* Whoever opted out was found, and a delivery has reached it; a partner that
\* opted out by a response is among them.
Suppression ==
  /\ suppressed \subseteq found \cap contacted
  /\ \A d \in suppressed : permission[d] = "suppressed"
  /\ \A d \in Merchants : relation[d] = "opted_out" => d \in suppressed

\* Proposals are prepared for merchants that were found, and delivered to those
\* that have been contacted.
Reached ==
  /\ linked \subseteq Markets \X found
  /\ \A p \in Proposals :
       /\ outbox[p].status # "none" => p.merchant \in found
       /\ outbox[p].status = "delivered" => p.merchant \in contacted

\* The dispatcher that holds a proposal and has not died.
HeldAtWork(p) == \E t \in Busy : outbox[p].holder = {t} /\ matter[t] = {p}

\* A waiting proposal has an attempt left, or one more for every lease taken back;
\* one whose dispatcher has died has had its fault.
Attempts(p) ==
  LET n == outbox[p].attempts IN
  /\ outbox[p].status \in Waiting =>
       n < MaxDeliveries + faults /\ (p \notin lapsed => n < MaxDeliveries)
  /\ outbox[p].status = "delivering" =>
       /\ n <= MaxDeliveries + faults /\ (p \notin lapsed => n <= MaxDeliveries)
       /\ HeldAtWork(p) \/ n < MaxDeliveries + faults
  /\ outbox[p].status \notin Waiting \cup {"delivering"} => n = 0

OneAtATime ==
  \A p, q \in Proposals :
    /\ outbox[p].status = "delivering" /\ outbox[q].status = "delivering"
    /\ p.merchant = q.merchant
    => p = q \/ overlapped

\* What each call knows of the proposals it is about.
PartnerCallKnows(t) ==
  /\ desk[t].task \in {"none", "prepare", "claim", "respond"} =>
       \A p \in matter[t] : outbox[p].status = "delivering" => outbox[p].holder # {t}
  /\ desk[t].task = "none" => matter[t] = {}
  /\ desk[t].task = "prepare" => \A p \in matter[t] : p.merchant \in found
  /\ desk[t].task = "claim" => \E p \in Proposals :
       matter[t] = {p} /\ (Current(t) => Sendable(p))
  /\ desk[t].task \in {"send", "finish", "record"} => \E p \in Proposals :
       matter[t] = {p} /\ p.merchant \in found
  /\ desk[t].task \in {"finish", "record"} => desk[t].outcome \in PartnerAnswers
  /\ desk[t].task = "respond" =>
       /\ desk[t].outcome \in PartnerDecisions
       /\ \E p \in Proposals :
            /\ matter[t] = {p} /\ p.merchant \in found \cap contacted
            /\ Current(t) /\ p.merchant \in suppressed => desk[t].outcome = "opted_out"

PartnersInv ==
  /\ CallsTyped(PartnerWork) /\ FaultsTyped
  /\ MerchantsTyped /\ ProposalsTyped
  /\ Suppression /\ Reached /\ OneAtATime
  /\ \A p \in Proposals : Attempts(p)
  /\ \A t \in Staff : PartnerCallKnows(t)

LEMMA PartnerParts ==
  PartnersTypeOK <=> CallsTyped(PartnerWork) /\ FaultsTyped /\ MerchantsTyped /\ ProposalsTyped
  BY DEF PartnersTypeOK, CallsTyped, FaultsTyped, MerchantsTyped, ProposalsTyped, PartnerWork,
         ProposalType

LEMMA NoPartnerWork == NoWork \in PartnerWork
  BY DEF NoWork, Work, PartnerWork

LEMMA ClosedRow == Closed \in ProposalType /\ Closed.status = "closed" /\ Closed.attempts = 0
  BY FaultsAssumption DEF Closed, Proposal, ProposalType, MaxDeliveries

LEMMA InitPartnersInv == PartnersInit => PartnersInv
  <1> SUFFICES ASSUME PartnersInit PROVE PartnersInv
    OBVIOUS
  <1>1. CallsTyped(PartnerWork)
    BY NoPartnerWork DEF PartnersInit, CallsInit, CallsTyped
  <1>0. FaultsTyped
    BY FaultsAssumption DEF PartnersInit, FaultsTyped
  <1>2. NoProposal \in ProposalType /\ NoProposal.status = "none" /\ NoProposal.attempts = 0
    BY FaultsAssumption DEF NoProposal, Proposal, ProposalType, MaxDeliveries
  <1>3. \A p \in Proposals : outbox[p] = NoProposal
    BY DEF PartnersInit
  <1>4. MerchantsTyped /\ ProposalsTyped
    BY <1>2 DEF PartnersInit, MerchantsTyped, ProposalsTyped
  <1>5. Suppression /\ Reached /\ OneAtATime
    BY <1>2, <1>3 DEF PartnersInit, Suppression, Reached, OneAtATime
  <1>6. \A p \in Proposals : Attempts(p)
    BY <1>2, <1>3 DEF Attempts, Waiting
  <1>7. \A t \in Staff : PartnerCallKnows(t)
    BY NoWorkTask DEF PartnersInit, CallsInit, PartnerCallKnows
  <1> QED
    BY <1>0, <1>1, <1>4, <1>5, <1>6, <1>7 DEF PartnersInv

-----------------------------------------------------------------------------
(* Outreach: what a step leaves alone.                                      *)

\* A dispatcher other than the one that moves still holds what it held.
LEMMA HeldElsewhere ==
  ASSUME NEW t \in Staff, NEW p \in Proposals, HeldAtWork(p),
         outbox'[p].holder = outbox[p].holder,
         \A u \in Staff : u # t => desk'[u] = desk[u] /\ matter'[u] = matter[u],
         outbox[p].holder # {t} \/ matter[t] # {p} \/ t \notin Busy
  PROVE  HeldAtWork(p)'
  <1>1. PICK u \in Busy : outbox[p].holder = {u} /\ matter[u] = {p}
    BY DEF HeldAtWork
  <1>2. u # t /\ u \in Staff
    BY <1>1 DEF Busy
  <1> QED
    BY <1>1, <1>2 DEF HeldAtWork, Busy

\* A step that at most closes proposals that wait keeps the order among them.
LEMMA RowsKept ==
  ASSUME ProposalsTyped, FaultsTyped, FaultsTyped', Reached, OneAtATime,
         \A p \in Proposals : Attempts(p),
         \A p \in Proposals : \/ outbox'[p] = outbox[p]
                              \/ outbox[p].status \in Waiting /\ outbox'[p] = Closed,
         lapsed' = lapsed, linked' \subseteq Markets \X found',
         found \subseteq found', contacted \subseteq contacted',
         faults <= faults', overlapped => overlapped',
         \A p \in Proposals : HeldAtWork(p) /\ outbox[p].status = "delivering"
                             => HeldAtWork(p)' \/ faults < faults'
  PROVE  Reached' /\ OneAtATime' /\ \A p \in Proposals : Attempts(p)'
  <1>1. Reached'
    BY ClosedRow DEF Reached, Waiting
  <1>2. OneAtATime'
    BY ClosedRow DEF OneAtATime
  <1>3. ASSUME NEW p \in Proposals PROVE Attempts(p)'
    <2>1. Attempts(p) /\ outbox[p] \in ProposalType /\ faults \in Nat /\ faults' \in Nat
      BY DEF ProposalsTyped, FaultsTyped
    <2>2. CASE outbox'[p] = Closed
      BY <2>2, ClosedRow DEF Attempts, Waiting
    <2>3. CASE outbox'[p] = outbox[p]
      BY <2>1, <2>3 DEF Attempts, ProposalType, MaxDeliveries
    <2> QED
      BY <2>2, <2>3
  <1> QED
    BY <1>1, <1>2, <1>3

\* A call that does not move knows what it knew, or is no longer current.
LEMMA KnowsKept ==
  ASSUME NEW t \in Staff, PartnerCallKnows(t),
         desk'[t] = desk[t], matter'[t] = matter[t],
         found \subseteq found', contacted \subseteq contacted',
         \A p \in matter[t] :
            outbox'[p].status = "delivering" /\ outbox'[p].holder = {t}
            => outbox[p].status = "delivering" /\ outbox[p].holder = {t},
         \/ desk[t].task = "none"
         \/ Current(t)' => /\ Current(t) /\ suppressed' \subseteq suppressed
                           /\ \A p \in Proposals : Sendable(p) => Sendable(p)'
  PROVE  PartnerCallKnows(t)'
  BY DEF PartnerCallKnows

-----------------------------------------------------------------------------
(* Outreach: each step keeps the invariant.                                 *)

\* Markets and merchants appear, which no call has read.
LEMMA AppearsPartnersInv ==
  ASSUME PartnersInv,
         RefreshOpportunities \/ RefreshLinks \/ \E d \in Merchants : FindMerchant(d)
  PROVE  PartnersInv'
  <1>0. /\ CallsTyped(PartnerWork) /\ FaultsTyped /\ MerchantsTyped /\ ProposalsTyped
        /\ Suppression /\ Reached /\ OneAtATime
        /\ \A p \in Proposals : Attempts(p)
        /\ \A t \in Staff : PartnerCallKnows(t)
    BY DEF PartnersInv
  <1>1. /\ lacking' \subseteq Markets /\ found \subseteq found' /\ found' \subseteq Merchants
        /\ linked' \subseteq Markets \X found'
        /\ UNCHANGED <<manifest, proof, permission, suppressed, contacted, outbox, relation,
                       lapsed, matter, desk, outdated, overlapped, faults>>
    BY <1>0 DEF RefreshOpportunities, RefreshLinks, FindMerchant, callVars, MerchantsTyped, Reached
  <1>2. /\ CallsTyped(PartnerWork)' /\ FaultsTyped' /\ MerchantsTyped' /\ ProposalsTyped'
        /\ Suppression'
    BY <1>0, <1>1 DEF CallsTyped, FaultsTyped, MerchantsTyped, ProposalsTyped, Suppression
  <1>3. \A p \in Proposals : HeldAtWork(p) => HeldAtWork(p)'
    BY <1>1 DEF HeldAtWork, Busy
  <1>4. Reached' /\ OneAtATime' /\ \A p \in Proposals : Attempts(p)'
    BY <1>0, <1>1, <1>2, <1>3, RowsKept DEF FaultsTyped
  <1>5. ASSUME NEW t \in Staff PROVE PartnerCallKnows(t)'
    <2>1. \A p \in Proposals : Sendable(p) => Sendable(p)'
      BY <1>1 DEF Sendable, Granted
    <2> QED
      BY <1>0, <1>1, <2>1, KnowsKept DEF Current
  <1> QED
    BY <1>2, <1>4, <1>5 DEF PartnersInv

\* A manifest, a proof or the permissions change, or waiting proposals are
\* closed: no call at work is current any more.
LEMMA AtOncePartnersInv ==
  ASSUME PartnersInv,
         \/ RefreshPermissions
         \/ \E d \in Merchants :
              \/ VerifyManifest(d) \/ ProofExpires(d)
              \/ \E m \in Manifests \cup {NoManifest} : PublishManifest(d, m)
         \/ \E p \in Proposals : ProposalExpires(p)
  PROVE  PartnersInv'
  <1>0. /\ CallsTyped(PartnerWork) /\ FaultsTyped /\ MerchantsTyped /\ ProposalsTyped
        /\ Suppression /\ Reached /\ OneAtATime
        /\ \A p \in Proposals : Attempts(p)
        /\ \A t \in Staff : PartnerCallKnows(t)
    BY DEF PartnersInv
  <1>1. /\ WritesAtOnce
        /\ UNCHANGED <<lacking, found, linked, suppressed, contacted, relation, lapsed, matter>>
    BY DEF RefreshPermissions, VerifyManifest, ProofExpires, PublishManifest, ProposalExpires
  <1>2. /\ manifest' \in [Merchants -> Manifests \cup {NoManifest}]
        /\ proof' \in [Merchants -> Manifests \cup {NoManifest}]
    BY <1>0 DEF RefreshPermissions, VerifyManifest, ProofExpires, PublishManifest, ProposalExpires,
                MerchantsTyped
  <1>3. /\ permission' \in [Merchants -> {"none", "declared_opt_in", "verified_opt_in",
                                         "suppressed"}]
        /\ \A d \in suppressed : permission'[d] = "suppressed"
    <2>1. CASE RefreshPermissions
      <3>1. \A d \in Merchants : Permission(d) \in {"none", "declared_opt_in", "verified_opt_in",
                                                  "suppressed"}
        BY DEF Permission
      <3>2. \A d \in suppressed : d \in found /\ d \in Merchants /\ Permission(d) = "suppressed"
        BY <1>0 DEF Permission, Suppression, MerchantsTyped
      <3> QED
        BY <2>1, <3>1, <3>2 DEF RefreshPermissions
    <2>2. CASE ~RefreshPermissions
      <3>1. permission' = permission
        BY <2>2 DEF VerifyManifest, ProofExpires, PublishManifest, ProposalExpires
      <3> QED
        BY <1>0, <3>1 DEF MerchantsTyped, Suppression
    <2> QED
      BY <2>1, <2>2
  <1>4. /\ outbox' \in [Proposals -> ProposalType]
        /\ \A p \in Proposals : \/ outbox'[p] = outbox[p]
                                \/ outbox[p].status \in Waiting /\ outbox'[p] = Closed
    BY <1>0, ClosedRow DEF RefreshPermissions, VerifyManifest, ProofExpires, PublishManifest,
       ProposalExpires, ProposalsTyped
  <1>5. /\ CallsTyped(PartnerWork)' /\ FaultsTyped' /\ UNCHANGED <<desk, overlapped, faults>>
        /\ \A u \in Staff : desk[u].task = "none" \/ ~Current(u)'
    BY <1>0, <1>1, WritesAtOnceEffect
  <1>6. MerchantsTyped' /\ ProposalsTyped' /\ Suppression'
    BY <1>0, <1>1, <1>2, <1>3, <1>4 DEF MerchantsTyped, ProposalsTyped, Suppression
  <1>7. \A p \in Proposals : HeldAtWork(p) /\ outbox[p].status = "delivering" => HeldAtWork(p)'
    BY <1>1, <1>4, <1>5 DEF HeldAtWork, Busy, Waiting
  <1>8. Reached' /\ OneAtATime' /\ \A p \in Proposals : Attempts(p)'
    BY <1>0, <1>1, <1>4, <1>5, <1>7, RowsKept DEF FaultsTyped, Reached
  <1>9. ASSUME NEW t \in Staff PROVE PartnerCallKnows(t)'
    <2>1. \A p \in matter[t] :
             outbox'[p].status = "delivering" /\ outbox'[p].holder = {t}
             => outbox[p].status = "delivering" /\ outbox[p].holder = {t}
      BY <1>0, <1>4, ClosedRow DEF ProposalsTyped
    <2> QED
      BY <1>0, <1>1, <1>5, <2>1, KnowsKept
  <1> QED
    BY <1>5, <1>6, <1>8, <1>9 DEF PartnersInv

\* A preparation closes what may not be sent, and selects what may.  Of what
\* another call has selected it closes nothing.
LEMMA BeginPreparationInv ==
  ASSUME PartnersInv, NEW t \in Staff, BeginPreparation(t)
  PROVE  PartnersInv'
  <1>0. /\ CallsTyped(PartnerWork) /\ FaultsTyped /\ MerchantsTyped /\ ProposalsTyped
        /\ Suppression /\ Reached /\ OneAtATime
        /\ \A p \in Proposals : Attempts(p)
        /\ \A u \in Staff : PartnerCallKnows(u)
    BY DEF PartnersInv
  <1>1. /\ UNCHANGED <<lacking, found, linked, manifest, proof, permission, suppressed,
                       contacted, relation, lapsed>>
        /\ Takes(t, Work("prepare", "none", 0))
        /\ Work("prepare", "none", 0) \in PartnerWork
    BY DEF BeginPreparation, Decides, Work, PartnerWork
  <1>2. /\ CallsTyped(PartnerWork)' /\ FaultsTyped' /\ faults <= faults'
        /\ t \notin Busy /\ desk'[t] = Work("prepare", "none", 0)
        /\ \A u \in Staff : u # t => desk'[u] = desk[u]
        /\ UNCHANGED <<outdated, overlapped>>
    BY <1>0, <1>1, TakesEffect
  <1>3. /\ outbox' \in [Proposals -> ProposalType]
        /\ \A p \in Proposals : /\ \/ outbox'[p] = outbox[p]
                                   \/ outbox[p].status \in Waiting /\ outbox'[p] = Closed
                                /\ Granted(p.merchant, p.manifest) => outbox'[p] = outbox[p]
    BY <1>0, ClosedRow DEF BeginPreparation, Cleaned, ProposalsTyped
  <1>4. /\ matter' \in [Staff -> SUBSET Proposals]
        /\ \A u \in Staff : u # t => matter'[u] = matter[u]
        /\ \A p \in matter'[t] : /\ outbox[p].status = "none" /\ p \in Proposals
                                 /\ <<p.market, p.merchant>> \in linked
    BY <1>0 DEF BeginPreparation, ProposalsTyped
  <1>5. MerchantsTyped' /\ ProposalsTyped' /\ Suppression'
    BY <1>0, <1>1, <1>3, <1>4 DEF MerchantsTyped, ProposalsTyped, Suppression
  <1>6. \A p \in Proposals : HeldAtWork(p) /\ outbox[p].status = "delivering" => HeldAtWork(p)'
    BY <1>2, <1>3, <1>4, HeldElsewhere DEF Waiting
  <1>7. Reached' /\ OneAtATime' /\ \A p \in Proposals : Attempts(p)'
    BY <1>0, <1>1, <1>2, <1>3, <1>5, <1>6, RowsKept DEF Reached
  <1>8. ASSUME NEW u \in Staff, u # t PROVE PartnerCallKnows(u)'
    <2>1. \A p \in matter[u] :
             outbox'[p].status = "delivering" /\ outbox'[p].holder = {u}
             => outbox[p].status = "delivering" /\ outbox[p].holder = {u}
      BY <1>0, <1>3, ClosedRow DEF ProposalsTyped
    <2>2. \A p \in Proposals : Sendable(p) => Sendable(p)'
      BY <1>1, <1>3, ClosedRow DEF Sendable, Granted, Waiting
    <2> QED
      BY <1>0, <1>1, <1>2, <1>4, <1>8, <2>1, <2>2, KnowsKept DEF Current
  <1>9. PartnerCallKnows(t)'
    <2>1. desk'[t].task = "prepare"
      BY <1>2 DEF Work
    <2>2. ASSUME NEW p \in matter'[t]
          PROVE  p.merchant \in found' /\ outbox'[p].status # "delivering"
      BY <1>0, <1>1, <1>3, <1>4, ClosedRow DEF Reached
    <2> QED
      BY <2>1, <2>2 DEF PartnerCallKnows
  <1> QED
    BY <1>2, <1>5, <1>7, <1>8, <1>9 DEF PartnersInv

\* The preparation inserts what it has selected, unless another has.
LEMMA InsertProposalsInv ==
  ASSUME PartnersInv, NEW t \in Staff, InsertProposals(t)
  PROVE  PartnersInv'
  <1>0. /\ CallsTyped(PartnerWork) /\ FaultsTyped /\ MerchantsTyped /\ ProposalsTyped
        /\ Suppression /\ Reached /\ OneAtATime
        /\ \A p \in Proposals : Attempts(p)
        /\ \A u \in Staff : PartnerCallKnows(u)
    BY DEF PartnersInv
  <1>1. /\ UNCHANGED <<lacking, found, linked, manifest, proof, permission, suppressed,
                       contacted, relation, lapsed>>
        /\ Writes(t, NoWork) /\ desk[t].task = "prepare"
        /\ matter' = [matter EXCEPT ![t] = {}]
    BY DEF InsertProposals
  <1>2. /\ CallsTyped(PartnerWork)' /\ FaultsTyped' /\ faults' = faults
        /\ desk'[t] = NoWork
        /\ \A u \in Staff : u # t => desk'[u] = desk[u]
        /\ overlapped' = (overlapped \/ t \in outdated)
        /\ \A u \in Staff : u # t => desk[u].task = "none" \/ ~Current(u)'
    BY <1>0, <1>1, NoPartnerWork, WritesEffect
  <1>3. LET new == Proposal("prepared", 0, {}) IN
        /\ new \in ProposalType /\ new.status = "prepared" /\ new.attempts = 0
        /\ outbox' \in [Proposals -> ProposalType]
        /\ \A p \in Proposals : \/ outbox'[p] = outbox[p]
                                \/ /\ outbox[p].status = "none" /\ outbox'[p] = new
                                   /\ p \in matter[t]
    <2>1. /\ Proposal("prepared", 0, {}) \in ProposalType
          /\ Proposal("prepared", 0, {}).status = "prepared"
          /\ Proposal("prepared", 0, {}).attempts = 0
      BY FaultsAssumption DEF Proposal, ProposalType, MaxDeliveries
    <2> QED
      BY <1>0, <2>1 DEF InsertProposals, ProposalsTyped
  <1>4. /\ matter' \in [Staff -> SUBSET Proposals] /\ matter'[t] = {}
        /\ \A u \in Staff : u # t => matter'[u] = matter[u]
    BY <1>0, <1>1 DEF ProposalsTyped
  <1>5. MerchantsTyped' /\ ProposalsTyped' /\ Suppression'
    BY <1>0, <1>1, <1>3, <1>4 DEF MerchantsTyped, ProposalsTyped, Suppression
  <1>6. \A p \in Proposals : HeldAtWork(p) /\ outbox[p].status = "delivering" => HeldAtWork(p)'
    <2> SUFFICES ASSUME NEW p \in Proposals, HeldAtWork(p), outbox[p].status = "delivering"
                 PROVE  HeldAtWork(p)'
      OBVIOUS
    <2>1. outbox[p].holder # {t} \/ matter[t] # {p}
      BY <1>0, <1>1 DEF PartnerCallKnows
    <2> QED
      BY <1>2, <1>3, <1>4, <2>1, HeldElsewhere
  <1>7. Reached'
    BY <1>0, <1>1, <1>3 DEF Reached, PartnerCallKnows
  <1>8. OneAtATime'
    <2>1. \A p \in Proposals : outbox'[p].status = "delivering" => outbox[p].status = "delivering"
      BY <1>3
    <2>2. overlapped => overlapped'
      BY <1>2
    <2> QED
      BY <1>0, <2>1, <2>2 DEF OneAtATime
  <1>9. ASSUME NEW p \in Proposals PROVE Attempts(p)'
    <2>1. Attempts(p) /\ outbox[p] \in ProposalType /\ faults \in Nat
      BY <1>0 DEF ProposalsTyped, FaultsTyped
    <2>2. CASE outbox'[p] = outbox[p]
      BY <1>1, <1>2, <1>6, <2>1, <2>2 DEF Attempts
    <2>3. CASE outbox'[p] # outbox[p]
      <3>1. outbox'[p].status = "prepared" /\ outbox'[p].attempts = 0
        BY <1>3, <2>3
      <3> QED
        BY <1>2, <2>1, <3>1 DEF Attempts, Waiting, MaxDeliveries
    <2> QED
      BY <2>2, <2>3
  <1>10. ASSUME NEW u \in Staff, u # t PROVE PartnerCallKnows(u)'
    <2>1. \A p \in matter[u] :
             outbox'[p].status = "delivering" /\ outbox'[p].holder = {u}
             => outbox[p].status = "delivering" /\ outbox[p].holder = {u}
      BY <1>0, <1>3 DEF ProposalsTyped
    <2> QED
      BY <1>0, <1>1, <1>2, <1>4, <1>10, <2>1, KnowsKept
  <1>11. PartnerCallKnows(t)'
    BY <1>2, <1>4, NoWorkTask DEF PartnerCallKnows
  <1> QED
    BY <1>2, <1>5, <1>7, <1>8, <1>9, <1>10, <1>11 DEF PartnersInv

\* A dispatcher or a merchant's response reads the proposal it is about.
LEMMA SelectsPartnersInv ==
  ASSUME PartnersInv, NEW t \in Staff, NEW q \in Proposals,
         SelectProposal(t, q) \/ \E decision \in PartnerDecisions : BeginResponse(t, q, decision)
  PROVE  PartnersInv'
  <1>0. /\ CallsTyped(PartnerWork) /\ FaultsTyped /\ MerchantsTyped /\ ProposalsTyped
        /\ Suppression /\ Reached /\ OneAtATime
        /\ \A p \in Proposals : Attempts(p)
        /\ \A u \in Staff : PartnerCallKnows(u)
    BY DEF PartnersInv
  <1>1. PICK task \in {"claim", "respond"}, outcome \in {"none"} \cup PartnerDecisions :
           /\ Takes(t, Work(task, outcome, 0))
           /\ task = "claim" => Sendable(q)
           /\ task = "respond" =>
                /\ outcome \in PartnerDecisions
                /\ outbox[q].status = "delivered"
                /\ q.merchant \in suppressed => outcome = "opted_out"
    BY DEF SelectProposal, BeginResponse, Decides
  <1>2. /\ UNCHANGED <<lacking, found, linked, manifest, proof, permission, suppressed,
                       contacted, outbox, relation, lapsed>>
        /\ matter' = [matter EXCEPT ![t] = {q}]
    BY DEF SelectProposal, BeginResponse
  <1>3. Work(task, outcome, 0) \in PartnerWork
    BY DEF Work, PartnerWork
  <1>4. /\ CallsTyped(PartnerWork)' /\ FaultsTyped' /\ faults <= faults'
        /\ t \notin Busy /\ desk'[t] = Work(task, outcome, 0)
        /\ \A u \in Staff : u # t => desk'[u] = desk[u]
        /\ UNCHANGED <<outdated, overlapped>>
    BY <1>0, <1>1, <1>3, TakesEffect
  <1>5. /\ matter' \in [Staff -> SUBSET Proposals] /\ matter'[t] = {q}
        /\ \A u \in Staff : u # t => matter'[u] = matter[u]
    BY <1>0, <1>2 DEF ProposalsTyped
  <1>6. MerchantsTyped' /\ ProposalsTyped' /\ Suppression'
    BY <1>0, <1>2, <1>5 DEF MerchantsTyped, ProposalsTyped, Suppression
  <1>7. \A p \in Proposals : HeldAtWork(p) => HeldAtWork(p)'
    BY <1>2, <1>4, <1>5, HeldElsewhere
  <1>8. Reached' /\ OneAtATime' /\ \A p \in Proposals : Attempts(p)'
    BY <1>0, <1>2, <1>4, <1>6, <1>7, RowsKept DEF Reached
  <1>9. ASSUME NEW u \in Staff, u # t PROVE PartnerCallKnows(u)'
    <2>1. \A p \in Proposals : Sendable(p) => Sendable(p)'
      BY <1>2 DEF Sendable, Granted
    <2> QED
      BY <1>0, <1>2, <1>4, <1>5, <1>9, <2>1, KnowsKept DEF Current
  <1>10. PartnerCallKnows(t)'
    <2>1. desk'[t].task = task /\ desk'[t].outcome = outcome
      BY <1>4 DEF Work
    <2>2. outbox'[q].status # "delivering"
      BY <1>1, <1>2 DEF Sendable, Waiting
    <2>3. CASE task = "claim"
      <3>1. Sendable(q)'
        BY <1>1, <1>2, <2>3 DEF Sendable, Granted
      <3> QED
        BY <1>5, <2>1, <2>2, <2>3, <3>1 DEF PartnerCallKnows
    <2>4. CASE task = "respond"
      <3>1. q.merchant \in found' \cap contacted'
        BY <1>0, <1>1, <1>2, <2>4 DEF Reached
      <3> QED
        BY <1>1, <1>2, <1>5, <2>1, <2>2, <2>4, <3>1 DEF PartnerCallKnows
    <2> QED
      BY <2>3, <2>4
  <1> QED
    BY <1>4, <1>6, <1>8, <1>9, <1>10 DEF PartnersInv

\* The dispatcher has the answer, and then the lease.
LEMMA AnswersPartnersInv ==
  ASSUME PartnersInv, NEW t \in Staff, SendProposal(t) \/ \E q \in Proposals : CheckLease(t, q)
  PROVE  PartnersInv'
  <1>0. /\ CallsTyped(PartnerWork) /\ FaultsTyped /\ MerchantsTyped /\ ProposalsTyped
        /\ Suppression /\ Reached /\ OneAtATime
        /\ \A p \in Proposals : Attempts(p)
        /\ \A u \in Staff : PartnerCallKnows(u)
    BY DEF PartnersInv
  <1>2. /\ UNCHANGED <<lacking, found, linked, manifest, proof, permission, suppressed,
                       contacted, outbox, relation, lapsed, matter, outdated, overlapped, faults>>
        /\ desk[t].task \in {"send", "finish"}
    BY DEF SendProposal, CheckLease, partnerTables
  <1>1. PICK work \in PartnerWork :
           /\ work.task \in {"finish", "record"} /\ work.outcome \in PartnerAnswers
           /\ desk' = [desk EXCEPT ![t] = work]
    <2>1. CASE SendProposal(t)
      <3>1. PICK answer \in PartnerAnswers : desk' = [desk EXCEPT ![t] = Work("finish", answer, 0)]
        BY <2>1 DEF SendProposal
      <3> QED
        BY <3>1 DEF Work, PartnerWork
    <2>2. CASE \E q \in Proposals : CheckLease(t, q)
      <3>1. desk[t].task = "finish" /\ desk' = [desk EXCEPT ![t].task = "record"]
        BY <2>2 DEF CheckLease
      <3>2. desk[t] \in PartnerWork /\ desk \in [Staff -> PartnerWork]
        BY <1>0 DEF CallsTyped
      <3>3. desk[t].outcome \in PartnerAnswers
        BY <1>0, <3>1 DEF PartnerCallKnows
      <3> DEFINE work == [desk[t] EXCEPT !.task = "record"]
      <3>4. work \in PartnerWork /\ work.task = "record" /\ work.outcome = desk[t].outcome
        BY <3>2 DEF PartnerWork
      <3>5. desk' = [desk EXCEPT ![t] = work]
        BY <3>1, <3>2
      <3> QED
        BY <3>3, <3>4, <3>5
    <2> QED
      BY <2>1, <2>2
  <1>4. /\ CallsTyped(PartnerWork)' /\ FaultsTyped' /\ desk'[t] = work
        /\ \A u \in Staff : u # t => desk'[u] = desk[u]
    BY <1>0, <1>1, <1>2 DEF CallsTyped, FaultsTyped
  <1>5. MerchantsTyped' /\ ProposalsTyped' /\ Suppression'
    BY <1>0, <1>2 DEF MerchantsTyped, ProposalsTyped, Suppression
  <1>6. work # NoWork
    BY <1>1, NoWorkTask
  <1>7. \A p \in Proposals : HeldAtWork(p) => HeldAtWork(p)'
    BY <1>2, <1>4, <1>6 DEF HeldAtWork, Busy
  <1>8. Reached' /\ OneAtATime' /\ \A p \in Proposals : Attempts(p)'
    BY <1>0, <1>2, <1>4, <1>5, <1>7, RowsKept DEF Reached, FaultsTyped
  <1>9. ASSUME NEW u \in Staff, u # t PROVE PartnerCallKnows(u)'
    <2>1. \A p \in Proposals : Sendable(p) => Sendable(p)'
      BY <1>2 DEF Sendable, Granted
    <2> QED
      BY <1>0, <1>2, <1>4, <1>9, <2>1, KnowsKept DEF Current
  <1>10. PartnerCallKnows(t)'
    BY <1>0, <1>1, <1>2, <1>4 DEF PartnerCallKnows
  <1> QED
    BY <1>4, <1>5, <1>8, <1>9, <1>10 DEF PartnersInv

\* A call ends without having written, dead or because what it was about is not
\* its own any more.
LEMMA EndsPartnersInv ==
  ASSUME PartnersInv, NEW t \in Staff, Leaves(t),
         matter' = [matter EXCEPT ![t] = {}],
         UNCHANGED <<lacking, found, linked, manifest, proof, permission, suppressed, contacted,
                     outbox, relation, lapsed>>,
         \/ Fault
         \/ /\ UNCHANGED faults
            /\ \A p \in Proposals : outbox[p].status = "delivering" /\ matter[t] = {p}
                                   => outbox[p].holder # {t}
  PROVE  PartnersInv'
  <1>0. /\ CallsTyped(PartnerWork) /\ FaultsTyped /\ MerchantsTyped /\ ProposalsTyped
        /\ Suppression /\ Reached /\ OneAtATime
        /\ \A p \in Proposals : Attempts(p)
        /\ \A u \in Staff : PartnerCallKnows(u)
    BY DEF PartnersInv
  <1>1. /\ CallsTyped(PartnerWork)' /\ desk'[t] = NoWork
        /\ \A u \in Staff : u # t => desk'[u] = desk[u] /\ (Current(u)' <=> Current(u))
        /\ UNCHANGED overlapped
    BY <1>0, NoPartnerWork, LeavesEffect
  <1>2. FaultsTyped' /\ (Fault => faults < faults') /\ faults <= faults'
    BY <1>0, FaultTyped DEF FaultsTyped
  <1>3. /\ matter' \in [Staff -> SUBSET Proposals] /\ matter'[t] = {}
        /\ \A u \in Staff : u # t => matter'[u] = matter[u]
    BY <1>0 DEF ProposalsTyped
  <1>4. MerchantsTyped' /\ ProposalsTyped' /\ Suppression'
    BY <1>0, <1>3 DEF MerchantsTyped, ProposalsTyped, Suppression
  <1>5. \A p \in Proposals : HeldAtWork(p) /\ outbox[p].status = "delivering"
                           => HeldAtWork(p)' \/ faults < faults'
    BY <1>1, <1>2, <1>3, HeldElsewhere
  <1>6. Reached' /\ OneAtATime' /\ \A p \in Proposals : Attempts(p)'
    BY <1>0, <1>1, <1>2, <1>4, <1>5, RowsKept DEF Reached
  <1>7. ASSUME NEW u \in Staff, u # t PROVE PartnerCallKnows(u)'
    <2>1. \A p \in Proposals : Sendable(p) => Sendable(p)'
      BY DEF Sendable, Granted
    <2> QED
      BY <1>0, <1>1, <1>3, <1>7, <2>1, KnowsKept
  <1>8. PartnerCallKnows(t)'
    BY <1>1, <1>3, NoWorkTask DEF PartnerCallKnows
  <1> QED
    BY <1>1, <1>2, <1>4, <1>6, <1>7, <1>8 DEF PartnersInv

\* What a dispatcher claims may be sent, unless what it has read is outdated.
LEMMA ClaimsWhatItRead ==
  ASSUME NEW t \in Staff, NEW q \in Proposals, PartnerCallKnows(t),
         desk[t].task = "claim", matter[t] = {q}
  PROVE  overlapped \/ t \in outdated \/ Sendable(q)
  <1>1. PICK p \in Proposals : matter[t] = {p} /\ (Current(t) => Sendable(p))
    BY DEF PartnerCallKnows
  <1>2. p = q
    BY <1>1
  <1> QED
    BY <1>1, <1>2 DEF Current

\* A dispatcher takes a waiting proposal: no other is with the merchant, unless
\* what it has read is outdated.
LEMMA TakesProposalInv ==
  ASSUME PartnersInv, NEW t \in Staff, NEW q \in Proposals, ClaimProposal(t, q),
         outbox[q].status \in Waiting
  PROVE  PartnersInv'
  <1>0. /\ CallsTyped(PartnerWork) /\ FaultsTyped /\ MerchantsTyped /\ ProposalsTyped
        /\ Suppression /\ Reached /\ OneAtATime
        /\ \A p \in Proposals : Attempts(p)
        /\ \A u \in Staff : PartnerCallKnows(u)
    BY DEF PartnersInv
  <1> DEFINE row == Proposal("delivering", outbox[q].attempts + 1, {t})
             work == Work("send", "none", 0)
  <1>1. /\ UNCHANGED <<lacking, found, linked, manifest, proof, permission, suppressed,
                       contacted, relation, lapsed, matter>>
        /\ desk[t].task = "claim" /\ matter[t] = {q}
        /\ outbox' = [outbox EXCEPT ![q] = row]
        /\ Writes(t, work)
    BY DEF ClaimProposal
  <1>2. work \in PartnerWork /\ work.task = "send" /\ work # NoWork
    BY DEF Work, NoWork, PartnerWork
  <1>3. /\ CallsTyped(PartnerWork)' /\ FaultsTyped' /\ faults' = faults
        /\ desk'[t] = work
        /\ \A u \in Staff : u # t => desk'[u] = desk[u]
        /\ overlapped' = (overlapped \/ t \in outdated)
        /\ \A u \in Staff : u # t => desk[u].task = "none" \/ ~Current(u)'
    BY <1>0, <1>1, <1>2, WritesEffect
  <1>4. /\ row \in ProposalType /\ row.status = "delivering" /\ row.holder = {t}
        /\ row.attempts = outbox[q].attempts + 1
        /\ row.attempts <= MaxDeliveries + faults
        /\ q \notin lapsed => row.attempts <= MaxDeliveries
    <2>1. Attempts(q) /\ outbox[q] \in ProposalType /\ faults \in 0 .. MaxFaults
      BY <1>0 DEF ProposalsTyped, FaultsTyped
    <2>2. /\ outbox[q].attempts \in Nat /\ outbox[q].attempts < MaxDeliveries + faults
          /\ q \notin lapsed => outbox[q].attempts < MaxDeliveries
      BY <2>1 DEF Attempts, ProposalType
    <2> QED
      BY <2>1, <2>2, FaultsAssumption DEF Proposal, ProposalType, MaxDeliveries
  <1> HIDE DEF row, work
  <1>5. /\ outbox' \in [Proposals -> ProposalType] /\ outbox'[q] = row
        /\ \A p \in Proposals : p # q => outbox'[p] = outbox[p]
    BY <1>0, <1>1, <1>4 DEF ProposalsTyped
  <1>6. MerchantsTyped' /\ ProposalsTyped' /\ Suppression'
    BY <1>0, <1>1, <1>5 DEF MerchantsTyped, ProposalsTyped, Suppression
  <1>7. Reached'
    BY <1>0, <1>1, <1>4, <1>5 DEF Reached, Waiting
  <1>8. OneAtATime'
    <2>1. overlapped' \/ Sendable(q)
      BY <1>0, <1>1, <1>3, ClaimsWhatItRead
    <2> QED
      BY <1>0, <1>3, <1>5, <2>1 DEF OneAtATime, Sendable
  <1>9. ASSUME NEW p \in Proposals PROVE Attempts(p)'
    <2>1. CASE p = q
      <3>1. HeldAtWork(q)'
        BY <1>1, <1>2, <1>3, <1>4, <1>5 DEF HeldAtWork, Busy
      <3> QED
        BY <1>1, <1>3, <1>4, <1>5, <2>1, <3>1 DEF Attempts, Waiting
    <2>2. CASE p # q
      <3>1. HeldAtWork(p) => HeldAtWork(p)'
        BY <1>1, <1>3, <1>5, <2>2, HeldElsewhere
      <3> QED
        BY <1>0, <1>1, <1>3, <1>5, <2>2, <3>1 DEF Attempts
    <2> QED
      BY <2>1, <2>2
  <1>10. ASSUME NEW u \in Staff, u # t PROVE PartnerCallKnows(u)'
    <2>1. \A p \in matter[u] :
             outbox'[p].status = "delivering" /\ outbox'[p].holder = {u}
             => outbox[p].status = "delivering" /\ outbox[p].holder = {u}
      BY <1>0, <1>4, <1>5, <1>10 DEF ProposalsTyped
    <2> QED
      BY <1>0, <1>1, <1>3, <1>10, <2>1, KnowsKept
  <1>11. PartnerCallKnows(t)'
    BY <1>0, <1>1, <1>2, <1>3 DEF PartnerCallKnows, Reached, Waiting
  <1> QED
    BY <1>3, <1>6, <1>7, <1>8, <1>9, <1>10, <1>11 DEF PartnersInv

\* The others lose it.
LEMMA LosesProposalInv ==
  ASSUME PartnersInv, NEW t \in Staff, NEW q \in Proposals,
         \/ ClaimProposal(t, q) /\ outbox[q].status \notin Waiting
         \/ LoseLease(t, q)
         \/ PartnerCallDies(t)
  PROVE  PartnersInv'
  <1>0. \A u \in Staff : PartnerCallKnows(u)
    BY DEF PartnersInv
  <1>1. CASE ClaimProposal(t, q) /\ outbox[q].status \notin Waiting
    <2>1. \A p \in matter[t] : outbox[p].status = "delivering" => outbox[p].holder # {t}
      BY <1>0, <1>1 DEF ClaimProposal, PartnerCallKnows
    <2> QED
      BY <1>1, <2>1, EndsPartnersInv DEF ClaimProposal
  <1>2. CASE LoseLease(t, q)
    BY <1>2, EndsPartnersInv DEF LoseLease
  <1>3. CASE PartnerCallDies(t)
    BY <1>3, EndsPartnersInv DEF PartnerCallDies
  <1> QED
    BY <1>1, <1>2, <1>3

\* A lease is taken back: with a fault of its own if the dispatcher is at work
\* still, after the fault of its death otherwise.
LEMMA RecoverDeliveryInv ==
  ASSUME PartnersInv, NEW q \in Proposals, RecoverDelivery(q)
  PROVE  PartnersInv'
  <1>0. /\ CallsTyped(PartnerWork) /\ FaultsTyped /\ MerchantsTyped /\ ProposalsTyped
        /\ Suppression /\ Reached /\ OneAtATime
        /\ \A p \in Proposals : Attempts(p)
        /\ \A u \in Staff : PartnerCallKnows(u)
    BY DEF PartnersInv
  <1> DEFINE row == Proposal("retryable", outbox[q].attempts, {})
  <1>1. /\ UNCHANGED <<lacking, found, linked, manifest, proof, permission, suppressed,
                       contacted, relation, matter, desk, overlapped>>
        /\ outbox[q].status = "delivering"
        /\ outbox' = [outbox EXCEPT ![q] = row]
        /\ lapsed' = lapsed \cup {q}
        /\ Outdates(Busy)
        /\ IF HeldAtWork(q) THEN Fault ELSE UNCHANGED faults
    BY DEF RecoverDelivery, HeldAtWork
  <1>2. /\ CallsTyped(PartnerWork)'
        /\ \A u \in Staff : desk[u].task = "none" \/ ~Current(u)'
    <2>1. CallsTyped(PartnerWork)'
      BY <1>0, <1>1 DEF CallsTyped, Outdates, Busy
    <2>2. ASSUME NEW u \in Staff, desk[u].task # "none" PROVE ~Current(u)'
      BY <1>1, <2>2, NoWorkTask DEF Outdates, Busy, Current
    <2> QED
      BY <2>1, <2>2
  <1>3. /\ FaultsTyped' /\ faults <= faults'
        /\ HeldAtWork(q) => faults' = faults + 1
    BY <1>0, <1>1, FaultTyped DEF FaultsTyped
  <1>4. /\ row \in ProposalType /\ row.status = "retryable" /\ row.holder = {}
        /\ row.attempts = outbox[q].attempts
    BY <1>0 DEF Proposal, ProposalType, ProposalsTyped
  <1> HIDE DEF row
  <1>5. /\ outbox' \in [Proposals -> ProposalType] /\ outbox'[q] = row
        /\ \A p \in Proposals : p # q => outbox'[p] = outbox[p]
    BY <1>0, <1>1, <1>4 DEF ProposalsTyped
  <1>6. MerchantsTyped' /\ ProposalsTyped' /\ Suppression'
    BY <1>0, <1>1, <1>5 DEF MerchantsTyped, ProposalsTyped, Suppression
  <1>7. Reached' /\ OneAtATime'
    BY <1>0, <1>1, <1>4, <1>5 DEF Reached, OneAtATime
  <1>8. ASSUME NEW p \in Proposals PROVE Attempts(p)'
    <2>0. /\ Attempts(p) /\ outbox[p].attempts \in Nat /\ faults \in Nat /\ faults' \in Nat
      BY <1>0, <1>3 DEF ProposalsTyped, ProposalType, FaultsTyped
    <2>1. CASE p = q
      BY <1>1, <1>3, <1>4, <1>5, <2>0, <2>1 DEF Attempts, Waiting, MaxDeliveries
    <2>2. CASE p # q
      <3>1. HeldAtWork(p) => HeldAtWork(p)'
        BY <1>1, <1>5, <2>2 DEF HeldAtWork, Busy
      <3>2. outbox'[p] = outbox[p] /\ (p \in lapsed <=> p \in lapsed')
        BY <1>1, <1>5, <2>2
      <3> QED
        BY <1>3, <2>0, <3>1, <3>2 DEF Attempts, MaxDeliveries
    <2> QED
      BY <2>1, <2>2
  <1>9. ASSUME NEW u \in Staff PROVE PartnerCallKnows(u)'
    <2>1. \A p \in matter[u] :
             outbox'[p].status = "delivering" /\ outbox'[p].holder = {u}
             => outbox[p].status = "delivering" /\ outbox[p].holder = {u}
      BY <1>0, <1>4, <1>5 DEF ProposalsTyped
    <2> QED
      BY <1>0, <1>1, <1>2, <2>1, KnowsKept
  <1> QED
    BY <1>2, <1>3, <1>6, <1>7, <1>8, <1>9 DEF PartnersInv

\* The delivery ends, as the merchant has answered: with one that is final, the
\* merchant has been contacted.  Without the lease the row is left alone.
LEMMA FinishDeliveryInv ==
  ASSUME PartnersInv, NEW t \in Staff, NEW q \in Proposals, FinishDelivery(t, q)
  PROVE  PartnersInv'
  <1>0. /\ CallsTyped(PartnerWork) /\ FaultsTyped /\ MerchantsTyped /\ ProposalsTyped
        /\ Suppression /\ Reached /\ OneAtATime
        /\ \A p \in Proposals : Attempts(p)
        /\ \A u \in Staff : PartnerCallKnows(u)
    BY DEF PartnersInv
  <1> DEFINE answer == desk[t].outcome
             row == Finished(q, answer)
             held == outbox[q].holder = {t}
  <1>1. /\ UNCHANGED <<lacking, found, linked, manifest, proof, relation, lapsed>>
        /\ desk[t].task = "record" /\ matter[t] = {q} /\ answer \in PartnerAnswers
        /\ matter' = [matter EXCEPT ![t] = {}]
        /\ contacted' = IF answer \in {"received", "opt_out"}
                        THEN contacted \cup {q.merchant} ELSE contacted
        /\ Writes(t, NoWork)
    BY <1>0 DEF FinishDelivery, PartnerCallKnows
  <1>2. q.merchant \in found /\ q.merchant \in Merchants
    BY <1>0, <1>1 DEF PartnerCallKnows, Proposals
  <1>3. /\ row \in ProposalType /\ row.status \in {"delivered", "retryable", "closed"}
        /\ row.status = "delivered" <=> answer \in {"received", "opt_out"}
        /\ row.status = "retryable" =>
             /\ row.attempts = outbox[q].attempts /\ row.attempts < MaxDeliveries
        /\ row.status # "retryable" => row.attempts = 0
    <2>1. CASE answer \in {"received", "opt_out"}
      BY <2>1, FaultsAssumption DEF Finished, Proposal, ProposalType, MaxDeliveries
    <2>2. CASE answer = "temporary" /\ outbox[q].attempts < MaxDeliveries
      BY <1>0, <2>2 DEF Finished, Proposal, ProposalType, ProposalsTyped
    <2>3. CASE answer = "temporary" /\ ~(outbox[q].attempts < MaxDeliveries)
      <3>1. row = Closed
        BY <2>3 DEF Finished
      <3> QED
        BY <2>3, <3>1, ClosedRow
    <2>4. CASE answer = "permanent"
      <3>1. row = Closed
        BY <2>4 DEF Finished
      <3> QED
        BY <2>4, <3>1, ClosedRow
    <2> QED
      BY <1>1, <2>1, <2>2, <2>3, <2>4 DEF PartnerAnswers
  <1>4. /\ CallsTyped(PartnerWork)' /\ FaultsTyped' /\ faults' = faults
        /\ desk'[t] = NoWork
        /\ \A u \in Staff : u # t => desk'[u] = desk[u]
        /\ overlapped' = (overlapped \/ t \in outdated)
        /\ \A u \in Staff : u # t => desk[u].task = "none" \/ ~Current(u)'
    BY <1>0, <1>1, NoPartnerWork, WritesEffect
  <1>5. /\ outbox' \in [Proposals -> ProposalType]
        /\ held => outbox'[q] = row
        /\ \A p \in Proposals : p # q \/ ~held =>
             \/ outbox'[p] = outbox[p]
             \/ outbox[p].status \in Waiting /\ outbox'[p] = Closed
    <2> DEFINE box == IF held THEN [outbox EXCEPT ![q] = row] ELSE outbox
    <2>1. /\ box \in [Proposals -> ProposalType]
          /\ held => box[q] = row
          /\ \A p \in Proposals : p # q \/ ~held => box[p] = outbox[p]
      BY <1>0, <1>3 DEF ProposalsTyped
    <2>2. CASE answer = "opt_out"
      <3>1. OptsOut(q.merchant, box)
        BY <2>2 DEF FinishDelivery
      <3>2. row.status = "delivered"
        BY <1>3, <2>2
      <3> HIDE DEF box, row, held
      <3> QED
        BY <2>1, <3>1, <3>2, ClosedRow DEF OptsOut, Waiting
    <2>3. CASE answer # "opt_out"
      <3>1. outbox' = box
        BY <2>3 DEF FinishDelivery
      <3> HIDE DEF box, row, held
      <3> QED
        BY <2>1, <3>1
    <2> QED
      BY <2>2, <2>3
  <1>6. /\ suppressed \subseteq suppressed' /\ suppressed' \subseteq suppressed \cup {q.merchant}
        /\ suppressed' # suppressed => answer = "opt_out"
        /\ permission' \in [Merchants -> {"none", "declared_opt_in", "verified_opt_in",
                                         "suppressed"}]
        /\ \A d \in suppressed' : permission'[d] = "suppressed"
    <2>1. CASE answer = "opt_out"
      <3>1. /\ suppressed' = suppressed \cup {q.merchant}
            /\ permission' = [permission EXCEPT ![q.merchant] = "suppressed"]
        BY <2>1 DEF FinishDelivery, OptsOut
      <3> QED
        BY <1>0, <1>2, <2>1, <3>1 DEF MerchantsTyped, Suppression
    <2>2. CASE answer # "opt_out"
      <3>1. UNCHANGED <<suppressed, permission>>
        BY <2>2 DEF FinishDelivery
      <3> QED
        BY <1>0, <2>2, <3>1 DEF MerchantsTyped, Suppression
    <2> QED
      BY <2>1, <2>2
  <1> HIDE DEF row, answer
  <1>7. /\ contacted \subseteq contacted' /\ contacted' \subseteq Merchants
        /\ row.status = "delivered" => q.merchant \in contacted'
        /\ answer = "opt_out" => q.merchant \in contacted'
    BY <1>0, <1>1, <1>2, <1>3 DEF MerchantsTyped
  <1>8. /\ matter' \in [Staff -> SUBSET Proposals] /\ matter'[t] = {}
        /\ \A u \in Staff : u # t => matter'[u] = matter[u]
    BY <1>0, <1>1 DEF ProposalsTyped
  <1>9. MerchantsTyped' /\ ProposalsTyped'
    BY <1>0, <1>1, <1>2, <1>5, <1>6, <1>7, <1>8 DEF MerchantsTyped, ProposalsTyped
  <1>10. Suppression'
    BY <1>0, <1>1, <1>2, <1>6, <1>7 DEF Suppression
  <1>11. ASSUME held PROVE Reached' /\ OneAtATime' /\ \A p \in Proposals : Attempts(p)'
    <2>1. Reached'
      BY <1>0, <1>1, <1>2, <1>3, <1>5, <1>7, <1>11, ClosedRow DEF Reached, Waiting
    <2>2. OneAtATime'
      <3>1. \A p \in Proposals :
               outbox'[p].status = "delivering" => outbox[p].status = "delivering"
        BY <1>3, <1>5, <1>11, ClosedRow
      <3>2. overlapped => overlapped'
        BY <1>4
      <3> QED
        BY <1>0, <3>1, <3>2 DEF OneAtATime
    <2>3. ASSUME NEW p \in Proposals PROVE Attempts(p)'
      <3>0. Attempts(p) /\ outbox[p] \in ProposalType /\ outbox'[q] \in ProposalType /\ faults \in Nat
        BY <1>0, <1>3, <1>5 DEF ProposalsTyped, FaultsTyped
      <3>1. CASE p = q
        <4>1. row.attempts \in Nat
          BY <1>3 DEF ProposalType
        <4> QED
          BY <1>3, <1>4, <1>5, <1>11, <3>0, <3>1, <4>1 DEF Attempts, Waiting, MaxDeliveries
      <3>2. CASE p # q /\ outbox'[p] = outbox[p]
        <4>1. HeldAtWork(p) => HeldAtWork(p)'
          BY <1>1, <1>4, <1>8, <3>2, HeldElsewhere
        <4> QED
          BY <1>1, <1>4, <3>0, <3>2, <4>1 DEF Attempts
      <3>3. CASE outbox'[p] = Closed
        BY <3>3, ClosedRow DEF Attempts, Waiting
      <3> QED
        BY <1>5, <3>1, <3>2, <3>3
    <2> QED
      BY <2>1, <2>2, <2>3
  <1>12. ASSUME ~held PROVE Reached' /\ OneAtATime' /\ \A p \in Proposals : Attempts(p)'
    <2>1. ASSUME NEW p \in Proposals, HeldAtWork(p), outbox[p].status = "delivering"
          PROVE  HeldAtWork(p)'
      <3>1. outbox'[p] = outbox[p]
        BY <1>5, <1>12, <2>1 DEF Waiting
      <3>2. outbox[p].holder # {t} \/ matter[t] # {p}
        BY <1>1, <1>12
      <3> QED
        BY <1>4, <1>8, <2>1, <3>1, <3>2, HeldElsewhere
    <2>2. linked' \subseteq Markets \X found' /\ found \subseteq found' /\ lapsed' = lapsed
      BY <1>0, <1>1 DEF Reached
    <2>3. faults <= faults'
      BY <1>0, <1>4 DEF FaultsTyped
    <2>4. overlapped => overlapped'
      BY <1>4
    <2> QED
      BY <1>0, <1>4, <1>5, <1>7, <1>12, <2>1, <2>2, <2>3, <2>4, RowsKept
  <1>13. ASSUME NEW u \in Staff, u # t PROVE PartnerCallKnows(u)'
    <2>1. \A p \in matter[u] :
             outbox'[p].status = "delivering" /\ outbox'[p].holder = {u}
             => outbox[p].status = "delivering" /\ outbox[p].holder = {u}
      BY <1>0, <1>3, <1>5, ClosedRow DEF ProposalsTyped
    <2> QED
      BY <1>0, <1>1, <1>4, <1>7, <1>8, <1>13, <2>1, KnowsKept
  <1>14. PartnerCallKnows(t)'
    BY <1>4, <1>8, NoWorkTask DEF PartnerCallKnows
  <1> QED
    BY <1>4, <1>9, <1>10, <1>11, <1>12, <1>13, <1>14 DEF PartnersInv

\* A merchant that has been contacted decides.
LEMMA RecordResponseInv ==
  ASSUME PartnersInv, NEW t \in Staff, NEW q \in Proposals, RecordResponse(t, q)
  PROVE  PartnersInv'
  <1>0. /\ CallsTyped(PartnerWork) /\ FaultsTyped /\ MerchantsTyped /\ ProposalsTyped
        /\ Suppression /\ Reached /\ OneAtATime
        /\ \A p \in Proposals : Attempts(p)
        /\ \A u \in Staff : PartnerCallKnows(u)
    BY DEF PartnersInv
  <1> DEFINE decision == desk[t].outcome
             d == q.merchant
  <1>1. /\ UNCHANGED <<lacking, found, linked, manifest, proof, contacted, lapsed>>
        /\ desk[t].task = "respond" /\ matter[t] = {q}
        /\ relation' = [relation EXCEPT ![d] = decision]
        /\ matter' = [matter EXCEPT ![t] = {}]
        /\ Writes(t, NoWork)
    BY DEF RecordResponse
  <1>2. d \in found \cap contacted /\ d \in Merchants /\ decision \in PartnerDecisions
    BY <1>0, <1>1 DEF PartnerCallKnows, Proposals
  <1>3. /\ CallsTyped(PartnerWork)' /\ FaultsTyped' /\ faults' = faults
        /\ desk'[t] = NoWork
        /\ \A u \in Staff : u # t => desk'[u] = desk[u]
        /\ overlapped' = (overlapped \/ t \in outdated)
        /\ \A u \in Staff : u # t => desk[u].task = "none" \/ ~Current(u)'
    BY <1>0, <1>1, NoPartnerWork, WritesEffect
  <1>4. \/ decision = "opted_out" /\ OptsOut(d, outbox)
        \/ decision # "opted_out" /\ UNCHANGED <<suppressed, permission, outbox>>
    BY DEF RecordResponse
  <1>5. /\ suppressed' = suppressed \cup (IF decision = "opted_out" THEN {d} ELSE {})
        /\ permission' \in [Merchants -> {"none", "declared_opt_in", "verified_opt_in",
                                         "suppressed"}]
        /\ \A m \in suppressed' : permission'[m] = "suppressed"
    BY <1>0, <1>2, <1>4 DEF OptsOut, MerchantsTyped, Suppression
  <1>6. /\ outbox' \in [Proposals -> ProposalType]
        /\ \A p \in Proposals : \/ outbox'[p] = outbox[p]
                                \/ outbox[p].status \in Waiting /\ outbox'[p] = Closed
    BY <1>0, <1>4, ClosedRow DEF OptsOut, ProposalsTyped
  <1>7. /\ matter' \in [Staff -> SUBSET Proposals] /\ matter'[t] = {}
        /\ \A u \in Staff : u # t => matter'[u] = matter[u]
    BY <1>0, <1>1 DEF ProposalsTyped
  <1>8. /\ relation' \in [Merchants -> {"none"} \cup PartnerDecisions]
        /\ relation'[d] = decision
        /\ \A m \in Merchants : m # d => relation'[m] = relation[m]
    BY <1>0, <1>1, <1>2 DEF MerchantsTyped
  <1> HIDE DEF decision, d
  <1>9. MerchantsTyped' /\ ProposalsTyped'
    BY <1>0, <1>1, <1>2, <1>5, <1>6, <1>7, <1>8 DEF MerchantsTyped, ProposalsTyped
  <1>10. Suppression'
    BY <1>0, <1>1, <1>2, <1>5, <1>8 DEF Suppression
  <1>11. \A p \in Proposals : HeldAtWork(p) /\ outbox[p].status = "delivering" => HeldAtWork(p)'
    <2> SUFFICES ASSUME NEW p \in Proposals, HeldAtWork(p), outbox[p].status = "delivering"
                 PROVE  HeldAtWork(p)'
      OBVIOUS
    <2>1. outbox[p].holder # {t} \/ matter[t] # {p}
      BY <1>0, <1>1 DEF PartnerCallKnows
    <2>2. outbox'[p] = outbox[p]
      BY <1>6 DEF Waiting
    <2> QED
      BY <1>3, <1>7, <2>1, <2>2, HeldElsewhere
  <1>12. Reached' /\ OneAtATime' /\ \A p \in Proposals : Attempts(p)'
    <2>1. /\ faults <= faults' /\ linked' \subseteq Markets \X found' /\ lapsed' = lapsed
          /\ found \subseteq found' /\ contacted \subseteq contacted' /\ (overlapped => overlapped')
      BY <1>0, <1>1, <1>3 DEF Reached, FaultsTyped, CallsTyped
    <2> QED
      BY <1>0, <1>3, <1>6, <1>11, <2>1, RowsKept
  <1>13. ASSUME NEW u \in Staff, u # t PROVE PartnerCallKnows(u)'
    <2>1. \A p \in matter[u] :
             outbox'[p].status = "delivering" /\ outbox'[p].holder = {u}
             => outbox[p].status = "delivering" /\ outbox[p].holder = {u}
      BY <1>0, <1>6, ClosedRow DEF ProposalsTyped
    <2> QED
      BY <1>0, <1>1, <1>3, <1>7, <1>13, <2>1, KnowsKept
  <1>14. PartnerCallKnows(t)'
    BY <1>3, <1>7, NoWorkTask DEF PartnerCallKnows
  <1> QED
    BY <1>3, <1>9, <1>10, <1>12, <1>13, <1>14 DEF PartnersInv

LEMMA NextPartnersInv ==
  ASSUME PartnersInv, [PartnersNext]_partnerVars
  PROVE  PartnersInv'
  <1>1. CASE UNCHANGED partnerVars
    <2>1. \A t \in Staff : PartnerCallKnows(t) => PartnerCallKnows(t)'
      BY <1>1 DEF partnerVars, partnerTables, callVars, PartnerCallKnows, Current, Sendable, Granted
    <2>2. \A p \in Proposals : Attempts(p) => Attempts(p)'
      BY <1>1 DEF partnerVars, partnerTables, callVars, Attempts, HeldAtWork, Busy
    <2> QED
      BY <1>1, <2>1, <2>2 DEF partnerVars, partnerTables, callVars, PartnersInv, CallsTyped,
         FaultsTyped, MerchantsTyped, ProposalsTyped, Suppression, Reached, OneAtATime
  <1>2. CASE PartnersNext
    <2>1. ASSUME NEW t \in Staff, NEW p \in Proposals, ClaimProposal(t, p) PROVE PartnersInv'
      BY <2>1, TakesProposalInv, LosesProposalInv
    <2>2. ASSUME NEW t \in Staff, PartnerCallDies(t) PROVE PartnersInv'
      BY <2>2, EndsPartnersInv DEF PartnerCallDies
    <2> QED
      BY <1>2, <2>1, <2>2, AppearsPartnersInv, AtOncePartnersInv, BeginPreparationInv,
         InsertProposalsInv, SelectsPartnersInv, AnswersPartnersInv, LosesProposalInv,
         RecoverDeliveryInv, FinishDeliveryInv, RecordResponseInv DEF PartnersNext
  <1> QED
    BY <1>1, <1>2

LEMMA PartnersInductive == PartnersSpec => []PartnersInv
  BY InitPartnersInv, NextPartnersInv, PTL DEF PartnersSpec

\* The rows of the outreach and the calls about them are well typed, however many
\* calls are at work; no proposal is sent more often than its attempts and the
\* faults allow.
THEOREM PartnersTypeCorrect == PartnersSpec => []PartnersTypeOK
  <1>1. PartnersInv => PartnersTypeOK
    BY PartnerParts DEF PartnersInv
  <1> QED
    BY <1>1, PartnersInductive, PTL

\* Only a claim has a proposal delivered.
LEMMA ClaimsAlone ==
  ASSUME PartnersInv, PartnersNext, NEW p \in Proposals,
         outbox[p].status # "delivering", outbox'[p].status = "delivering"
  PROVE  \E t \in Staff : ClaimProposal(t, p)
  <1>0. outbox \in [Proposals -> ProposalType]
    BY DEF PartnersInv, ProposalsTyped
  <1>1. /\ ~RefreshOpportunities /\ ~RefreshLinks /\ ~RefreshPermissions
        /\ \A d \in Merchants : /\ ~FindMerchant(d) /\ ~VerifyManifest(d)
                                /\ \A m \in Manifests \cup {NoManifest} : ~PublishManifest(d, m)
    BY DEF RefreshOpportunities, RefreshLinks, RefreshPermissions, FindMerchant, VerifyManifest,
           PublishManifest
  <1>2. /\ \A d \in Merchants : ~ProofExpires(d)
        /\ \A q \in Proposals : ~ProposalExpires(q)
    BY <1>0, ClosedRow DEF ProofExpires, ProposalExpires
  <1>3. \A q \in Proposals : ~RecoverDelivery(q)
    BY <1>0 DEF RecoverDelivery, Proposal
  <1>4. \A t \in Staff : ~BeginPreparation(t) /\ ~InsertProposals(t)
    BY <1>0, ClosedRow DEF BeginPreparation, Cleaned, InsertProposals, Proposal
  <1>5. \A t \in Staff : ~SendProposal(t) /\ ~PartnerCallDies(t)
    BY DEF SendProposal, partnerTables, PartnerCallDies
  <1>6. \A t \in Staff, q \in Proposals :
           /\ ~SelectProposal(t, q) /\ ~CheckLease(t, q) /\ ~LoseLease(t, q)
           /\ \A decision \in PartnerDecisions : ~BeginResponse(t, q, decision)
    BY DEF SelectProposal, CheckLease, partnerTables, LoseLease, BeginResponse
  <1>7. \A t \in Staff, q \in Proposals : ~RecordResponse(t, q)
    BY <1>0, ClosedRow DEF RecordResponse, OptsOut
  <1>8. ASSUME NEW t \in Staff, NEW q \in Proposals, FinishDelivery(t, q) PROVE FALSE
    <2> DEFINE row == Finished(q, desk[t].outcome)
               box == IF outbox[q].holder = {t} THEN [outbox EXCEPT ![q] = row] ELSE outbox
    <2>1. row.status # "delivering"
      <3>1. /\ Proposal("delivered", 0, {}).status = "delivered"
            /\ Proposal("retryable", outbox[q].attempts, {}).status = "retryable"
        BY DEF Proposal
      <3> QED
        BY <3>1, ClosedRow DEF Finished
    <2>2. box[p].status # "delivering"
      <3> HIDE DEF row
      <3> QED
        BY <1>0, <2>1
    <2>3. outbox' = box \/ OptsOut(q.merchant, box)
      BY <1>8 DEF FinishDelivery
    <2> HIDE DEF box
    <2> QED
      BY <2>2, <2>3, ClosedRow DEF OptsOut
  <1>9. ASSUME NEW t \in Staff, NEW q \in Proposals, ClaimProposal(t, q) PROVE q = p
    BY <1>0, <1>9 DEF ClaimProposal
  <1> QED
    BY <1>1, <1>2, <1>3, <1>4, <1>5, <1>6, <1>7, <1>8, <1>9 DEF PartnersNext

\* Only a response makes a partner of a merchant, or ends that.
LEMMA RespondsAlone ==
  ASSUME PartnersNext, NEW d \in Merchants, relation'[d] # relation[d]
  PROVE  \E t \in Staff, p \in Proposals : RecordResponse(t, p)
  <1>1. relation' # relation
    OBVIOUS
  <1>2. ~RefreshOpportunities /\ ~RefreshLinks /\ ~RefreshPermissions
    BY <1>1 DEF RefreshOpportunities, RefreshLinks, RefreshPermissions
  <1>3. \A e \in Merchants :
           /\ ~FindMerchant(e) /\ ~VerifyManifest(e) /\ ~ProofExpires(e)
           /\ \A m \in Manifests \cup {NoManifest} : ~PublishManifest(e, m)
    BY <1>1 DEF FindMerchant, VerifyManifest, ProofExpires, PublishManifest
  <1>4. \A q \in Proposals : ~ProposalExpires(q) /\ ~RecoverDelivery(q)
    BY <1>1 DEF ProposalExpires, RecoverDelivery
  <1>5. \A t \in Staff : ~BeginPreparation(t) /\ ~InsertProposals(t)
    BY <1>1 DEF BeginPreparation, InsertProposals
  <1>6. \A t \in Staff : ~SendProposal(t) /\ ~PartnerCallDies(t)
    BY <1>1 DEF SendProposal, partnerTables, PartnerCallDies
  <1>7. \A t \in Staff, q \in Proposals :
           ~SelectProposal(t, q) /\ ~CheckLease(t, q) /\ ~LoseLease(t, q)
    BY <1>1 DEF SelectProposal, CheckLease, partnerTables, LoseLease
  <1>8. \A t \in Staff, q \in Proposals : ~ClaimProposal(t, q)
    BY <1>1 DEF ClaimProposal
  <1>9. \A t \in Staff, q \in Proposals : ~FinishDelivery(t, q)
    BY <1>1 DEF FinishDelivery
  <1>10. \A t \in Staff, q \in Proposals, decision \in PartnerDecisions :
            ~BeginResponse(t, q, decision)
    BY <1>1 DEF BeginResponse
  <1> QED
    BY <1>2, <1>3, <1>4, <1>5, <1>6, <1>7, <1>8, <1>9, <1>10 DEF PartnersNext

\* What a dispatcher claims is permitted, and an opt-out recorded by a response
\* is not taken back, in every step but one that writes on what is outdated.
LEMMA StepIsPermitted ==
  ASSUME PartnersInv, [PartnersNext]_partnerVars
  PROVE  \/ overlapped'
         \/ (\A p \in Proposals : ClaimIsPermitted(p)) /\ (\A d \in Merchants : OptOutStays(d))
  <1>0. /\ CallsTyped(PartnerWork) /\ FaultsTyped /\ MerchantsTyped /\ Suppression
        /\ \A u \in Staff : PartnerCallKnows(u)
    BY DEF PartnersInv
  <1>1. ASSUME NEW p \in Proposals, ~overlapped' PROVE ClaimIsPermitted(p)
    <2> SUFFICES ASSUME outbox[p].status # "delivering", outbox'[p].status = "delivering"
                 PROVE  Granted(p.merchant, p.manifest) /\ manifest[p.merchant] = p.manifest
      BY DEF ClaimIsPermitted
    <2>1. PartnersNext
      BY DEF partnerVars, partnerTables
    <2>2. PICK t \in Staff : ClaimProposal(t, p)
      BY <2>1, ClaimsAlone
    <2>3. outbox[p].status \in Waiting /\ desk[t].task = "claim" /\ matter[t] = {p}
      BY <2>2 DEF ClaimProposal
    <2>4. Writes(t, Work("send", "none", 0))
      BY <2>2, <2>3 DEF ClaimProposal
    <2>5. ~overlapped /\ t \notin outdated
      BY <1>1, <2>4 DEF Writes
    <2> QED
      BY <1>0, <2>3, <2>5, ClaimsWhatItRead DEF Sendable
  <1>2. ASSUME NEW d \in Merchants, ~overlapped' PROVE OptOutStays(d)
    <2> SUFFICES ASSUME relation[d] = "opted_out", relation'[d] # "opted_out"
                 PROVE  FALSE
      BY DEF OptOutStays
    <2>1. PartnersNext
      BY DEF partnerVars, partnerTables
    <2>2. PICK t \in Staff, p \in Proposals : RecordResponse(t, p)
      BY <2>1, RespondsAlone
    <2>3. /\ desk[t].task = "respond" /\ matter[t] = {p}
          /\ relation' = [relation EXCEPT ![p.merchant] = desk[t].outcome]
          /\ Writes(t, NoWork)
      BY <2>2 DEF RecordResponse
    <2>4. Current(t)
      BY <1>2, <2>3 DEF Writes, Current
    <2>5. PICK q \in Proposals :
             /\ matter[t] = {q}
             /\ Current(t) /\ q.merchant \in suppressed => desk[t].outcome = "opted_out"
      BY <1>0, <2>3 DEF PartnerCallKnows
    <2>6. q = p
      BY <2>3, <2>5
    <2>7. p.merchant = d
      BY <1>0, <2>3 DEF MerchantsTyped
    <2>8. desk[t].outcome = "opted_out"
      BY <1>0, <2>4, <2>5, <2>6, <2>7 DEF Suppression
    <2> QED
      BY <1>0, <2>3, <2>7, <2>8 DEF MerchantsTyped
  <1> QED
    BY <1>1, <1>2

\* However many dispatchers, preparations and responses are at work, and however
\* many of them die: a domain that has opted out has no permission; a merchant is
\* sent one proposal at a time, each three times or once more for every lease that
\* was taken back; what is claimed is permitted, and an opt-out by a response
\* stays, until a call writes over what another has read.
THEOREM OutreachStaysPermitted == PartnersSpec => OutreachIsPermitted
  <1>1. PartnersInv => SuppressionHolds /\ SentInTurn
    <2> SUFFICES ASSUME PartnersInv PROVE SuppressionHolds /\ SentInTurn
      OBVIOUS
    <2>1. SuppressionHolds
      BY DEF PartnersInv, Suppression, SuppressionHolds
    <2>2. ASSUME NEW p \in Proposals \ lapsed PROVE outbox[p].attempts <= MaxDeliveries
      <3>1. Attempts(p) /\ outbox[p] \in ProposalType
        BY DEF PartnersInv, ProposalsTyped
      <3> QED
        BY <2>2, <3>1 DEF Attempts, ProposalType, MaxDeliveries, Waiting
    <2> QED
      BY <2>1, <2>2 DEF PartnersInv, OneAtATime, SentInTurn
  <1> QED
    BY <1>1, PartnersInductive, StepIsPermitted, PTL DEF PartnersSpec, OutreachIsPermitted

-----------------------------------------------------------------------------
(* The foundation: the invariant.                                           *)

RulingWork ==
  [task : {"none", "enqueue", "review", "run", "verify", "check", "close"} \cup Starts,
   outcome : {"none"} \cup Reviews, left : {0}]

SessionStatuses ==
  {"none", "executing", "completed", "failed", "verified", "manual_review", "rejected"}

ConnectorStatuses == {"none", "queued", "leased", "completed", "closed"}

QueueTyped ==
  /\ queue \in [Rulings -> [status : {"none", "pending"} \cup Reviews, targets : SUBSET Targets]]
  /\ slipped \subseteq overdue /\ overdue \subseteq Rulings

SupplyTyped ==
  /\ session \in [Sessions -> SessionStatuses]
  /\ supplier \in [Sessions -> {"none"} \cup Starts]
  /\ connectorTask \in ConnectorStatuses
  /\ repeated \in BOOLEAN
  /\ counted \in {"none", "single", "divided", "agreed"}

TopicsTyped == topic \in [Staff -> SUBSET (Targets \cup Rulings \cup Sessions)]

\* The calls about to store a session of the order, and those that have one.
Executing == {t \in Staff : desk[t].task \in Starts}

OfSession(t) == desk[t].task \in {"run", "verify", "check"}

WorksFor(t, kind) ==
  \/ desk[t].task = kind
  \/ OfSession(t) /\ \E x \in Sessions : topic[t] = {x} /\ supplier[x] = kind

\* Each call about to store a session has one.
EnoughSessions == Cardinality(Executing) <= Cardinality(UnusedSessions)

\* Two calls do not share a session.
OwnSessions ==
  \A t, u \in Staff : OfSession(t) /\ OfSession(u) /\ topic[t] = topic[u] => t = u

\* What each call knows of its topic.
RulingCallKnows(t) ==
  /\ desk[t].task = "enqueue" => \E g \in Targets :
       /\ topic[t] = {g}
       /\ Current(t) => \A d \in Rulings : Pending(d) => queue[d].targets # {g}
  /\ desk[t].task = "review" => \E d \in Rulings :
       /\ topic[t] = {d} /\ desk[t].outcome \in Reviews
       /\ d \in overdue \ slipped => desk[t].outcome = "expired"
  /\ OfSession(t) => \E x \in Sessions :
       /\ topic[t] = {x}
       /\ session[x] = IF desk[t].task = "run" THEN "executing" ELSE "completed"
  /\ WorksFor(t, "execute") /\ Current(t) => VerifiedSessions = {}
  /\ WorksFor(t, "connect") /\ Current(t) /\ ~repeated => ContributionsOf("connect") = {}

RulingsInv ==
  /\ CallsTyped(RulingWork) /\ FaultsTyped /\ QueueTyped /\ SupplyTyped /\ TopicsTyped
  /\ PendingIsSingle
  /\ EnoughSessions /\ OwnSessions /\ SuppliedOnce
  /\ \A t \in Staff : RulingCallKnows(t)

LEMMA NoRulingWork == NoWork \in RulingWork
  BY DEF NoWork, Work, RulingWork

LEMMA IdleCall ==
  ASSUME NEW t \in Staff, t \notin Busy
  PROVE  desk[t].task = "none"
  BY NoWorkTask DEF Busy

LEMMA InitRulingsInv == RulingsInit => RulingsInv
  <1> SUFFICES ASSUME RulingsInit PROVE RulingsInv
    OBVIOUS
  <1>1. CallsTyped(RulingWork)
    BY NoRulingWork DEF RulingsInit, CallsInit, CallsTyped
  <1>2. FaultsTyped
    BY FaultsAssumption DEF RulingsInit, FaultsTyped
  <1>3. \A t \in Staff : desk[t].task = "none"
    BY NoWorkTask DEF RulingsInit, CallsInit
  <1>4. QueueTyped /\ PendingIsSingle
    <2>1. NoEntry \in [status : {"none", "pending"} \cup Reviews, targets : SUBSET Targets]
      BY DEF NoEntry, Entry
    <2>2. \A d \in Rulings : ~Pending(d)
      BY DEF RulingsInit, Pending, NoEntry, Entry
    <2> QED
      BY <2>1, <2>2 DEF RulingsInit, QueueTyped, PendingIsSingle
  <1>5. SupplyTyped /\ TopicsTyped /\ SuppliedOnce
    BY DEF RulingsInit, SupplyTyped, SessionStatuses, ConnectorStatuses, TopicsTyped, SuppliedOnce,
       AreOne, ContributionsOf, VerifiedSessions
  <1>7. OwnSessions /\ EnoughSessions
    <2>1. Executing = {}
      BY <1>3 DEF Executing, Starts
    <2>2. Cardinality(Executing) = 0 /\ Cardinality(UnusedSessions) \in Nat
      BY <2>1, RulingsAssumption, FS_EmptySet, FS_Subset, FS_CardinalityType DEF UnusedSessions
    <2> QED
      BY <1>3, <2>2 DEF OwnSessions, OfSession, EnoughSessions
  <1>8. \A t \in Staff : RulingCallKnows(t)
    BY <1>3 DEF RulingCallKnows, OfSession, WorksFor
  <1> QED
    BY <1>1, <1>2, <1>4, <1>5, <1>7, <1>8 DEF RulingsInv

-----------------------------------------------------------------------------
(* The foundation: what a step leaves alone.                                *)

\* A call that does not move knows what it knew, or is no longer current.
LEMMA RulingKnowsKept ==
  ASSUME NEW t \in Staff, RulingCallKnows(t), desk'[t] = desk[t], topic'[t] = topic[t],
         desk[t].task = "enqueue" /\ Current(t)' =>
           /\ Current(t)
           /\ \A d \in Rulings : Pending(d)' => Pending(d) /\ queue'[d].targets = queue[d].targets,
         \A d \in Rulings : topic[t] = {d} /\ d \in overdue' \ slipped' => d \in overdue \ slipped,
         OfSession(t) => \A x \in Sessions :
           topic[t] = {x} => session'[x] = session[x] /\ supplier'[x] = supplier[x],
         (OfSession(t) \/ desk[t].task \in Starts) /\ Current(t)' =>
           /\ Current(t) /\ (repeated => repeated')
           /\ VerifiedSessions' = VerifiedSessions
           /\ ContributionsOf("connect")' = ContributionsOf("connect")
  PROVE  RulingCallKnows(t)'
  <1>1. /\ OfSession(t)' <=> OfSession(t)
        /\ WorksFor(t, "execute")' => WorksFor(t, "execute")
        /\ WorksFor(t, "connect")' => WorksFor(t, "connect")
    BY DEF OfSession, WorksFor
  <1>2. WorksFor(t, "execute") \/ WorksFor(t, "connect") => OfSession(t) \/ desk[t].task \in Starts
    BY DEF WorksFor, Starts
  <1>3. OfSession(t)' => \E x \in Sessions :
          /\ topic'[t] = {x}
          /\ session'[x] = IF desk'[t].task = "run" THEN "executing" ELSE "completed"
    BY <1>1 DEF RulingCallKnows
  <1>4. /\ WorksFor(t, "execute")' /\ Current(t)' => VerifiedSessions' = {}
        /\ WorksFor(t, "connect")' /\ Current(t)' /\ ~repeated' => ContributionsOf("connect")' = {}
    BY <1>1, <1>2 DEF RulingCallKnows
  <1> QED
    BY <1>3, <1>4 DEF RulingCallKnows

LEMMA RulingIdle ==
  ASSUME NEW t \in Staff, desk'[t].task \in {"none", "close"}
  PROVE  RulingCallKnows(t)'
  BY DEF RulingCallKnows, OfSession, WorksFor

\* What is written of sessions that are not verified, neither before nor after,
\* leaves the contributions as they are.
LEMMA ContributionsKept ==
  ASSUME \A x \in Sessions : session'[x] = "verified" <=> session[x] = "verified",
         \A x \in VerifiedSessions : supplier'[x] = supplier[x]
  PROVE  /\ VerifiedSessions' = VerifiedSessions
         /\ ContributionsOf("execute")' = ContributionsOf("execute")
         /\ ContributionsOf("connect")' = ContributionsOf("connect")
         /\ (\E x \in VerifiedSessions : supplier[x] # "execute") <=>
              (\E x \in VerifiedSessions : supplier[x] # "execute")'
  <1>1. VerifiedSessions' = VerifiedSessions
    BY DEF VerifiedSessions
  <1> QED
    BY <1>1 DEF ContributionsOf

LEMMA SuppliedOnceKept ==
  ASSUME SuppliedOnce, overlapped => overlapped', repeated => repeated', counted' = counted,
         \A x \in Sessions : session'[x] = "verified" <=> session[x] = "verified",
         \A x \in VerifiedSessions : supplier'[x] = supplier[x]
  PROVE  SuppliedOnce'
  BY ContributionsKept DEF SuppliedOnce, AreOne

\* A step of the queue leaves the order alone,
LEMMA SupplyKept ==
  ASSUME RulingsInv, UNCHANGED supplyTables, overlapped => overlapped',
         \A u \in Staff :
            /\ desk'[u].task \in Starts <=> desk[u].task \in Starts
            /\ OfSession(u)' => OfSession(u) /\ topic'[u] = topic[u]
  PROVE  SupplyTyped' /\ EnoughSessions' /\ OwnSessions' /\ SuppliedOnce'
  <1>1. SupplyTyped'
    BY DEF RulingsInv, SupplyTyped, supplyTables
  <1>2. EnoughSessions'
    <2>1. Executing' = Executing
      BY DEF Executing
    <2>2. UnusedSessions' = UnusedSessions
      BY DEF UnusedSessions, supplyTables
    <2> QED
      BY <2>1, <2>2 DEF RulingsInv, EnoughSessions
  <1>3. OwnSessions'
    BY DEF RulingsInv, OwnSessions
  <1>4. SuppliedOnce'
    BY SuppliedOnceKept DEF RulingsInv, supplyTables
  <1> QED
    BY <1>1, <1>2, <1>3, <1>4

\* and a step of the supplier pipeline the queue.
LEMMA QueueKept ==
  ASSUME RulingsInv, UNCHANGED queueTables, overlapped => overlapped'
  PROVE  QueueTyped' /\ PendingIsSingle'
  BY DEF RulingsInv, QueueTyped, PendingIsSingle, Pending, queueTables

-----------------------------------------------------------------------------
(* The foundation: each step keeps the invariant.                           *)

LEMMA BeginsQueueInv ==
  ASSUME RulingsInv, NEW t \in Staff, BeginEnqueue(t) \/ BeginReview(t)
  PROVE  RulingsInv'
  <1>0. /\ CallsTyped(RulingWork) /\ FaultsTyped /\ QueueTyped /\ SupplyTyped /\ TopicsTyped
        /\ PendingIsSingle
        /\ EnoughSessions /\ OwnSessions /\ SuppliedOnce
        /\ \A u \in Staff : RulingCallKnows(u)
    BY DEF RulingsInv
  <1>1. PICK task \in {"enqueue", "review"}, outcome \in {"none"} \cup Reviews,
             thing \in Targets \cup Rulings :
           /\ Takes(t, Work(task, outcome, 0))
           /\ topic' = [topic EXCEPT ![t] = {thing}]
           /\ task = "enqueue" =>
                /\ thing \in Targets
                /\ \A d \in Rulings : Pending(d) => queue[d].targets # {thing}
           /\ task = "review" =>
                /\ thing \in Rulings /\ outcome \in Reviews
                /\ thing \in overdue => outcome = "expired"
    <2>1. CASE BeginEnqueue(t)
      BY <2>1 DEF BeginEnqueue, Decides
    <2>2. CASE BeginReview(t)
      <3>1. PICK d \in Rulings, verdict \in Reviews :
               /\ topic' = [topic EXCEPT ![t] = {d}]
               /\ Takes(t, Work("review", IF d \in overdue THEN "expired" ELSE verdict, 0))
        BY <2>2 DEF BeginReview, Decides
      <3>2. "expired" \in Reviews
        BY DEF Reviews
      <3> QED
        BY <3>1, <3>2
    <2> QED
      BY <2>1, <2>2
  <1>2. UNCHANGED <<queueTables, supplyTables>>
    BY DEF BeginEnqueue, BeginReview
  <1>3. Work(task, outcome, 0) \in RulingWork
    BY DEF Work, RulingWork
  <1>4. /\ CallsTyped(RulingWork)' /\ FaultsTyped'
        /\ t \notin Busy /\ desk'[t] = Work(task, outcome, 0)
        /\ \A u \in Staff : u # t => desk'[u] = desk[u]
        /\ UNCHANGED <<outdated, overlapped>>
    BY <1>0, <1>1, <1>3, TakesEffect
  <1>5. desk[t].task = "none" /\ desk'[t].task = task /\ desk'[t].outcome = outcome
    BY <1>4, IdleCall DEF Work
  <1>6. /\ TopicsTyped' /\ topic'[t] = {thing}
        /\ \A u \in Staff : u # t => topic'[u] = topic[u]
    BY <1>0, <1>1 DEF TopicsTyped
  <1>7. QueueTyped' /\ PendingIsSingle'
    BY <1>2, <1>4, QueueKept
  <1>8. SupplyTyped' /\ EnoughSessions' /\ OwnSessions' /\ SuppliedOnce'
    BY <1>2, <1>4, <1>5, <1>6, SupplyKept DEF OfSession, Starts
  <1>9. ASSUME NEW u \in Staff, u # t PROVE RulingCallKnows(u)'
    BY <1>0, <1>2, <1>4, <1>6, <1>9, RulingKnowsKept
       DEF Current, Pending, VerifiedSessions, ContributionsOf, queueTables, supplyTables
  <1>10. RulingCallKnows(t)'
    BY <1>1, <1>2, <1>5, <1>6 DEF RulingCallKnows, OfSession, WorksFor, Pending, queueTables
  <1> QED
    BY <1>4, <1>6, <1>7, <1>8, <1>9, <1>10 DEF RulingsInv

\* A decision becomes pending: if the call is current, no other is, about its
\* target, and no other call is current any more.
LEMMA EnqueueDecisionInv ==
  ASSUME RulingsInv, NEW t \in Staff, EnqueueDecision(t)
  PROVE  RulingsInv'
  <1>0. /\ CallsTyped(RulingWork) /\ FaultsTyped /\ QueueTyped /\ SupplyTyped /\ TopicsTyped
        /\ PendingIsSingle
        /\ EnoughSessions /\ OwnSessions /\ SuppliedOnce
        /\ \A u \in Staff : RulingCallKnows(u)
    BY DEF RulingsInv
  <1>1. PICK g \in Targets :
           /\ topic[t] = {g}
           /\ Current(t) => \A d \in Rulings : Pending(d) => queue[d].targets # {g}
    BY <1>0 DEF EnqueueDecision, RulingCallKnows
  <1>2. PICK e \in Rulings : queue[e] = NoEntry /\ queue' = [queue EXCEPT ![e] = Entry("pending", {g})]
    BY <1>1 DEF EnqueueDecision
  <1>3. /\ desk[t].task = "enqueue"
        /\ topic' = [topic EXCEPT ![t] = {}]
        /\ Writes(t, NoWork)
        /\ UNCHANGED <<overdue, slipped, supplyTables>>
    BY DEF EnqueueDecision
  <1>4. /\ CallsTyped(RulingWork)' /\ FaultsTyped'
        /\ desk'[t] = NoWork
        /\ \A u \in Staff : u # t => desk'[u] = desk[u]
        /\ overlapped' = (overlapped \/ t \in outdated)
        /\ \A u \in Staff : u # t => desk[u].task = "none" \/ ~Current(u)'
    BY <1>0, <1>3, NoRulingWork, WritesEffect
  <1>5. /\ TopicsTyped' /\ topic'[t] = {}
        /\ \A u \in Staff : u # t => topic'[u] = topic[u]
    BY <1>0, <1>3 DEF TopicsTyped
  <1>6. /\ QueueTyped'
        /\ queue'[e].status = "pending" /\ queue'[e].targets = {g}
        /\ \A d \in Rulings : d # e => queue'[d] = queue[d]
    <2>1. /\ Entry("pending", {g}) \in [status : {"none", "pending"} \cup Reviews,
                                       targets : SUBSET Targets]
          /\ Entry("pending", {g}).status = "pending" /\ Entry("pending", {g}).targets = {g}
      BY DEF Entry
    <2> QED
      BY <1>0, <1>2, <1>3, <2>1 DEF QueueTyped
  <1>7. PendingIsSingle'
    BY <1>0, <1>1, <1>4, <1>6 DEF PendingIsSingle, Pending, Current
  <1>8. SupplyTyped' /\ EnoughSessions' /\ OwnSessions' /\ SuppliedOnce'
    BY <1>0, <1>3, <1>4, <1>5, NoWorkTask, SupplyKept DEF OfSession, Starts, CallsTyped
  <1>9. ASSUME NEW u \in Staff, u # t PROVE RulingCallKnows(u)'
    BY <1>0, <1>3, <1>4, <1>5, <1>9, RulingKnowsKept DEF supplyTables, OfSession, Starts
  <1>10. RulingCallKnows(t)'
    BY <1>4, NoWorkTask, RulingIdle
  <1> QED
    BY <1>4, <1>5, <1>6, <1>7, <1>8, <1>9, <1>10 DEF RulingsInv

\* A decision that is reviewed is not pending any more.
LEMMA ReviewInv ==
  ASSUME RulingsInv, NEW t \in Staff, Review(t)
  PROVE  RulingsInv'
  <1>0. /\ CallsTyped(RulingWork) /\ FaultsTyped /\ QueueTyped /\ SupplyTyped /\ TopicsTyped
        /\ PendingIsSingle
        /\ EnoughSessions /\ OwnSessions /\ SuppliedOnce
        /\ \A u \in Staff : RulingCallKnows(u)
    BY DEF RulingsInv
  <1>1. PICK e \in Rulings : topic[t] = {e} /\ desk[t].outcome \in Reviews
    BY <1>0 DEF Review, RulingCallKnows
  <1>2. /\ desk[t].task = "review"
        /\ topic' = [topic EXCEPT ![t] = {}]
        /\ UNCHANGED <<overdue, slipped, supplyTables, faults>>
    BY DEF Review
  <1>3. /\ CallsTyped(RulingWork)' /\ FaultsTyped'
        /\ desk'[t] = NoWork /\ UNCHANGED overlapped
        /\ \A u \in Staff : u # t => desk'[u] = desk[u] /\ (Current(u)' => Current(u))
    <2>1. CASE Pending(e)
      BY <1>0, <1>1, <1>2, <2>1, NoRulingWork
         DEF Review, Rewrites, CallsTyped, FaultsTyped, Current, Busy
    <2>2. CASE ~Pending(e)
      <3>1. Leaves(t)
        BY <1>1, <2>2 DEF Review
      <3> QED
        BY <1>0, <1>2, <3>1, NoRulingWork, LeavesEffect DEF FaultsTyped
    <2> QED
      BY <2>1, <2>2
  <1>4. /\ QueueTyped'
        /\ \A d \in Rulings : /\ queue'[d].targets = queue[d].targets
                              /\ Pending(d)' => Pending(d)
    <2>1. CASE Pending(e)
      <3>1. queue' = [queue EXCEPT ![e].status = desk[t].outcome]
        BY <1>1, <2>1 DEF Review
      <3>2. \A d \in Rulings : queue[d] \in [status : {"none", "pending"} \cup Reviews,
                                             targets : SUBSET Targets]
        BY <1>0 DEF QueueTyped
      <3> QED
        BY <1>0, <1>1, <1>2, <2>1, <3>1, <3>2 DEF QueueTyped, Pending
    <2>2. CASE ~Pending(e)
      <3>1. queue' = queue
        BY <1>1, <2>2 DEF Review
      <3> QED
        BY <1>0, <1>2, <3>1 DEF QueueTyped, Pending
    <2> QED
      BY <2>1, <2>2
  <1>5. /\ TopicsTyped' /\ topic'[t] = {}
        /\ \A u \in Staff : u # t => topic'[u] = topic[u]
    BY <1>0, <1>2 DEF TopicsTyped
  <1>6. PendingIsSingle'
    BY <1>0, <1>3, <1>4 DEF PendingIsSingle, Pending
  <1>7. SupplyTyped' /\ EnoughSessions' /\ OwnSessions' /\ SuppliedOnce'
    BY <1>2, <1>3, <1>5, NoWorkTask, SupplyKept DEF OfSession, Starts
  <1>8. ASSUME NEW u \in Staff, u # t PROVE RulingCallKnows(u)'
    BY <1>0, <1>2, <1>3, <1>4, <1>5, <1>8, RulingKnowsKept
       DEF supplyTables, VerifiedSessions, ContributionsOf, Pending
  <1>9. RulingCallKnows(t)'
    BY <1>3, NoWorkTask, RulingIdle
  <1> QED
    BY <1>3, <1>4, <1>5, <1>6, <1>7, <1>8, <1>9 DEF RulingsInv

\* A decision is overdue: if a review is about it, it has slipped.
LEMMA OverdueInv ==
  ASSUME RulingsInv, NEW e \in Rulings, Overdue(e)
  PROVE  RulingsInv'
  <1>0. /\ CallsTyped(RulingWork) /\ FaultsTyped /\ QueueTyped /\ SupplyTyped /\ TopicsTyped
        /\ PendingIsSingle
        /\ EnoughSessions /\ OwnSessions /\ SuppliedOnce
        /\ \A u \in Staff : RulingCallKnows(u)
    BY DEF RulingsInv
  <1>1. /\ UNCHANGED <<queue, supplyTables, topic, desk, outdated, overlapped, faults>>
        /\ overdue' = overdue \cup {e} /\ e \notin overdue
        /\ slipped' = IF \E t \in Staff : topic[t] = {e} THEN slipped \cup {e} ELSE slipped
    BY DEF Overdue, callVars
  <1>2. /\ CallsTyped(RulingWork)' /\ FaultsTyped' /\ TopicsTyped' /\ QueueTyped'
        /\ PendingIsSingle'
    BY <1>0, <1>1 DEF CallsTyped, FaultsTyped, TopicsTyped, QueueTyped, PendingIsSingle, Pending
  <1>3. SupplyTyped' /\ EnoughSessions' /\ OwnSessions' /\ SuppliedOnce'
    BY <1>1, SupplyKept DEF OfSession
  <1>4. ASSUME NEW u \in Staff PROVE RulingCallKnows(u)'
    <2>1. \A d \in Rulings : topic[u] = {d} /\ d \in overdue' \ slipped' => d \in overdue \ slipped
      BY <1>1
    <2> QED
      BY <1>0, <1>1, <2>1, RulingKnowsKept
         DEF Current, Pending, supplyTables, VerifiedSessions, ContributionsOf
  <1> QED
    BY <1>2, <1>3, <1>4 DEF RulingsInv

\* The sessions there are, and the calls about to store one.
LEMMA SessionsAreFinite ==
  /\ IsFiniteSet(Executing) /\ IsFiniteSet(UnusedSessions)
  /\ Cardinality(Executing) \in Nat /\ Cardinality(UnusedSessions) \in Nat
  <1>1. Executing \subseteq Staff /\ UnusedSessions \subseteq Sessions
    BY DEF Executing, UnusedSessions
  <1> QED
    BY <1>1, RulingsAssumption, FS_Subset, FS_CardinalityType

LEMMA RulingsParts ==
  RulingsInv <=>
    /\ CallsTyped(RulingWork) /\ FaultsTyped /\ QueueTyped /\ SupplyTyped /\ TopicsTyped
    /\ PendingIsSingle
    /\ EnoughSessions /\ OwnSessions /\ SuppliedOnce
    /\ \A u \in Staff : RulingCallKnows(u)
  BY DEF RulingsInv

\* A call is to store a session: there is one for it.  For the pipeline none is
\* verified; for the connector none of its own, unless the task is verified again.
LEMMA BeginsSupplyInv ==
  ASSUME RulingsInv, NEW t \in Staff, BeginSupply(t) \/ InstructSupply(t) \/ BeginVerification(t)
  PROVE  RulingsInv'
  <1>0. /\ CallsTyped(RulingWork) /\ FaultsTyped /\ QueueTyped /\ SupplyTyped /\ TopicsTyped
        /\ PendingIsSingle
        /\ EnoughSessions /\ OwnSessions /\ SuppliedOnce
        /\ \A u \in Staff : RulingCallKnows(u)
    BY RulingsParts
  <1>1. PICK kind \in Starts :
           /\ Takes(t, Work(kind, "none", 0)) /\ MayBegin
           /\ UNCHANGED <<queueTables, session, supplier, connectorTask, counted, topic>>
           /\ repeated' \in BOOLEAN /\ (repeated => repeated')
           /\ kind = "execute" => VerifiedSessions = {}
           /\ kind = "connect" /\ ~repeated' => ContributionsOf("connect") = {}
    <2>1. CASE BeginSupply(t)
      BY <1>0, <2>1 DEF BeginSupply, Decides, supplyTables, SupplyTyped, Starts
    <2>2. CASE InstructSupply(t)
      BY <1>0, <2>2 DEF InstructSupply, Decides, supplyTables, SupplyTyped, Starts
    <2>3. CASE BeginVerification(t)
      BY <1>0, <2>3 DEF BeginVerification, Answered, Decides, SupplyTyped, Starts
    <2> QED
      BY <2>1, <2>2, <2>3
  <1> DEFINE work == Work(kind, "none", 0)
  <1>2. work \in RulingWork /\ work.task = kind
    BY DEF Work, RulingWork
  <1>a. Takes(t, work)
    BY <1>1
  <1> HIDE DEF work
  <1>3. /\ CallsTyped(RulingWork)' /\ FaultsTyped'
        /\ t \notin Busy /\ desk'[t] = work
        /\ \A u \in Staff : u # t => desk'[u] = desk[u]
        /\ UNCHANGED <<outdated, overlapped>>
    BY <1>0, <1>a, <1>2, TakesEffect
  <1>4. desk[t].task = "none"
    BY <1>3, IdleCall
  <1>5. SupplyTyped' /\ TopicsTyped' /\ QueueTyped' /\ PendingIsSingle'
    BY <1>0, <1>1, <1>3, QueueKept DEF SupplyTyped, TopicsTyped
  <1>6. EnoughSessions'
    <2>1. Executing' = Executing \cup {t} /\ t \notin Executing
      BY <1>2, <1>3, <1>4 DEF Executing, Starts
    <2>2. Cardinality(Executing') = Cardinality(Executing) + 1
      BY <2>1, SessionsAreFinite, FS_AddElement
    <2>3. Cardinality(Executing) < Cardinality(UnusedSessions)
      BY <1>1, SessionsAreFinite DEF MayBegin, Executing
    <2>4. UnusedSessions' = UnusedSessions
      BY <1>1 DEF UnusedSessions
    <2> QED
      BY <2>2, <2>3, <2>4, SessionsAreFinite DEF EnoughSessions
  <1>7. /\ VerifiedSessions' = VerifiedSessions
        /\ ContributionsOf("connect")' = ContributionsOf("connect")
    BY <1>1, ContributionsKept
  <1>8. OwnSessions' /\ SuppliedOnce'
    <2>1. OwnSessions'
      <3>1. ~OfSession(t)' /\ \A u \in Staff : u # t => (OfSession(u)' <=> OfSession(u))
        BY <1>2, <1>3 DEF OfSession, Starts
      <3> QED
        BY <1>0, <1>1, <3>1 DEF OwnSessions
    <2>2. SuppliedOnce'
      BY <1>0, <1>1, <1>3, SuppliedOnceKept
    <2> QED
      BY <2>1, <2>2
  <1>9. ASSUME NEW u \in Staff, u # t PROVE RulingCallKnows(u)'
    BY <1>0, <1>1, <1>3, <1>7, <1>9, RulingKnowsKept DEF queueTables, Current, Pending
  <1>10. RulingCallKnows(t)'
    <2>1. ~OfSession(t)' /\ desk'[t].task = kind /\ desk'[t].task \notin {"enqueue", "review"}
      BY <1>2, <1>3 DEF OfSession, Starts
    <2> QED
      BY <1>1, <1>7, <2>1 DEF RulingCallKnows, WorksFor
  <1> QED
    BY <1>3, <1>5, <1>6, <1>8, <1>9, <1>10 DEF RulingsInv

\* The call stores a session that no other has.
LEMMA NewSessionInv ==
  ASSUME RulingsInv, NEW t \in Staff, StartSession(t) \/ StoreContribution(t)
  PROVE  RulingsInv' /\ VerifiedStays
  <1>0. /\ CallsTyped(RulingWork) /\ FaultsTyped /\ QueueTyped /\ SupplyTyped /\ TopicsTyped
        /\ PendingIsSingle
        /\ EnoughSessions /\ OwnSessions /\ SuppliedOnce
        /\ \A u \in Staff : RulingCallKnows(u)
    BY RulingsParts
  <1>1. PICK status \in {"executing", "completed"}, next \in {"run", "check"} :
           /\ NewSession(t, status, next) /\ desk[t].task \in Starts
           /\ status = IF next = "run" THEN "executing" ELSE "completed"
    BY DEF StartSession, StoreContribution, Starts
  <1>2. PICK x \in UnusedSessions :
           /\ session' = [session EXCEPT ![x] = status]
           /\ supplier' = [supplier EXCEPT ![x] = desk[t].task]
           /\ topic' = [topic EXCEPT ![t] = {x}]
    <2>1. UnusedSessions # {}
      <3>1. t \in Executing
        BY <1>1 DEF Executing
      <3>2. Cardinality(Executing) # 0
        BY <3>1, SessionsAreFinite, FS_EmptySet
      <3>3. Cardinality(UnusedSessions) # 0
        BY <1>0, <3>2, SessionsAreFinite DEF EnoughSessions
      <3> QED
        BY <3>3, FS_EmptySet
    <2> QED
      BY <1>1, <2>1 DEF NewSession
  <1>3. /\ desk' = [desk EXCEPT ![t].task = next]
        /\ UNCHANGED <<queueTables, connectorTask, repeated, counted, outdated, overlapped, faults>>
    BY <1>1 DEF NewSession
  <1>4. /\ CallsTyped(RulingWork)' /\ FaultsTyped'
        /\ desk'[t].task = next
        /\ \A u \in Staff : u # t => desk'[u] = desk[u]
    <2>1. desk \in [Staff -> RulingWork] /\ desk[t] \in RulingWork
      BY <1>0 DEF CallsTyped
    <2>2. [desk[t] EXCEPT !.task = next] \in RulingWork /\ [desk[t] EXCEPT !.task = next].task = next
      BY <2>1 DEF RulingWork
    <2>3. desk' = [desk EXCEPT ![t] = [desk[t] EXCEPT !.task = next]]
      BY <1>3, <2>1
    <2> QED
      BY <1>0, <1>3, <2>1, <2>2, <2>3 DEF CallsTyped, FaultsTyped
  <1>5. /\ x \in Sessions /\ session[x] = "none" /\ session'[x] = status
        /\ session' \in [Sessions -> SessionStatuses]
        /\ \A y \in Sessions : y # x => session'[y] = session[y]
    BY <1>0, <1>2 DEF UnusedSessions, SupplyTyped, SessionStatuses
  <1>6. /\ supplier' \in [Sessions -> {"none"} \cup Starts] /\ supplier'[x] = desk[t].task
        /\ \A y \in Sessions : y # x => supplier'[y] = supplier[y]
    BY <1>0, <1>1, <1>2, <1>5 DEF SupplyTyped
  <1>7. /\ TopicsTyped' /\ topic'[t] = {x}
        /\ \A u \in Staff : u # t => topic'[u] = topic[u]
    BY <1>0, <1>2, <1>5 DEF TopicsTyped
  <1>8. SupplyTyped' /\ QueueTyped' /\ PendingIsSingle'
    BY <1>0, <1>3, <1>5, <1>6, QueueKept DEF SupplyTyped
  <1>9. EnoughSessions'
    <2>1. Executing' = Executing \ {t} /\ t \in Executing
      BY <1>1, <1>4 DEF Executing, Starts
    <2>2. UnusedSessions' = UnusedSessions \ {x}
      BY <1>5 DEF UnusedSessions
    <2>3. /\ Cardinality(Executing') = Cardinality(Executing) - 1
          /\ Cardinality(UnusedSessions') = Cardinality(UnusedSessions) - 1
      BY <1>2, <2>1, <2>2, SessionsAreFinite, FS_RemoveElement
    <2> QED
      BY <1>0, <2>3, SessionsAreFinite DEF EnoughSessions
  <1>10. /\ \A y \in Sessions : session'[y] = "verified" <=> session[y] = "verified"
         /\ \A y \in VerifiedSessions : supplier'[y] = supplier[y]
    BY <1>5, <1>6 DEF VerifiedSessions
  <1>11. /\ VerifiedSessions' = VerifiedSessions
         /\ ContributionsOf("connect")' = ContributionsOf("connect")
         /\ SuppliedOnce'
    BY <1>0, <1>3, <1>10, ContributionsKept, SuppliedOnceKept
  <1>12. \A u \in Staff : OfSession(u) => topic[u] # {x}
    BY <1>0, <1>5 DEF RulingCallKnows
  <1>13. OwnSessions'
    <2>1. \A u \in Staff : u # t => (OfSession(u)' <=> OfSession(u))
      BY <1>4 DEF OfSession
    <2> QED
      BY <1>0, <1>7, <1>12, <2>1 DEF OwnSessions
  <1>14. ASSUME NEW u \in Staff, u # t PROVE RulingCallKnows(u)'
    <2>1. OfSession(u) => \A y \in Sessions :
            topic[u] = {y} => session'[y] = session[y] /\ supplier'[y] = supplier[y]
      BY <1>5, <1>6, <1>12
    <2> QED
      BY <1>0, <1>3, <1>4, <1>7, <1>11, <1>14, <2>1, RulingKnowsKept DEF queueTables, Current, Pending
  <1>15. RulingCallKnows(t)'
    <2>1. \A kind \in {"execute", "connect"} : WorksFor(t, kind)' => WorksFor(t, kind)
      BY <1>4, <1>6, <1>7 DEF WorksFor
    <2>2. OfSession(t)' => /\ topic'[t] = {x}
                           /\ session'[x] = IF desk'[t].task = "run" THEN "executing" ELSE "completed"
      BY <1>1, <1>4, <1>5, <1>7
    <2>3. desk'[t].task \notin {"enqueue", "review"} /\ (Current(t)' <=> Current(t)) /\ repeated' = repeated
      BY <1>3, <1>4 DEF Current
    <2>4. /\ WorksFor(t, "execute")' /\ Current(t)' => VerifiedSessions' = {}
          /\ WorksFor(t, "connect")' /\ Current(t)' /\ ~repeated' => ContributionsOf("connect")' = {}
      BY <1>0, <1>11, <2>1, <2>3 DEF RulingCallKnows
    <2> QED
      BY <1>5, <2>2, <2>3, <2>4 DEF RulingCallKnows
  <1> QED
    BY <1>4, <1>7, <1>8, <1>9, <1>11, <1>13, <1>14, <1>15 DEF RulingsInv, VerifiedStays

\* What a call writes of its session is of no other call, nor of one unused or
\* verified.
LEMMA SessionWritten ==
  ASSUME RulingsInv, NEW t \in Staff, OfSession(t), NEW v \in SessionStatuses \ {"none"},
         EndSession(t, v)
  PROVE  \E x \in Sessions :
           /\ topic[t] = {x} /\ session[x] \in {"executing", "completed"}
           /\ session' \in [Sessions -> SessionStatuses] /\ session'[x] = v
           /\ \A y \in Sessions : y # x => session'[y] = session[y]
           /\ UnusedSessions' = UnusedSessions
           /\ VerifiedSessions' = IF v = "verified" THEN VerifiedSessions \cup {x}
                                  ELSE VerifiedSessions
           /\ \A u \in Staff : u # t /\ OfSession(u) => topic[u] # {x}
  <1>0. SupplyTyped /\ OwnSessions /\ RulingCallKnows(t)
    BY RulingsParts
  <1>1. PICK x \in Sessions : topic[t] = {x} /\ session[x] \in {"executing", "completed"}
    BY <1>0 DEF RulingCallKnows
  <1>2. /\ session' \in [Sessions -> SessionStatuses] /\ session'[x] = v
        /\ \A y \in Sessions : y # x => session'[y] = session[y]
    BY <1>0, <1>1 DEF SupplyTyped, EndSession
  <1>3. UnusedSessions' = UnusedSessions
    BY <1>1, <1>2 DEF UnusedSessions
  <1>4. VerifiedSessions' = IF v = "verified" THEN VerifiedSessions \cup {x} ELSE VerifiedSessions
    BY <1>1, <1>2 DEF VerifiedSessions
  <1>5. \A u \in Staff : u # t /\ OfSession(u) => topic[u] # {x}
    BY <1>0, <1>1 DEF OwnSessions
  <1> QED
    BY <1>1, <1>2, <1>3, <1>4, <1>5

LEMMA CompleteSessionInv ==
  ASSUME RulingsInv, NEW t \in Staff, CompleteSession(t)
  PROVE  RulingsInv' /\ VerifiedStays
  <1>0. /\ CallsTyped(RulingWork) /\ FaultsTyped /\ QueueTyped /\ SupplyTyped /\ TopicsTyped
        /\ PendingIsSingle
        /\ EnoughSessions /\ OwnSessions /\ SuppliedOnce
        /\ \A u \in Staff : RulingCallKnows(u)
    BY RulingsParts
  <1>1. /\ desk[t].task = "run" /\ OfSession(t)
        /\ EndSession(t, "completed")
        /\ desk' = [desk EXCEPT ![t].task = "verify"]
        /\ UNCHANGED <<queueTables, supplier, connectorTask, repeated, counted, topic, outdated,
                       overlapped, faults>>
    BY DEF CompleteSession, OfSession
  <1>2. PICK x \in Sessions :
           /\ topic[t] = {x}
           /\ session' \in [Sessions -> SessionStatuses] /\ session'[x] = "completed"
           /\ \A y \in Sessions : y # x => session'[y] = session[y]
           /\ UnusedSessions' = UnusedSessions
           /\ VerifiedSessions' = VerifiedSessions
           /\ \A u \in Staff : u # t /\ OfSession(u) => topic[u] # {x}
    <2>1. "completed" \in SessionStatuses \ {"none"}
      BY DEF SessionStatuses
    <2> QED
      BY <1>1, <2>1, SessionWritten, SMTT(30)
  <1>3. /\ CallsTyped(RulingWork)' /\ FaultsTyped'
        /\ desk'[t].task = "verify"
        /\ \A u \in Staff : u # t => desk'[u] = desk[u]
    <2>1. desk \in [Staff -> RulingWork] /\ desk[t] \in RulingWork
      BY <1>0 DEF CallsTyped
    <2>2. /\ [desk[t] EXCEPT !.task = "verify"] \in RulingWork
          /\ [desk[t] EXCEPT !.task = "verify"].task = "verify"
      BY <2>1 DEF RulingWork
    <2>3. desk' = [desk EXCEPT ![t] = [desk[t] EXCEPT !.task = "verify"]]
      BY <1>1, <2>1
    <2> QED
      BY <1>0, <1>1, <2>1, <2>2, <2>3 DEF CallsTyped, FaultsTyped
  <1>4. SupplyTyped' /\ TopicsTyped' /\ QueueTyped' /\ PendingIsSingle'
    BY <1>0, <1>1, <1>2, QueueKept DEF SupplyTyped, TopicsTyped
  <1>5. EnoughSessions'
    <2>1. Executing' = Executing
      BY <1>1, <1>3 DEF Executing, Starts
    <2> QED
      BY <1>0, <1>2, <2>1 DEF EnoughSessions
  <1>6. /\ ContributionsOf("connect")' = ContributionsOf("connect")
        /\ SuppliedOnce'
    BY <1>0, <1>1, <1>2, ContributionsKept, SuppliedOnceKept DEF VerifiedSessions
  <1>7. \A u \in Staff : OfSession(u)' <=> OfSession(u)
    BY <1>1, <1>3 DEF OfSession
  <1>8. OwnSessions'
    BY <1>0, <1>1, <1>7 DEF OwnSessions
  <1>9. ASSUME NEW u \in Staff, u # t PROVE RulingCallKnows(u)'
    <2>1. OfSession(u) => \A y \in Sessions :
            topic[u] = {y} => session'[y] = session[y] /\ supplier'[y] = supplier[y]
      BY <1>1, <1>2, <1>9
    <2> QED
      BY <1>0, <1>1, <1>2, <1>3, <1>6, <1>9, <2>1, RulingKnowsKept DEF queueTables, Current, Pending
  <1>10. RulingCallKnows(t)'
    <2>1. \A kind \in {"execute", "connect"} : WorksFor(t, kind)' => WorksFor(t, kind)
      BY <1>1, <1>3, <1>7 DEF WorksFor
    <2>2. /\ desk'[t].task \notin {"enqueue", "review"}
          /\ (Current(t)' <=> Current(t)) /\ repeated' = repeated
      BY <1>1, <1>3 DEF Current
    <2>3. /\ WorksFor(t, "execute")' /\ Current(t)' => VerifiedSessions' = {}
          /\ WorksFor(t, "connect")' /\ Current(t)' /\ ~repeated' => ContributionsOf("connect")' = {}
      BY <1>0, <1>2, <1>6, <2>1, <2>2 DEF RulingCallKnows
    <2> QED
      BY <1>1, <1>2, <1>3, <2>2, <2>3 DEF RulingCallKnows
  <1> QED
    BY <1>2, <1>3, <1>4, <1>5, <1>6, <1>8, <1>9, <1>10 DEF RulingsInv, VerifiedStays

\* What a call leaves behind when it is done with its session.
LEMMA AfterSession ==
  ASSUME RulingsInv, NEW t \in Staff, OfSession(t) \/ desk[t].task = "close",
         CallsTyped(RulingWork)', FaultsTyped', desk'[t].task \in {"none", "close"},
         \A u \in Staff : u # t => desk'[u] = desk[u],
         overlapped => overlapped',
         topic' = [topic EXCEPT ![t] = {}], connectorTask' \in ConnectorStatuses,
         UNCHANGED <<queueTables, supplier, repeated, counted>>,
         session' \in [Sessions -> SessionStatuses], UnusedSessions' = UnusedSessions,
         SuppliedOnce',
         \A u \in Staff : u # t => RulingCallKnows(u)'
  PROVE  RulingsInv'
  <1>0. /\ QueueTyped /\ SupplyTyped /\ TopicsTyped /\ PendingIsSingle
        /\ EnoughSessions /\ OwnSessions
    BY RulingsParts
  <1>1. /\ TopicsTyped' /\ \A u \in Staff : u # t => topic'[u] = topic[u]
    BY <1>0 DEF TopicsTyped
  <1>2. SupplyTyped' /\ QueueTyped' /\ PendingIsSingle'
    BY <1>0, QueueKept DEF SupplyTyped
  <1>3. EnoughSessions'
    <2>1. Executing' = Executing
      BY DEF Executing, OfSession, Starts
    <2> QED
      BY <1>0, <2>1 DEF EnoughSessions
  <1>4. OwnSessions'
    <2>1. \A u \in Staff : OfSession(u)' => u # t /\ OfSession(u) /\ topic'[u] = topic[u]
      BY <1>1 DEF OfSession
    <2> QED
      BY <1>0, <2>1 DEF OwnSessions
  <1>5. \A u \in Staff : RulingCallKnows(u)'
    BY RulingIdle
  <1> QED
    BY <1>1, <1>2, <1>3, <1>4, <1>5 DEF RulingsInv

\* A call is done with its session, which stays unverified.
LEMMA EndsSupplyInv ==
  ASSUME RulingsInv, NEW t \in Staff, OfSession(t) \/ desk[t].task = "close",
         CallsTyped(RulingWork)', FaultsTyped', desk'[t].task \in {"none", "close"},
         \A u \in Staff : u # t => desk'[u] = desk[u] /\ (Current(u)' => Current(u)),
         UNCHANGED overlapped,
         topic' = [topic EXCEPT ![t] = {}], connectorTask' \in ConnectorStatuses,
         UNCHANGED <<queueTables, supplier, repeated, counted>>,
         \/ UNCHANGED session
         \/ OfSession(t) /\ \E v \in SessionStatuses \ {"none", "verified"} : EndSession(t, v)
  PROVE  RulingsInv' /\ VerifiedStays
  <1>0. /\ SupplyTyped /\ TopicsTyped /\ SuppliedOnce
        /\ \A u \in Staff : RulingCallKnows(u)
    BY RulingsParts
  <1>1. /\ session' \in [Sessions -> SessionStatuses]
        /\ UnusedSessions' = UnusedSessions
        /\ \A u \in Staff : u # t /\ OfSession(u) =>
             \A y \in Sessions : topic[u] = {y} => session'[y] = session[y]
        /\ \A y \in Sessions : session'[y] = "verified" <=> session[y] = "verified"
    <2>1. CASE UNCHANGED session
      BY <1>0, <2>1 DEF SupplyTyped, UnusedSessions
    <2>2. CASE OfSession(t) /\ \E v \in SessionStatuses \ {"none", "verified"} : EndSession(t, v)
      <3>1. PICK v \in SessionStatuses \ {"none", "verified"} : EndSession(t, v)
        BY <2>2
      <3>2. PICK x \in Sessions :
               /\ topic[t] = {x} /\ session[x] \in {"executing", "completed"}
               /\ session' \in [Sessions -> SessionStatuses] /\ session'[x] = v
               /\ \A y \in Sessions : y # x => session'[y] = session[y]
               /\ UnusedSessions' = UnusedSessions
               /\ \A u \in Staff : u # t /\ OfSession(u) => topic[u] # {x}
        BY <2>2, <3>1, SessionWritten
      <3> QED
        BY <3>2
    <2> QED
      BY <2>1, <2>2
  <1>2. /\ VerifiedSessions' = VerifiedSessions
        /\ ContributionsOf("connect")' = ContributionsOf("connect")
        /\ SuppliedOnce'
    BY <1>0, <1>1, ContributionsKept, SuppliedOnceKept
  <1>3. ASSUME NEW u \in Staff, u # t PROVE RulingCallKnows(u)'
    <2>1. topic'[u] = topic[u]
      BY <1>0, <1>3 DEF TopicsTyped
    <2> QED
      BY <1>0, <1>1, <1>2, <1>3, <2>1, RulingKnowsKept DEF queueTables, Pending
  <1>4. RulingsInv'
    BY <1>1, <1>2, <1>3, AfterSession
  <1> QED
    BY <1>2, <1>4 DEF VerifiedStays

\* A session is verified: if the call is current, it is the first that counts, and
\* no other call is current any more.
LEMMA VerifiesSessionInv ==
  ASSUME RulingsInv, NEW t \in Staff, desk[t].task \in {"verify", "check"},
         NEW w \in RulingWork, w.task \in {"none", "close"}, Writes(t, w),
         EndSession(t, "verified"),
         topic' = [topic EXCEPT ![t] = {}],
         UNCHANGED <<queueTables, supplier, connectorTask, repeated, counted>>
  PROVE  RulingsInv' /\ VerifiedStays
  <1>0. /\ CallsTyped(RulingWork) /\ FaultsTyped /\ SupplyTyped /\ TopicsTyped /\ SuppliedOnce
        /\ \A u \in Staff : RulingCallKnows(u)
    BY RulingsParts
  <1>1. OfSession(t)
    BY DEF OfSession
  <1>2. PICK x \in Sessions :
           /\ topic[t] = {x} /\ session[x] \in {"executing", "completed"}
           /\ session' \in [Sessions -> SessionStatuses]
           /\ \A y \in Sessions : y # x => session'[y] = session[y]
           /\ UnusedSessions' = UnusedSessions
           /\ VerifiedSessions' = VerifiedSessions \cup {x}
           /\ \A u \in Staff : u # t /\ OfSession(u) => topic[u] # {x}
    <2>1. "verified" \in SessionStatuses \ {"none"}
      BY DEF SessionStatuses
    <2> QED
      BY <1>1, <2>1, SessionWritten, SMTT(30)
  <1>3. /\ CallsTyped(RulingWork)' /\ FaultsTyped'
        /\ desk'[t].task \in {"none", "close"}
        /\ \A u \in Staff : u # t => desk'[u] = desk[u]
        /\ overlapped' = (overlapped \/ t \in outdated)
        /\ \A u \in Staff : u # t => desk[u].task = "none" \/ ~Current(u)'
    BY <1>0, WritesEffect
  <1>4. SuppliedOnce'
    <2> SUFFICES ASSUME ~overlapped' PROVE SuppliedOnce'
      BY DEF SuppliedOnce
    <2>1. Current(t) /\ ~overlapped
      BY <1>3 DEF Current
    <2>2. /\ supplier[x] = "execute" => VerifiedSessions = {}
          /\ supplier[x] = "connect" /\ ~repeated => ContributionsOf("connect") = {}
      BY <1>0, <1>1, <1>2, <2>1 DEF RulingCallKnows, WorksFor
    <2>3. \A kind \in Starts : ContributionsOf(kind)' = IF supplier[x] = kind THEN ContributionsOf(kind) \cup {x}
                                                        ELSE ContributionsOf(kind)
      BY <1>2 DEF ContributionsOf
    <2>4. AreOne(ContributionsOf("execute"))'
      BY <1>0, <2>1, <2>2, <2>3 DEF SuppliedOnce, AreOne, ContributionsOf, Starts
    <2>5. repeated' \/ AreOne(ContributionsOf("connect"))'
      BY <1>0, <2>1, <2>2, <2>3 DEF SuppliedOnce, AreOne, Starts
    <2>6. counted' \in {"divided", "agreed"} => (\E y \in VerifiedSessions : supplier[y] # "execute")'
      BY <1>0, <1>2, <2>1 DEF SuppliedOnce
    <2> QED
      BY <2>4, <2>5, <2>6 DEF SuppliedOnce
  <1>5. ASSUME NEW u \in Staff, u # t PROVE RulingCallKnows(u)'
    <2>1. topic'[u] = topic[u]
      BY <1>0, <1>5 DEF TopicsTyped
    <2>2. OfSession(u) => \A y \in Sessions :
            topic[u] = {y} => session'[y] = session[y] /\ supplier'[y] = supplier[y]
      BY <1>2, <1>5
    <2>3. (OfSession(u) \/ desk[u].task \in Starts) \/ desk[u].task = "enqueue" => ~Current(u)'
      BY <1>3, <1>5 DEF OfSession, Starts
    <2> QED
      BY <1>0, <1>3, <1>5, <2>1, <2>2, <2>3, RulingKnowsKept DEF queueTables
  <1>6. RulingsInv'
    BY <1>0, <1>1, <1>2, <1>3, <1>4, <1>5, AfterSession DEF SupplyTyped
  <1> QED
    BY <1>2, <1>6 DEF VerifiedStays

\* The calls that are done with their sessions.
LEMMA DoneWithSession ==
  ASSUME RulingsInv, NEW t \in Staff,
         FailSession(t) \/ SupplyDies(t) \/ VerifySession(t) \/ VerifyContribution(t) \/ MarkTask(t)
  PROVE  RulingsInv' /\ VerifiedStays
  <1>0. CallsTyped(RulingWork) /\ FaultsTyped /\ SupplyTyped
    BY RulingsParts
  <1>1. NoWork.task = "none" /\ NoWork \in RulingWork
    BY NoWorkTask, NoRulingWork
  <1>2. CASE FailSession(t) \/ SupplyDies(t)
    <2>1. Leaves(t) /\ FaultsTyped'
      BY <1>0, <1>2, FaultTyped DEF FailSession, SupplyDies, FaultsTyped
    <2>2. /\ CallsTyped(RulingWork)' /\ desk'[t] = NoWork /\ UNCHANGED overlapped
          /\ \A u \in Staff : u # t => desk'[u] = desk[u] /\ (Current(u)' <=> Current(u))
      BY <1>0, <1>1, <2>1, LeavesEffect
    <2>3. "failed" \in SessionStatuses \ {"none", "verified"}
      BY DEF SessionStatuses
    <2>4. /\ OfSession(t) \/ desk[t].task = "close"
          /\ topic' = [topic EXCEPT ![t] = {}] /\ connectorTask' \in ConnectorStatuses
          /\ UNCHANGED <<queueTables, supplier, repeated, counted>>
          /\ UNCHANGED session \/ (OfSession(t) /\ EndSession(t, "failed"))
      BY <1>0, <1>2 DEF FailSession, SupplyDies, OfSession, supplyTables, SupplyTyped
    <2> QED
      BY <1>1, <2>1, <2>2, <2>3, <2>4, EndsSupplyInv
  <1>3. CASE MarkTask(t)
    <2>1. /\ CallsTyped(RulingWork)' /\ desk'[t] = NoWork /\ UNCHANGED overlapped
          /\ \A u \in Staff : u # t => desk'[u] = desk[u] /\ (Current(u)' => Current(u))
      <3>1. CASE connectorTask = "completed"
        BY <1>0, <1>1, <1>3, <3>1 DEF MarkTask, Rewrites, CallsTyped, Current, Busy
      <3>2. CASE connectorTask # "completed"
        <4>1. Leaves(t)
          BY <1>3, <3>2 DEF MarkTask
        <4> QED
          BY <1>0, <1>1, <4>1, LeavesEffect
      <3> QED
        BY <3>1, <3>2
    <2>2. /\ desk[t].task = "close" /\ topic' = [topic EXCEPT ![t] = {}] /\ connectorTask' \in ConnectorStatuses
          /\ UNCHANGED <<queueTables, session, supplier, repeated, counted>> /\ FaultsTyped'
      BY <1>0, <1>3 DEF MarkTask, ConnectorStatuses, FaultsTyped
    <2> QED
      BY <1>1, <2>1, <2>2, EndsSupplyInv
  <1>4. CASE VerifySession(t) \/ VerifyContribution(t)
    <2>1. /\ desk[t].task \in {"verify", "check"} /\ OfSession(t)
          /\ topic' = [topic EXCEPT ![t] = {}]
          /\ UNCHANGED <<queueTables, supplier, connectorTask, repeated, counted>>
          /\ connectorTask' \in ConnectorStatuses
      BY <1>0, <1>4 DEF VerifySession, VerifyContribution, OfSession, SupplyTyped
    <2> DEFINE close == Work("close", "none", 0)
    <2>2. close \in RulingWork /\ close.task = "close"
      BY DEF Work, RulingWork
    <2> HIDE DEF close
    <2>3. PICK result \in {"verified", "manual_review", "rejected"} :
             /\ EndSession(t, result)
             /\ \/ VerifySession(t) /\ IF result = "verified" THEN Writes(t, NoWork)
                                       ELSE Leaves(t) /\ UNCHANGED faults
                \/ VerifyContribution(t) /\ IF result = "verified" THEN Writes(t, close)
                                            ELSE /\ desk' = [desk EXCEPT ![t].task = "close"]
                                                 /\ UNCHANGED <<outdated, overlapped, faults>>
      BY <1>4 DEF VerifySession, VerifyContribution, close
    <2>4. CASE result = "verified"
      BY <1>1, <2>1, <2>2, <2>3, <2>4, VerifiesSessionInv
    <2>5. CASE result # "verified"
      <3>1. result \in SessionStatuses \ {"none", "verified"}
        BY <2>5 DEF SessionStatuses
      <3>2. FaultsTyped'
        BY <1>0, <2>3, <2>5 DEF FaultsTyped
      <3>3. /\ CallsTyped(RulingWork)' /\ desk'[t].task \in {"none", "close"} /\ UNCHANGED overlapped
            /\ \A u \in Staff : u # t => desk'[u] = desk[u] /\ (Current(u)' => Current(u))
        <4>1. CASE Leaves(t)
          BY <1>0, <1>1, <4>1, LeavesEffect
        <4>2. CASE /\ desk' = [desk EXCEPT ![t].task = "close"]
                   /\ UNCHANGED <<outdated, overlapped, faults>>
          <5>1. desk \in [Staff -> RulingWork] /\ desk[t] \in RulingWork
            BY <1>0 DEF CallsTyped
          <5>2. /\ [desk[t] EXCEPT !.task = "close"] \in RulingWork
                /\ [desk[t] EXCEPT !.task = "close"].task = "close"
            BY <5>1 DEF RulingWork
          <5>3. desk' = [desk EXCEPT ![t] = [desk[t] EXCEPT !.task = "close"]]
            BY <4>2, <5>1
          <5> QED
            BY <1>0, <4>2, <5>1, <5>2, <5>3 DEF CallsTyped, Current
        <4> QED
          BY <2>3, <2>5, <4>1, <4>2
      <3> QED
        BY <2>1, <2>3, <3>1, <3>2, <3>3, EndsSupplyInv
    <2> QED
      BY <2>4, <2>5
  <1> QED
    BY <1>2, <1>3, <1>4

\* A decision counts, or the connector's task moves.
LEMMA SupplyMovesInv ==
  ASSUME RulingsInv,
         \/ CountContributions
         \/ QueueForConnector \/ ConnectorClaims \/ ConnectorExpires \/ ConnectorAnswers
  PROVE  RulingsInv'
  <1>0. /\ CallsTyped(RulingWork) /\ FaultsTyped /\ QueueTyped /\ SupplyTyped /\ TopicsTyped
        /\ PendingIsSingle
        /\ EnoughSessions /\ OwnSessions /\ SuppliedOnce
        /\ \A u \in Staff : RulingCallKnows(u)
    BY RulingsParts
  <1>1. /\ UNCHANGED <<queueTables, session, supplier, repeated, topic, desk, outdated, overlapped,
                       faults>>
        /\ connectorTask' \in ConnectorStatuses
        /\ counted' \in SupportOf(VerifiedSessions) \/ counted' = counted
    BY <1>0 DEF CountContributions, QueueForConnector, ConnectorClaims, ConnectorExpires,
                ConnectorAnswers, TaskBecomes, ConnectorStatuses, SupplyTyped, callVars
  <1>2. counted' \in {"none", "single", "divided", "agreed"}
    BY <1>0, <1>1 DEF SupportOf, SupplyTyped
  <1>3. SuppliedOnce'
    <2>1. CASE counted' = counted
      BY <1>0, <1>1, <2>1, SuppliedOnceKept
    <2>2. CASE counted' \in SupportOf(VerifiedSessions)
      <3> SUFFICES ASSUME ~overlapped, counted' \in {"divided", "agreed"},
                          \A x \in VerifiedSessions : supplier[x] = "execute"
                   PROVE  FALSE
        BY <1>0, <1>1, ContributionsKept DEF SuppliedOnce, AreOne
      <3>1. \A x, y \in VerifiedSessions : x = y
        BY <1>0 DEF SuppliedOnce, AreOne, ContributionsOf
      <3>2. VerifiedSessions # {} /\ Cardinality(VerifiedSessions) # 1
        BY <2>2 DEF SupportOf
      <3>3. PICK x \in VerifiedSessions : VerifiedSessions = {x}
        BY <3>1, <3>2
      <3> QED
        BY <3>2, <3>3, FS_Singleton
    <2> QED
      BY <1>1, <2>1, <2>2
  <1>4. /\ CallsTyped(RulingWork)' /\ FaultsTyped' /\ SupplyTyped' /\ TopicsTyped'
        /\ QueueTyped' /\ PendingIsSingle'
    BY <1>0, <1>1, <1>2, QueueKept DEF CallsTyped, FaultsTyped, SupplyTyped, TopicsTyped
  <1>5. EnoughSessions' /\ OwnSessions'
    BY <1>0, <1>1 DEF EnoughSessions, Executing, UnusedSessions, OwnSessions, OfSession
  <1>6. ASSUME NEW u \in Staff PROVE RulingCallKnows(u)'
    BY <1>0, <1>1, RulingKnowsKept DEF queueTables, Current, Pending, VerifiedSessions, ContributionsOf
  <1> QED
    BY <1>3, <1>4, <1>5, <1>6 DEF RulingsInv

LEMMA NextRulingsInv ==
  ASSUME RulingsInv, [QueueNext \/ SupplyNext]_rulingVars
  PROVE  RulingsInv'
  <1>1. CASE UNCHANGED rulingVars
    <2>1. \A t \in Staff : RulingCallKnows(t) => RulingCallKnows(t)'
      BY <1>1 DEF rulingVars, queueTables, supplyTables, callVars, RulingCallKnows, OfSession,
         WorksFor, Current, Pending, VerifiedSessions, ContributionsOf
    <2> QED
      BY <1>1, <2>1 DEF rulingVars, queueTables, supplyTables, callVars, RulingsInv, CallsTyped,
         FaultsTyped, QueueTyped, SupplyTyped, TopicsTyped, PendingIsSingle, Pending,
         EnoughSessions, Executing, UnusedSessions, OwnSessions, OfSession, ContributionsOf,
         VerifiedSessions, SuppliedOnce
  <1>2. CASE QueueNext
    BY <1>2, BeginsQueueInv, EnqueueDecisionInv, ReviewInv, OverdueInv DEF QueueNext
  <1>3. CASE SupplyNext
    BY <1>3, BeginsSupplyInv, NewSessionInv, CompleteSessionInv, DoneWithSession, SupplyMovesInv
       DEF SupplyNext
  <1> QED
    BY <1>1, <1>2, <1>3

LEMMA RulingsInductive == RulingsSpec => []RulingsInv
  BY InitRulingsInv, NextRulingsInv, PTL DEF RulingsSpec

\* The queue, the sessions and the calls about them are well typed.
THEOREM RulingsTypeCorrect == RulingsSpec => []RulingsTypeOK
  <1>1. RulingsInv => RulingsTypeOK
    <2> SUFFICES ASSUME RulingsInv PROVE RulingsTypeOK
      OBVIOUS
    <2>1. ASSUME NEW t \in Staff
          PROVE  /\ topic[t] \subseteq Targets \cup Rulings \cup Sessions
                 /\ desk[t].task \in {"none", "enqueue", "review", "run", "verify", "check", "close"}
                                    \cup Starts
                 /\ desk[t].outcome \in {"none", "rejected", "expired", "approved"}
      BY DEF RulingsInv, TopicsTyped, CallsTyped, RulingWork, Reviews
    <2> QED
      BY <2>1 DEF RulingsInv, CallsTyped, FaultsTyped, QueueTyped, SupplyTyped, SessionStatuses,
         ConnectorStatuses, RulingsTypeOK
  <1> QED
    BY <1>1, RulingsInductive, PTL

LEMMA SupplyLeavesQueue == SupplyNext => UNCHANGED queueTables
  <1>1. ASSUME NEW t \in Staff,
               BeginSupply(t) \/ InstructSupply(t) \/ CompleteSession(t) \/ FailSession(t)
               \/ SupplyDies(t) \/ VerifySession(t) \/ BeginVerification(t)
               \/ VerifyContribution(t) \/ MarkTask(t)
        PROVE  UNCHANGED queueTables
    BY <1>1 DEF BeginSupply, InstructSupply, CompleteSession, FailSession, SupplyDies,
                VerifySession, BeginVerification, VerifyContribution, MarkTask, queueTables
  <1>2. ASSUME NEW t \in Staff, StartSession(t) \/ StoreContribution(t)
        PROVE  UNCHANGED queueTables
    BY <1>2 DEF StartSession, StoreContribution, NewSession, queueTables
  <1>3. CASE \/ CountContributions
             \/ QueueForConnector \/ ConnectorClaims \/ ConnectorExpires \/ ConnectorAnswers
    BY <1>3 DEF CountContributions, QueueForConnector, ConnectorClaims, ConnectorExpires,
                ConnectorAnswers, TaskBecomes, queueTables
  <1> QED
    BY <1>1, <1>2, <1>3 DEF SupplyNext

\* A decision that was reviewed is not written again, and an approval or a
\* rejection was read before the decision was overdue.
LEMMA StepOfQueue ==
  ASSUME RulingsInv, [QueueNext \/ SupplyNext]_rulingVars
  PROVE  RulingStays
  <1> SUFFICES ASSUME NEW e \in Rulings, queue'[e] # queue[e]
               PROVE  /\ queue[e].status \in {"none", "pending"}
                      /\ queue'[e].status \in {"approved", "rejected"} => e \notin overdue \ slipped
    BY DEF RulingStays
  <1>0. QueueTyped /\ \A u \in Staff : RulingCallKnows(u)
    BY DEF RulingsInv
  <1>1. queue[e] \in [status : {"none", "pending"} \cup Reviews, targets : SUBSET Targets]
    BY <1>0 DEF QueueTyped
  <1>2. \E t \in Staff : EnqueueDecision(t) \/ Review(t)
    BY SupplyLeavesQueue DEF rulingVars, queueTables, QueueNext, BeginEnqueue, BeginReview, Overdue
  <1>3. ASSUME NEW t \in Staff, EnqueueDecision(t)
        PROVE  queue[e].status = "none" /\ queue'[e].status = "pending"
    <2>1. PICK d \in Rulings :
             queue[d] = NoEntry /\ queue' = [queue EXCEPT ![d] = Entry("pending", topic[t])]
      BY <1>3 DEF EnqueueDecision
    <2>2. d = e
      BY <1>0, <2>1 DEF QueueTyped
    <2> QED
      BY <1>0, <2>1, <2>2 DEF QueueTyped, NoEntry, Entry
  <1>4. ASSUME NEW t \in Staff, Review(t)
        PROVE  /\ queue[e].status = "pending"
               /\ queue'[e].status \in {"approved", "rejected"} => e \notin overdue \ slipped
    <2>1. PICK d \in Rulings :
             /\ topic[t] = {d}
             /\ d \in overdue \ slipped => desk[t].outcome = "expired"
      BY <1>0, <1>4 DEF Review, RulingCallKnows
    <2>2. Pending(d) /\ queue' = [queue EXCEPT ![d].status = desk[t].outcome]
      BY <1>4, <2>1 DEF Review
    <2>3. d = e
      BY <1>0, <2>2 DEF QueueTyped
    <2>4. queue'[e].status = desk[t].outcome
      BY <1>0, <1>1, <2>2, <2>3 DEF QueueTyped
    <2> QED
      BY <2>1, <2>2, <2>3, <2>4 DEF Pending
  <1> QED
    BY <1>2, <1>3, <1>4

LEMMA StepOfSupply ==
  ASSUME RulingsInv, [QueueNext \/ SupplyNext]_rulingVars
  PROVE  VerifiedStays
  <1>1. CASE UNCHANGED session
    BY <1>1 DEF VerifiedStays, VerifiedSessions
  <1>2. CASE session' # session
    <2>1. CASE SupplyNext
      <3>1. ASSUME NEW t \in Staff, BeginSupply(t) \/ InstructSupply(t) \/ BeginVerification(t)
            PROVE  FALSE
        BY <1>2, <3>1 DEF BeginSupply, InstructSupply, BeginVerification, supplyTables
      <3>2. CASE \/ CountContributions
                 \/ QueueForConnector \/ ConnectorClaims \/ ConnectorExpires \/ ConnectorAnswers
        BY <1>2, <3>2 DEF CountContributions, QueueForConnector, ConnectorClaims, ConnectorExpires,
                          ConnectorAnswers, TaskBecomes
      <3> QED
        BY <2>1, <3>1, <3>2, NewSessionInv, CompleteSessionInv, DoneWithSession DEF SupplyNext
    <2>2. CASE ~SupplyNext
      BY <1>2, <2>2 DEF rulingVars, supplyTables, QueueNext, BeginEnqueue, BeginReview,
                        EnqueueDecision, Review, Overdue
    <2> QED
      BY <2>1, <2>2
  <1> QED
    BY <1>1, <1>2

\* However many calls propose and review decisions, execute the order, answer for
\* its connector and verify what came of it: a target has one pending decision and
\* the pipeline contributes once to the order, unless two calls have looked at
\* once; its connector contributes once, unless a verification of its task has
\* begun between the two transactions of an earlier one; what was reviewed or
\* verified stays so.
THEOREM FoundationStaysConsistent == RulingsSpec => FoundationIsConsistent
  <1>1. RulingsInv => PendingIsSingle /\ SuppliedOnce
    BY DEF RulingsInv
  <1> QED
    BY <1>1, RulingsInductive, StepOfQueue, StepOfSupply, PTL
       DEF RulingsSpec, FoundationIsConsistent

-----------------------------------------------------------------------------
(* Exposure: the invariant.                                                 *)

AdaptationWork ==
  [task : {"none", "approve", "reject", "apply", "raise", "snapshot", "cycle", "check",
           "propose"},
   outcome : {"none"} \cup MonitorStatuses, left : Nat]

AdaptationTyped ==
  /\ adaptation \in {"none", "proposed", "approved", "rejected", "applied"}
  /\ reviews \in Evaluated /\ undoReviews \in UndoEvaluated
  /\ raises \in Nat /\ snapshots \subseteq Nat
  /\ unsaved \in BOOLEAN /\ endorsed \in BOOLEAN /\ open \in BOOLEAN
  /\ monitor \in {"none"} \cup MonitorStatuses
  /\ proposals \in Nat

\* Nobody approves, applies or raises anything that was not reviewed.
Endorsement ==
  \/ endorsed
  \/ /\ raises = 0 /\ adaptation \notin {"approved", "applied"}
     /\ \A t \in Staff : desk[t].task \notin {"approve", "apply", "raise"}

\* The limits are raised by the adaptation that is applied, and can be restored.
RaisedOnce == raises = 0 \/ (raises = 1 /\ adaptation = "applied" /\ Restorable)

\* What a call has read of the adaptation and the limits.
AdaptationKnows(t) ==
  /\ desk[t].task = "approve" => adaptation = "proposed"
  /\ desk[t].task = "reject" => adaptation \in {"proposed", "approved"}
  /\ desk[t].task \in {"apply", "raise"} => adaptation = "approved"
  /\ desk[t].task = "raise" => desk[t].left = raises

\* As long as nothing has gone wrong one call is at work, so that the cycle that
\* is about to propose is the only one, and has found nothing proposed.
ProposedOnce ==
  faults = 0 =>
    /\ \A t, u \in Busy : t = u
    /\ proposals <= 1
    /\ \A t \in Staff : desk[t].task = "propose" => proposals = 0

AdaptationInv ==
  /\ CallsTyped(AdaptationWork) /\ FaultsTyped /\ AdaptationTyped
  /\ Endorsement
  /\ ~overlapped => RaisedOnce
  /\ \A t \in Staff : Current(t) => AdaptationKnows(t)
  /\ ProposedOnce

-----------------------------------------------------------------------------
(* Exposure: every step keeps it.                                           *)

LEMMA NoAdaptationWork == NoWork \in AdaptationWork
  BY DEF NoWork, Work, AdaptationWork

LEMMA InitAdaptationInv == AdaptationInit => AdaptationInv
  <1> SUFFICES ASSUME AdaptationInit PROVE AdaptationInv
    OBVIOUS
  <1>0. FaultsTyped
    BY FaultsAssumption DEF AdaptationInit, FaultsTyped
  <1>1. CallsTyped(AdaptationWork)
    BY NoAdaptationWork DEF AdaptationInit, CallsInit, CallsTyped
  <1>2. AdaptationTyped
    BY DEF AdaptationInit, AdaptationTyped, Evaluated, UndoEvaluated
  <1>3. \A t \in Staff : desk[t] = NoWork /\ desk[t].task = "none"
    BY NoWorkTask DEF AdaptationInit, CallsInit
  <1> QED
    BY <1>0, <1>1, <1>2, <1>3
    DEF AdaptationInit, AdaptationInv, Endorsement, RaisedOnce, AdaptationKnows, ProposedOnce,
        Busy

\* A call that begins while nothing has gone wrong is the only one.
LEMMA TakesAlone ==
  ASSUME NEW CONSTANT Works, CallsTyped(Works), FaultsTyped, NEW t \in Staff,
         NEW work \in Works, Takes(t, work), faults' = 0
  PROVE  faults = 0 /\ \A u, v \in Busy' : u = v
  <1>1. faults = 0 /\ Busy = {}
    BY FaultTyped DEF Takes, FaultsTyped
  <1>2. \A u \in Staff : u # t => desk'[u] = NoWork
    BY <1>1, TakesEffect DEF Busy
  <1> QED
    BY <1>1, <1>2 DEF Busy

\* Reviews and the monitor, the proposal of the adaptation, the rollback.
LEMMA ChangesAdaptationInv ==
  ASSUME AdaptationInv,
         \/ ProposeAdaptation \/ StoreAdaptationReview \/ StoreRollbackReview
         \/ RollBack \/ StartMonitor \/ EvaluateMonitor
  PROVE  AdaptationInv'
  <1> USE DEF AdaptationInv
  <1>1. /\ UNCHANGED <<raises, snapshots, unsaved, endorsed, proposals, callVars, faults>>
        /\ adaptation' = adaptation \/ (adaptation = "none" /\ adaptation' = "proposed")
    BY DEF ProposeAdaptation, StoreAdaptationReview, StoreRollbackReview, RollBack,
       StartMonitor, EvaluateMonitor
  <1>2. AdaptationTyped'
    <2>1. CASE ProposeAdaptation \/ StoreAdaptationReview \/ StoreRollbackReview
      BY <2>1 DEF AdaptationTyped, ProposeAdaptation, StoreAdaptationReview,
         StoreRollbackReview
    <2>2. CASE RollBack
      BY <2>2 DEF AdaptationTyped, RollBack
    <2>3. CASE StartMonitor \/ EvaluateMonitor
      BY <2>3 DEF AdaptationTyped, StartMonitor, EvaluateMonitor, MonitorStatuses
    <2> QED
      BY <2>1, <2>2, <2>3
  <1>3. CallsTyped(AdaptationWork)' /\ FaultsTyped' /\ ProposedOnce'
    BY <1>1 DEF callVars, CallsTyped, FaultsTyped, ProposedOnce, Busy
  <1>4. Endorsement' /\ (~overlapped' => RaisedOnce')
    BY <1>1 DEF callVars, Endorsement, RaisedOnce, Restorable
  <1>5. \A t \in Staff : Current(t)' => AdaptationKnows(t)'
    BY <1>1 DEF callVars, Current, AdaptationKnows
  <1> QED
    BY <1>2, <1>3, <1>4, <1>5

LEMMA ControlExposureInv ==
  ASSUME AdaptationInv, ControlExposure
  PROVE  AdaptationInv'
  <1> USE DEF AdaptationInv
  <1>1. /\ CallsTyped(AdaptationWork)' /\ FaultsTyped'
        /\ UNCHANGED <<desk, overlapped, faults>>
        /\ \A u \in Staff : desk[u].task = "none" \/ ~Current(u)'
    BY WritesAtOnceEffect DEF ControlExposure
  <1>2. raises' = 0 /\ UNCHANGED <<adaptation, endorsed, proposals>>
    BY DEF ControlExposure
  <1>3. AdaptationTyped' /\ Endorsement' /\ RaisedOnce'
    BY <1>1, <1>2 DEF ControlExposure, AdaptationTyped, Endorsement, RaisedOnce
  <1>4. ProposedOnce'
    BY <1>1, <1>2 DEF ProposedOnce, Busy
  <1>5. \A t \in Staff : Current(t)' => AdaptationKnows(t)'
    BY <1>1 DEF AdaptationKnows
  <1> QED
    BY <1>1, <1>3, <1>4, <1>5

\* A call reads and decides.
LEMMA BeginsAdaptationInv ==
  ASSUME AdaptationInv, NEW t \in Staff,
         \/ BeginAdaptationApproval(t) \/ BeginAdaptationRejection(t)
         \/ BeginApplication(t) \/ BeginCycle(t)
  PROVE  AdaptationInv'
  <1> USE DEF AdaptationInv
  <1>1. PICK task \in {"approve", "reject", "apply", "cycle"}, outcome \in {"none", monitor} :
          /\ Takes(t, Work(task, outcome, 0))
          /\ task = "approve" => adaptation = "proposed" /\ endorsed'
          /\ task = "reject" => adaptation \in {"proposed", "approved"}
          /\ task = "apply" => adaptation = "approved"
          /\ task = "cycle" => monitor # "none"
          /\ task # "cycle" => outcome = "none"
          /\ endorsed' = (endorsed \/ (task = "approve"))
    BY DEF BeginAdaptationApproval, BeginAdaptationRejection, BeginApplication, BeginCycle,
       Decides, Approvable, adaptationTables, AdaptationTyped
  <1>2. UNCHANGED <<adaptation, reviews, undoReviews, raises, snapshots, unsaved, open,
                    monitor, proposals>>
    BY DEF BeginAdaptationApproval, BeginAdaptationRejection, BeginApplication, BeginCycle,
       adaptationTables
  <1>3. Work(task, outcome, 0) \in AdaptationWork /\ Work(task, outcome, 0).task = task
    BY DEF Work, AdaptationWork, AdaptationTyped
  <1>4. /\ CallsTyped(AdaptationWork)' /\ FaultsTyped' /\ faults <= faults'
        /\ t \notin Busy /\ desk'[t].task = task
        /\ \A u \in Staff : u # t => desk'[u] = desk[u]
        /\ UNCHANGED <<outdated, overlapped>>
    BY <1>1, <1>3, TakesEffect
  <1>5. AdaptationTyped'
    BY <1>1, <1>2 DEF AdaptationTyped
  <1>6. Endorsement'
    BY <1>1, <1>2, <1>4 DEF Endorsement
  <1>7. ~overlapped' => RaisedOnce'
    <2>1. desk[t] = NoWork /\ NoWork # Work("snapshot", "none", 0)
      BY <1>4 DEF Busy, NoWork, Work
    <2>2. Restorable => Restorable'
      BY <1>2, <1>4, <2>1 DEF Restorable
    <2> QED
      BY <1>2, <1>4, <2>2 DEF RaisedOnce
  <1>8. \A u \in Staff : Current(u)' => AdaptationKnows(u)'
    BY <1>1, <1>2, <1>4 DEF Current, AdaptationKnows
  <1>9. ProposedOnce'
    BY <1>1, <1>2, <1>3, <1>4, TakesAlone DEF ProposedOnce
  <1> QED
    BY <1>4, <1>5, <1>6, <1>7, <1>8, <1>9

\* A decision is written, or the limits are raised.
LEMMA WritesAdaptationInv ==
  ASSUME AdaptationInv, NEW t \in Staff,
         \/ WriteAdaptationDecision(t, "approve", "approved")
         \/ WriteAdaptationDecision(t, "reject", "rejected")
         \/ Apply(t)
  PROVE  AdaptationInv'
  <1> USE DEF AdaptationInv
  <1>0. desk[t] \in AdaptationWork /\ desk[t].left \in Nat
    BY DEF CallsTyped, AdaptationWork
  <1>1. PICK next \in {NoWork, Work("snapshot", "none", desk[t].left)} :
          /\ Writes(t, next)
          /\ \/ /\ desk[t].task = "approve" /\ adaptation' = "approved"
                /\ raises' = raises /\ next = NoWork
             \/ /\ desk[t].task = "reject" /\ adaptation' = "rejected"
                /\ raises' = raises /\ next = NoWork
             \/ /\ desk[t].task = "raise" /\ adaptation' = "applied"
                /\ raises' = desk[t].left + 1
                /\ next = Work("snapshot", "none", desk[t].left)
    BY DEF WriteAdaptationDecision, Apply
  <1>2. UNCHANGED <<reviews, undoReviews, snapshots, unsaved, endorsed, open, monitor,
                    proposals>>
    BY DEF WriteAdaptationDecision, Apply
  <1>3. next \in AdaptationWork /\ next.task \in {"none", "snapshot"}
    BY <1>0, <1>1, NoAdaptationWork DEF Work, AdaptationWork, NoWork
  <1>4. /\ CallsTyped(AdaptationWork)' /\ FaultsTyped' /\ faults' = faults
        /\ desk'[t] = next
        /\ \A u \in Staff : u # t => desk'[u] = desk[u]
        /\ overlapped' = (overlapped \/ t \in outdated)
        /\ \A u \in Staff : u # t => desk[u].task = "none" \/ ~Current(u)'
    BY <1>1, <1>3, WritesEffect
  <1>5. AdaptationTyped'
    BY <1>0, <1>1, <1>2 DEF AdaptationTyped
  <1>6. Endorsement'
    BY <1>1, <1>2, <1>3, <1>4 DEF Endorsement
  <1>7. ASSUME ~overlapped' PROVE RaisedOnce'
    <2>1. RaisedOnce /\ AdaptationKnows(t)
      BY <1>4, <1>7 DEF CallsTyped, Current
    <2>2. CASE desk[t].task \in {"approve", "reject"}
      BY <1>1, <2>1, <2>2 DEF RaisedOnce, AdaptationKnows
    <2>3. CASE desk[t].task = "raise"
      <3>1. raises = 0 /\ desk[t].left = 0
        BY <2>1, <2>3 DEF RaisedOnce, AdaptationKnows
      <3> QED
        BY <1>1, <1>4, <2>3, <3>1 DEF RaisedOnce, Restorable
    <2> QED
      BY <1>1, <2>2, <2>3
  <1>8. \A u \in Staff : Current(u)' => AdaptationKnows(u)'
    BY <1>3, <1>4 DEF AdaptationKnows
  <1>9. ProposedOnce'
    <2>1. \A u \in Staff : u \in Busy' => u \in Busy
      BY <1>1, <1>4, NoWorkTask DEF Busy
    <2>2. \A u \in Staff : desk'[u].task = "propose" => desk[u].task = "propose"
      BY <1>3, <1>4
    <2> QED
      BY <1>2, <1>4, <2>1, <2>2 DEF ProposedOnce, Busy
  <1> QED
    BY <1>4, <1>5, <1>6, <1>7, <1>8, <1>9

\* A call reads more and goes on: the limits, the proposals, the health.
LEMMA GoesOnAdaptationInv ==
  ASSUME AdaptationInv, NEW t \in Staff, NEW next \in AdaptationWork,
         desk' = [desk EXCEPT ![t] = next], desk[t].task \notin {"none", "snapshot"},
         UNCHANGED <<outdated, overlapped, faults, adaptation, reviews, undoReviews, raises,
                     snapshots, unsaved, endorsed, open, proposals>>,
         monitor' \in {"none"} \cup MonitorStatuses,
         \/ next.task = "raise" /\ next.left = raises /\ desk[t].task = "apply"
         \/ next.task = "check"
         \/ next.task = "propose" /\ proposals = 0
  PROVE  AdaptationInv'
  <1> USE DEF AdaptationInv
  <1>1. CallsTyped(AdaptationWork)' /\ FaultsTyped' /\ AdaptationTyped'
    BY DEF CallsTyped, FaultsTyped, AdaptationTyped
  <1>2. desk'[t] = next /\ \A u \in Staff : u # t => desk'[u] = desk[u]
    BY DEF CallsTyped
  <1>3. Endorsement'
    BY <1>2 DEF Endorsement
  <1>4. ~overlapped' => RaisedOnce'
    <2>1. desk[t] # Work("snapshot", "none", 0)
      BY DEF Work
    <2> QED
      BY <1>2, <2>1 DEF RaisedOnce, Restorable
  <1>5. \A u \in Staff : Current(u)' => AdaptationKnows(u)'
    BY <1>2 DEF Current, AdaptationKnows
  <1>6. ProposedOnce'
    <2>1. \A u \in Staff : u \in Busy' => u \in Busy
      BY <1>2, NoWorkTask DEF Busy
    <2> QED
      BY <1>2, <2>1 DEF ProposedOnce, Busy
  <1> QED
    BY <1>1, <1>3, <1>4, <1>5, <1>6

\* A call ends without writing the tables that others read.
LEMMA EndsAdaptationInv ==
  ASSUME AdaptationInv, NEW t \in Staff, Leaves(t), FaultsTyped', faults <= faults',
         UNCHANGED <<adaptation, reviews, undoReviews, raises, endorsed, open>>,
         monitor' \in {"none"} \cup MonitorStatuses,
         snapshots' \in SUBSET Nat, snapshots \subseteq snapshots',
         unsaved' \in BOOLEAN, unsaved => unsaved',
         desk[t] = Work("snapshot", "none", 0) => 0 \in snapshots' \/ unsaved',
         \/ proposals' = proposals
         \/ proposals' = proposals + 1 /\ desk[t].task = "propose"
  PROVE  AdaptationInv'
  <1> USE DEF AdaptationInv
  <1>1. /\ CallsTyped(AdaptationWork)'
        /\ desk'[t] = NoWork
        /\ \A u \in Staff : u # t => desk'[u] = desk[u]
        /\ \A u \in Staff : u # t => (Current(u)' <=> Current(u))
        /\ UNCHANGED overlapped
    BY LeavesEffect, NoAdaptationWork
  <1>2. AdaptationTyped'
    BY DEF AdaptationTyped
  <1>3. Endorsement'
    BY <1>1, NoWorkTask DEF Endorsement
  <1>4. ~overlapped' => RaisedOnce'
    <2>1. Restorable => Restorable'
      BY <1>1 DEF Restorable
    <2> QED
      BY <1>1, <2>1 DEF RaisedOnce
  <1>5. \A u \in Staff : Current(u)' => AdaptationKnows(u)'
    BY <1>1, NoWorkTask DEF AdaptationKnows
  <1>6. ProposedOnce'
    <2>1. SUFFICES ASSUME faults' = 0 PROVE ProposedOnce'
      BY DEF ProposedOnce
    <2>2. faults = 0
      BY <2>1 DEF FaultsTyped
    <2>3. \A u, v \in Busy' : u = v
      BY <1>1, <2>2 DEF ProposedOnce, Busy
    <2>4. proposals' <= 1
      BY <2>2 DEF ProposedOnce, AdaptationTyped
    <2>5. ASSUME NEW u \in Staff, desk'[u].task = "propose" PROVE proposals' = 0
      <3>1. u # t /\ desk[u].task = "propose"
        BY <1>1, <2>5, NoWorkTask
      <3>2. u \in Busy /\ (desk[t].task = "propose" => t \in Busy)
        BY <3>1, NoWorkTask DEF Busy
      <3> QED
        BY <2>2, <3>1, <3>2 DEF ProposedOnce
    <2> QED
      BY <2>3, <2>4, <2>5 DEF ProposedOnce
  <1> QED
    BY <1>1, <1>2, <1>3, <1>4, <1>5, <1>6

LEMMA RestartServerInv ==
  ASSUME AdaptationInv, RestartServer
  PROVE  AdaptationInv'
  <1> USE DEF AdaptationInv
  <1>1. FaultsTyped' /\ faults' = faults + 1 /\ faults' # 0
    BY FaultTyped DEF RestartServer, FaultsTyped
  <1>2. CallsTyped(AdaptationWork)' /\ \A u \in Staff : desk'[u].task = "none"
    BY NoAdaptationWork, NoWorkTask DEF RestartServer, CallsTyped
  <1>3. AdaptationTyped'
    BY DEF RestartServer, AdaptationTyped
  <1>4. Endorsement'
    BY <1>2 DEF RestartServer, Endorsement
  <1>5. ~overlapped' => RaisedOnce'
    <2>1. \A u \in Staff : desk[u] = Work("snapshot", "none", 0) => desk[u].task = "snapshot"
      BY DEF Work
    <2>2. Restorable => Restorable'
      BY <2>1 DEF RestartServer, Restorable, AdaptationTyped
    <2> QED
      BY <2>2 DEF RestartServer, RaisedOnce
  <1>6. \A u \in Staff : Current(u)' => AdaptationKnows(u)'
    BY <1>2 DEF AdaptationKnows
  <1> QED
    BY <1>1, <1>2, <1>3, <1>4, <1>5, <1>6 DEF ProposedOnce

LEMMA NextAdaptationInv ==
  ASSUME AdaptationInv, [AdaptationNext]_adaptationVars
  PROVE  AdaptationInv'
  <1>0. /\ CallsTyped(AdaptationWork) /\ FaultsTyped /\ AdaptationTyped
        /\ \A t \in Staff : desk[t] \in AdaptationWork
    BY DEF AdaptationInv, CallsTyped
  <1>1. ASSUME NEW t \in Staff, ReadLimits(t) PROVE AdaptationInv'
    <2>1. Work("raise", "none", raises) \in AdaptationWork
      BY <1>0 DEF Work, AdaptationWork, AdaptationTyped
    <2>2. Work("raise", "none", raises).task = "raise"
          /\ Work("raise", "none", raises).left = raises
      BY DEF Work
    <2> QED
      BY <1>0, <1>1, <2>1, <2>2, GoesOnAdaptationInv
      DEF ReadLimits, adaptationTables, AdaptationTyped
  <1>2. ASSUME NEW t \in Staff, StoreRollback(t) PROVE AdaptationInv'
    <2>1. desk[t].left \in Nat
      BY <1>0 DEF AdaptationWork
    <2>2. desk[t] = Work("snapshot", "none", 0) => desk[t].left = 0
      BY DEF Work
    <2>3. /\ Leaves(t) /\ FaultsTyped' /\ faults <= faults'
          /\ UNCHANGED <<adaptation, reviews, undoReviews, raises, unsaved, endorsed, open,
                         monitor, proposals>>
          /\ snapshots' = snapshots \cup {desk[t].left}
      BY <1>0, <1>2 DEF StoreRollback, FaultsTyped
    <2>4. /\ snapshots' \in SUBSET Nat /\ snapshots \subseteq snapshots'
          /\ unsaved' \in BOOLEAN /\ monitor' \in {"none"} \cup MonitorStatuses
      BY <1>0, <2>1, <2>3 DEF AdaptationTyped
    <2> QED
      BY <2>2, <2>3, <2>4, EndsAdaptationInv
  <1>3. ASSUME NEW t \in Staff, NEW task \in {"check", "propose"}, CycleGoesOn(t, task),
               desk[t].task \in {"cycle", "check"},
               monitor' \in {"none"} \cup MonitorStatuses,
               task = "propose" => proposals = 0,
               UNCHANGED <<adaptation, reviews, undoReviews, raises, snapshots, unsaved,
                           endorsed, open, proposals, faults>>
        PROVE  AdaptationInv'
    <2>1. Work(task, "none", 0) \in AdaptationWork /\ Work(task, "none", 0).task = task
      BY DEF Work, AdaptationWork
    <2> QED
      BY <1>3, <2>1, GoesOnAdaptationInv DEF CycleGoesOn
  <1>4. ASSUME NEW t \in Staff, Leaves(t), desk[t].task \in {"cycle", "check", "propose"},
               monitor' \in {"none"} \cup MonitorStatuses,
               \/ proposals' = proposals
               \/ proposals' = proposals + 1 /\ desk[t].task = "propose",
               UNCHANGED <<adaptation, reviews, undoReviews, raises, snapshots, unsaved,
                           endorsed, open, faults>>
        PROVE  AdaptationInv'
    <2>1. desk[t] # Work("snapshot", "none", 0)
      BY <1>4 DEF Work
    <2> QED
      BY <1>0, <1>4, <2>1, EndsAdaptationInv DEF AdaptationTyped, FaultsTyped
  <1>5. ASSUME NEW t \in Staff, EvaluateInCycle(t) PROVE AdaptationInv'
    <2>1. desk[t].outcome \in {"none"} \cup MonitorStatuses
      BY <1>0 DEF AdaptationWork
    <2> QED
      BY <1>3, <1>4, <1>5, <2>1 DEF EvaluateInCycle
  <1>6. ASSUME NEW t \in Staff, CheckProposals(t) \/ StoreProposal(t) PROVE AdaptationInv'
    BY <1>0, <1>3, <1>4, <1>6
    DEF CheckProposals, StoreProposal, adaptationTables, AdaptationTyped
  <1>7. ASSUME NEW t \in Staff, AdaptationCallDies(t) PROVE AdaptationInv'
    <2>1. FaultsTyped' /\ faults <= faults'
      BY <1>0, <1>7, FaultTyped DEF AdaptationCallDies, FaultsTyped
    <2>2. desk[t] = Work("snapshot", "none", 0) => desk[t].task = "snapshot"
      BY DEF Work
    <2> QED
      BY <1>0, <1>7, <2>1, <2>2, EndsAdaptationInv DEF AdaptationCallDies, AdaptationTyped
  <1>8. CASE UNCHANGED adaptationVars
    BY <1>8
    DEF adaptationVars, adaptationTables, callVars, AdaptationInv, CallsTyped, FaultsTyped,
        AdaptationTyped, Endorsement, RaisedOnce, Restorable, Current, AdaptationKnows,
        ProposedOnce, Busy
  <1> QED
    BY <1>1, <1>2, <1>5, <1>6, <1>7, <1>8, ChangesAdaptationInv, ControlExposureInv,
       BeginsAdaptationInv, WritesAdaptationInv, RestartServerInv
    DEF AdaptationNext

LEMMA AdaptationInductive == AdaptationSpec => []AdaptationInv
  BY InitAdaptationInv, NextAdaptationInv, PTL DEF AdaptationSpec

\* Every variable of the adaptation keeps its type.
THEOREM AdaptationTypeCorrect == AdaptationSpec => []AdaptationTypeOK
  <1>1. AdaptationInv => AdaptationTypeOK
    BY DEF AdaptationInv, AdaptationTypeOK, AdaptationTyped, AdaptationWork, CallsTyped,
       FaultsTyped
  <1> QED
    BY <1>1, AdaptationInductive, PTL

\* The limits of a seller's agents are raised by an adaptation approved on its
\* reviews, once, and can be lowered again, unless a call wrote over what another
\* had read; and a cycle without deaths or overlaps proposes one rollback
\* (apply_protocol_adaptation_db, run_protocol_adaptation_monitoring_cycle_db).
THEOREM ExposureStaysGoverned == AdaptationSpec => []ExposureIsGoverned
  <1>1. AdaptationInv => ExposureIsGoverned
    BY DEF AdaptationInv, AdaptationTyped, Endorsement, RaisedOnce, ProposedOnce,
       ExposureIsGoverned
  <1> QED
    BY <1>1, AdaptationInductive, PTL

-----------------------------------------------------------------------------
(* Direct orders: the invariant.                                            *)

DirectWork ==
  [task : {"none", "claim", "execute", "pend", "call", "record", "settle", "finalize",
           "authorize", "close", "publish"},
   outcome : {"none", "direct", "multicall"} \cup Results \cup Verdicts, left : {0}]

OrderRow ==
  [status : {"none", "created", "pending", "review", "blocked", "manual", "delivered"},
   payment : DirectPayments \cup {NoPayment}, used : BOOLEAN]

SubjectType ==
  [order : DirectOrders \cup {NoOrder}, payment : DirectPayments \cup {NoPayment}]

TaskStatuses == {"none", "queued", "leased", "late", "completed"} \cup Verdicts

DirectTyped ==
  /\ direct \in [DirectOrders -> OrderRow]
  /\ passes \in [DirectPayments -> SUBSET DirectOrders]
  /\ claimedFor \in [DirectPayments -> DirectOrders \cup {NoOrder}]
  /\ banned \in BOOLEAN
  /\ connector \in [DirectOrders -> TaskStatuses]
  /\ allocated \subseteq DirectOrders
  /\ subject \in [Staff -> SubjectType]
  /\ unserved \subseteq DirectPayments /\ interrupted \subseteq DirectOrders

\* The calls that have claimed a payment and have not written the order yet, and
\* those that rest on the payment written there.
Claiming == {"execute", "pend", "call", "record"}
Resting == {"settle", "finalize", "authorize"}

\* What a call has in hand stays true of the payment and of the connector's task,
\* whatever the others write.
InHand(t) ==
  LET o == subject[t].order
      x == subject[t].payment
      task == desk[t].task IN
  /\ IF task = "none" THEN desk[t].outcome = "none" ELSE o \in DirectOrders
  /\ task \in {"claim"} \cup Claiming \cup Resting => x \in DirectPayments /\ o \in passes[x]
  /\ task \in Claiming \cup Resting => claimedFor[x] = o
  /\ task \in Resting => direct[o].payment # NoPayment
  /\ task = "pend" => connector[o] # "none"
  /\ task = "close" => connector[o] \in {"completed"} \cup Verdicts
  /\ task = "publish" => connector[o] \in Verdicts
  /\ task \in {"close", "publish"} => desk[t].outcome \in Verdicts
  /\ desk[t].outcome = "multicall" => task \in {"claim", "record"}

Claimant(t, o, x) ==
  desk[t].task \in Claiming /\ subject[t].order = o /\ subject[t].payment = x

Publishing(o) == \E t \in Staff : desk[t].task = "publish" /\ subject[t].order = o

\* A payment is claimed once.  An order none but x was claimed for is untouched
\* until the claimant of x writes it, and has a task only if that call made it.
ClaimsAreSingle ==
  \A t \in Staff : desk[t].task \in Claiming =>
    LET o == subject[t].order
        x == subject[t].payment IN
    /\ \A u \in Staff : Claimant(u, o, x) => u = t
    /\ Taken(o) = {x} => /\ direct[o].payment = NoPayment
                         /\ desk[t].task # "pend" => connector[o] = "none"

\* Until the order bears the payment, its claimant is at work.
Recorded(o) ==
  \A x \in Taken(o) :
    \/ direct[o].payment = x
    \/ x \in unserved
    \/ \E t \in Staff : Claimant(t, o, x)
    \/ o \in interrupted \/ Taken(o) # {x}

\* Nothing of what the properties except has happened to the order.
Untroubled(o) == ~overlapped /\ o \notin interrupted /\ Taken(o) \cap unserved = {}

ActiveTasks == {"queued", "leased", "late", "completed"}

Queued(o) ==
  direct[o].status = "pending" /\ ~direct[o].used /\ direct[o].payment # NoPayment

\* The order is delivered, may be finalized, or is left to a person; no result of
\* a connector is to come.
Concluded(o) ==
  /\ \/ direct[o].status = "delivered" /\ direct[o].used
     \/ Finalizable(direct[o])
     \/ direct[o].status = "manual" /\ ~direct[o].used
  /\ connector[o] \notin ActiveTasks

ProceedsOn(o) ==
  \A x \in DirectPayments : Taken(o) = {x} /\ Untroubled(o) =>
    \/ \E t \in Staff : Claimant(t, o, x)
    \/ Concluded(o)
    \/ Queued(o) /\ (connector[o] \in ActiveTasks \/ Publishing(o))

\* What a call has read of an order nothing has happened to.
OrderIsRead(t) ==
  LET o == subject[t].order IN
  \A x \in DirectPayments : Taken(o) = {x} /\ Untroubled(o) =>
    /\ desk[t].task = "pend" => connector[o] \in ActiveTasks \/ Publishing(o)
    /\ desk[t].task \in {"close", "publish"} =>
         Queued(o) \/ \E c \in Staff : Claimant(c, o, x)
    /\ desk[t].task \in {"finalize", "authorize"} => Finalizable(direct[o])

PaymentsInv ==
  /\ \A t \in Staff : InHand(t)
  /\ \A o \in DirectOrders : PaidByItsOwn(o)
  /\ \A o \in DirectOrders : connector[o] # "none" => Taken(o) # {}

OrdersInv ==
  /\ ClaimsAreSingle
  /\ \A o \in DirectOrders : Recorded(o)
  /\ \A o \in DirectOrders : ProceedsOn(o)
  /\ \A t \in Staff : Current(t) => OrderIsRead(t)

DirectInv ==
  /\ CallsTyped(DirectWork) /\ FaultsTyped /\ DirectTyped
  /\ PaymentsInv
  /\ OrdersInv

-----------------------------------------------------------------------------
(* Direct orders: what a step leaves alone.                                 *)

DirectBase == CallsTyped(DirectWork) /\ FaultsTyped /\ DirectTyped

LEMMA NoDirectWork == NoWork \in DirectWork
  BY DEF NoWork, Work, DirectWork

LEMMA IdleSubject == NoSubject \in SubjectType
  BY DEF NoSubject, SubjectType

\* A piece of work is what it says.
LEMMA WorkParts ==
  ASSUME NEW CONSTANT task, NEW CONSTANT outcome, NEW CONSTANT left
  PROVE  /\ Work(task, outcome, left).task = task
         /\ Work(task, outcome, left).outcome = outcome
  BY DEF Work

LEMMA InitDirectInv == DirectInit => DirectInv
  <1> SUFFICES ASSUME DirectInit PROVE DirectInv
    OBVIOUS
  <1>1. CallsTyped(DirectWork)
    BY NoDirectWork DEF DirectInit, CallsInit, CallsTyped
  <1>2. FaultsTyped
    BY FaultsAssumption DEF DirectInit, FaultsTyped
  <1>3. DirectTyped
    BY IdleSubject DEF DirectInit, DirectTyped, OrderRow, TaskStatuses
  <1>4. /\ \A t \in Staff : desk[t].task = "none" /\ desk[t].outcome = "none"
        /\ \A o \in DirectOrders : /\ direct[o].payment = NoPayment /\ ~direct[o].used
                                   /\ connector[o] = "none" /\ Taken(o) = {}
        /\ allocated = {}
    BY DirectAssumption, NoWorkTask DEF DirectInit, CallsInit, NoWork, Work, Taken
  <1>5. PaymentsInv
    BY <1>4 DEF PaymentsInv, InHand, PaidByItsOwn, Claiming, Resting
  <1>6. OrdersInv
    BY <1>4 DEF OrdersInv, ClaimsAreSingle, Recorded, ProceedsOn, OrderIsRead, Claiming
  <1> QED
    BY <1>1, <1>2, <1>3, <1>5, <1>6 DEF DirectInv

\* The steps of a call: it begins, goes on, ends, or writes its order.
LEMMA ServesEffect ==
  ASSUME DirectBase, NEW t \in Staff, NEW o \in DirectOrders,
         NEW x \in DirectPayments \cup {NoPayment},
         NEW task, NEW outcome, Work(task, outcome, 0) \in DirectWork,
         Serves(t, o, x, task, outcome)
  PROVE  /\ CallsTyped(DirectWork)' /\ FaultsTyped'
         /\ subject' \in [Staff -> SubjectType]
         /\ desk[t].task = "none"
         /\ desk'[t].task = task /\ desk'[t].outcome = outcome
         /\ subject'[t].order = o /\ subject'[t].payment = x
         /\ \A u \in Staff : u # t => desk'[u] = desk[u] /\ subject'[u] = subject[u]
         /\ UNCHANGED <<outdated, overlapped>>
  <1>1. /\ CallsTyped(DirectWork)' /\ FaultsTyped' /\ t \notin Busy
        /\ desk'[t] = Work(task, outcome, 0)
        /\ \A u \in Staff : u # t => desk'[u] = desk[u]
        /\ UNCHANGED <<outdated, overlapped>>
    BY TakesEffect DEF Serves, Decides, DirectBase
  <1>2. desk[t].task = "none"
    BY <1>1, NoWorkTask DEF Busy
  <1>3. [order |-> o, payment |-> x] \in SubjectType
    BY DEF SubjectType
  <1>4. /\ subject' \in [Staff -> SubjectType]
        /\ subject'[t].order = o /\ subject'[t].payment = x
        /\ \A u \in Staff : u # t => subject'[u] = subject[u]
    BY <1>3 DEF Serves, DirectBase, DirectTyped
  <1> QED
    BY <1>1, <1>2, <1>4, WorkParts

LEMMA ProceedsEffect ==
  ASSUME DirectBase, NEW t \in Staff,
         NEW task, NEW outcome, Work(task, outcome, 0) \in DirectWork,
         Proceeds(t, task, outcome)
  PROVE  /\ CallsTyped(DirectWork)' /\ FaultsTyped'
         /\ desk'[t].task = task /\ desk'[t].outcome = outcome
         /\ \A u \in Staff : u # t => desk'[u] = desk[u]
         /\ UNCHANGED <<outdated, overlapped, subject>>
  BY WorkParts DEF Proceeds, DirectBase, CallsTyped, FaultsTyped

LEMMA AnswersEffect ==
  ASSUME DirectBase, NEW t \in Staff, Answers(t)
  PROVE  /\ CallsTyped(DirectWork)'
         /\ subject' \in [Staff -> SubjectType]
         /\ desk'[t].task = "none" /\ desk'[t].outcome = "none"
         /\ \A u \in Staff : u # t => desk'[u] = desk[u] /\ subject'[u] = subject[u]
         /\ \A u \in Staff : u # t => (Current(u)' <=> Current(u))
         /\ UNCHANGED overlapped
  <1>1. /\ CallsTyped(DirectWork)' /\ desk'[t] = NoWork
        /\ \A u \in Staff : u # t => desk'[u] = desk[u]
        /\ \A u \in Staff : u # t => (Current(u)' <=> Current(u))
        /\ UNCHANGED overlapped
    BY NoDirectWork, LeavesEffect DEF Answers, DirectBase
  <1>2. NoWork.task = "none" /\ NoWork.outcome = "none"
    BY DEF NoWork, Work
  <1>3. /\ subject' \in [Staff -> SubjectType]
        /\ \A u \in Staff : u # t => subject'[u] = subject[u]
    BY IdleSubject DEF Answers, DirectBase, DirectTyped
  <1> QED
    BY <1>1, <1>2, <1>3

LEMMA WritesOrderEffect ==
  ASSUME DirectBase, NEW t \in Staff, subject[t].order \in DirectOrders,
         NEW row \in OrderRow, NEW next \in {NoWork, Work("settle", "none", 0)},
         WritesOrder(t, row, next)
  PROVE  /\ CallsTyped(DirectWork)' /\ FaultsTyped'
         /\ subject' \in [Staff -> SubjectType] /\ direct' \in [DirectOrders -> OrderRow]
         /\ direct'[subject[t].order] = row
         /\ \A o \in DirectOrders : o # subject[t].order => direct'[o] = direct[o]
         /\ desk'[t] = next /\ desk'[t].outcome = "none"
         /\ \/ desk'[t].task = "none"
            \/ desk'[t].task = "settle" /\ subject'[t] = subject[t]
         /\ \A u \in Staff : u # t => desk'[u] = desk[u] /\ subject'[u] = subject[u]
         /\ overlapped' = (overlapped \/ t \in outdated)
         /\ \A u \in Staff : u # t /\ Current(u)' =>
              desk[u].task = "none" \/ (subject[u].order # subject[t].order /\ Current(u))
  <1>1. /\ next \in DirectWork /\ next.outcome = "none"
        /\ next.task \in {"none", "settle"} /\ (next = NoWork <=> next.task = "none")
    BY DEF Work, NoWork, DirectWork
  <1>2. /\ CallsTyped(DirectWork)' /\ FaultsTyped' /\ desk'[t] = next
        /\ \A u \in Staff : u # t => desk'[u] = desk[u]
        /\ overlapped' = (overlapped \/ t \in outdated)
    BY <1>1 DEF WritesOrder, DirectBase, CallsTyped, FaultsTyped, Busy
  <1>3. /\ direct' \in [DirectOrders -> OrderRow] /\ direct'[subject[t].order] = row
        /\ \A o \in DirectOrders : o # subject[t].order => direct'[o] = direct[o]
    BY DEF WritesOrder, DirectBase, DirectTyped
  <1>4. /\ subject' \in [Staff -> SubjectType]
        /\ next.task = "none" \/ subject'[t] = subject[t]
        /\ \A u \in Staff : u # t => subject'[u] = subject[u]
    BY <1>1, IdleSubject DEF WritesOrder, DirectBase, DirectTyped
  <1>5. ASSUME NEW u \in Staff, u # t, Current(u)', desk[u].task # "none"
        PROVE  subject[u].order # subject[t].order /\ Current(u)
    <2>1. u \in Busy
      BY <1>5, NoWorkTask DEF Busy
    <2> QED
      BY <1>2, <1>5, <2>1 DEF WritesOrder, Current, DirectBase, CallsTyped
  <1>6. /\ desk'[t].outcome = "none"
        /\ \/ desk'[t].task = "none"
           \/ desk'[t].task = "settle" /\ subject'[t] = subject[t]
    BY <1>1, <1>2, <1>4
  <1>7. \A u \in Staff : u # t => desk'[u] = desk[u] /\ subject'[u] = subject[u]
    BY <1>2, <1>4
  <1> QED
    BY <1>2, <1>3, <1>4, <1>5, <1>6, <1>7

\* What an order has gone through, it has gone through for good.
LEMMA TroubleStays ==
  ASSUME NEW o, claimedFor' = claimedFor, overlapped => overlapped',
         unserved \subseteq unserved', interrupted \subseteq interrupted'
  PROVE  Taken(o)' = Taken(o) /\ (Untroubled(o)' => Untroubled(o))
  BY DEF Taken, Untroubled

-----------------------------------------------------------------------------
(* Direct orders: steps of no call.                                         *)

\* An order is created, a buyer pays or is banned: nothing that was claimed or
\* written before is touched.
LEMMA BuyersDirectInv ==
  ASSUME DirectInv,
         \/ \E o \in DirectOrders : CreateOrder(o)
         \/ \E x \in DirectPayments : PayDirectly(x)
         \/ \E o \in DirectOrders, x \in DirectPayments : RefusePayment(o, x)
  PROVE  DirectInv'
  <1> USE DEF DirectInv
  <1>1. /\ UNCHANGED <<claimedFor, connector, allocated, subject, unserved, interrupted,
                       desk, outdated, overlapped, faults>>
        /\ direct' \in [DirectOrders -> OrderRow] /\ passes' \in [DirectPayments -> SUBSET DirectOrders]
        /\ banned' \in BOOLEAN
    <2>1. CASE \E o \in DirectOrders : CreateOrder(o)
      BY <2>1 DEF CreateOrder, callVars, DirectTyped, OrderRow
    <2>2. CASE \E x \in DirectPayments : PayDirectly(x)
      BY <2>2 DEF PayDirectly, callVars, DirectTyped
    <2>3. CASE \E o \in DirectOrders, x \in DirectPayments : RefusePayment(o, x)
      BY <2>3 DEF RefusePayment, callVars, DirectTyped
    <2> QED
      BY <2>1, <2>2, <2>3
  <1>2. \A o \in DirectOrders :
          /\ direct'[o].payment = direct[o].payment /\ direct'[o].used = direct[o].used
          /\ direct'[o] = direct[o] \/ (direct[o].status = "none" /\ direct'[o].status = "created")
    BY DEF CreateOrder, PayDirectly, RefusePayment, DirectTyped, OrderRow
  <1>3. \A x \in DirectPayments : passes'[x] = passes[x] \/ passes[x] = {}
    BY DEF CreateOrder, PayDirectly, RefusePayment, DirectTyped
  <1>4. CallsTyped(DirectWork)' /\ FaultsTyped' /\ DirectTyped'
    BY <1>1 DEF CallsTyped, FaultsTyped, DirectTyped
  <1>5. \A o \in DirectOrders :
          /\ Taken(o)' = Taken(o) /\ (Untroubled(o)' <=> Untroubled(o))
          /\ Publishing(o)' <=> Publishing(o)
          /\ Concluded(o) => Concluded(o)'
          /\ Queued(o) => Queued(o)'
          /\ Finalizable(direct[o]) => Finalizable(direct'[o])
    BY <1>1, <1>2 DEF Taken, Untroubled, Publishing, Concluded, Queued, Finalizable
  <1>6. \A t \in Staff : /\ Current(t)' <=> Current(t)
                         /\ \A o \in DirectOrders, x \in DirectPayments :
                              Claimant(t, o, x)' <=> Claimant(t, o, x)
    BY <1>1 DEF Current, Claimant
  <1>7. PaymentsInv'
    <2>1. \A t \in Staff : InHand(t)'
      BY <1>1, <1>2, <1>3 DEF PaymentsInv, InHand, Claiming, Resting
    <2>2. \A o \in DirectOrders : PaidByItsOwn(o)'
      BY <1>1, <1>2, <1>3, <1>5 DEF PaymentsInv, PaidByItsOwn, DirectTyped, OrderRow
    <2> QED
      BY <1>1, <1>5, <2>1, <2>2 DEF PaymentsInv
  <1>8. \A t \in Staff : desk[t].task # "none" => subject[t].order \in DirectOrders
    BY DEF PaymentsInv, InHand
  <1>9. OrdersInv'
    <2>1. ClaimsAreSingle'
      BY <1>1, <1>2, <1>5, <1>8 DEF OrdersInv, ClaimsAreSingle, Claimant, Claiming
    <2>2. \A o \in DirectOrders : Recorded(o)'
      BY <1>1, <1>2, <1>5, <1>6 DEF OrdersInv, Recorded, DirectTyped, Taken
    <2>3. \A o \in DirectOrders : ProceedsOn(o)'
      BY <1>1, <1>5, <1>6 DEF OrdersInv, ProceedsOn
    <2>4. \A t \in Staff : Current(t)' => OrderIsRead(t)'
      BY <1>1, <1>5, <1>6, <1>8 DEF OrdersInv, OrderIsRead
    <2> QED
      BY <2>1, <2>2, <2>3, <2>4 DEF OrdersInv
  <1> QED
    BY <1>4, <1>7, <1>9

\* The seller's connector works on a task that waits for it.
LEMMA ConnectorDirectInv ==
  ASSUME DirectInv, NEW o \in DirectOrders, ClaimTask(o) \/ TaskLeaseEnds(o) \/ CompleteTask(o)
  PROVE  DirectInv'
  <1> USE DEF DirectInv
  <1>1. /\ UNCHANGED <<direct, passes, claimedFor, banned, allocated, subject, unserved,
                       interrupted, desk, outdated, overlapped, faults>>
        /\ connector[o] \in ActiveTasks \ {"completed"} /\ connector'[o] \in ActiveTasks
        /\ \A u \in DirectOrders : u # o => connector'[u] = connector[u]
        /\ connector' \in [DirectOrders -> TaskStatuses]
    BY DEF ClaimTask, TaskLeaseEnds, CompleteTask, callVars, DirectTyped, TaskStatuses, ActiveTasks
  <1>2. CallsTyped(DirectWork)' /\ FaultsTyped' /\ DirectTyped'
    BY <1>1 DEF CallsTyped, FaultsTyped, DirectTyped
  <1>3. connector[o] \notin {"none", "completed"} \cup Verdicts /\ connector'[o] # "none"
    BY <1>1 DEF ActiveTasks, Verdicts
  <1>4. /\ \A u : Taken(u)' = Taken(u) /\ (Untroubled(u)' <=> Untroubled(u))
        /\ \A u : Publishing(u)' <=> Publishing(u)
        /\ \A u \in DirectOrders : Queued(u)' <=> Queued(u)
        /\ \A u \in DirectOrders : Concluded(u) => Concluded(u)'
    BY <1>1 DEF Taken, Untroubled, Publishing, Concluded, Queued
  <1>5. \A t \in Staff : /\ Current(t)' <=> Current(t)
                         /\ \A u, x : Claimant(t, u, x)' <=> Claimant(t, u, x)
    BY <1>1 DEF Current, Claimant
  <1>6. PaymentsInv'
    BY <1>1, <1>3, <1>4 DEF PaymentsInv, InHand, PaidByItsOwn, Claiming, Resting
  <1>7. OrdersInv'
    <2>1. ClaimsAreSingle'
      BY <1>1, <1>3, <1>4, <1>5 DEF OrdersInv, ClaimsAreSingle, PaymentsInv, InHand, Claiming
    <2>2. \A u \in DirectOrders : Recorded(u)'
      BY <1>1, <1>4, <1>5 DEF OrdersInv, Recorded
    <2>3. \A u \in DirectOrders : ProceedsOn(u)'
      BY <1>1, <1>4, <1>5 DEF OrdersInv, ProceedsOn
    <2>4. \A t \in Staff : desk[t].task # "none" => subject[t].order \in DirectOrders
      BY DEF PaymentsInv, InHand
    <2>5. \A t \in Staff : Current(t)' => OrderIsRead(t)'
      BY <1>1, <1>4, <1>5, <2>4 DEF OrdersInv, OrderIsRead
    <2> QED
      BY <2>1, <2>2, <2>3, <2>5 DEF OrdersInv
  <1> QED
    BY <1>2, <1>6, <1>7

-----------------------------------------------------------------------------
(* Direct orders: calls that begin, go on or end.                           *)

\* A call that begins claims nothing yet, and has read the order as it is.
LEMMA BeginsDirectInv ==
  ASSUME DirectInv, NEW t \in Staff, NEW o \in DirectOrders,
         \/ \E x \in DirectPayments, mode \in {"direct", "multicall"} :
              BeginDirectPayment(t, o, x, mode)
         \/ BeginTaskVerification(t, o)
         \/ BeginFinalization(t, o)
  PROVE  DirectInv'
  <1> USE DEF DirectInv
  <1>1. PICK task \in {"claim", "close", "finalize"}, x \in DirectPayments \cup {NoPayment},
             outcome \in {"none", "direct", "multicall"} \cup Verdicts :
          /\ Serves(t, o, x, task, outcome)
          /\ task = "claim" => x \in DirectPayments /\ o \in passes[x]
          /\ task = "close" => connector[o] = "completed" /\ outcome \in Verdicts
          /\ task = "finalize" => Finalizable(direct[o]) /\ x = direct[o].payment
                                  /\ outcome = "none"
    <2>1. CASE \E x \in DirectPayments, mode \in {"direct", "multicall"} :
                 BeginDirectPayment(t, o, x, mode)
      BY <2>1 DEF BeginDirectPayment
    <2>2. CASE BeginTaskVerification(t, o)
      BY <2>2 DEF BeginTaskVerification
    <2>3. CASE BeginFinalization(t, o)
      BY <2>3 DEF BeginFinalization, DirectTyped, OrderRow
    <2> QED
      BY <2>1, <2>2, <2>3
  <1>2. UNCHANGED <<direct, passes, claimedFor, banned, connector, allocated, unserved,
                    interrupted>>
    BY DEF BeginDirectPayment, BeginTaskVerification, BeginFinalization
  <1>3. Work(task, outcome, 0) \in DirectWork
    BY DEF Work, DirectWork
  <1>4. /\ CallsTyped(DirectWork)' /\ FaultsTyped'
        /\ subject' \in [Staff -> SubjectType]
        /\ desk[t].task = "none"
        /\ desk'[t].task = task /\ desk'[t].outcome = outcome
        /\ subject'[t].order = o /\ subject'[t].payment = x
        /\ \A u \in Staff : u # t => desk'[u] = desk[u] /\ subject'[u] = subject[u]
        /\ UNCHANGED <<outdated, overlapped>>
    BY <1>1, <1>3, ServesEffect DEF DirectBase
  <1>5. DirectTyped'
    BY <1>2, <1>4 DEF DirectTyped
  <1>6. /\ \A u : Taken(u)' = Taken(u) /\ (Untroubled(u)' <=> Untroubled(u))
        /\ \A u : Publishing(u)' <=> Publishing(u)
        /\ \A u \in DirectOrders : Queued(u)' <=> Queued(u)
        /\ \A u \in DirectOrders : Concluded(u)' <=> Concluded(u)
    BY <1>1, <1>2, <1>4 DEF Taken, Untroubled, Publishing, Concluded, Queued
  <1>7. \A u \in Staff : /\ Current(u)' <=> Current(u)
                         /\ \A p, y : Claimant(u, p, y)' <=> Claimant(u, p, y)
    BY <1>1, <1>4 DEF Current, Claimant, Claiming
  <1>8. PaymentsInv'
    <2>1. \A p \in DirectOrders : PaidByItsOwn(p)'
      BY <1>2, <1>6 DEF PaymentsInv, PaidByItsOwn
    <2>2. ASSUME NEW u \in Staff, u # t PROVE InHand(u)'
      BY <1>2, <1>4, <2>2 DEF PaymentsInv, InHand
    <2>3. InHand(t)'
      <3>1. task = "finalize" =>
              /\ x \in DirectPayments /\ claimedFor[x] = o /\ o \in passes[x]
              /\ direct[o].payment # NoPayment
        BY <1>1 DEF PaymentsInv, PaidByItsOwn, Finalizable, Taken
      <3> QED
        BY <1>1, <1>2, <1>4, <3>1 DEF InHand, Claiming, Resting, Verdicts
    <2> QED
      BY <1>2, <1>6, <2>1, <2>2, <2>3 DEF PaymentsInv
  <1>9. OrdersInv'
    <2>1. ClaimsAreSingle'
      BY <1>1, <1>2, <1>4, <1>6, <1>7 DEF OrdersInv, ClaimsAreSingle, Claiming
    <2>2. \A p \in DirectOrders : Recorded(p)'
      BY <1>2, <1>6, <1>7 DEF OrdersInv, Recorded
    <2>3. \A p \in DirectOrders : ProceedsOn(p)'
      BY <1>2, <1>6, <1>7 DEF OrdersInv, ProceedsOn
    <2>4. ASSUME NEW u \in Staff, u # t, Current(u)' PROVE OrderIsRead(u)'
      <3>1. desk[u].task # "none" => subject[u].order \in DirectOrders
        BY DEF PaymentsInv, InHand
      <3> QED
        BY <1>2, <1>4, <1>6, <1>7, <2>4, <3>1 DEF OrdersInv, OrderIsRead
    <2>5. OrderIsRead(t)'
      <3>1. SUFFICES ASSUME NEW y \in DirectPayments, Taken(o) = {y}, Untroubled(o),
                            task = "close"
                     PROVE  Queued(o) \/ \E c \in Staff : Claimant(c, o, y)
        BY <1>1, <1>2, <1>4, <1>6, <1>7 DEF OrderIsRead
      <3>2. connector[o] \in ActiveTasks
        BY <1>1, <3>1 DEF ActiveTasks
      <3> QED
        BY <3>1, <3>2 DEF OrdersInv, ProceedsOn, Concluded
    <2> QED
      BY <2>1, <2>2, <2>3, <2>4, <2>5 DEF OrdersInv
  <1> QED
    BY <1>4, <1>5, <1>8, <1>9

\* A call goes on: execution has returned, or its settlement was allocated.
LEMMA GoesOnDirectInv ==
  ASSUME DirectInv, NEW t \in Staff, Execute(t) \/ ExecuteFinal(t)
             \/ (/\ desk[t].task = "call" /\ Proceeds(t, "record", "multicall")
                 /\ allocated' \in {allocated, allocated \cup {subject[t].order}}
                 /\ UNCHANGED <<direct, passes, claimedFor, banned, connector, unserved,
                                interrupted>>)
  PROVE  DirectInv'
  <1> USE DEF DirectInv
  <1>1. PICK task \in {"record", "authorize"}, outcome \in {"multicall"} \cup Results :
          /\ Proceeds(t, task, outcome)
          /\ task = "record" => desk[t].task \in {"execute", "call"}
          /\ task = "authorize" => desk[t].task = "finalize" /\ outcome # "multicall"
          /\ desk[t].task # "call" => outcome # "multicall"
    BY DEF Execute, ExecuteFinal, Results
  <1>2. /\ UNCHANGED <<direct, passes, claimedFor, banned, connector, unserved, interrupted>>
        /\ \/ allocated' = allocated
           \/ desk[t].task = "call" /\ allocated' = allocated \cup {subject[t].order}
    BY DEF Execute, ExecuteFinal
  <1>3. Work(task, outcome, 0) \in DirectWork
    BY DEF Work, DirectWork
  <1>4. /\ CallsTyped(DirectWork)' /\ FaultsTyped'
        /\ desk'[t].task = task /\ desk'[t].outcome = outcome
        /\ \A u \in Staff : u # t => desk'[u] = desk[u]
        /\ UNCHANGED <<outdated, overlapped, subject>>
    BY <1>1, <1>3, ProceedsEffect DEF DirectBase
  <1>5. InHand(t) /\ subject[t].order \in DirectOrders
    BY <1>1 DEF PaymentsInv, InHand
  <1>6. DirectTyped'
    BY <1>2, <1>4, <1>5 DEF DirectTyped
  <1>7. /\ \A u : Taken(u)' = Taken(u) /\ (Untroubled(u)' <=> Untroubled(u))
        /\ \A u : Publishing(u)' <=> Publishing(u)
        /\ \A u \in DirectOrders : Queued(u)' <=> Queued(u)
        /\ \A u \in DirectOrders : Concluded(u)' <=> Concluded(u)
    BY <1>1, <1>2, <1>4 DEF Taken, Untroubled, Publishing, Concluded, Queued
  <1>8. \A u \in Staff : /\ Current(u)' <=> Current(u)
                         /\ \A p, y : Claimant(u, p, y)' <=> Claimant(u, p, y)
    BY <1>1, <1>4 DEF Current, Claimant, Claiming
  <1>9. PaymentsInv'
    <2>1. ASSUME NEW u \in Staff PROVE InHand(u)'
      BY <1>1, <1>2, <1>4, <1>5 DEF PaymentsInv, InHand, Claiming, Resting
    <2>2. desk[t].task = "call" => Taken(subject[t].order) # {}
      BY <1>5 DEF InHand, Claiming, Taken
    <2>3. \A p \in DirectOrders : PaidByItsOwn(p)'
      BY <1>2, <1>7, <2>2 DEF PaymentsInv, PaidByItsOwn
    <2> QED
      BY <1>2, <1>7, <2>1, <2>3 DEF PaymentsInv
  <1>10. OrdersInv'
    <2>1. ClaimsAreSingle'
      BY <1>1, <1>2, <1>4, <1>7, <1>8 DEF OrdersInv, ClaimsAreSingle, Claiming
    <2>2. \A p \in DirectOrders : Recorded(p)'
      BY <1>2, <1>7, <1>8 DEF OrdersInv, Recorded
    <2>3. \A p \in DirectOrders : ProceedsOn(p)'
      BY <1>2, <1>7, <1>8 DEF OrdersInv, ProceedsOn
    <2>4. ASSUME NEW u \in Staff, Current(u)' PROVE OrderIsRead(u)'
      <3>1. desk[u].task # "none" => subject[u].order \in DirectOrders
        BY DEF PaymentsInv, InHand
      <3> QED
        BY <1>1, <1>2, <1>4, <1>7, <1>8, <2>4, <3>1 DEF OrdersInv, OrderIsRead
    <2> QED
      BY <2>1, <2>2, <2>3, <2>4 DEF OrdersInv
  <1> QED
    BY <1>4, <1>6, <1>9, <1>10

\* The payment is claimed: by this call alone, and the order is untouched unless
\* another payment was claimed for it before.
LEMMA ClaimsDirectInv ==
  ASSUME DirectInv, NEW t \in Staff, desk[t].task = "claim", Unprocessed(subject[t].payment),
         claimedFor' = [claimedFor EXCEPT ![subject[t].payment] = subject[t].order],
         Proceeds(t, IF desk[t].outcome = "direct" THEN "execute" ELSE "call", "none"),
         UNCHANGED <<direct, passes, banned, connector, allocated, unserved, interrupted>>
  PROVE  DirectInv'
  <1> USE DEF DirectInv
  <1>1. PICK task \in {"execute", "call"} : Proceeds(t, task, "none")
    OBVIOUS
  <1>2. Work(task, "none", 0) \in DirectWork
    BY DEF Work, DirectWork
  <1>3. PICK o \in DirectOrders, x \in DirectPayments :
          /\ subject[t].order = o /\ subject[t].payment = x
          /\ o \in passes[x] /\ claimedFor[x] = NoOrder
    BY DEF PaymentsInv, InHand, Unprocessed
  <1>4. /\ claimedFor' \in [DirectPayments -> DirectOrders \cup {NoOrder}]
        /\ claimedFor'[x] = o
        /\ \A y \in DirectPayments : y # x => claimedFor'[y] = claimedFor[y]
    BY <1>3 DEF DirectTyped
  <1>5. /\ CallsTyped(DirectWork)' /\ FaultsTyped'
        /\ desk'[t].task = task /\ desk'[t].outcome = "none"
        /\ \A u \in Staff : u # t => desk'[u] = desk[u]
        /\ UNCHANGED <<outdated, overlapped, subject>>
    BY <1>1, <1>2, ProceedsEffect DEF DirectBase
  <1>6. /\ Taken(o)' = Taken(o) \cup {x} /\ x \notin Taken(o)
        /\ \A u \in DirectOrders : u # o => Taken(u)' = Taken(u)
    BY <1>3, <1>4, DirectAssumption DEF Taken
  <1>7. /\ \A u \in DirectOrders : Untroubled(u)' => Untroubled(u)
        /\ \A u : Publishing(u)' <=> Publishing(u)
        /\ \A u \in DirectOrders : Queued(u)' <=> Queued(u)
        /\ \A u \in DirectOrders : Concluded(u)' <=> Concluded(u)
    BY <1>1, <1>5, <1>6 DEF Untroubled, Publishing, Concluded, Queued
  <1>8. /\ \A u \in Staff : Current(u)' <=> Current(u)
        /\ Claimant(t, o, x)'
        /\ \A u \in Staff : u # t => \A p, y : (Claimant(u, p, y)' <=> Claimant(u, p, y))
        /\ \A p, y : ~Claimant(t, p, y)
    BY <1>1, <1>3, <1>5 DEF Current, Claimant, Claiming
  <1>9. \A u \in Staff : /\ desk[u].task # "none" => subject[u].order \in DirectOrders
                         /\ desk[u].task \in Claiming \cup Resting =>
                              /\ subject[u].payment \in DirectPayments
                              /\ claimedFor[subject[u].payment] = subject[u].order
                              /\ subject[u].payment # x
    BY <1>3, DirectAssumption DEF PaymentsInv, InHand, Claiming, Resting
  <1>10. DirectTyped'
    BY <1>4, <1>5 DEF DirectTyped
  <1>11. PaymentsInv'
    <2>1. InHand(t)'
      BY <1>1, <1>3, <1>4, <1>5 DEF InHand, Claiming, Resting
    <2>2. ASSUME NEW u \in Staff, u # t PROVE InHand(u)'
      BY <1>4, <1>5, <1>9, <2>2 DEF PaymentsInv, InHand
    <2>3. \A p \in DirectOrders : PaidByItsOwn(p)'
      BY <1>6 DEF PaymentsInv, PaidByItsOwn
    <2> QED
      BY <1>6, <2>1, <2>2, <2>3 DEF PaymentsInv
  <1>12. ASSUME NEW y \in DirectPayments, Taken(o)' = {y}
         PROVE  y = x /\ Taken(o) = {} /\ direct[o].payment = NoPayment
                /\ connector[o] = "none"
    BY <1>3, <1>6, <1>12 DEF PaymentsInv, PaidByItsOwn
  <1>13. OrdersInv'
    <2>1. ClaimsAreSingle'
      <3>1. ASSUME NEW u \in Staff, u # t, desk'[u].task \in Claiming,
                   NEW p \in DirectOrders, NEW y \in DirectPayments,
                   subject'[u].order = p, subject'[u].payment = y
            PROVE  /\ \A v \in Staff : Claimant(v, p, y)' => v = u
                   /\ Taken(p)' = {y} => /\ direct'[p].payment = NoPayment
                                         /\ desk'[u].task # "pend" => connector'[p] = "none"
        <4>1. /\ desk[u].task \in Claiming /\ y # x
              /\ subject[u].order = p /\ subject[u].payment = y
          BY <1>5, <1>9, <3>1 DEF Claiming
        <4>2. \A v \in Staff : Claimant(v, p, y)' => v = u
          BY <1>3, <1>5, <1>8, <4>1 DEF OrdersInv, ClaimsAreSingle, Claimant
        <4>3. Taken(p)' = {y} => Taken(p) = {y}
          BY <1>6, <4>1
        <4> QED
          BY <1>5, <3>1, <4>1, <4>2, <4>3 DEF OrdersInv, ClaimsAreSingle
      <3>2. /\ \A v \in Staff : Claimant(v, o, x)' => v = t
            /\ Taken(o)' = {x} => direct'[o].payment = NoPayment /\ connector'[o] = "none"
        BY <1>3, <1>5, <1>8, <1>9, <1>12 DEF Claimant
      <3>3. \A u \in Staff : desk'[u].task \in Claiming =>
              subject'[u].order \in DirectOrders /\ subject'[u].payment \in DirectPayments
        BY <1>3, <1>5, <1>9 DEF Claiming
      <3> QED
        BY <1>3, <1>5, <3>1, <3>2, <3>3 DEF ClaimsAreSingle
    <2>2. ASSUME NEW p \in DirectOrders PROVE Recorded(p)'
      <3>1. CASE p # o
        BY <1>6, <1>8, <3>1 DEF OrdersInv, Recorded
      <3>2. CASE p = o
        <4>1. Taken(o) = {} \/ \A y : Taken(o)' # {y}
          BY <1>6
        <4> QED
          BY <1>6, <1>8, <3>2, <4>1 DEF Recorded
      <3> QED
        BY <3>1, <3>2
    <2>3. ASSUME NEW p \in DirectOrders PROVE ProceedsOn(p)'
      <3>1. CASE p # o
        BY <1>6, <1>7, <1>8, <3>1 DEF OrdersInv, ProceedsOn
      <3>2. CASE p = o
        BY <1>8, <1>12, <3>2 DEF ProceedsOn
      <3> QED
        BY <3>1, <3>2
    <2>4. ASSUME NEW u \in Staff, Current(u)' PROVE OrderIsRead(u)'
      <3>1. CASE desk'[u].task \in {"none", "claim", "execute", "call", "record", "settle"}
        BY <3>1 DEF OrderIsRead
      <3>2. CASE u # t /\ subject[u].order # o /\ desk[u].task # "none"
        BY <1>5, <1>6, <1>7, <1>8, <1>9, <2>4, <3>2 DEF OrdersInv, OrderIsRead
      <3>3. CASE u # t /\ subject[u].order = o
                 /\ desk[u].task \in {"pend", "close", "publish", "finalize", "authorize"}
        <4>1. connector[o] # "none" \/ direct[o].payment # NoPayment
          BY <3>3 DEF PaymentsInv, InHand, Resting, Verdicts
        <4> QED
          BY <1>5, <1>12, <3>3, <4>1 DEF OrderIsRead
      <3>4. desk'[u] \in DirectWork
        BY <1>5 DEF CallsTyped
      <3> QED
        BY <1>1, <1>5, <3>1, <3>2, <3>3, <3>4 DEF DirectWork
    <2> QED
      BY <2>1, <2>2, <2>3, <2>4 DEF OrdersInv
  <1> QED
    BY <1>5, <1>10, <1>11, <1>13

\* The task of the connector is made by the claimant of the payment, or was made
\* for another payment of the order.
LEMMA EnqueueDirectInv ==
  ASSUME DirectInv, NEW t \in Staff, Enqueue(t)
  PROVE  DirectInv'
  <1> USE DEF DirectInv
  <1>1. PICK o \in DirectOrders, x \in DirectPayments :
          /\ subject[t].order = o /\ subject[t].payment = x
          /\ o \in passes[x] /\ claimedFor[x] = o
    BY DEF Enqueue, PaymentsInv, InHand, Claiming
  <1>2. /\ Proceeds(t, "pend", "none") /\ desk[t].task = "execute"
        /\ UNCHANGED <<direct, passes, claimedFor, banned, allocated, unserved, interrupted>>
    BY DEF Enqueue
  <1>3. /\ connector' \in [DirectOrders -> TaskStatuses]
        /\ connector'[o] = (IF connector[o] = "none" THEN "queued" ELSE connector[o])
        /\ \A p \in DirectOrders : p # o => connector'[p] = connector[p]
    BY <1>1 DEF Enqueue, DirectTyped, TaskStatuses
  <1>4. Work("pend", "none", 0) \in DirectWork
    BY DEF Work, DirectWork
  <1>5. /\ CallsTyped(DirectWork)' /\ FaultsTyped'
        /\ desk'[t].task = "pend" /\ desk'[t].outcome = "none"
        /\ \A u \in Staff : u # t => desk'[u] = desk[u]
        /\ UNCHANGED <<outdated, overlapped, subject>>
    BY <1>2, <1>4, ProceedsEffect DEF DirectBase
  <1>6. DirectTyped'
    BY <1>2, <1>3, <1>5 DEF DirectTyped
  <1>7. /\ \A p : Taken(p)' = Taken(p) /\ (Untroubled(p)' <=> Untroubled(p))
        /\ \A p : Publishing(p)' <=> Publishing(p)
        /\ \A p \in DirectOrders : Queued(p)' <=> Queued(p)
        /\ \A p \in DirectOrders : p # o => (Concluded(p)' <=> Concluded(p))
    BY <1>2, <1>3, <1>5 DEF Taken, Untroubled, Publishing, Concluded, Queued
  <1>8. \A u \in Staff : /\ Current(u)' <=> Current(u)
                         /\ \A p, y : Claimant(u, p, y)' <=> Claimant(u, p, y)
    BY <1>2, <1>5 DEF Current, Claimant, Claiming
  <1>9. x \in Taken(o) /\ Claimant(t, o, x)
    BY <1>1, <1>2 DEF Taken, Claimant, Claiming
  <1>10. \A p \in DirectOrders : /\ connector'[p] = "none" <=> connector[p] = "none" /\ p # o
                                 /\ connector[p] # "none" => connector'[p] = connector[p]
    BY <1>3
  <1>11. PaymentsInv'
    <2>1. InHand(t)'
      BY <1>1, <1>2, <1>5, <1>10 DEF PaymentsInv, InHand, Claiming, Resting
    <2>2. ASSUME NEW u \in Staff, u # t PROVE InHand(u)'
      BY <1>2, <1>5, <1>10, <2>2 DEF PaymentsInv, InHand, Claiming, Verdicts
    <2>3. \A p \in DirectOrders : PaidByItsOwn(p)'
      BY <1>2, <1>7 DEF PaymentsInv, PaidByItsOwn
    <2> QED
      BY <1>7, <1>9, <1>10, <2>1, <2>2, <2>3 DEF PaymentsInv
  <1>12. OrdersInv'
    <2>1. ASSUME Taken(o) = {x} PROVE connector[o] = "none" /\ connector'[o] = "queued"
      BY <1>1, <1>2, <1>3, <2>1 DEF OrdersInv, ClaimsAreSingle, Claiming
    <2>2. ClaimsAreSingle'
      <3>1. ASSUME NEW u \in Staff, u # t, desk[u].task \in Claiming,
                   NEW p \in DirectOrders, NEW y \in DirectPayments,
                   subject[u].order = p, subject[u].payment = y
            PROVE  /\ \A v \in Staff : Claimant(v, p, y)' => v = u
                   /\ Taken(p)' = {y} => /\ direct'[p].payment = NoPayment
                                         /\ desk'[u].task # "pend" => connector'[p] = "none"
        <4>1. \A v \in Staff : Claimant(v, p, y) => v = u
          BY <3>1 DEF OrdersInv, ClaimsAreSingle
        <4>2. Taken(p) = {y} => /\ direct[p].payment = NoPayment
                                /\ desk[u].task # "pend" => connector[p] = "none"
          BY <3>1 DEF OrdersInv, ClaimsAreSingle
        <4>3. p = o => Taken(p) # {y}
          BY <1>9, <3>1, <4>1
        <4> QED
          BY <1>2, <1>3, <1>5, <1>7, <1>8, <3>1, <4>1, <4>2, <4>3
      <3>2. \A u \in Staff : desk[u].task \in Claiming =>
              subject[u].order \in DirectOrders /\ subject[u].payment \in DirectPayments
        BY DEF PaymentsInv, InHand, Claiming
      <3>3. /\ \A v \in Staff : Claimant(v, o, x)' => v = t
            /\ Taken(o)' = {x} => direct'[o].payment = NoPayment
        BY <1>1, <1>2, <1>7, <1>8 DEF OrdersInv, ClaimsAreSingle, Claiming
      <3> QED
        BY <1>1, <1>5, <3>1, <3>2, <3>3 DEF ClaimsAreSingle
    <2>3. \A p \in DirectOrders : Recorded(p)'
      BY <1>2, <1>7, <1>8 DEF OrdersInv, Recorded
    <2>4. ASSUME NEW p \in DirectOrders PROVE ProceedsOn(p)'
      <3>1. CASE p # o
        BY <1>3, <1>7, <1>8, <3>1 DEF OrdersInv, ProceedsOn
      <3>2. CASE p = o
        BY <1>7, <1>8, <1>9, <3>2 DEF ProceedsOn
      <3> QED
        BY <3>1, <3>2
    <2>5. ASSUME NEW u \in Staff, u # t, Current(u)' PROVE OrderIsRead(u)'
      <3>1. desk[u].task # "none" => subject[u].order \in DirectOrders
        BY DEF PaymentsInv, InHand
      <3>2. OrderIsRead(u)
        BY <1>8, <2>5 DEF OrdersInv
      <3>3. desk[u].task = "pend" => connector[subject[u].order] # "none"
        BY DEF PaymentsInv, InHand
      <3> QED
        BY <1>2, <1>5, <1>7, <1>8, <1>10, <2>5, <3>1, <3>2, <3>3 DEF OrderIsRead
    <2>6. OrderIsRead(t)'
      <3>1. \A y \in DirectPayments : Taken(o)' = {y} => connector'[o] \in ActiveTasks
        BY <1>7, <1>9, <2>1 DEF ActiveTasks
      <3> QED
        BY <1>1, <1>5, <3>1 DEF OrderIsRead
    <2> QED
      BY <2>2, <2>3, <2>4, <2>5, <2>6 DEF OrdersInv
  <1> QED
    BY <1>5, <1>6, <1>11, <1>12

\* The task is closed, by this call or another before, and this one is to write
\* the verdict.
LEMMA CloseTaskDirectInv ==
  ASSUME DirectInv, NEW t \in Staff, CloseTask(t)
  PROVE  DirectInv'
  <1> USE DEF DirectInv
  <1>1. PICK o \in DirectOrders, verdict \in Verdicts :
          /\ subject[t].order = o /\ desk[t].outcome = verdict /\ desk[t].task = "close"
          /\ connector[o] \in {"completed"} \cup Verdicts
    BY DEF CloseTask, PaymentsInv, InHand
  <1>2. /\ Proceeds(t, "publish", verdict)
        /\ UNCHANGED <<direct, passes, claimedFor, banned, allocated, unserved, interrupted>>
    BY <1>1 DEF CloseTask
  <1>3. /\ connector' \in [DirectOrders -> TaskStatuses]
        /\ connector'[o] \in Verdicts
        /\ \A p \in DirectOrders : p # o => connector'[p] = connector[p]
    BY <1>1 DEF CloseTask, DirectTyped, TaskStatuses
  <1>4. Work("publish", verdict, 0) \in DirectWork
    BY DEF Work, DirectWork
  <1>5. /\ CallsTyped(DirectWork)' /\ FaultsTyped'
        /\ desk'[t].task = "publish" /\ desk'[t].outcome = verdict
        /\ \A u \in Staff : u # t => desk'[u] = desk[u]
        /\ UNCHANGED <<outdated, overlapped, subject>>
    BY <1>2, <1>4, ProceedsEffect DEF DirectBase
  <1>6. DirectTyped'
    BY <1>2, <1>3, <1>5 DEF DirectTyped
  <1>7. /\ connector[o] # "none" /\ connector'[o] # "none" /\ connector'[o] \notin ActiveTasks
        /\ connector[o] \in Verdicts \/ connector[o] = "completed"
    BY <1>1, <1>3 DEF Verdicts, ActiveTasks
  <1>8. /\ \A p : Taken(p)' = Taken(p) /\ (Untroubled(p)' <=> Untroubled(p))
        /\ Publishing(o)' /\ \A p : Publishing(p) => Publishing(p)'
        /\ \A p \in DirectOrders : Queued(p)' <=> Queued(p)
        /\ \A p \in DirectOrders : Concluded(p) => Concluded(p)'
    BY <1>1, <1>2, <1>3, <1>5, <1>7 DEF Taken, Untroubled, Publishing, Concluded, Queued
  <1>9. \A u \in Staff : /\ Current(u)' <=> Current(u)
                         /\ \A p, y : Claimant(u, p, y)' <=> Claimant(u, p, y)
    BY <1>1, <1>5 DEF Current, Claimant, Claiming
  <1>10. PaymentsInv'
    <2>1. InHand(t)'
      BY <1>1, <1>3, <1>5 DEF InHand, Claiming, Resting, Verdicts
    <2>2. ASSUME NEW u \in Staff, u # t PROVE InHand(u)'
      BY <1>2, <1>3, <1>5, <1>7, <2>2 DEF PaymentsInv, InHand
    <2>3. \A p \in DirectOrders : PaidByItsOwn(p)'
      BY <1>2, <1>8 DEF PaymentsInv, PaidByItsOwn
    <2> QED
      BY <1>3, <1>7, <1>8, <2>1, <2>2, <2>3 DEF PaymentsInv
  <1>11. OrdersInv'
    <2>1. \A u \in Staff : desk[u].task # "none" => subject[u].order \in DirectOrders
      BY DEF PaymentsInv, InHand
    <2>2. ClaimsAreSingle'
      BY <1>1, <1>2, <1>3, <1>5, <1>7, <1>8, <1>9, <2>1
      DEF OrdersInv, ClaimsAreSingle, Claiming
    <2>3. \A p \in DirectOrders : Recorded(p)'
      BY <1>2, <1>8, <1>9 DEF OrdersInv, Recorded
    <2>4. \A p \in DirectOrders : ProceedsOn(p)'
      BY <1>3, <1>8, <1>9 DEF OrdersInv, ProceedsOn
    <2>5. ASSUME NEW u \in Staff, Current(u)' PROVE OrderIsRead(u)'
      <3>1. OrderIsRead(u)
        BY <1>9, <2>5 DEF OrdersInv
      <3> QED
        BY <1>1, <1>2, <1>3, <1>5, <1>8, <1>9, <2>1, <3>1 DEF OrderIsRead
    <2> QED
      BY <2>2, <2>3, <2>4, <2>5 DEF OrdersInv
  <1> QED
    BY <1>5, <1>6, <1>10, <1>11

\* A call ends: with an error that is noted, at the end of its work, or dead.
LEMMA EndsDirectInv ==
  ASSUME DirectInv, NEW t \in Staff, Answers(t), FaultsTyped', desk[t].task # "none",
         UNCHANGED <<direct, passes, claimedFor, banned, connector>>,
         \/ allocated' = allocated
         \/ desk[t].task = "settle" /\ allocated' = allocated \cup {subject[t].order},
         unserved \subseteq unserved', unserved' \in SUBSET DirectPayments,
         interrupted \subseteq interrupted', interrupted' \in SUBSET DirectOrders,
         \/ desk[t].task \notin Claiming \cup {"publish"}
         \/ desk[t].task \in Claiming /\ subject[t].payment \in unserved'
         \/ subject[t].order \in interrupted'
  PROVE  DirectInv'
  <1> USE DEF DirectInv
  <1>1. /\ CallsTyped(DirectWork)'
        /\ subject' \in [Staff -> SubjectType]
        /\ desk'[t].task = "none" /\ desk'[t].outcome = "none"
        /\ \A u \in Staff : u # t => desk'[u] = desk[u] /\ subject'[u] = subject[u]
        /\ \A u \in Staff : u # t => (Current(u)' <=> Current(u))
        /\ UNCHANGED overlapped
    BY AnswersEffect DEF DirectBase
  <1>2. subject[t].order \in DirectOrders
    BY DEF PaymentsInv, InHand
  <1>3. DirectTyped'
    BY <1>1, <1>2 DEF DirectTyped
  <1>4. /\ \A p : Taken(p)' = Taken(p) /\ (Untroubled(p)' => Untroubled(p))
        /\ \A p \in DirectOrders : Queued(p)' <=> Queued(p)
        /\ \A p \in DirectOrders : Concluded(p)' <=> Concluded(p)
    BY <1>1 DEF Taken, Untroubled, Concluded, Queued
  <1>5. \A u \in Staff, p \in DirectOrders :
          /\ \A y \in DirectPayments : u # t => (Claimant(u, p, y)' <=> Claimant(u, p, y))
          /\ \A y \in DirectPayments : ~Claimant(t, p, y)'
    BY <1>1 DEF Claimant, Claiming
  <1>6. ASSUME NEW p \in DirectOrders, NEW y \in DirectPayments, Claimant(t, p, y)
        PROVE  y \in unserved' \/ p \in interrupted'
    BY <1>6 DEF Claimant, Claiming
  <1>7. ASSUME NEW p \in DirectOrders, Publishing(p), Untroubled(p)'
        PROVE  Publishing(p)'
    BY <1>1, <1>7 DEF Publishing, Untroubled, Claiming
  <1>8. ASSUME NEW p \in DirectOrders, NEW y \in DirectPayments, Taken(p) = {y},
               Untroubled(p)', NEW c \in Staff, Claimant(c, p, y)
        PROVE  Claimant(c, p, y)'
    BY <1>4, <1>5, <1>6, <1>8 DEF Untroubled
  <1>9. PaymentsInv'
    <2>1. InHand(t)'
      BY <1>1 DEF InHand, Claiming, Resting
    <2>2. ASSUME NEW u \in Staff, u # t PROVE InHand(u)'
      BY <1>1, <2>2 DEF PaymentsInv, InHand
    <2>3. desk[t].task = "settle" => Taken(subject[t].order) # {}
      BY DEF PaymentsInv, InHand, Resting, Taken
    <2>4. \A p \in DirectOrders : PaidByItsOwn(p)'
      BY <1>4, <2>3 DEF PaymentsInv, PaidByItsOwn
    <2> QED
      BY <1>4, <2>1, <2>2, <2>4 DEF PaymentsInv
  <1>10. \A u \in Staff :
           /\ desk[u].task # "none" => subject[u].order \in DirectOrders
           /\ desk[u].task \in Claiming => subject[u].payment \in DirectPayments
    BY DEF PaymentsInv, InHand, Claiming
  <1>11. OrdersInv'
    <2>1. ClaimsAreSingle'
      BY <1>1, <1>4, <1>5, <1>10 DEF OrdersInv, ClaimsAreSingle, Claiming
    <2>2. ASSUME NEW p \in DirectOrders, NEW y \in Taken(p)',
                 direct'[p].payment # y, y \notin unserved', p \notin interrupted',
                 Taken(p)' = {y}
          PROVE  \E c \in Staff : Claimant(c, p, y)'
      <3>1. y \in DirectPayments /\ y \in Taken(p) /\ Taken(p) = {y}
        BY <1>4, <2>2 DEF Taken
      <3>2. PICK c \in Staff : Claimant(c, p, y)
        BY <2>2, <3>1 DEF OrdersInv, Recorded
      <3> QED
        BY <1>5, <1>6, <2>2, <3>1, <3>2
    <2>3. \A p \in DirectOrders : Recorded(p)'
      BY <2>2 DEF Recorded
    <2>4. \A p \in DirectOrders : ProceedsOn(p)'
      BY <1>4, <1>7, <1>8 DEF OrdersInv, ProceedsOn
    <2>5. ASSUME NEW u \in Staff, Current(u)' PROVE OrderIsRead(u)'
      <3>1. CASE u = t
        BY <1>1, <3>1 DEF OrderIsRead
      <3>2. CASE u # t
        <4>1. OrderIsRead(u)
          BY <1>1, <2>5, <3>2 DEF OrdersInv
        <4>2. CASE desk[u].task = "none"
          BY <1>1, <3>2, <4>2 DEF OrderIsRead
        <4>3. CASE desk[u].task # "none"
          BY <1>1, <1>4, <1>7, <1>8, <1>10, <3>2, <4>1, <4>3 DEF OrderIsRead
        <4> QED
          BY <4>2, <4>3
      <3> QED
        BY <3>1, <3>2
    <2> QED
      BY <2>1, <2>3, <2>4, <2>5 DEF OrdersInv
  <1> QED
    BY <1>1, <1>3, <1>9, <1>11

-----------------------------------------------------------------------------
(* Direct orders: a call writes its order.                                  *)

\* What each of them writes: the payment it holds or the one that is there, and a
\* status from which the order goes on.
WritesRow(t, row, next) ==
  LET o == subject[t].order
      task == desk[t].task IN
  \/ /\ task = "pend" /\ next = NoWork
     /\ row = [direct[o] EXCEPT !.status = "pending", !.payment = subject[t].payment]
  \/ /\ task = "record" /\ next = NoWork
     /\ \E status \in {"review", "blocked"} :
          row = [direct[o] EXCEPT !.status = status, !.payment = subject[t].payment]
  \/ /\ task \in {"record", "authorize"} /\ row = Delivered(t)
  \/ /\ task = "publish" /\ next = NoWork
     /\ \E status \in {"review", "blocked", "manual"} : row = [direct[o] EXCEPT !.status = status]
  \/ /\ task = "authorize" /\ next = NoWork
     /\ \E status \in {"review", "blocked"} : row = [direct[o] EXCEPT !.status = status]

LEMMA WritesDirectInv ==
  ASSUME DirectInv, NEW t \in Staff, NEW row, NEW next \in {NoWork, Work("settle", "none", 0)},
         WritesOrder(t, row, next), WritesRow(t, row, next),
         UNCHANGED <<passes, claimedFor, banned, connector, allocated, unserved, interrupted>>
  PROVE  DirectInv'
  <1> USE DEF DirectInv
  <1>1. PICK o \in DirectOrders :
          /\ subject[t].order = o /\ direct[o] \in OrderRow
          /\ InHand(t) /\ PaidByItsOwn(o)
    BY DEF WritesRow, PaymentsInv, InHand, DirectTyped
  <1>2. PICK x \in DirectPayments \cup {NoPayment} :
          /\ subject[t].payment = x
          /\ desk[t].task \in Claiming \cup Resting =>
               x \in DirectPayments /\ x \in Taken(o) /\ o \in passes[x]
    BY <1>1 DEF InHand, DirectTyped, SubjectType, Taken
  <1> DEFINE Written ==
    /\ row \in OrderRow
    /\ \/ row.payment = direct[o].payment
       \/ row.payment = x /\ desk[t].task \in {"pend", "record", "authorize"}
    /\ direct[o].payment # NoPayment => row.payment # NoPayment
    /\ desk[t].task \in Claiming => row.payment = x
    /\ next # NoWork => row.payment # NoPayment /\ desk[t].task \in {"record", "authorize"}
    /\ row.used => row.payment # NoPayment
    /\ desk[t].task \in {"pend", "record", "publish", "authorize"}
  <1>3. Written
    <2>1. desk[t].task \in {"record", "authorize", "pend"} => x \in DirectPayments /\ x # NoPayment
      BY <1>2, DirectAssumption DEF Claiming, Resting
    <2>2. CASE desk[t].task \in {"record", "authorize"} /\ row = Delivered(t)
      BY <1>1, <1>2, <2>1, <2>2 DEF Delivered, OrderRow, Claiming
    <2>3. CASE desk[t].task = "pend" /\ next = NoWork
               /\ row = [direct[o] EXCEPT !.status = "pending", !.payment = subject[t].payment]
      BY <1>1, <1>2, <2>1, <2>3 DEF OrderRow, Claiming
    <2>4. ASSUME NEW status \in {"review", "blocked"}, desk[t].task = "record", next = NoWork,
                 row = [direct[o] EXCEPT !.status = status, !.payment = subject[t].payment]
          PROVE  Written
      BY <1>1, <1>2, <2>1, <2>4 DEF OrderRow, Claiming
    <2>5. ASSUME NEW status \in {"review", "blocked", "manual"},
                 desk[t].task \in {"publish", "authorize"}, next = NoWork,
                 row = [direct[o] EXCEPT !.status = status]
          PROVE  Written
      <3>1. row \in OrderRow /\ row.payment = direct[o].payment /\ row.used = direct[o].used
        BY <1>1, <2>5 DEF OrderRow
      <3>2. direct[o].used => direct[o].payment # NoPayment
        BY <1>1 DEF PaidByItsOwn
      <3>3. desk[t].task \notin Claiming
        BY <2>5 DEF Claiming
      <3> QED
        BY <2>5, <3>1, <3>2, <3>3
    <2> QED
      BY <1>1, <2>2, <2>3, <2>4, <2>5 DEF WritesRow
  <1>4. /\ CallsTyped(DirectWork)' /\ FaultsTyped'
        /\ subject' \in [Staff -> SubjectType] /\ direct' \in [DirectOrders -> OrderRow]
        /\ direct'[o] = row
        /\ \A p \in DirectOrders : p # o => direct'[p] = direct[p]
        /\ desk'[t] = next /\ desk'[t].outcome = "none"
        /\ \/ desk'[t].task = "none"
           \/ desk'[t].task = "settle" /\ subject'[t] = subject[t]
        /\ \A u \in Staff : u # t => desk'[u] = desk[u] /\ subject'[u] = subject[u]
        /\ overlapped' = (overlapped \/ t \in outdated)
        /\ \A u \in Staff : u # t /\ Current(u)' =>
             desk[u].task = "none" \/ (subject[u].order # o /\ Current(u))
    BY <1>1, <1>3, WritesOrderEffect DEF DirectBase
  <1>5. DirectTyped'
    BY <1>4 DEF DirectTyped
  <1>6. /\ \A p : Taken(p)' = Taken(p)
        /\ ~overlapped' => ~overlapped /\ t \notin outdated /\ Current(t)
        /\ \A p : Untroubled(p)' => Untroubled(p) /\ Current(t)
    BY <1>4 DEF Taken, Untroubled, Current
  <1>7. \A u \in Staff, p \in DirectOrders :
          /\ \A y \in DirectPayments : u # t => (Claimant(u, p, y)' <=> Claimant(u, p, y))
          /\ \A y \in DirectPayments : ~Claimant(t, p, y)'
    BY <1>4 DEF Claimant, Claiming
  <1>8. \A p \in DirectOrders : p # o =>
          /\ (Queued(p)' <=> Queued(p)) /\ (Concluded(p)' <=> Concluded(p))
          /\ Publishing(p) => Publishing(p)'
    BY <1>1, <1>4 DEF Queued, Concluded, Publishing
  <1>9. PaymentsInv'
    <2>1. ASSUME NEW u \in Staff, u # t PROVE InHand(u)'
      <3>1. InHand(u)
        BY DEF PaymentsInv
      <3>2. \A p \in DirectOrders : direct[p].payment # NoPayment => direct'[p].payment # NoPayment
        BY <1>3, <1>4
      <3>3. desk[u].task # "none" => subject[u].order \in DirectOrders
        BY <3>1 DEF InHand
      <3> QED
        BY <1>4, <2>1, <3>1, <3>2, <3>3 DEF InHand, Resting
    <2>2. InHand(t)'
      <3>1. CASE desk'[t].task = "none"
        BY <1>4, <3>1 DEF InHand, Claiming, Resting
      <3>2. CASE desk'[t].task = "settle"
        <4>1. next # NoWork
          BY <1>4, <3>2, NoWorkTask
        <4>2. desk[t].task \in Claiming \cup Resting /\ row.payment # NoPayment
          BY <1>3, <4>1 DEF Claiming, Resting
        <4>3. x \in DirectPayments /\ claimedFor[x] = o /\ o \in passes[x]
          BY <1>2, <4>2 DEF Taken
        <4> QED
          BY <1>1, <1>2, <1>4, <3>2, <4>2, <4>3 DEF InHand, Claiming, Resting
      <3> QED
        BY <1>4, <3>1, <3>2
    <2>3. ASSUME NEW p \in DirectOrders PROVE PaidByItsOwn(p)'
      <3>1. CASE p # o
        BY <1>4, <1>6, <3>1 DEF PaymentsInv, PaidByItsOwn
      <3>2. CASE p = o
        <4>1. row.payment # NoPayment => row.payment \in Taken(o) /\ o \in passes[row.payment]
          BY <1>1, <1>2, <1>3 DEF PaidByItsOwn, Claiming, Resting
        <4> QED
          BY <1>1, <1>3, <1>4, <1>6, <3>2, <4>1 DEF PaidByItsOwn
      <3> QED
        BY <3>1, <3>2
    <2> QED
      BY <1>6, <2>1, <2>2, <2>3 DEF PaymentsInv
  <1>10. \A u \in Staff :
           /\ desk[u].task # "none" => subject[u].order \in DirectOrders
           /\ desk[u].task \in Claiming => subject[u].payment \in DirectPayments
    BY DEF PaymentsInv, InHand, Claiming
  \* Of an order that x alone was claimed for.
  <1>11. ASSUME NEW y \in DirectPayments, Taken(o) = {y}, desk[t].task \in Claiming \cup Resting
         PROVE  /\ x = y
                /\ desk[t].task \in Claiming => Claimant(t, o, y)
    BY <1>1, <1>2, <1>11 DEF Claimant
  <1>12. ClaimsAreSingle'
    <2>1. ASSUME NEW u \in Staff, u # t, desk[u].task \in Claiming,
                 NEW p \in DirectOrders, NEW y \in DirectPayments,
                 subject[u].order = p, subject[u].payment = y
          PROVE  /\ \A v \in Staff : Claimant(v, p, y)' => v = u
                 /\ Taken(p)' = {y} => /\ direct'[p].payment = NoPayment
                                       /\ desk'[u].task # "pend" => connector'[p] = "none"
      <3>1. /\ \A v \in Staff : Claimant(v, p, y) => v = u
            /\ Taken(p) = {y} => /\ direct[p].payment = NoPayment
                                 /\ desk[u].task # "pend" => connector[p] = "none"
        BY <2>1 DEF OrdersInv, ClaimsAreSingle
      <3>2. \A v \in Staff : Claimant(v, p, y)' => v = u
        BY <1>7, <3>1
      <3>3. ASSUME p = o, Taken(o) = {y} PROVE row.payment = NoPayment
        <4>1. desk[t].task \notin Claiming
          BY <1>11, <2>1, <3>1, <3>3
        <4>2. desk[t].task # "authorize"
          BY <1>1, <3>1, <3>3 DEF InHand, Resting
        <4>3. desk[t].task = "publish"
          BY <1>3, <4>1, <4>2 DEF Claiming
        <4> QED
          BY <1>3, <3>1, <3>3, <4>3
      <3> QED
        BY <1>4, <1>6, <2>1, <3>1, <3>2, <3>3
    <2>2. \A u \in Staff : desk'[u].task \in Claiming =>
            /\ u # t /\ desk[u].task \in Claiming /\ subject'[u] = subject[u]
            /\ subject[u].order \in DirectOrders /\ subject[u].payment \in DirectPayments
      BY <1>4, <1>10 DEF Claiming
    <2> QED
      BY <1>4, <1>10, <2>1, <2>2 DEF ClaimsAreSingle
  <1>13. ASSUME NEW p \in DirectOrders PROVE Recorded(p)'
    <2>1. SUFFICES ASSUME NEW y \in Taken(p)', y \notin unserved', p \notin interrupted',
                          Taken(p)' = {y}
                   PROVE  direct'[p].payment = y \/ \E c \in Staff : Claimant(c, p, y)'
      BY DEF Recorded
    <2>2. y \in DirectPayments /\ y \in Taken(p) /\ Taken(p) = {y}
      BY <1>6, <2>1 DEF Taken
    <2>3. direct[p].payment = y \/ \E c \in Staff : Claimant(c, p, y)
      BY <2>1, <2>2 DEF OrdersInv, Recorded
    <2>4. CASE direct[p].payment = y
      <3>1. p = o => row.payment = y
        BY <1>2, <1>3, <2>2, <2>4 DEF Claiming, Resting
      <3> QED
        BY <1>4, <2>4, <3>1
    <2>5. ASSUME NEW c \in Staff, Claimant(c, p, y), c # t
          PROVE  Claimant(c, p, y)'
      BY <1>7, <2>2, <2>5
    <2>6. CASE Claimant(t, p, y)
      BY <1>1, <1>2, <1>3, <1>4, <2>6 DEF Claimant
    <2> QED
      BY <2>3, <2>4, <2>5, <2>6
  <1>14. ASSUME NEW y \in DirectPayments, Taken(o) = {y}, Untroubled(o)'
         PROVE  \/ \E c \in Staff : Claimant(c, o, y)'
                \/ Concluded(o)'
                \/ Queued(o)' /\ (connector'[o] \in ActiveTasks \/ Publishing(o)')
    <2>1. Untroubled(o) /\ OrderIsRead(t) /\ ProceedsOn(o)
      BY <1>6, <1>14 DEF OrdersInv
    <2>2. CASE desk[t].task = "pend"
      <3>1. /\ Claimant(t, o, y) /\ x = y /\ direct[o].payment = NoPayment /\ ~direct[o].used
            /\ y # NoPayment
        BY <1>1, <1>2, <1>11, <1>14, <2>2, DirectAssumption
        DEF OrdersInv, ClaimsAreSingle, Claiming, PaidByItsOwn
      <3>2. row = [direct[o] EXCEPT !.status = "pending", !.payment = x]
        BY <1>1, <1>2, <2>2 DEF WritesRow
      <3>3. Queued(o)'
        BY <1>1, <1>4, <3>1, <3>2 DEF Queued, OrderRow
      <3>4. connector[o] \in ActiveTasks \/ Publishing(o)
        BY <1>1, <1>14, <2>1, <2>2 DEF OrderIsRead
      <3>5. Publishing(o) => Publishing(o)'
        BY <1>4, <2>2 DEF Publishing
      <3> QED
        BY <3>3, <3>4, <3>5
    <2>3. CASE desk[t].task = "record"
      <3>1. /\ Claimant(t, o, y) /\ x = y /\ direct[o].payment = NoPayment /\ ~direct[o].used
            /\ y # NoPayment /\ connector[o] = "none"
        BY <1>1, <1>2, <1>11, <1>14, <2>3, DirectAssumption
        DEF OrdersInv, ClaimsAreSingle, Claiming, PaidByItsOwn
      <3>2. \/ row = Delivered(t)
            \/ \E status \in {"review", "blocked"} :
                 row = [direct[o] EXCEPT !.status = status, !.payment = x]
        BY <1>1, <1>2, <2>3 DEF WritesRow
      <3>3. (row.status = "delivered" /\ row.used) \/ Finalizable(row)
        <4>1. CASE row = Delivered(t)
          BY <4>1 DEF Delivered
        <4>2. ASSUME NEW status \in {"review", "blocked"},
                     row = [direct[o] EXCEPT !.status = status, !.payment = x]
              PROVE  Finalizable(row)
          BY <1>1, <3>1, <4>2 DEF Finalizable, OrderRow
        <4> QED
          BY <3>2, <4>1, <4>2
      <3> QED
        BY <1>4, <3>1, <3>3 DEF Concluded, ActiveTasks
    <2>4. CASE desk[t].task = "publish"
      <3>1. Queued(o) \/ \E c \in Staff : Claimant(c, o, y)
        BY <1>1, <1>14, <2>1, <2>4 DEF OrderIsRead
      <3>2. ASSUME NEW c \in Staff, Claimant(c, o, y) PROVE Claimant(c, o, y)'
        <4>1. c # t
          BY <2>4, <3>2 DEF Claimant, Claiming
        <4> QED
          BY <1>7, <3>2, <4>1
      <3>3. CASE Queued(o)
        <4>1. PICK status \in {"review", "blocked", "manual"} :
                row = [direct[o] EXCEPT !.status = status]
          BY <1>1, <2>4 DEF WritesRow
        <4>2. Finalizable(row) \/ (row.status = "manual" /\ ~row.used)
          BY <1>1, <3>3, <4>1 DEF Queued, Finalizable, OrderRow
        <4>3. connector[o] \in Verdicts
          BY <1>1, <2>4 DEF InHand
        <4> QED
          BY <1>4, <4>2, <4>3 DEF Concluded, ActiveTasks, Verdicts
      <3> QED
        BY <3>1, <3>2, <3>3
    <2>5. CASE desk[t].task = "authorize"
      <3>1. Finalizable(direct[o])
        BY <1>1, <1>14, <2>1, <2>5 DEF OrderIsRead
      <3>2. \A c \in Staff : ~Claimant(c, o, y)
        BY <1>14, <3>1 DEF OrdersInv, ClaimsAreSingle, Claimant, Finalizable
      <3>3. ~Queued(o)
        BY <3>1 DEF Queued, Finalizable
      <3>4. connector[o] \notin ActiveTasks
        BY <1>14, <2>1, <3>2, <3>3 DEF ProceedsOn, Concluded
      <3>5. \/ row = Delivered(t)
            \/ \E status \in {"review", "blocked"} : row = [direct[o] EXCEPT !.status = status]
        BY <1>1, <2>5 DEF WritesRow
      <3>6. (row.status = "delivered" /\ row.used) \/ Finalizable(row)
        BY <1>1, <3>1, <3>5 DEF Finalizable, Delivered, OrderRow
      <3> QED
        BY <1>4, <3>4, <3>6 DEF Concluded
    <2> QED
      BY <1>3, <2>2, <2>3, <2>4, <2>5
  <1>15. ASSUME NEW p \in DirectOrders, p # o, NEW y \in DirectPayments, NEW c \in Staff,
                Claimant(c, p, y)
         PROVE  Claimant(c, p, y)'
    <2>1. c # t
      BY <1>1, <1>15 DEF Claimant
    <2> QED
      BY <1>7, <1>15, <2>1
  <1>16. ASSUME NEW p \in DirectOrders PROVE ProceedsOn(p)'
    <2>1. CASE p = o
      BY <1>6, <1>14, <2>1 DEF ProceedsOn
    <2>2. CASE p # o
      BY <1>6, <1>8, <1>15, <2>2 DEF OrdersInv, ProceedsOn
    <2> QED
      BY <2>1, <2>2
  <1>17. ASSUME NEW u \in Staff, Current(u)' PROVE OrderIsRead(u)'
    <2>1. CASE desk'[u].task \in {"none", "settle"}
      BY <2>1 DEF OrderIsRead
    <2>2. CASE u # t /\ desk[u].task # "none"
      <3>1. PICK p \in DirectOrders : subject[u].order = p /\ p # o /\ OrderIsRead(u)
        BY <1>4, <1>10, <1>17, <2>2 DEF OrdersInv
      <3>2. direct'[p] = direct[p]
        BY <1>4, <3>1
      <3> QED
        BY <1>4, <1>6, <1>8, <1>15, <2>2, <3>1, <3>2 DEF OrderIsRead
    <2> QED
      BY <1>4, <2>1, <2>2
  <1>18. OrdersInv'
    BY <1>12, <1>13, <1>16, <1>17 DEF OrdersInv
  <1> QED
    BY <1>4, <1>5, <1>9, <1>18, SMTT(30)

-----------------------------------------------------------------------------
(* Direct orders: the theorem.                                              *)

\* The steps that write an order, and what they write.
LEMMA WritersDirectInv ==
  ASSUME DirectInv, NEW t \in Staff,
         \/ MarkPending(t) \/ RecordExecution(t) \/ RecordMulticall(t)
         \/ PublishVerdict(t) \/ RecordFinal(t)
  PROVE  DirectInv'
  <1>1. UNCHANGED <<passes, claimedFor, banned, connector, allocated, unserved, interrupted>>
    BY DEF MarkPending, RecordExecution, RecordMulticall, PublishVerdict, RecordFinal
  <1>2. \E row : \E next \in {NoWork, Work("settle", "none", 0)} :
          WritesOrder(t, row, next) /\ WritesRow(t, row, next)
    <2>1. CASE MarkPending(t)
      BY <2>1 DEF MarkPending, WritesRow, About
    <2>2. CASE RecordExecution(t)
      <3>1. CASE desk[t].outcome \in {"review", "blocked"}
                 /\ WritesOrder(t, [About(t) EXCEPT !.status = desk[t].outcome,
                                                    !.payment = subject[t].payment], NoWork)
        BY <2>2, <3>1 DEF RecordExecution, WritesRow, About
      <3>2. CASE WritesOrder(t, Delivered(t), Work("settle", "none", 0))
        BY <2>2, <3>2 DEF RecordExecution, WritesRow
      <3> QED
        BY <2>2, <3>1, <3>2 DEF RecordExecution
    <2>3. CASE RecordMulticall(t)
      <3>1. desk[t].task = "record"
        BY <2>3, WorkParts DEF RecordMulticall
      <3> QED
        BY <2>3, <3>1 DEF RecordMulticall, WritesRow
    <2>4. CASE PublishVerdict(t)
      <3>1. PICK status \in {"review", "blocked", "manual"} :
              WritesOrder(t, [About(t) EXCEPT !.status = status], NoWork)
        BY <2>4 DEF PublishVerdict
      <3> QED
        BY <2>4, <3>1 DEF PublishVerdict, WritesRow, About
    <2>5. CASE RecordFinal(t)
      <3>1. CASE desk[t].outcome = "authorized"
        BY <2>5, <3>1 DEF RecordFinal, WritesRow
      <3>2. CASE desk[t].outcome # "authorized"
        <4>1. PICK status \in {"review", "blocked"} :
                WritesOrder(t, [About(t) EXCEPT !.status = status], NoWork)
          BY <2>5, <3>2 DEF RecordFinal
        <4> QED
          BY <2>5, <4>1 DEF RecordFinal, WritesRow, About
      <3> QED
        BY <3>1, <3>2
    <2> QED
      BY <2>1, <2>2, <2>3, <2>4, <2>5
  <1> QED
    BY <1>1, <1>2, WritesDirectInv

\* The steps that end a call, and why.
LEMMA EndersDirectInv ==
  ASSUME DirectInv, NEW t \in Staff,
         \/ RecordFailure(t) \/ SettleDirect(t) \/ DirectCallDies(t)
         \/ /\ desk[t].task = "claim" /\ Answers(t)
            /\ UNCHANGED <<direct, passes, claimedFor, banned, connector, allocated, unserved,
                           interrupted, faults>>
         \/ /\ desk[t].task = "call" /\ Answers(t)
            /\ unserved' = unserved \cup {subject[t].payment}
            /\ UNCHANGED <<direct, passes, claimedFor, banned, connector, allocated,
                           interrupted, faults>>
  PROVE  DirectInv'
  <1>1. DirectTyped /\ FaultsTyped /\ InHand(t)
    BY DEF DirectInv, PaymentsInv
  <1>2. CASE RecordFailure(t)
    <2>1. desk[t].task = "record"
      BY <1>2, WorkParts DEF RecordFailure
    <2> QED
      BY <1>1, <1>2, <2>1, EndsDirectInv
      DEF RecordFailure, DirectTyped, FaultsTyped, InHand, Claiming, Resting
  <1>3. CASE SettleDirect(t)
    BY <1>1, <1>3, EndsDirectInv DEF SettleDirect, DirectTyped, FaultsTyped, Claiming
  <1>4. CASE DirectCallDies(t)
    <2>1. desk[t].task # "none"
      <3>1. desk[t] \in DirectWork /\ desk[t] # NoWork
        BY <1>4 DEF DirectCallDies, DirectInv, CallsTyped, Busy
      <3> QED
        BY <1>1, <3>1 DEF DirectWork, NoWork, Work, InHand
    <2>2. FaultsTyped'
      BY <1>1, <1>4, FaultTyped DEF DirectCallDies
    <2> QED
      BY <1>1, <1>4, <2>1, <2>2, EndsDirectInv DEF DirectCallDies, DirectTyped, InHand
  <1>5. CASE /\ desk[t].task = "claim" /\ Answers(t)
             /\ UNCHANGED <<direct, passes, claimedFor, banned, connector, allocated,
                            unserved, interrupted, faults>>
    BY <1>1, <1>5, EndsDirectInv DEF DirectTyped, FaultsTyped, Claiming
  <1>6. CASE /\ desk[t].task = "call" /\ Answers(t)
             /\ unserved' = unserved \cup {subject[t].payment}
             /\ UNCHANGED <<direct, passes, claimedFor, banned, connector, allocated,
                            interrupted, faults>>
    BY <1>1, <1>6, EndsDirectInv DEF DirectTyped, FaultsTyped, InHand, Claiming, Resting
  <1> QED
    BY <1>2, <1>3, <1>4, <1>5, <1>6

LEMMA NextDirectInv ==
  ASSUME DirectInv, [DirectNext]_directVars
  PROVE  DirectInv'
  <1>1. ASSUME NEW t \in Staff, ClaimPayment(t) PROVE DirectInv'
    BY <1>1, ClaimsDirectInv, EndersDirectInv DEF ClaimPayment
  <1>2. ASSUME NEW t \in Staff, CallAgents(t) PROVE DirectInv'
    BY <1>2, GoesOnDirectInv, EndersDirectInv DEF CallAgents
  <1>3. CASE UNCHANGED directVars
    <2>1. CallsTyped(DirectWork)' /\ FaultsTyped' /\ DirectTyped'
      BY <1>3 DEF directVars, directTables, callVars, DirectInv, CallsTyped, FaultsTyped, DirectTyped
    <2>2. PaymentsInv'
      BY <1>3 DEF directVars, directTables, callVars, DirectInv, PaymentsInv, InHand, PaidByItsOwn, Taken
    <2>3. ClaimsAreSingle' /\ \A o \in DirectOrders : Recorded(o)'
      BY <1>3
      DEF directVars, directTables, callVars, DirectInv, OrdersInv, ClaimsAreSingle, Claimant,
          Recorded, Taken
    <2>4. \A o \in DirectOrders : ProceedsOn(o)'
      BY <1>3
      DEF directVars, directTables, callVars, DirectInv, OrdersInv, ProceedsOn, Untroubled,
          Concluded, Finalizable, Queued, Publishing, Claimant, Taken
    <2>5. \A t \in Staff : Current(t)' => OrderIsRead(t)'
      BY <1>3
      DEF directVars, directTables, callVars, DirectInv, OrdersInv, Current, OrderIsRead,
          Untroubled, Finalizable, Queued, Publishing, Claimant, Taken
    <2> QED
      BY <2>1, <2>2, <2>3, <2>4, <2>5 DEF DirectInv, OrdersInv
  <1> QED
    BY <1>1, <1>2, <1>3, BuyersDirectInv, ConnectorDirectInv, BeginsDirectInv, EnqueueDirectInv,
       GoesOnDirectInv, CloseTaskDirectInv, WritersDirectInv, EndersDirectInv
    DEF DirectNext

LEMMA DirectInductive == DirectSpec => []DirectInv
  BY InitDirectInv, NextDirectInv, PTL DEF DirectSpec

\* Every variable of the direct orders keeps its type.
THEOREM DirectTypeCorrect == DirectSpec => []DirectTypeOK
  <1>1. DirectInv => DirectTypeOK
    BY DEF DirectInv, DirectTypeOK, DirectTyped, DirectWork, OrderRow, SubjectType,
       TaskStatuses, CallsTyped, FaultsTyped
  <1> QED
    BY <1>1, DirectInductive, PTL

\* An order goes on when no call is at work on it.
LEMMA OrdersGoOn ==
  ASSUME DirectInv, NEW o \in DirectOrders
  PROVE  GoesOn(o)
  <1> SUFFICES ASSUME Cardinality(Taken(o)) = 1, Taken(o) \cap unserved = {},
                      AtWorkOn(o) = {}, o \notin interrupted, ~overlapped
               PROVE  \/ direct[o].status = "delivered" /\ direct[o].used
                      \/ Finalizable(direct[o])
                      \/ /\ direct[o].status = "pending"
                         /\ connector[o] \in {"queued", "leased", "late", "completed"}
                      \/ direct[o].status = "manual"
    BY DEF GoesOn
  <1>1. PICK x \in DirectPayments : Taken(o) = {x}
    <2>1. Taken(o) \in SUBSET DirectPayments
      BY DEF Taken
    <2>2. IsFiniteSet(Taken(o))
      BY <2>1, DirectAssumption, FS_Subset
    <2>3. PICK x : Taken(o) = {x}
      BY <2>2, FS_Singleton
    <2> QED
      BY <2>1, <2>3
  <1>2. ProceedsOn(o) /\ Untroubled(o)
    BY DEF DirectInv, OrdersInv, Untroubled
  <1>3. ~Publishing(o) /\ \A t \in Staff : ~Claimant(t, o, x)
    BY DEF AtWorkOn, Publishing, Claimant
  <1> QED
    BY <1>1, <1>2, <1>3 DEF ProceedsOn, Concluded, Queued, ActiveTasks

\* A payment serves one order and stays on record there, what is delivered or
\* allocated was paid by a transaction of its own, and an order that was paid once
\* can always go on to its delivery or to a person, unless a call died or wrote
\* over what another had written (verify_payment,
\* internal_foundation_finalize_order, verify_completed_seller_connector_task_db).
THEOREM PaymentsAreKept == DirectSpec => []PaymentIsKept
  <1>1. ASSUME DirectInv, NEW o \in DirectOrders PROVE OnRecord(o)
    <2>1. \A x \in Taken(o) : (\E t \in Staff : Claimant(t, o, x)) =>
            \E t \in AtWorkOn(o) : subject[t].payment = x
      BY DEF Claimant, AtWorkOn
    <2> QED
      BY <1>1, <2>1 DEF DirectInv, OrdersInv, Recorded, OnRecord
  <1>2. DirectInv => PaymentIsKept
    BY <1>1, OrdersGoOn DEF DirectInv, PaymentsInv, PaymentIsKept
  <1> QED
    BY <1>2, DirectInductive, PTL

-----------------------------------------------------------------------------
(* ProtocolLearning: memories and knowledge.                                *)

MemoryWork ==
  [task : {"none", "remember", "observe", "falsify", "promote", "force", "cycle", "decay"},
   outcome : {"none"}, left : {0}]

MemoryRows ==
  [status : {"none", "active", "archived"}, strong : BOOLEAN, observed : Nat, falsified : Nat]

HypothesisRows ==
  [status : {"none", "proposed", "testing", "validated", "rejected"},
   sure : BOOLEAN, successes : Nat, failures : Nat]

LessonRows == [for : Nat, against : Nat]

CopyRows == [rows : SUBSET Rows, memory : MemoryRows, hypothesis : HypothesisRows]

MemoryTyped ==
  /\ memory \in [Rows -> MemoryRows]
  /\ knowledge \subseteq Rows
  /\ lessons \in [Rows -> LessonRows]
  /\ copy \in [Staff -> CopyRows]
  /\ hypothesis = [r \in Rows |-> NoHypothesis]

\* A row counts what was seen of it, and one that is not in use counts nothing.
MemoryTally(r) ==
  /\ memory[r].observed = lessons[r].for
  /\ memory[r].falsified = lessons[r].against
  /\ memory[r].status = "none" => memory[r] = NoMemory

\* What a call has read of the memories, while it stands.
MemoryKnows(t) ==
  LET task == desk[t].task
      rows == copy[t].rows
  IN
  /\ task \notin {"none", "cycle"} => \A r \in rows : copy[t].memory = memory[r]
  /\ task \in {"remember", "promote", "decay"} => rows \subseteq Active
  /\ task = "promote" => Promotable(copy[t].memory)
  /\ task = "remember" /\ rows = {} => Active = {}

MemoryInv ==
  /\ CallsTyped(MemoryWork) /\ FaultsTyped
  /\ MemoryTyped
  /\ overlapped \/ \A r \in Rows : MemoryTally(r)
  /\ \A t \in Staff : Current(t) => MemoryKnows(t)

LEMMA NoMemoryWork == NoWork \in MemoryWork
  BY DEF MemoryWork, NoWork, Work

LEMMA EmptyRows ==
  /\ NoMemory \in MemoryRows /\ NoMemory.status = "none"
  /\ NoMemory.observed = 0 /\ NoMemory.falsified = 0
  /\ NoHypothesis \in HypothesisRows /\ NoHypothesis.status = "none"
  /\ NoHypothesis.successes = 0 /\ NoHypothesis.failures = 0
  /\ NoCopy \in CopyRows /\ NoCopy.rows = {}
  BY DEF NoMemory, Memory, MemoryRows, NoHypothesis, Hypothesis, HypothesisRows, NoCopy, CopyRows

LEMMA InitMemoryInv == LearningInit => MemoryInv
  <1> SUFFICES ASSUME LearningInit PROVE MemoryInv
    OBVIOUS
  <1>1. CallsTyped(MemoryWork)
    BY NoMemoryWork DEF LearningInit, CallsInit, CallsTyped
  <1>2. FaultsTyped
    BY FaultsAssumption DEF LearningInit, FaultsTyped
  <1>3. MemoryTyped
    BY EmptyRows DEF LearningInit, MemoryTyped, LessonRows
  <1>4. \A r \in Rows : MemoryTally(r)
    BY EmptyRows DEF LearningInit, MemoryTally
  <1>5. \A t \in Staff : MemoryKnows(t)
    BY NoWorkTask DEF LearningInit, CallsInit, MemoryKnows
  <1> QED
    BY <1>1, <1>2, <1>3, <1>4, <1>5 DEF MemoryInv

\* A call that reads, or that ends: the memories stay, and so does what the
\* others know.
LEMMA ReadsMemoryInv ==
  ASSUME MemoryInv, NEW t \in Staff,
         CallsTyped(MemoryWork)', FaultsTyped',
         UNCHANGED <<memory, knowledge, hypothesis, lessons, overlapped>>,
         copy' \in [Staff -> CopyRows],
         \A u \in Staff : u # t => desk'[u] = desk[u] /\ copy'[u] = copy[u]
                                   /\ (Current(u)' => Current(u)),
         MemoryKnows(t)'
  PROVE  MemoryInv'
  <1>1. MemoryTyped'
    BY DEF MemoryInv, MemoryTyped
  <1>2. ASSUME NEW u \in Staff, Current(u)' PROVE MemoryKnows(u)'
    <2>1. CASE u # t
      BY <1>2, <2>1 DEF MemoryInv, MemoryKnows, Active
    <2> QED
      BY <2>1
  <1>3. overlapped' \/ \A r \in Rows : MemoryTally(r)'
    BY DEF MemoryInv, MemoryTally
  <1> QED
    BY <1>1, <1>2, <1>3 DEF MemoryInv

\* A call that writes, and has no more to write of what it has read.
LEMMA WritesMemoryInv ==
  ASSUME MemoryInv, NEW t \in Staff, NEW next \in MemoryWork, next.task \in {"none", "cycle"},
         Writes(t, next), MemoryTyped',
         overlapped' \/ \A r \in Rows : MemoryTally(r)'
  PROVE  MemoryInv'
  <1>1. /\ CallsTyped(MemoryWork)' /\ FaultsTyped' /\ desk'[t] = next
        /\ \A u \in Staff : u # t => desk'[u] = desk[u]
        /\ \A u \in Staff : u # t => desk[u].task = "none" \/ ~Current(u)'
    BY WritesEffect DEF MemoryInv
  <1>2. ASSUME NEW u \in Staff, Current(u)' PROVE MemoryKnows(u)'
    <2>1. desk'[u].task \in {"none", "cycle"}
      BY <1>1, <1>2
    <2> QED
      BY <2>1 DEF MemoryKnows
  <1> QED
    BY <1>1, <1>2 DEF MemoryInv

\* The calls that begin, and read.
LEMMA BeginsMemoryInv ==
  ASSUME MemoryInv, NEW t \in Staff, UNCHANGED hypothesisTables,
         \/ FindSimilar(t)
         \/ BeginLearningCycle(t)
         \/ \E r \in Rows :
              \/ BeginObservation(t, r) \/ BeginFalsification(t, r) \/ BeginDecay(t, r)
              \/ \E pushed \in BOOLEAN : BeginPromotionOf(t, r, pushed)
  PROVE  MemoryInv'
  <1> DEFINE
    Begun(work) ==
      /\ work \in MemoryWork
      /\ Takes(t, work)
      /\ copy' \in [Staff -> CopyRows]
      /\ \A u \in Staff : u # t => copy'[u] = copy[u]
      /\ \/ work.task \in {"observe", "falsify", "force", "cycle"}
         \/ copy'[t].rows \subseteq Active
      /\ work.task = "cycle" \/ \A r \in copy'[t].rows : copy'[t].memory = memory[r]
      /\ work.task = "promote" => Promotable(copy'[t].memory)
      /\ work.task = "remember" /\ copy'[t].rows = {} => Active = {}
  <1>1. \E work : Begun(work)
    <2> USE DEF MemoryInv, MemoryTyped
    <2>1. CASE FindSimilar(t)
      <3>1. Work("remember", "none", 0) \in MemoryWork /\ Work("remember", "none", 0).task = "remember"
        BY DEF Work, MemoryWork
      <3>2. CASE \E r \in Active : Copies(t, {r}, memory[r], NoHypothesis)
        <4>1. PICK r \in Active : Copies(t, {r}, memory[r], NoHypothesis)
          BY <3>2
        <4>2. r \in Rows
          BY DEF Active
        <4>3. /\ copy' \in [Staff -> CopyRows] /\ copy'[t].rows = {r} /\ copy'[t].memory = memory[r]
              /\ \A u \in Staff : u # t => copy'[u] = copy[u]
          BY <4>1, <4>2, EmptyRows DEF Copies, CopyRows
        <4> QED
          BY <2>1, <3>1, <4>3 DEF FindSimilar, Decides
      <3>3. CASE Active = {} /\ Copies(t, {}, NoMemory, NoHypothesis)
        <4>1. /\ copy' \in [Staff -> CopyRows] /\ copy'[t].rows = {}
              /\ \A u \in Staff : u # t => copy'[u] = copy[u]
          BY <3>3, EmptyRows DEF Copies, CopyRows
        <4> QED
          BY <2>1, <3>1, <3>3, <4>1 DEF FindSimilar, Decides
      <3> QED
        BY <2>1, <3>2, <3>3 DEF FindSimilar
    <2>2. CASE BeginLearningCycle(t)
      <3>1. Work("cycle", "none", 0) \in MemoryWork /\ Work("cycle", "none", 0).task = "cycle"
        BY DEF Work, MemoryWork
      <3>2. {r \in Active : Refuted(memory[r])} \in SUBSET Rows
        BY DEF Active
      <3>3. /\ copy' \in [Staff -> CopyRows]
            /\ \A u \in Staff : u # t => copy'[u] = copy[u]
        BY <2>2, <3>2, EmptyRows DEF BeginLearningCycle, Copies, CopyRows
      <3> QED
        BY <2>2, <3>1, <3>3 DEF BeginLearningCycle, Decides
    <2>3. ASSUME NEW r \in Rows, NEW task \in {"observe", "falsify", "decay", "promote", "force"},
                 Copies(t, {r}, memory[r], NoHypothesis), Decides(t, task, "none"),
                 task \in {"decay", "promote"} => r \in Active,
                 task = "promote" => Promotable(memory[r])
          PROVE  Begun(Work(task, "none", 0))
      <3>1. Work(task, "none", 0) \in MemoryWork /\ Work(task, "none", 0).task = task
        BY DEF Work, MemoryWork
      <3>2. /\ copy' \in [Staff -> CopyRows] /\ copy'[t].rows = {r} /\ copy'[t].memory = memory[r]
            /\ \A u \in Staff : u # t => copy'[u] = copy[u]
        BY <2>3, EmptyRows DEF Copies, CopyRows
      <3> QED
        BY <2>3, <3>1, <3>2 DEF Decides
    <2> QED
      BY <2>1, <2>2, <2>3
      DEF BeginObservation, BeginFalsification, ReadMemory, BeginDecay, BeginPromotionOf
  <1> HIDE DEF Begun
  <1>2. UNCHANGED <<memory, knowledge, hypothesis, lessons>>
    BY DEF FindSimilar, BeginLearningCycle, BeginObservation, BeginFalsification, ReadMemory,
           BeginDecay, BeginPromotionOf, memoryTables, hypothesisTables
  <1>3. PICK work : Begun(work)
    BY <1>1
  <1>4. /\ CallsTyped(MemoryWork)' /\ FaultsTyped' /\ desk'[t] = work
        /\ \A u \in Staff : u # t => desk'[u] = desk[u]
        /\ UNCHANGED <<outdated, overlapped>>
    BY <1>3, TakesEffect DEF MemoryInv, Begun
  <1>5. MemoryKnows(t)'
    BY <1>2, <1>3, <1>4 DEF MemoryKnows, Active, Begun, MemoryWork
  <1>6. copy' \in [Staff -> CopyRows] /\ \A u \in Staff : u # t => copy'[u] = copy[u]
    BY <1>3 DEF Begun
  <1> QED
    BY <1>2, <1>4, <1>5, <1>6, ReadsMemoryInv DEF Current

\* An observation is counted, whether it archives the memory or not.
LEMMA ObservedRow ==
  ASSUME NEW m \in MemoryRows, NEW row \in Observed(m)
  PROVE  /\ row \in MemoryRows /\ row.status # "none"
         /\ row.observed = m.observed + 1 /\ row.falsified = m.falsified
  <1>1. m.observed + 1 \in Nat /\ m.falsified \in Nat /\ Raised(m.strong) \subseteq BOOLEAN
    BY DEF MemoryRows, Raised
  <1>2. PICK status \in {"active", "archived"}, strong \in BOOLEAN :
           row = Memory(status, strong, m.observed + 1, m.falsified)
    BY <1>1 DEF Observed
  <1> QED
    BY <1>1, <1>2 DEF Memory, MemoryRows

\* The calls that write a row of the memories.
LEMMA WritesRowInv ==
  ASSUME MemoryInv, NEW t \in Staff, UNCHANGED hypothesisTables,
         \/ StoreMemory(t)
         \/ \E r \in Rows :
              \/ WriteObservation(t, r) \/ WriteFalsification(t, r)
              \/ WriteDecay(t, r) \/ StoreKnowledge(t, r)
  PROVE  MemoryInv'
  <1> DEFINE
    Kept ==
      /\ memory' \in [Rows -> MemoryRows] /\ knowledge' \subseteq Rows
      /\ lessons' \in [Rows -> LessonRows]
      /\ overlapped' \/ \A r \in Rows : MemoryTally(r)'
  <1> USE DEF MemoryInv, MemoryTyped
  <1>1. copy' \in [Staff -> CopyRows] /\ hypothesis' = [r \in Rows |-> NoHypothesis]
    BY EmptyRows DEF StoreMemory, WriteObservation, WriteFalsification, WriteDecay,
         StoreKnowledge, Forgets, hypothesisTables
  <1>2. Writes(t, NoWork) /\ overlapped' = (overlapped \/ t \in outdated)
    BY DEF StoreMemory, WriteObservation, WriteFalsification, WriteDecay, StoreKnowledge, Writes
  <1>3. overlapped' \/ (MemoryKnows(t) /\ \A r \in Rows : MemoryTally(r))
    BY <1>2 DEF Current
  <1>4. NoWork \in MemoryWork /\ NoWork.task \in {"none", "cycle"}
    BY NoMemoryWork, NoWorkTask
  <1>5. Kept
    <2>1. CASE StoreMemory(t)
      <3>1. UNCHANGED <<knowledge, lessons>>
        BY <2>1 DEF StoreMemory
      <3>2. CASE \E r \in copy[t].rows, strong \in Raised(copy[t].memory.strong) :
                   memory' = [memory EXCEPT ![r].strong = strong]
        <4>1. PICK r \in copy[t].rows, strong \in Raised(copy[t].memory.strong) :
                memory' = [memory EXCEPT ![r].strong = strong]
          BY <3>2
        <4>2. r \in Rows /\ strong \in BOOLEAN
          BY DEF CopyRows, MemoryRows, Raised
        <4>3. /\ memory' \in [Rows -> MemoryRows]
              /\ \A q \in Rows : /\ memory'[q].observed = memory[q].observed
                                 /\ memory'[q].falsified = memory[q].falsified
                                 /\ memory'[q].status = memory[q].status
                                 /\ q # r => memory'[q] = memory[q]
          BY <4>1, <4>2 DEF MemoryRows
        <4>4. overlapped' \/ memory[r].status = "active"
          BY <1>3, <2>1 DEF StoreMemory, MemoryKnows, Active
        <4> QED
          BY <1>3, <3>1, <4>3, <4>4 DEF MemoryTally
      <3>3. CASE \E r \in Unused : memory' = [memory EXCEPT ![r] = Memory("active", FALSE, 0, 0)]
        <4>1. PICK r \in Unused : memory' = [memory EXCEPT ![r] = Memory("active", FALSE, 0, 0)]
          BY <3>3
        <4>2. r \in Rows /\ memory[r].status = "none"
          BY DEF Unused
        <4>3. /\ memory' \in [Rows -> MemoryRows]
              /\ memory'[r].observed = 0 /\ memory'[r].falsified = 0
              /\ memory'[r].status = "active"
              /\ \A q \in Rows : q # r => memory'[q] = memory[q]
          BY <4>1, <4>2 DEF MemoryRows, Memory
        <4>4. overlapped' \/ (lessons[r].for = 0 /\ lessons[r].against = 0)
          BY <1>3, <4>2, EmptyRows DEF MemoryTally
        <4> QED
          BY <1>3, <3>1, <4>3, <4>4 DEF MemoryTally
      <3> QED
        BY <2>1, <3>2, <3>3 DEF StoreMemory
    <2>2. ASSUME NEW r \in Rows, WriteObservation(t, r) PROVE Kept
      <3>1. PICK row \in Observed(copy[t].memory) : memory' = [memory EXCEPT ![r] = row]
        BY <2>2 DEF WriteObservation
      <3>2. copy[t].memory \in MemoryRows
        BY DEF CopyRows
      <3>3. /\ memory' \in [Rows -> MemoryRows]
            /\ memory'[r].observed = copy[t].memory.observed + 1
            /\ memory'[r].falsified = copy[t].memory.falsified
            /\ memory'[r].status # "none"
            /\ \A q \in Rows : q # r => memory'[q] = memory[q]
        BY <3>1, <3>2, ObservedRow
      <3>4. /\ lessons' \in [Rows -> LessonRows] /\ knowledge' = knowledge
            /\ lessons'[r].for = lessons[r].for + 1 /\ lessons'[r].against = lessons[r].against
            /\ \A q \in Rows : q # r => lessons'[q] = lessons[q]
        BY <2>2 DEF WriteObservation, LessonRows
      <3>5. overlapped' \/ copy[t].memory = memory[r]
        BY <1>3, <2>2 DEF WriteObservation, MemoryKnows
      <3> QED
        BY <1>3, <3>3, <3>4, <3>5 DEF MemoryTally
    <2>3. ASSUME NEW r \in Rows, WriteFalsification(t, r) PROVE Kept
      <3>1. PICK row \in Falsified(copy[t].memory) : memory' = [memory EXCEPT ![r] = row]
        BY <2>3 DEF WriteFalsification
      <3>2. copy[t].memory \in MemoryRows
        BY DEF CopyRows
      <3>3. /\ row \in MemoryRows /\ row.observed = copy[t].memory.observed
            /\ row.falsified = copy[t].memory.falsified + 1 /\ row.status # "none"
        <4>1. \/ row = Memory("archived", FALSE, copy[t].memory.observed, copy[t].memory.falsified + 1)
              \/ \E strong \in BOOLEAN :
                   row = Memory("active", strong, copy[t].memory.observed, copy[t].memory.falsified + 1)
          BY <3>1, <3>2 DEF Falsified, Lowered, MemoryRows
        <4>2. copy[t].memory.observed \in Nat /\ copy[t].memory.falsified + 1 \in Nat
          BY <3>2 DEF MemoryRows
        <4>3. CASE row = Memory("archived", FALSE, copy[t].memory.observed, copy[t].memory.falsified + 1)
          BY <4>2, <4>3 DEF MemoryRows, Memory
        <4>4. ASSUME NEW strong \in BOOLEAN,
                     row = Memory("active", strong, copy[t].memory.observed, copy[t].memory.falsified + 1)
              PROVE  /\ row \in MemoryRows /\ row.observed = copy[t].memory.observed
                     /\ row.falsified = copy[t].memory.falsified + 1 /\ row.status # "none"
          BY <4>2, <4>4 DEF MemoryRows, Memory
        <4> QED
          BY <4>1, <4>3, <4>4
      <3>4. /\ memory' \in [Rows -> MemoryRows] /\ memory'[r] = row
            /\ \A q \in Rows : q # r => memory'[q] = memory[q]
        BY <3>1, <3>3
      <3>5. /\ lessons' \in [Rows -> LessonRows] /\ knowledge' = knowledge
            /\ lessons'[r].for = lessons[r].for /\ lessons'[r].against = lessons[r].against + 1
            /\ \A q \in Rows : q # r => lessons'[q] = lessons[q]
        BY <2>3 DEF WriteFalsification, LessonRows
      <3>6. overlapped' \/ copy[t].memory = memory[r]
        BY <1>3, <2>3 DEF WriteFalsification, MemoryKnows
      <3> QED
        BY <1>3, <3>3, <3>4, <3>5, <3>6 DEF MemoryTally
    <2>4. ASSUME NEW r \in Rows, WriteDecay(t, r) PROVE Kept
      <3>1. PICK row \in Decayed(copy[t].memory) :
              memory' = [memory EXCEPT ![r].status = row.status, ![r].strong = row.strong]
        BY <2>4 DEF WriteDecay
      <3>2. copy[t].memory \in MemoryRows
        BY DEF CopyRows
      <3>3. row.status \in {"active", "archived"} /\ row.strong \in BOOLEAN
        BY <3>2 DEF Decayed, Lowered, MemoryRows
      <3>4. /\ memory' \in [Rows -> MemoryRows] /\ memory'[r].status # "none"
            /\ \A q \in Rows : /\ memory'[q].observed = memory[q].observed
                               /\ memory'[q].falsified = memory[q].falsified
                               /\ q # r => memory'[q] = memory[q]
        BY <3>1, <3>3 DEF MemoryRows
      <3>5. UNCHANGED <<knowledge, lessons>>
        BY <2>4 DEF WriteDecay
      <3> QED
        BY <1>3, <3>4, <3>5 DEF MemoryTally
    <2>5. ASSUME NEW r \in Rows, StoreKnowledge(t, r) PROVE Kept
      <3>1. knowledge' \subseteq Rows /\ UNCHANGED <<memory, lessons>>
        BY <2>5 DEF StoreKnowledge
      <3> QED
        BY <1>3, <3>1 DEF MemoryTally
    <2> QED
      BY <2>1, <2>2, <2>3, <2>4, <2>5
  <1>6. MemoryTyped'
    BY <1>1, <1>5
  <1> QED
    BY <1>2, <1>4, <1>5, <1>6, WritesMemoryInv

\* The learning cycle writes row after row.
LEMMA CycleMemoryInv ==
  ASSUME MemoryInv, NEW t \in Staff, NEW r \in Rows, UNCHANGED hypothesisTables,
         ArchiveRefuted(t, r)
  PROVE  MemoryInv'
  <1> USE DEF MemoryInv, MemoryTyped
  <1>1. desk[t] \in MemoryWork /\ desk[t].task = "cycle"
    BY DEF ArchiveRefuted, CallsTyped
  <1>2. copy[t].rows \ {r} \in SUBSET Rows
    BY DEF CopyRows
  <1>3. copy' \in [Staff -> CopyRows]
    BY <1>2, EmptyRows DEF ArchiveRefuted, Copies, CopyRows
  <1>4. /\ memory' \in [Rows -> MemoryRows]
        /\ \A q \in Rows : /\ memory'[q].observed = memory[q].observed
                           /\ memory'[q].falsified = memory[q].falsified
                           /\ memory'[q].status = "none" => memory'[q] = memory[q]
    BY DEF ArchiveRefuted, MemoryRows
  <1>5. UNCHANGED <<knowledge, lessons, hypothesis>>
    BY DEF ArchiveRefuted, hypothesisTables
  <1>6. overlapped' \/ \A q \in Rows : MemoryTally(q)'
    <2>1. overlapped => overlapped'
      BY DEF ArchiveRefuted, Writes
    <2>2. ASSUME NEW q \in Rows, MemoryTally(q) PROVE MemoryTally(q)'
      <3> HIDE DEF MemoryInv, MemoryTyped
      <3> QED
        BY <1>4, <1>5, <2>2 DEF MemoryTally
    <2> HIDE DEF MemoryTyped
    <2> QED
      BY <2>1, <2>2
  <1>7. MemoryTyped'
    BY <1>3, <1>4, <1>5
  <1>8. Writes(t, desk[t])
    BY DEF ArchiveRefuted
  <1> QED
    BY <1>1, <1>6, <1>7, <1>8, WritesMemoryInv

LEMMA ArchiveMemoryInv ==
  ASSUME MemoryInv, NEW r \in Rows, UNCHANGED hypothesisTables, ArchiveMemory(r)
  PROVE  MemoryInv'
  <1> USE DEF MemoryInv, MemoryTyped
  <1>1. /\ CallsTyped(MemoryWork)' /\ FaultsTyped'
        /\ UNCHANGED <<desk, overlapped, faults>>
        /\ \A u \in Staff : desk[u].task = "none" \/ ~Current(u)'
    BY WritesAtOnceEffect DEF ArchiveMemory
  <1>2. /\ memory' \in [Rows -> MemoryRows]
        /\ \A q \in Rows : /\ memory'[q].observed = memory[q].observed
                           /\ memory'[q].falsified = memory[q].falsified
                           /\ memory'[q].status = "none" => memory'[q] = memory[q]
    BY DEF ArchiveMemory, MemoryRows
  <1>3. UNCHANGED <<knowledge, lessons, hypothesis, copy>>
    BY DEF ArchiveMemory, hypothesisTables
  <1>4. MemoryTyped'
    BY <1>2, <1>3
  <1>5. overlapped' \/ \A q \in Rows : MemoryTally(q)'
    BY <1>1, <1>2, <1>3 DEF MemoryTally
  <1>6. \A u \in Staff : Current(u)' => MemoryKnows(u)'
    BY <1>1 DEF MemoryKnows
  <1> QED
    BY <1>1, <1>4, <1>5, <1>6

\* The calls that end, and the cycle that goes on to decay.
LEMMA EndsMemoryInv ==
  ASSUME MemoryInv, NEW t \in Staff, UNCHANGED hypothesisTables,
         DecayInCycle(t) \/ LearningCallDies(t)
  PROVE  MemoryInv'
  <1> USE DEF MemoryInv, MemoryTyped
  <1>1. UNCHANGED <<memory, knowledge, hypothesis, lessons>>
    BY DEF DecayInCycle, LearningCallDies, memoryTables, hypothesisTables
  <1>2. FaultsTyped'
    BY FaultTyped DEF DecayInCycle, LearningCallDies, FaultsTyped
  <1>3. CASE Forgets(t) /\ Leaves(t)
    <2>1. /\ CallsTyped(MemoryWork)' /\ desk'[t] = NoWork
          /\ \A u \in Staff : u # t => desk'[u] = desk[u]
          /\ \A u \in Staff : u # t => (Current(u)' <=> Current(u))
          /\ UNCHANGED overlapped
      BY <1>3, NoMemoryWork, LeavesEffect
    <2>2. copy' \in [Staff -> CopyRows] /\ \A u \in Staff : u # t => copy'[u] = copy[u]
      BY <1>3, EmptyRows DEF Forgets
    <2>3. MemoryKnows(t)'
      BY <2>1, NoWorkTask DEF MemoryKnows
    <2> QED
      BY <1>1, <1>2, <2>1, <2>2, <2>3, ReadsMemoryInv
  <1>4. ASSUME NEW r \in Active, desk[t].task = "cycle", Copies(t, {r}, memory[r], NoHypothesis),
               desk' = [desk EXCEPT ![t].task = "decay"], outdated' = outdated \ {t},
               UNCHANGED overlapped
        PROVE  MemoryInv'
    <2>1. CallsTyped(MemoryWork)' /\ desk'[t].task = "decay"
          /\ \A u \in Staff : u # t => desk'[u] = desk[u] /\ (Current(u)' => Current(u))
      BY <1>4 DEF CallsTyped, MemoryWork, Current
    <2>2. r \in Rows
      BY DEF Active
    <2>3. /\ copy' \in [Staff -> CopyRows] /\ copy'[t].rows = {r} /\ copy'[t].memory = memory[r]
          /\ \A u \in Staff : u # t => copy'[u] = copy[u]
      BY <1>4, <2>2, EmptyRows DEF Copies, CopyRows
    <2>4. MemoryKnows(t)'
      BY <1>1, <2>1, <2>3 DEF MemoryKnows, Active
    <2> QED
      BY <1>1, <1>2, <1>4, <2>1, <2>3, <2>4, ReadsMemoryInv
  <1> QED
    BY <1>3, <1>4 DEF DecayInCycle, LearningCallDies

LEMMA NextMemoryInv ==
  ASSUME MemoryInv, [MemoryNext /\ UNCHANGED hypothesisTables]_learningVars
  PROVE  MemoryInv'
  <1>1. CASE UNCHANGED learningVars
    BY <1>1 DEF learningVars, learningTables, memoryTables, hypothesisTables, callVars,
         MemoryInv, MemoryTyped, CallsTyped, FaultsTyped, MemoryTally, MemoryKnows, Active, Current
  <1>2. ASSUME UNCHANGED hypothesisTables, NEW r \in Rows, ArchiveMemory(r) PROVE MemoryInv'
    BY <1>2, ArchiveMemoryInv
  <1>3. ASSUME UNCHANGED hypothesisTables, NEW t \in Staff, NEW r \in Rows, ArchiveRefuted(t, r)
        PROVE  MemoryInv'
    BY <1>3, CycleMemoryInv
  <1>4. ASSUME UNCHANGED hypothesisTables, NEW t \in Staff,
               DecayInCycle(t) \/ LearningCallDies(t)
        PROVE  MemoryInv'
    BY <1>4, EndsMemoryInv
  <1>5. ASSUME UNCHANGED hypothesisTables, NEW t \in Staff,
               \/ FindSimilar(t) \/ BeginLearningCycle(t)
               \/ \E r \in Rows :
                    \/ BeginObservation(t, r) \/ BeginFalsification(t, r) \/ BeginDecay(t, r)
                    \/ \E pushed \in BOOLEAN : BeginPromotionOf(t, r, pushed)
        PROVE  MemoryInv'
    BY <1>5, BeginsMemoryInv
  <1>6. ASSUME UNCHANGED hypothesisTables, NEW t \in Staff,
               \/ StoreMemory(t)
               \/ \E r \in Rows :
                    \/ WriteObservation(t, r) \/ WriteFalsification(t, r)
                    \/ WriteDecay(t, r) \/ StoreKnowledge(t, r)
        PROVE  MemoryInv'
    BY <1>6, WritesRowInv
  <1> QED
    BY <1>1, <1>2, <1>3, <1>4, <1>5, <1>6 DEF MemoryNext

LEMMA MemoryInductive == MemorySpec => []MemoryInv
  BY InitMemoryInv, NextMemoryInv, PTL DEF MemorySpec

\* A call that gains knowledge has promoted a memory.
LEMMA KnowledgeComesAlone ==
  ASSUME MemoryNext, UNCHANGED hypothesisTables, knowledge' # knowledge
  PROVE  \E t \in Staff, r \in Rows : StoreKnowledge(t, r)
  <1>1. \A r \in Rows : ~ArchiveMemory(r)
    BY DEF ArchiveMemory
  <1>2. \A t \in Staff : /\ ~FindSimilar(t) /\ ~StoreMemory(t) /\ ~BeginLearningCycle(t)
                         /\ ~DecayInCycle(t) /\ ~LearningCallDies(t)
    BY DEF FindSimilar, StoreMemory, BeginLearningCycle, DecayInCycle, LearningCallDies, memoryTables
  <1>3. \A t \in Staff, r \in Rows :
          /\ ~BeginObservation(t, r) /\ ~BeginFalsification(t, r) /\ ~BeginDecay(t, r)
          /\ \A pushed \in BOOLEAN : ~BeginPromotionOf(t, r, pushed)
    BY DEF BeginObservation, BeginFalsification, ReadMemory, BeginDecay, BeginPromotionOf, memoryTables
  <1>4. \A t \in Staff, r \in Rows :
          /\ ~WriteObservation(t, r) /\ ~WriteFalsification(t, r)
          /\ ~ArchiveRefuted(t, r) /\ ~WriteDecay(t, r)
    BY DEF WriteObservation, WriteFalsification, ArchiveRefuted, WriteDecay
  <1> QED
    BY <1>1, <1>2, <1>3, <1>4 DEF MemoryNext

\* A memory becomes active for being stored, reported on, or decayed.
LEMMA RevivesAlone ==
  ASSUME MemoryTyped, MemoryNext, UNCHANGED hypothesisTables,
         NEW r \in Rows, r \notin Active, r \in Active'
  PROVE  \E t \in Staff :
           StoreMemory(t) \/ WriteObservation(t, r) \/ WriteFalsification(t, r) \/ WriteDecay(t, r)
  <1>0. memory[r].status # "active" /\ memory'[r].status = "active" /\ memory' # memory
    BY DEF Active
  <1>1. \A q \in Rows : ~ArchiveMemory(q)
    BY <1>0 DEF ArchiveMemory, MemoryTyped, MemoryRows
  <1>2. \A t \in Staff : /\ ~FindSimilar(t) /\ ~BeginLearningCycle(t)
                         /\ ~DecayInCycle(t) /\ ~LearningCallDies(t)
    BY <1>0 DEF FindSimilar, BeginLearningCycle, DecayInCycle, LearningCallDies, memoryTables
  <1>3. \A t \in Staff, q \in Rows :
          /\ ~BeginObservation(t, q) /\ ~BeginFalsification(t, q) /\ ~BeginDecay(t, q)
          /\ ~StoreKnowledge(t, q)
          /\ \A pushed \in BOOLEAN : ~BeginPromotionOf(t, q, pushed)
    BY <1>0 DEF BeginObservation, BeginFalsification, ReadMemory, BeginDecay, BeginPromotionOf,
         StoreKnowledge, memoryTables
  <1>4. \A t \in Staff, q \in Rows : ~ArchiveRefuted(t, q)
    BY <1>0 DEF ArchiveRefuted, MemoryTyped, MemoryRows
  <1>5. \A t \in Staff, q \in Rows :
          WriteObservation(t, q) \/ WriteFalsification(t, q) \/ WriteDecay(t, q) => q = r
    BY <1>0 DEF WriteObservation, WriteFalsification, WriteDecay, MemoryTyped
  <1> QED
    BY <1>1, <1>2, <1>3, <1>4, <1>5 DEF MemoryNext

LEMMA StepOfMemory ==
  ASSUME MemoryInv, [MemoryNext /\ UNCHANGED hypothesisTables]_learningVars, NEW r \in Rows
  PROVE  KnowledgeIsEarned(r) /\ RevivesOnReport(r)
  <1>1. ASSUME r \in knowledge' \ knowledge, ~overlapped'
        PROVE  r \in Active /\ lessons[r].for >= 2 /\ lessons[r].against = 0
    <2>1. MemoryNext /\ UNCHANGED hypothesisTables
      BY <1>1 DEF learningVars, learningTables, memoryTables
    <2>2. PICK t \in Staff, q \in Rows : StoreKnowledge(t, q)
      BY <1>1, <2>1, KnowledgeComesAlone
    <2>3. q = r /\ desk[t].task = "promote" /\ copy[t].rows = {r} /\ Writes(t, NoWork)
      BY <1>1, <2>2 DEF StoreKnowledge
    <2>4. MemoryKnows(t) /\ MemoryTally(r)
      BY <1>1, <2>3 DEF Writes, Current, MemoryInv
    <2> QED
      BY <2>3, <2>4 DEF MemoryKnows, MemoryTally, Promotable, MemoryInv, MemoryTyped, MemoryRows
  <1>2. ASSUME r \notin Active, r \in Active', ~overlapped'
        PROVE  Active = {} \/ lessons'[r] # lessons[r]
    <2>1. MemoryNext /\ UNCHANGED hypothesisTables
      BY <1>2 DEF learningVars, learningTables, memoryTables, Active
    <2>2. PICK t \in Staff :
            StoreMemory(t) \/ WriteObservation(t, r) \/ WriteFalsification(t, r) \/ WriteDecay(t, r)
      BY <1>2, <2>1, RevivesAlone DEF MemoryInv
    <2>3. MemoryKnows(t)
      BY <1>2, <2>2
      DEF StoreMemory, WriteObservation, WriteFalsification, WriteDecay, Writes, Current, MemoryInv
    <2>4. CASE StoreMemory(t)
      <3>1. CASE copy[t].rows = {}
        BY <2>3, <2>4, <3>1 DEF StoreMemory, MemoryKnows
      <3>2. CASE \E q \in copy[t].rows, strong \in Raised(copy[t].memory.strong) :
                   memory' = [memory EXCEPT ![q].strong = strong]
        BY <1>2, <3>2 DEF Active, MemoryInv, MemoryTyped, MemoryRows, CopyRows
      <3> QED
        BY <2>4, <3>1, <3>2 DEF StoreMemory
    <2>5. CASE WriteObservation(t, r) \/ WriteFalsification(t, r)
      <3>1. lessons'[r] # lessons[r]
        BY <2>5 DEF WriteObservation, WriteFalsification, MemoryInv, MemoryTyped, LessonRows
      <3> QED
        BY <3>1
    <2>6. CASE WriteDecay(t, r)
      BY <1>2, <2>3, <2>6 DEF WriteDecay, MemoryKnows
    <2> QED
      BY <2>2, <2>4, <2>5, <2>6
  <1> QED
    BY <1>1, <1>2 DEF KnowledgeIsEarned, RevivesOnReport

\* However many calls report on the memories at a time, and however many of them
\* die: until one writes over what another has read, a memory counts what was
\* seen of it, knowledge comes of one that was active, observed twice and never
\* found false, and none becomes active again without a report on it, unless none
\* was.
THEOREM MemoryStaysEarned == MemorySpec => LearningIsEarned
  <1>1. MemoryInv => \A r \in Rows : CountsAreTrue(r)
    <2> SUFFICES ASSUME MemoryInv, NEW r \in Rows, ~overlapped
                 PROVE  CountsAreTrue(r)
      BY DEF CountsAreTrue, Counted
    <2>1. MemoryTally(r) /\ hypothesis[r] = NoHypothesis
      BY DEF MemoryInv, MemoryTyped
    <2> QED
      BY <2>1, EmptyRows DEF CountsAreTrue, MemoryTally
  <1>2. ASSUME MemoryInv, [MemoryNext /\ UNCHANGED hypothesisTables]_learningVars
        PROVE  \A r \in Rows : KnowledgeIsEarned(r) /\ RevivesOnReport(r)
    BY <1>2, StepOfMemory
  <1> QED
    BY <1>1, <1>2, MemoryInductive, PTL DEF MemorySpec, LearningIsEarned

-----------------------------------------------------------------------------
(* ProtocolLearning: hypotheses and experiments.                            *)

Ends == {"succeeded", "failed"}

HypothesesWork ==
  [task : {"none", "suppose", "start", "complete", "evaluate", "judge"},
   outcome : {"none"} \cup Ends \cup Experiments, left : {0, 1}]

HypothesesTyped ==
  /\ memory = [r \in Rows |-> NoMemory]
  /\ knowledge = {}
  /\ lessons \in [Rows -> LessonRows]
  /\ hypothesis \in [Rows -> HypothesisRows]
  /\ experiment \in [Experiments ->
       [status : {"none", "planned", "running"} \cup Ends, of : SUBSET Rows]]
  /\ \A e \in Experiments : \A q, r \in experiment[e].of : q = r
  /\ uncounted \subseteq Rows
  /\ copy \in [Staff -> CopyRows]

\* The calls that evaluate r for an experiment that has ended, and are still to
\* write.
Unwritten(r, result) ==
  {t \in Staff : /\ desk[t].task \in {"evaluate", "judge"} /\ desk[t].left = 1
                 /\ desk[t].outcome = result /\ copy[t].rows = {r}}

\* What a hypothesis counts, and what is still to write, was seen; and it is all
\* that was seen unless the hypothesis missed the end of an experiment.
HypothesisTally(r) ==
  /\ hypothesis[r].successes + Cardinality(Unwritten(r, "succeeded")) <= lessons[r].for
  /\ hypothesis[r].failures + Cardinality(Unwritten(r, "failed")) <= lessons[r].against
  /\ r \in uncounted
     \/ /\ hypothesis[r].successes + Cardinality(Unwritten(r, "succeeded")) = lessons[r].for
        /\ hypothesis[r].failures + Cardinality(Unwritten(r, "failed")) = lessons[r].against
  /\ hypothesis[r].status = "none" => hypothesis[r] = NoHypothesis

ValidatedRow(h) ==
  h.status = "validated" => h.successes >= 3 /\ h.successes >= 3 * h.failures

\* A call at work, whatever has been written.
HypothesisWork(t) ==
  /\ desk[t].task \in {"start", "complete"} => desk[t].outcome \in Experiments
  /\ desk[t].task \in {"evaluate", "judge"} => desk[t].outcome \in Ends
  /\ desk[t].task = "evaluate" => desk[t].left = 1

\* What a call has read of the hypotheses, while it stands.
HypothesisKnows(t) ==
  \A r \in copy[t].rows :
    /\ desk[t].task = "suppose" => hypothesis[r].status # "none"
    /\ desk[t].task = "judge" => copy[t].hypothesis = hypothesis[r]

HypothesesInv ==
  /\ CallsTyped(HypothesesWork) /\ FaultsTyped
  /\ HypothesesTyped
  /\ overlapped \/ \A r \in Rows : HypothesisTally(r)
  /\ \A r \in Rows : ValidatedRow(hypothesis[r])
  /\ \A t \in Staff : HypothesisWork(t)
  /\ \A t \in Staff : Current(t) => HypothesisKnows(t)

LEMMA NoHypothesesWork == NoWork \in HypothesesWork /\ NoWork.left = 0
  BY DEF HypothesesWork, NoWork, Work

LEMMA UnwrittenIsFinite ==
  ASSUME NEW r, NEW result
  PROVE  IsFiniteSet(Unwritten(r, result)) /\ IsFiniteSet(Unwritten(r, result)')
         /\ Cardinality(Unwritten(r, result)) \in Nat
  <1>1. Unwritten(r, result) \subseteq Staff /\ Unwritten(r, result)' \subseteq Staff
    BY DEF Unwritten
  <1> QED
    BY <1>1, LearningAssumption, FS_Subset, FS_CardinalityType

\* One call more, or less, that is to write.
LEMMA OneMoreUnwritten ==
  ASSUME NEW r, NEW result, NEW t \in Unwritten(r, result)', t \notin Unwritten(r, result),
         \A u \in Staff : u # t => (u \in Unwritten(r, result)' <=> u \in Unwritten(r, result))
  PROVE  Cardinality(Unwritten(r, result)') = Cardinality(Unwritten(r, result)) + 1
  <1> DEFINE now == Unwritten(r, result)
  <1>1. Unwritten(r, result)' = now \cup {t}
    BY DEF Unwritten
  <1>2. IsFiniteSet(now) /\ t \notin now
    BY UnwrittenIsFinite
  <1> HIDE DEF now
  <1>3. Cardinality(now \cup {t}) = Cardinality(now) + 1
    BY <1>2, FS_AddElement
  <1> QED
    BY <1>1, <1>3 DEF now

LEMMA OneLessUnwritten ==
  ASSUME NEW r, NEW result, NEW t \in Unwritten(r, result), t \notin Unwritten(r, result)',
         \A u \in Staff : u # t => (u \in Unwritten(r, result)' <=> u \in Unwritten(r, result))
  PROVE  Cardinality(Unwritten(r, result)') + 1 = Cardinality(Unwritten(r, result))
  <1>1. Unwritten(r, result)' = Unwritten(r, result) \ {t}
    BY DEF Unwritten
  <1>2. Cardinality(Unwritten(r, result)') = Cardinality(Unwritten(r, result)) - 1
    BY <1>1, UnwrittenIsFinite, FS_RemoveElement
  <1> QED
    BY <1>2, UnwrittenIsFinite

LEMMA InitHypothesesInv == LearningInit => HypothesesInv
  <1> SUFFICES ASSUME LearningInit PROVE HypothesesInv
    OBVIOUS
  <1>1. CallsTyped(HypothesesWork)
    BY NoHypothesesWork DEF LearningInit, CallsInit, CallsTyped
  <1>2. FaultsTyped
    BY FaultsAssumption DEF LearningInit, FaultsTyped
  <1>3. HypothesesTyped
    BY EmptyRows DEF LearningInit, HypothesesTyped, NoExperiment, LessonRows
  <1>4. ASSUME NEW r \in Rows PROVE HypothesisTally(r) /\ ValidatedRow(hypothesis[r])
    <2>1. ASSUME NEW result \in Ends PROVE Cardinality(Unwritten(r, result)) = 0
      <3>1. Unwritten(r, result) = {}
        BY NoWorkTask DEF Unwritten, LearningInit, CallsInit
      <3> QED
        BY <3>1, FS_EmptySet
    <2> QED
      BY <2>1, EmptyRows DEF LearningInit, HypothesisTally, ValidatedRow, Ends
  <1>5. \A t \in Staff : HypothesisWork(t) /\ HypothesisKnows(t)
    BY NoWorkTask DEF LearningInit, CallsInit, HypothesisWork, HypothesisKnows
  <1> QED
    BY <1>1, <1>2, <1>3, <1>4, <1>5 DEF HypothesesInv

-----------------------------------------------------------------------------
\* A call that reads: the tables stay, the others know what they knew, and it is
\* to write no more nor less than before.
LEMMA ReadsHypothesesInv ==
  ASSUME HypothesesInv, NEW t \in Staff,
         CallsTyped(HypothesesWork)', FaultsTyped',
         UNCHANGED <<memory, knowledge, hypothesis, experiment, uncounted, lessons, overlapped>>,
         copy' \in [Staff -> CopyRows],
         \A u \in Staff : u # t => desk'[u] = desk[u] /\ copy'[u] = copy[u]
                                   /\ (Current(u)' => Current(u)),
         HypothesisWork(t)', HypothesisKnows(t)',
         \A r \in Rows, result \in Ends :
           t \in Unwritten(r, result)' <=> t \in Unwritten(r, result)
  PROVE  HypothesesInv'
  <1>1. HypothesesTyped'
    BY DEF HypothesesInv, HypothesesTyped
  <1>2. ASSUME NEW u \in Staff PROVE HypothesisWork(u)' /\ (Current(u)' => HypothesisKnows(u)')
    BY DEF HypothesesInv, HypothesisWork, HypothesisKnows
  <1>3. ASSUME NEW r \in Rows, ~overlapped'
        PROVE  HypothesisTally(r)'
    <2>1. ASSUME NEW result \in Ends PROVE Unwritten(r, result)' = Unwritten(r, result)
      <3>1. ASSUME NEW u \in Staff
            PROVE  u \in Unwritten(r, result)' <=> u \in Unwritten(r, result)
        BY DEF Unwritten
      <3> QED
        BY <3>1 DEF Unwritten
    <2>2. HypothesisTally(r)
      BY <1>3 DEF HypothesesInv
    <2> QED
      BY <2>1, <2>2 DEF HypothesisTally, Ends
  <1>4. \A r \in Rows : ValidatedRow(hypothesis[r])'
    BY DEF HypothesesInv, ValidatedRow
  <1> QED
    BY <1>1, <1>2, <1>3, <1>4 DEF HypothesesInv

\* A call that writes, and keeps nothing of what it has read.
LEMMA WritesHypothesesInv ==
  ASSUME HypothesesInv, NEW t \in Staff, NEW next \in HypothesesWork,
         next.task \in {"none", "evaluate"},
         next.task = "evaluate" => next.outcome \in Ends /\ next.left = 1,
         Writes(t, next), HypothesesTyped',
         overlapped' \/ \A r \in Rows : HypothesisTally(r)',
         \A u \in Staff : u # t => copy'[u] = copy[u],
         \A r \in Rows : ValidatedRow(hypothesis[r])'
  PROVE  HypothesesInv'
  <1>1. /\ CallsTyped(HypothesesWork)' /\ FaultsTyped' /\ desk'[t] = next
        /\ \A u \in Staff : u # t => desk'[u] = desk[u]
        /\ \A u \in Staff : u # t => desk[u].task = "none" \/ ~Current(u)'
    BY WritesEffect DEF HypothesesInv
  <1>2. ASSUME NEW u \in Staff PROVE HypothesisWork(u)' /\ (Current(u)' => HypothesisKnows(u)')
    BY <1>1 DEF HypothesesInv, HypothesisWork, HypothesisKnows
  <1> QED
    BY <1>1, <1>2 DEF HypothesesInv

-----------------------------------------------------------------------------
LEMMA PlanExperimentInv ==
  ASSUME HypothesesInv, UNCHANGED memoryTables,
         NEW e \in Experiments, NEW r \in Rows, PlanExperiment(e, r)
  PROVE  HypothesesInv'
  <1>1. UNCHANGED <<memory, knowledge, hypothesis, uncounted, lessons, copy, desk, outdated,
                    overlapped, faults>>
    BY DEF PlanExperiment, memoryTables, callVars
  <1>2. HypothesesTyped'
    BY <1>1 DEF HypothesesInv, HypothesesTyped, PlanExperiment
  <1> QED
    BY <1>1, <1>2 DEF HypothesesInv, CallsTyped, FaultsTyped, HypothesisTally, Unwritten,
         ValidatedRow, HypothesisWork, HypothesisKnows, Current

\* The calls that begin, and read.
LEMMA BeginsHypothesesInv ==
  ASSUME HypothesesInv, NEW t \in Staff, UNCHANGED memoryTables,
         \/ FindHypothesis(t)
         \/ \E e \in Experiments : BeginStart(t, e) \/ BeginCompletion(t, e)
         \/ \E r \in Rows, result \in Ends : BeginEvaluation(t, r, result)
  PROVE  HypothesesInv'
  <1> USE DEF HypothesesInv, HypothesesTyped
  <1> DEFINE
    Begun(work) ==
      /\ work \in HypothesesWork /\ work.left = 0
      /\ Takes(t, work)
      /\ copy' \in [Staff -> CopyRows]
      /\ \A u \in Staff : u # t => copy'[u] = copy[u]
      /\ work.task \in {"start", "complete"} => work.outcome \in Experiments
      /\ work.task = "judge" => work.outcome \in Ends
      /\ work.task # "evaluate"
      /\ work.task = "suppose" => \A r \in copy'[t].rows : hypothesis[r].status # "none"
      /\ work.task = "judge" => \A r \in copy'[t].rows : copy'[t].hypothesis = hypothesis[r]
  <1>1. \E work : Begun(work)
    <2>1. CASE FindHypothesis(t)
      <3>1. /\ Work("suppose", "none", 0) \in HypothesesWork
            /\ Work("suppose", "none", 0).task = "suppose" /\ Work("suppose", "none", 0).left = 0
        BY DEF Work, HypothesesWork
      <3>2. CASE \E r \in Supposed : Copies(t, {r}, NoMemory, hypothesis[r])
        <4>1. PICK r \in Supposed : Copies(t, {r}, NoMemory, hypothesis[r])
          BY <3>2
        <4>2. r \in Rows /\ hypothesis[r].status # "none"
          BY DEF Supposed
        <4>3. /\ copy' \in [Staff -> CopyRows] /\ copy'[t].rows = {r}
              /\ \A u \in Staff : u # t => copy'[u] = copy[u]
          BY <4>1, <4>2, EmptyRows DEF Copies, CopyRows
        <4>4. Begun(Work("suppose", "none", 0))
          BY <2>1, <3>1, <4>2, <4>3 DEF FindHypothesis, Decides
        <4> QED
          BY <4>4
      <3>3. CASE Copies(t, {}, NoMemory, NoHypothesis)
        <4>1. /\ copy' \in [Staff -> CopyRows] /\ copy'[t].rows = {}
              /\ \A u \in Staff : u # t => copy'[u] = copy[u]
          BY <3>3, EmptyRows DEF Copies, CopyRows
        <4>2. Begun(Work("suppose", "none", 0))
          BY <2>1, <3>1, <4>1 DEF FindHypothesis, Decides
        <4> QED
          BY <4>2
      <3> QED
        BY <2>1, <3>2, <3>3 DEF FindHypothesis
    <2>2. ASSUME NEW e \in Experiments, NEW task \in {"start", "complete"},
                 Decides(t, task, e), UNCHANGED copy
          PROVE  \E work : Begun(work)
      <3>1. /\ Work(task, e, 0) \in HypothesesWork
            /\ Work(task, e, 0).task = task /\ Work(task, e, 0).left = 0
            /\ Work(task, e, 0).outcome = e
        BY DEF Work, HypothesesWork
      <3>2. Begun(Work(task, e, 0))
        BY <2>2, <3>1 DEF Decides
      <3> QED
        BY <3>2
    <2>3. ASSUME NEW r \in Rows, NEW result \in Ends, BeginEvaluation(t, r, result)
          PROVE  \E work : Begun(work)
      <3>1. /\ Work("judge", result, 0) \in HypothesesWork
            /\ Work("judge", result, 0).task = "judge" /\ Work("judge", result, 0).left = 0
            /\ Work("judge", result, 0).outcome = result
        BY DEF Work, HypothesesWork
      <3>2. /\ copy' \in [Staff -> CopyRows] /\ copy'[t].rows = {r}
            /\ copy'[t].hypothesis = hypothesis[r]
            /\ \A u \in Staff : u # t => copy'[u] = copy[u]
        BY <2>3, EmptyRows DEF BeginEvaluation, Copies, CopyRows
      <3>3. Begun(Work("judge", result, 0))
        BY <2>3, <3>1, <3>2 DEF BeginEvaluation, Decides
      <3> QED
        BY <3>3
    <2> QED
      BY <2>1, <2>2, <2>3 DEF BeginStart, BeginCompletion, learningTables
  <1> HIDE DEF Begun
  <1>2. UNCHANGED <<memory, knowledge, hypothesis, experiment, uncounted, lessons>>
    BY DEF FindHypothesis, BeginStart, BeginCompletion, BeginEvaluation, memoryTables,
           hypothesisTables, learningTables
  <1>3. PICK work : Begun(work)
    BY <1>1
  <1>4. /\ CallsTyped(HypothesesWork)' /\ FaultsTyped' /\ t \notin Busy /\ desk'[t] = work
        /\ \A u \in Staff : u # t => desk'[u] = desk[u]
        /\ UNCHANGED <<outdated, overlapped>>
    BY <1>3, TakesEffect DEF Begun
  <1>5. HypothesisWork(t)' /\ HypothesisKnows(t)'
    BY <1>2, <1>3, <1>4 DEF HypothesisWork, HypothesisKnows, Begun
  <1>6. \A r \in Rows, result \in Ends :
          t \in Unwritten(r, result)' <=> t \in Unwritten(r, result)
    BY <1>3, <1>4, NoWorkTask DEF Unwritten, Begun, Busy
  <1>7. copy' \in [Staff -> CopyRows] /\ \A u \in Staff : u # t => copy'[u] = copy[u]
    BY <1>3 DEF Begun
  <1> QED
    BY <1>2, <1>4, <1>5, <1>6, <1>7, ReadsHypothesesInv DEF Current

\* The evaluation at the end of an experiment reads the hypothesis.
LEMMA ReadHypothesisInv ==
  ASSUME HypothesesInv, NEW t \in Staff, NEW r \in Rows, UNCHANGED memoryTables,
         ReadHypothesis(t, r)
  PROVE  HypothesesInv'
  <1> USE DEF HypothesesInv, HypothesesTyped
  <1>1. /\ desk[t].task = "evaluate" /\ copy[t].rows = {r}
        /\ desk' = [desk EXCEPT ![t].task = "judge"] /\ outdated' = outdated \ {t}
        /\ Copies(t, {r}, NoMemory, hypothesis[r])
        /\ UNCHANGED <<memory, knowledge, hypothesis, experiment, uncounted, lessons, overlapped,
                       faults>>
    BY DEF ReadHypothesis, memoryTables, hypothesisTables
  <1>2. /\ copy' \in [Staff -> CopyRows] /\ copy'[t].rows = {r}
        /\ copy'[t].hypothesis = hypothesis[r]
        /\ \A u \in Staff : u # t => copy'[u] = copy[u]
    BY <1>1, EmptyRows DEF Copies, CopyRows
  <1>3. /\ CallsTyped(HypothesesWork)' /\ FaultsTyped'
        /\ desk'[t].task = "judge" /\ desk'[t].left = desk[t].left
        /\ desk'[t].outcome = desk[t].outcome
        /\ \A u \in Staff : u # t => desk'[u] = desk[u] /\ (Current(u)' => Current(u))
    BY <1>1 DEF CallsTyped, HypothesesWork, FaultsTyped, Current
  <1>4. HypothesisWork(t)' /\ HypothesisKnows(t)'
    BY <1>1, <1>2, <1>3 DEF HypothesisWork, HypothesisKnows
  <1>5. \A q \in Rows, result \in Ends :
          t \in Unwritten(q, result)' <=> t \in Unwritten(q, result)
    BY <1>1, <1>2, <1>3 DEF Unwritten
  <1> QED
    BY <1>1, <1>2, <1>3, <1>4, <1>5, ReadsHypothesesInv

\* A call that dies leaves what it was to evaluate for an experiment uncounted.
LEMMA DiesHypothesesInv ==
  ASSUME HypothesesInv, NEW t \in Staff, UNCHANGED memoryTables, LearningCallDies(t)
  PROVE  HypothesesInv'
  <1> USE DEF HypothesesInv, HypothesesTyped
  <1>1. UNCHANGED <<memory, knowledge, hypothesis, experiment, lessons>>
    BY DEF LearningCallDies, memoryTables
  <1>2. FaultsTyped'
    BY FaultTyped DEF LearningCallDies
  <1>3. /\ CallsTyped(HypothesesWork)' /\ desk'[t] = NoWork
        /\ \A u \in Staff : u # t => desk'[u] = desk[u]
        /\ \A u \in Staff : u # t => (Current(u)' <=> Current(u))
        /\ UNCHANGED overlapped
    BY NoHypothesesWork, LeavesEffect DEF LearningCallDies
  <1>4. copy' \in [Staff -> CopyRows] /\ \A u \in Staff : u # t => copy'[u] = copy[u]
    BY EmptyRows DEF LearningCallDies, Forgets
  <1>5. /\ uncounted \subseteq uncounted' /\ uncounted' \subseteq Rows
        /\ desk[t].task \in {"evaluate", "judge"} /\ desk[t].left = 1
           => copy[t].rows \subseteq uncounted'
    BY DEF LearningCallDies, CopyRows
  <1>6. HypothesesTyped'
    BY <1>1, <1>4, <1>5
  <1>7. ASSUME NEW u \in Staff PROVE HypothesisWork(u)' /\ (Current(u)' => HypothesisKnows(u)')
    BY <1>1, <1>3, <1>4, NoWorkTask DEF HypothesisWork, HypothesisKnows
  <1>8. ASSUME NEW r \in Rows, ~overlapped' PROVE HypothesisTally(r)'
    <2>1. HypothesisTally(r)
      BY <1>3, <1>8
    <2>2. CASE r \in uncounted'
      <3>1. ASSUME NEW result \in Ends
            PROVE  /\ Cardinality(Unwritten(r, result)') <= Cardinality(Unwritten(r, result))
                   /\ Cardinality(Unwritten(r, result)) \in Nat
                   /\ Cardinality(Unwritten(r, result)') \in Nat
        <4>1. t \notin Unwritten(r, result)'
          BY <1>3, NoWorkTask DEF Unwritten
        <4>2. Unwritten(r, result)' \subseteq Unwritten(r, result)
          BY <1>3, <1>4, <4>1 DEF Unwritten
        <4> HIDE DEF HypothesesInv, HypothesesTyped
        <4> QED
          BY <4>2, UnwrittenIsFinite, FS_Subset, FS_CardinalityType
      <3>2. /\ hypothesis'[r] = hypothesis[r] /\ lessons'[r] = lessons[r]
            /\ hypothesis[r].successes \in Nat /\ hypothesis[r].failures \in Nat
            /\ lessons[r].for \in Nat /\ lessons[r].against \in Nat
        BY <1>1 DEF HypothesisRows, LessonRows
      <3>3. /\ hypothesis[r].successes + Cardinality(Unwritten(r, "succeeded")) <= lessons[r].for
            /\ hypothesis[r].failures + Cardinality(Unwritten(r, "failed")) <= lessons[r].against
            /\ hypothesis[r].status = "none" => hypothesis[r] = NoHypothesis
        BY <2>1 DEF HypothesisTally
      <3> HIDE DEF HypothesesInv, HypothesesTyped
      <3>4. /\ hypothesis[r].successes + Cardinality(Unwritten(r, "succeeded")') <= lessons[r].for
            /\ hypothesis[r].failures + Cardinality(Unwritten(r, "failed")') <= lessons[r].against
        BY <3>1, <3>2, <3>3 DEF Ends
      <3> QED
        BY <2>2, <3>2, <3>3, <3>4 DEF HypothesisTally
    <2>3. CASE r \notin uncounted'
      <3>1. ASSUME NEW result \in Ends PROVE Unwritten(r, result)' = Unwritten(r, result)
        <4>1. t \notin Unwritten(r, result)
          BY <1>5, <2>3 DEF Unwritten
        <4>2. t \notin Unwritten(r, result)'
          BY <1>3, NoWorkTask DEF Unwritten
        <4> QED
          BY <1>3, <1>4, <4>1, <4>2 DEF Unwritten
      <3> QED
        BY <1>1, <1>5, <2>1, <2>3, <3>1 DEF HypothesisTally, Ends
    <2> QED
      BY <2>2, <2>3
  <1>9. \A r \in Rows : ValidatedRow(hypothesis[r])'
    BY <1>1 DEF ValidatedRow
  <1> QED
    BY <1>2, <1>3, <1>6, <1>7, <1>8, <1>9

-----------------------------------------------------------------------------
\* A call that was not to evaluate for an experiment, and is not: nothing more is
\* to write.
LEMMA UnwrittenStays ==
  ASSUME NEW t \in Staff, NEW r \in Rows, NEW result,
         desk[t].left = 0 \/ desk[t].task \notin {"evaluate", "judge"},
         desk'[t] = NoWork,
         \A u \in Staff : u # t => desk'[u] = desk[u] /\ copy'[u] = copy[u]
  PROVE  Unwritten(r, result)' = Unwritten(r, result)
  <1>1. t \notin Unwritten(r, result) /\ t \notin Unwritten(r, result)'
    BY NoWorkTask DEF Unwritten
  <1> QED
    BY <1>1 DEF Unwritten

LEMMA StoreHypothesisInv ==
  ASSUME HypothesesInv, NEW t \in Staff, UNCHANGED memoryTables, StoreHypothesis(t)
  PROVE  HypothesesInv'
  <1> USE DEF HypothesesInv, HypothesesTyped
  <1>1. /\ Writes(t, NoWork) /\ desk[t].task = "suppose"
        /\ UNCHANGED <<memory, knowledge, experiment, uncounted, lessons>>
    BY DEF StoreHypothesis, memoryTables
  <1>2. copy' \in [Staff -> CopyRows] /\ \A u \in Staff : u # t => copy'[u] = copy[u]
    BY EmptyRows DEF StoreHypothesis, Forgets
  <1>3. /\ desk'[t] = NoWork /\ overlapped' = (overlapped \/ t \in outdated)
        /\ \A u \in Staff : u # t => desk'[u] = desk[u]
    BY <1>1, NoHypothesesWork, WritesEffect
  <1>4. ASSUME NEW r \in Rows, NEW result \in Ends PROVE Unwritten(r, result)' = Unwritten(r, result)
    BY <1>1, <1>2, <1>3, UnwrittenStays
  <1>5. overlapped' \/ (HypothesisKnows(t) /\ \A r \in Rows : HypothesisTally(r))
    BY <1>3 DEF Current
  <1>6. /\ hypothesis' \in [Rows -> HypothesisRows]
        /\ \A r \in Rows :
             /\ overlapped' \/ /\ hypothesis'[r].successes = hypothesis[r].successes
                               /\ hypothesis'[r].failures = hypothesis[r].failures
                               /\ hypothesis'[r].status = "none" => hypothesis'[r] = hypothesis[r]
             /\ ValidatedRow(hypothesis[r])'
    <2>1. CASE \E r \in copy[t].rows, sure \in Raised(copy[t].hypothesis.sure) :
                 hypothesis' = [hypothesis EXCEPT ![r].sure = sure]
      <3>1. PICK r \in copy[t].rows, sure \in Raised(copy[t].hypothesis.sure) :
              hypothesis' = [hypothesis EXCEPT ![r].sure = sure]
        BY <2>1
      <3>2. r \in Rows /\ sure \in BOOLEAN
        BY DEF CopyRows, HypothesisRows, Raised
      <3>3. /\ hypothesis' \in [Rows -> HypothesisRows]
            /\ \A q \in Rows : /\ hypothesis'[q].successes = hypothesis[q].successes
                               /\ hypothesis'[q].failures = hypothesis[q].failures
                               /\ hypothesis'[q].status = hypothesis[q].status
                               /\ q # r => hypothesis'[q] = hypothesis[q]
        BY <3>1, <3>2 DEF HypothesisRows
      <3>4. overlapped' \/ hypothesis[r].status # "none"
        BY <1>1, <1>5 DEF HypothesisKnows
      <3> QED
        BY <3>3, <3>4 DEF ValidatedRow
    <2>2. CASE \E r \in Blank, sure \in BOOLEAN :
                 hypothesis' = [hypothesis EXCEPT ![r] = Hypothesis("proposed", sure, 0, 0)]
      <3>1. PICK r \in Blank, sure \in BOOLEAN :
              hypothesis' = [hypothesis EXCEPT ![r] = Hypothesis("proposed", sure, 0, 0)]
        BY <2>2
      <3>2. r \in Rows /\ hypothesis[r].status = "none"
        BY DEF Blank
      <3>3. /\ hypothesis' \in [Rows -> HypothesisRows]
            /\ hypothesis'[r].successes = 0 /\ hypothesis'[r].failures = 0
            /\ hypothesis'[r].status = "proposed"
            /\ \A q \in Rows : q # r => hypothesis'[q] = hypothesis[q]
        BY <3>1, <3>2 DEF HypothesisRows, Hypothesis
      <3>4. overlapped' \/ (hypothesis[r].successes = 0 /\ hypothesis[r].failures = 0)
        BY <1>5, <3>2, EmptyRows DEF HypothesisTally
      <3> QED
        BY <3>3, <3>4 DEF ValidatedRow
    <2> QED
      BY <2>1, <2>2 DEF StoreHypothesis
  <1>7. HypothesesTyped'
    BY <1>1, <1>2, <1>6
  <1>8. overlapped' \/ \A r \in Rows : HypothesisTally(r)'
    BY <1>1, <1>4, <1>5, <1>6 DEF HypothesisTally, Ends
  <1>9. NoWork \in HypothesesWork /\ NoWork.task = "none"
    BY NoHypothesesWork, NoWorkTask
  <1> QED
    BY <1>1, <1>2, <1>6, <1>7, <1>8, <1>9, WritesHypothesesInv

LEMMA StartExperimentInv ==
  ASSUME HypothesesInv, NEW t \in Staff, UNCHANGED memoryTables, StartExperiment(t)
  PROVE  HypothesesInv'
  <1> USE DEF HypothesesInv, HypothesesTyped
  <1>1. /\ Writes(t, NoWork) /\ desk[t].task = "start"
        /\ UNCHANGED <<memory, knowledge, hypothesis, uncounted, lessons, copy>>
    BY DEF StartExperiment, memoryTables
  <1>2. /\ desk'[t] = NoWork /\ overlapped' = (overlapped \/ t \in outdated)
        /\ \A u \in Staff : u # t => desk'[u] = desk[u]
    BY <1>1, NoHypothesesWork, WritesEffect
  <1>3. ASSUME NEW r \in Rows, NEW result \in Ends PROVE Unwritten(r, result)' = Unwritten(r, result)
    BY <1>1, <1>2, UnwrittenStays
  <1>4. desk[t].outcome \in Experiments
    BY <1>1 DEF HypothesisWork
  <1>5. HypothesesTyped'
    BY <1>1, <1>4 DEF StartExperiment
  <1>6. overlapped' \/ \A r \in Rows : HypothesisTally(r)'
    BY <1>1, <1>2, <1>3 DEF HypothesisTally, Ends
  <1>7. NoWork \in HypothesesWork /\ NoWork.task = "none"
    BY NoHypothesesWork, NoWorkTask
  <1>8. \A r \in Rows : ValidatedRow(hypothesis[r])'
    BY <1>1 DEF ValidatedRow
  <1> QED
    BY <1>1, <1>5, <1>6, <1>7, <1>8, WritesHypothesesInv

\* The end of an experiment is one more that was seen of its hypothesis, and one
\* more to write.
LEMMA CompleteExperimentInv ==
  ASSUME HypothesesInv, NEW t \in Staff, UNCHANGED memoryTables, CompleteExperiment(t)
  PROVE  HypothesesInv'
  <1> DEFINE e == desk[t].outcome
  <1> USE DEF HypothesesInv, HypothesesTyped
  <1>1. /\ desk[t].task = "complete" /\ e \in Experiments
        /\ UNCHANGED <<memory, knowledge, hypothesis, uncounted>>
    BY DEF CompleteExperiment, memoryTables, HypothesisWork
  <1>2. PICK result \in Ends :
          /\ experiment' = [experiment EXCEPT ![e].status = result]
          /\ Writes(t, Work("evaluate", result, 1))
    BY DEF CompleteExperiment, Ends
  <1>3. /\ Work("evaluate", result, 1) \in HypothesesWork
        /\ Work("evaluate", result, 1).task = "evaluate"
        /\ Work("evaluate", result, 1).outcome = result /\ Work("evaluate", result, 1).left = 1
    BY DEF Work, HypothesesWork
  <1>4. /\ desk'[t] = Work("evaluate", result, 1) /\ overlapped' = (overlapped \/ t \in outdated)
        /\ \A u \in Staff : u # t => desk'[u] = desk[u]
    BY <1>2, <1>3, WritesEffect
  <1>5. /\ copy' \in [Staff -> CopyRows] /\ copy'[t].rows = experiment[e].of
        /\ \A u \in Staff : u # t => copy'[u] = copy[u]
    BY <1>1, EmptyRows DEF CompleteExperiment, Copies, CopyRows
  <1>6. ASSUME NEW r \in Rows
        PROVE  lessons'[r] = IF r \notin experiment[e].of THEN lessons[r] ELSE Seen(r, result)
    BY <1>1, <1>2 DEF CompleteExperiment
  <1>7. ASSUME NEW r \in Rows
        PROVE  /\ Seen(r, result) \in LessonRows
               /\ Seen(r, result).for = lessons[r].for + (IF result = "succeeded" THEN 1 ELSE 0)
               /\ Seen(r, result).against = lessons[r].against + (IF result = "failed" THEN 1 ELSE 0)
    BY DEF Seen, LessonRows, Ends
  <1>8. lessons' \in [Rows -> LessonRows]
    <2>1. lessons' = [r \in Rows |-> lessons'[r]]
      BY DEF CompleteExperiment
    <2> QED
      BY <1>6, <1>7, <2>1
  <1>9. HypothesesTyped'
    BY <1>1, <1>2, <1>5, <1>8
  <1>10. ASSUME NEW r \in Rows, ~overlapped' PROVE HypothesisTally(r)'
    <2>1. HypothesisTally(r)
      BY <1>4, <1>10
    <2>2. ASSUME NEW p, t \notin Unwritten(r, p)'
          PROVE  Unwritten(r, p)' = Unwritten(r, p)
      <3>1. t \notin Unwritten(r, p)
        BY <1>1 DEF Unwritten
      <3> QED
        BY <1>4, <1>5, <2>2, <3>1 DEF Unwritten
    <2>3. CASE r \notin experiment[e].of
      <3>1. \A p : t \notin Unwritten(r, p)'
        BY <1>5, <2>3 DEF Unwritten
      <3> QED
        BY <1>1, <1>6, <2>1, <2>2, <2>3, <3>1 DEF HypothesisTally
    <2>4. CASE r \in experiment[e].of
      <3>1. experiment[e].of = {r}
        BY <1>1, <2>4
      <3>2. t \in Unwritten(r, result)' /\ t \notin Unwritten(r, result)
        BY <1>1, <1>3, <1>4, <1>5, <3>1 DEF Unwritten
      <3>3. Cardinality(Unwritten(r, result)') = Cardinality(Unwritten(r, result)) + 1
        <4>1. \A u \in Staff : u # t => (u \in Unwritten(r, result)' <=> u \in Unwritten(r, result))
          BY <1>4, <1>5 DEF Unwritten
        <4> HIDE DEF HypothesesInv, HypothesesTyped
        <4> QED
          BY <3>2, <4>1, OneMoreUnwritten
      <3>4. ASSUME NEW p, p # result PROVE Unwritten(r, p)' = Unwritten(r, p)
        <4>1. t \notin Unwritten(r, p)'
          BY <1>3, <1>4, <3>4 DEF Unwritten
        <4> QED
          BY <2>2, <4>1
      <3>5. lessons'[r] = Seen(r, result)
        BY <1>6, <2>4
      <3>6. /\ Cardinality(Unwritten(r, "succeeded")')
               = Cardinality(Unwritten(r, "succeeded")) + (IF result = "succeeded" THEN 1 ELSE 0)
            /\ Cardinality(Unwritten(r, "failed")')
               = Cardinality(Unwritten(r, "failed")) + (IF result = "failed" THEN 1 ELSE 0)
        BY <3>3, <3>4, UnwrittenIsFinite DEF Ends
      <3>7. /\ hypothesis[r].successes \in Nat /\ hypothesis[r].failures \in Nat
            /\ Cardinality(Unwritten(r, "succeeded")) \in Nat /\ Cardinality(Unwritten(r, "failed")) \in Nat
        BY UnwrittenIsFinite DEF HypothesisRows
      <3> QED
        <4>1. hypothesis'[r] = hypothesis[r] /\ uncounted' = uncounted
          BY <1>1
        <4>2. /\ lessons'[r].for = lessons[r].for + (IF result = "succeeded" THEN 1 ELSE 0)
              /\ lessons'[r].against = lessons[r].against + (IF result = "failed" THEN 1 ELSE 0)
          BY <1>7, <3>5
        <4> HIDE DEF HypothesesInv, HypothesesTyped
        <4>3. lessons[r].for \in Nat /\ lessons[r].against \in Nat
          BY <1>1 DEF HypothesesInv, HypothesesTyped, LessonRows
        <4>4. /\ hypothesis'[r].successes + Cardinality(Unwritten(r, "succeeded")') <= lessons'[r].for
              /\ hypothesis'[r].failures + Cardinality(Unwritten(r, "failed")') <= lessons'[r].against
          <5>1. /\ hypothesis[r].successes + Cardinality(Unwritten(r, "succeeded")) <= lessons[r].for
                /\ hypothesis[r].failures + Cardinality(Unwritten(r, "failed")) <= lessons[r].against
            BY <2>1 DEF HypothesisTally
          <5> QED
            BY <3>6, <3>7, <4>1, <4>2, <4>3, <5>1
        <4>5. CASE r \in uncounted
          BY <2>1, <4>1, <4>4, <4>5 DEF HypothesisTally
        <4>6. CASE r \notin uncounted
          <5>1. /\ hypothesis[r].successes + Cardinality(Unwritten(r, "succeeded")) = lessons[r].for
                /\ hypothesis[r].failures + Cardinality(Unwritten(r, "failed")) = lessons[r].against
            BY <2>1, <4>6 DEF HypothesisTally
          <5>2. /\ hypothesis'[r].successes + Cardinality(Unwritten(r, "succeeded")') = lessons'[r].for
                /\ hypothesis'[r].failures + Cardinality(Unwritten(r, "failed")') = lessons'[r].against
            BY <3>6, <3>7, <4>1, <4>2, <5>1
          <5> QED
            BY <2>1, <4>1, <4>4, <5>2 DEF HypothesisTally
        <4> QED
          BY <4>5, <4>6
    <2> QED
      BY <2>3, <2>4
  <1>11. \A r \in Rows : ValidatedRow(hypothesis[r])'
    BY <1>1 DEF ValidatedRow
  <1> HIDE DEF HypothesesInv, HypothesesTyped
  <1> QED
    BY <1>2, <1>3, <1>5, <1>9, <1>10, <1>11, WritesHypothesesInv

\* The verdict is one of three, and a validated hypothesis has three evaluations
\* or more, three quarters of them successes.
LEMMA VerdictIsEarned ==
  ASSUME NEW sure \in BOOLEAN, NEW successes \in Nat, NEW failures \in Nat
  PROVE  /\ LearnedVerdict(sure, successes, failures) \in {"validated", "rejected", "testing"}
         /\ LearnedVerdict(sure, successes, failures) = "validated"
            => successes >= 3 /\ successes >= 3 * failures
  <1>1. CASE successes + failures >= 3 /\ 4 * successes >= 3 * (successes + failures) /\ sure
    <2>1. successes >= 3 /\ successes >= 3 * failures
      BY <1>1
    <2>2. LearnedVerdict(sure, successes, failures) \in {"validated", "rejected", "testing"}
      BY <1>1 DEF LearnedVerdict
    <2> QED
      BY <2>1, <2>2
  <1>2. CASE ~(successes + failures >= 3 /\ 4 * successes >= 3 * (successes + failures) /\ sure)
    BY <1>2 DEF LearnedVerdict
  <1> QED
    BY <1>1, <1>2

LEMMA JudgedRow ==
  ASSUME NEW h \in HypothesisRows, NEW result \in Ends, NEW row \in Judged(h, result)
  PROVE  /\ row \in HypothesisRows
         /\ row.successes = h.successes + (IF result = "succeeded" THEN 1 ELSE 0)
         /\ row.failures = h.failures + (IF result = "failed" THEN 1 ELSE 0)
         /\ row.status # "none" /\ ValidatedRow(row)
  <1> DEFINE
    s == h.successes + (IF result = "succeeded" THEN 1 ELSE 0)
    f == h.failures + (IF result = "failed" THEN 1 ELSE 0)
  <1>1. s \in Nat /\ f \in Nat
    BY DEF HypothesisRows
  <1>2. PICK sure \in BOOLEAN : row = Hypothesis(LearnedVerdict(sure, s, f), sure, s, f)
    BY DEF Judged, Raised, Lowered, HypothesisRows
  <1> HIDE DEF s, f
  <1>3. /\ row.status = LearnedVerdict(sure, s, f) /\ row.successes = s /\ row.failures = f
        /\ LearnedVerdict(sure, s, f) \in {"validated", "rejected", "testing"}
        /\ LearnedVerdict(sure, s, f) = "validated" => s >= 3 /\ s >= 3 * f
    BY <1>1, <1>2, VerdictIsEarned DEF Hypothesis
  <1>4. row \in HypothesisRows
    BY <1>1, <1>2, <1>3 DEF Hypothesis, HypothesisRows
  <1> QED
    BY <1>3, <1>4 DEF ValidatedRow, s, f

\* An evaluation is written: of an experiment, it is one less to write, and else
\* it is seen at once.
LEMMA WriteEvaluationInv ==
  ASSUME HypothesesInv, NEW t \in Staff, NEW r \in Rows, UNCHANGED memoryTables,
         WriteEvaluation(t, r)
  PROVE  HypothesesInv'
  <1> DEFINE
    result == desk[t].outcome
    up == IF result = "succeeded" THEN 1 ELSE 0
    down == IF result = "failed" THEN 1 ELSE 0
  <1> USE DEF HypothesesInv, HypothesesTyped
  <1>1. /\ desk[t].task = "judge" /\ result \in Ends /\ copy[t].rows = {r}
        /\ copy[t].hypothesis \in HypothesisRows /\ desk[t].left \in {0, 1}
        /\ Writes(t, NoWork)
        /\ UNCHANGED <<memory, knowledge, experiment, uncounted>>
    BY DEF WriteEvaluation, HypothesisWork, CopyRows, memoryTables, CallsTyped, HypothesesWork
  <1>2. PICK row \in Judged(copy[t].hypothesis, result) : hypothesis' = [hypothesis EXCEPT ![r] = row]
    BY DEF WriteEvaluation
  <1>3. /\ row \in HypothesisRows
        /\ row.successes = copy[t].hypothesis.successes + up
        /\ row.failures = copy[t].hypothesis.failures + down
        /\ row.status # "none" /\ ValidatedRow(row)
    BY <1>1, JudgedRow
  <1>4. /\ hypothesis' \in [Rows -> HypothesisRows] /\ hypothesis'[r] = row
        /\ \A q \in Rows : q # r => hypothesis'[q] = hypothesis[q]
    BY <1>2, <1>3
  <1>5. copy' \in [Staff -> CopyRows] /\ \A u \in Staff : u # t => copy'[u] = copy[u]
    BY EmptyRows DEF WriteEvaluation, Forgets
  <1>6. /\ desk'[t] = NoWork /\ overlapped' = (overlapped \/ t \in outdated)
        /\ \A u \in Staff : u # t => desk'[u] = desk[u]
    BY <1>1, NoHypothesesWork, WritesEffect
  <1>7. overlapped' \/ copy[t].hypothesis = hypothesis[r]
    BY <1>1, <1>6 DEF Current, HypothesisKnows
  <1>8. /\ lessons' \in [Rows -> LessonRows]
        /\ \A q \in Rows : q # r => lessons'[q] = lessons[q]
        /\ lessons'[r].for = lessons[r].for + (IF desk[t].left = 1 THEN 0 ELSE up)
        /\ lessons'[r].against = lessons[r].against + (IF desk[t].left = 1 THEN 0 ELSE down)
    <2>1. CASE desk[t].left = 1
      BY <2>1 DEF WriteEvaluation, LessonRows
    <2>2. CASE desk[t].left = 0
      <3>1. lessons' = [lessons EXCEPT ![r] = Seen(r, result)]
        BY <2>2 DEF WriteEvaluation
      <3>2. /\ Seen(r, result) \in LessonRows
            /\ Seen(r, result).for = lessons[r].for + up
            /\ Seen(r, result).against = lessons[r].against + down
        BY <1>1 DEF Seen, LessonRows, Ends
      <3> QED
        BY <2>2, <3>1, <3>2
    <2> QED
      BY <1>1, <2>1, <2>2
  <1>9. ASSUME NEW q \in Rows, NEW p \in Ends
        PROVE  Cardinality(Unwritten(q, p)') + (IF q = r /\ p = result THEN desk[t].left ELSE 0)
               = Cardinality(Unwritten(q, p))
    <2>1. t \notin Unwritten(q, p)'
      BY <1>6, NoWorkTask DEF Unwritten
    <2>2. t \in Unwritten(q, p) <=> q = r /\ p = result /\ desk[t].left = 1
      BY <1>1 DEF Unwritten
    <2>3. \A u \in Staff : u # t => (u \in Unwritten(q, p)' <=> u \in Unwritten(q, p))
      BY <1>5, <1>6 DEF Unwritten
    <2>4. CASE t \in Unwritten(q, p)
      <3>1. Cardinality(Unwritten(q, p)') + 1 = Cardinality(Unwritten(q, p))
        BY <2>1, <2>3, <2>4, OneLessUnwritten
      <3> QED
        BY <2>2, <2>4, <3>1
    <2>5. CASE t \notin Unwritten(q, p)
      <3>1. Unwritten(q, p)' = Unwritten(q, p)
        BY <2>1, <2>3, <2>5 DEF Unwritten
      <3>2. (IF q = r /\ p = result THEN desk[t].left ELSE 0) = 0
        BY <1>1, <2>2, <2>5
      <3> QED
        BY <3>1, <3>2, UnwrittenIsFinite
    <2> QED
      BY <2>4, <2>5
  <1>10. ASSUME NEW q \in Rows, ~overlapped' PROVE HypothesisTally(q)'
    <2>1. HypothesisTally(q)
      BY <1>6, <1>10
    <2>2. CASE q # r
      <3>1. /\ Cardinality(Unwritten(q, "succeeded")') = Cardinality(Unwritten(q, "succeeded"))
            /\ Cardinality(Unwritten(q, "failed")') = Cardinality(Unwritten(q, "failed"))
        <4>1. ASSUME NEW p \in Ends PROVE Cardinality(Unwritten(q, p)') = Cardinality(Unwritten(q, p))
          <5>1. Cardinality(Unwritten(q, p)') \in Nat
            BY UnwrittenIsFinite, FS_CardinalityType
          <5>2. Cardinality(Unwritten(q, p)') + 0 = Cardinality(Unwritten(q, p))
            BY <1>9, <2>2
          <5> QED
            BY <5>1, <5>2
        <4> QED
          BY <4>1 DEF Ends
      <3>2. hypothesis'[q] = hypothesis[q] /\ lessons'[q] = lessons[q] /\ uncounted' = uncounted
        BY <1>1, <1>4, <1>8, <2>2
      <3> HIDE DEF HypothesesInv, HypothesesTyped
      <3> QED
        BY <2>1, <3>1, <3>2 DEF HypothesisTally
    <2>3. CASE q = r
      <3>1. row.successes = hypothesis[r].successes + up /\ row.failures = hypothesis[r].failures + down
        BY <1>3, <1>7, <1>10
      <3>2. /\ hypothesis[r].successes \in Nat /\ hypothesis[r].failures \in Nat
            /\ lessons[r].for \in Nat /\ lessons[r].against \in Nat
        BY DEF HypothesisRows, LessonRows
      <3>3. Cardinality(Unwritten(r, "succeeded")') \in Nat /\ Cardinality(Unwritten(r, "failed")') \in Nat
        BY UnwrittenIsFinite, FS_CardinalityType
      <3>4. /\ Cardinality(Unwritten(r, "succeeded")') + (IF "succeeded" = result THEN desk[t].left ELSE 0)
               = Cardinality(Unwritten(r, "succeeded"))
            /\ Cardinality(Unwritten(r, "failed")') + (IF "failed" = result THEN desk[t].left ELSE 0)
               = Cardinality(Unwritten(r, "failed"))
        BY <1>9 DEF Ends
      <3> HIDE DEF HypothesesInv, HypothesesTyped
      <3>5. (result = "succeeded" /\ result # "failed") \/ (result = "failed" /\ result # "succeeded")
        BY <1>1 DEF Ends
      <3>6. desk[t].left = 0 \/ desk[t].left = 1
        BY <1>1
      <3> HIDE DEF result
      <3>7. /\ row.successes + Cardinality(Unwritten(r, "succeeded")') <= lessons'[r].for
            /\ row.failures + Cardinality(Unwritten(r, "failed")') <= lessons'[r].against
        <4>1. /\ hypothesis[r].successes + Cardinality(Unwritten(r, "succeeded")) <= lessons[r].for
              /\ hypothesis[r].failures + Cardinality(Unwritten(r, "failed")) <= lessons[r].against
          BY <2>1, <2>3 DEF HypothesisTally
        <4> QED
          BY <1>8, <3>1, <3>2, <3>3, <3>4, <3>5, <3>6, <4>1
      <3>8. CASE r \in uncounted
        BY <1>1, <1>3, <1>4, <2>3, <3>7, <3>8 DEF HypothesisTally
      <3>9. CASE r \notin uncounted
        <4>1. /\ row.successes + Cardinality(Unwritten(r, "succeeded")') = lessons'[r].for
              /\ row.failures + Cardinality(Unwritten(r, "failed")') = lessons'[r].against
          <5>1. /\ hypothesis[r].successes + Cardinality(Unwritten(r, "succeeded")) = lessons[r].for
                /\ hypothesis[r].failures + Cardinality(Unwritten(r, "failed")) = lessons[r].against
            BY <2>1, <2>3, <3>9 DEF HypothesisTally
          <5>2. CASE result = "succeeded"
            <6>1. row.successes + Cardinality(Unwritten(r, "succeeded")') = lessons'[r].for
              BY <1>8, <3>1, <3>2, <3>3, <3>4, <3>5, <3>6, <5>1, <5>2
            <6>2. row.failures + Cardinality(Unwritten(r, "failed")') = lessons'[r].against
              BY <1>8, <3>1, <3>2, <3>3, <3>4, <3>5, <3>6, <5>1, <5>2
            <6> QED
              BY <6>1, <6>2
          <5>3. CASE result = "failed"
            <6>1. row.successes + Cardinality(Unwritten(r, "succeeded")') = lessons'[r].for
              BY <1>8, <3>1, <3>2, <3>3, <3>4, <3>5, <3>6, <5>1, <5>3
            <6>2. row.failures + Cardinality(Unwritten(r, "failed")') = lessons'[r].against
              <7>1. /\ row.failures = hypothesis[r].failures + 1
                    /\ Cardinality(Unwritten(r, "failed")') + desk[t].left
                       = Cardinality(Unwritten(r, "failed"))
                BY <3>1, <3>4, <5>3
              <7>2. lessons'[r].against = lessons[r].against + (1 - desk[t].left)
                BY <1>8, <3>6, <5>3
              <7> QED
                BY <3>2, <3>3, <3>6, <5>1, <7>1, <7>2
            <6> QED
              BY <6>1, <6>2
          <5> QED
            BY <3>5, <5>2, <5>3
        <4> QED
          BY <1>3, <1>4, <2>3, <3>7, <4>1 DEF HypothesisTally
      <3> QED
        BY <3>8, <3>9
    <2> QED
      BY <2>2, <2>3
  <1>11. HypothesesTyped'
    BY <1>1, <1>4, <1>5, <1>8
  <1>12. \A q \in Rows : ValidatedRow(hypothesis[q])'
    BY <1>3, <1>4 DEF ValidatedRow
  <1>13. NoWork \in HypothesesWork /\ NoWork.task = "none"
    BY NoHypothesesWork, NoWorkTask
  <1> QED
    BY <1>1, <1>5, <1>10, <1>11, <1>12, <1>13, WritesHypothesesInv

-----------------------------------------------------------------------------
LEMMA NextHypothesesInv ==
  ASSUME HypothesesInv, [HypothesesNext /\ UNCHANGED memoryTables]_learningVars
  PROVE  HypothesesInv'
  <1>1. CASE UNCHANGED learningVars
    <2>1. /\ UNCHANGED <<memory, knowledge, lessons, hypothesis, experiment, uncounted, copy>>
          /\ UNCHANGED <<desk, outdated, overlapped, faults>>
      BY <1>1 DEF learningVars, learningTables, memoryTables, hypothesisTables, callVars
    <2>2. CallsTyped(HypothesesWork)' /\ FaultsTyped' /\ HypothesesTyped'
      BY <2>1 DEF HypothesesInv, CallsTyped, FaultsTyped, HypothesesTyped
    <2>3. \A r \in Rows : (HypothesisTally(r) => HypothesisTally(r)') /\ ValidatedRow(hypothesis[r])'
      BY <2>1 DEF HypothesesInv, HypothesisTally, Unwritten, ValidatedRow
    <2>4. \A t \in Staff : HypothesisWork(t)' /\ (Current(t)' => HypothesisKnows(t)')
      BY <2>1 DEF HypothesesInv, HypothesisWork, HypothesisKnows, Current
    <2> QED
      BY <2>1, <2>2, <2>3, <2>4 DEF HypothesesInv
  <1>2. ASSUME UNCHANGED memoryTables, NEW e \in Experiments, NEW r \in Rows, PlanExperiment(e, r)
        PROVE  HypothesesInv'
    BY <1>2, PlanExperimentInv
  <1>3. ASSUME UNCHANGED memoryTables, NEW t \in Staff,
               \/ FindHypothesis(t)
               \/ \E e \in Experiments : BeginStart(t, e) \/ BeginCompletion(t, e)
               \/ \E r \in Rows, result \in Ends : BeginEvaluation(t, r, result)
        PROVE  HypothesesInv'
    BY <1>3, BeginsHypothesesInv
  <1>4. ASSUME UNCHANGED memoryTables, NEW t \in Staff,
               \/ StoreHypothesis(t) \/ StartExperiment(t) \/ CompleteExperiment(t)
               \/ LearningCallDies(t)
        PROVE  HypothesesInv'
    BY <1>4, StoreHypothesisInv, StartExperimentInv, CompleteExperimentInv, DiesHypothesesInv
  <1>5. ASSUME UNCHANGED memoryTables, NEW t \in Staff, NEW r \in Rows,
               ReadHypothesis(t, r) \/ WriteEvaluation(t, r)
        PROVE  HypothesesInv'
    BY <1>5, ReadHypothesisInv, WriteEvaluationInv
  <1> QED
    BY <1>1, <1>2, <1>3, <1>4, <1>5 DEF HypothesesNext, Ends

LEMMA HypothesesInductive == HypothesesSpec => []HypothesesInv
  BY InitHypothesesInv, NextHypothesesInv, PTL DEF HypothesesSpec

\* However many experiments end and evaluations are asked for at a time, and
\* however many calls die: until one writes over what another has read, a
\* hypothesis that no evaluation is still to be written of, nor was lost, counts
\* each end of an experiment and each evaluation once, and it is validated on
\* three of them or more, three quarters of which succeeded.
THEOREM HypothesesStayEarned == HypothesesSpec => LearningIsEarned
  <1>1. HypothesesInv => \A r \in Rows : CountsAreTrue(r)
    <2> SUFFICES ASSUME HypothesesInv, NEW r \in Rows, Counted(r) PROVE CountsAreTrue(r)
      BY DEF CountsAreTrue
    <2>1. ASSUME NEW result \in Ends PROVE Cardinality(Unwritten(r, result)) = 0
      <3>1. Unwritten(r, result) = {}
        BY DEF Counted, Unwritten
      <3> QED
        BY <3>1, FS_EmptySet
    <2>2. HypothesisTally(r) /\ r \notin uncounted /\ ValidatedRow(hypothesis[r])
      BY DEF Counted, HypothesesInv
    <2>3. hypothesis[r].successes \in Nat /\ hypothesis[r].failures \in Nat
      BY DEF HypothesesInv, HypothesesTyped, HypothesisRows
    <2>4. hypothesis[r].successes = lessons[r].for /\ hypothesis[r].failures = lessons[r].against
      BY <2>1, <2>2, <2>3 DEF HypothesisTally, Ends
    <2>5. memory[r] = NoMemory
      BY DEF HypothesesInv, HypothesesTyped
    <2> QED
      BY <2>2, <2>4, <2>5 DEF CountsAreTrue, ValidatedRow
  <1>2. ASSUME HypothesesInv, HypothesesInv',
               [HypothesesNext /\ UNCHANGED memoryTables]_learningVars
        PROVE  \A r \in Rows : KnowledgeIsEarned(r) /\ RevivesOnReport(r)
    BY <1>2 DEF HypothesesInv, HypothesesTyped, KnowledgeIsEarned, RevivesOnReport, Active
  <1> QED
    BY <1>1, <1>2, HypothesesInductive, PTL DEF HypothesesSpec, LearningIsEarned

-----------------------------------------------------------------------------
(* SellerAccounts: the invariant.                                           *)

AccountWork ==
  [task : {"none", "register", "approve", "lapse", "risk", "move", "decide", "mark"},
   outcome : {"none", "approved", "override"} \cup AccountStatuses, left : 0 .. 3]

AccountRow == [status : AccountStatuses, verified : BOOLEAN, risk : 0 .. 3]

AccountsTyped ==
  /\ account \in AccountRow
  /\ proofs \subseteq {"email", "wallet"}
  /\ capability \in [status : {"none", "active", "limited", "disabled"}, available : BOOLEAN]
  /\ recovery \in [status : {"none", "pending", "approved", "rejected"}, made : 0 .. 2]
  /\ ruledOut \in BOOLEAN /\ forced \in BOOLEAN /\ relit \in BOOLEAN /\ torn \in BOOLEAN

\* A call about to write has a status to write, and to approve, the proofs.
AccountWorkRests(t) ==
  /\ desk[t].task = "approve" =>
       desk[t].outcome \in {"approved", "override"} /\ {"email", "wallet"} \subseteq proofs
  /\ desk[t].task \in {"risk", "move"} => desk[t].outcome \in AccountStatuses
  /\ desk[t].task = "mark" => desk[t].outcome \in {"approved", "rejected"}

\* What a call has read of the account, while it stands.
AccountKnows(t) ==
  /\ desk[t].task = "register" /\ desk[t].left = 1 => account.status = "active"
  /\ desk[t].task = "approve" /\ desk[t].outcome = "approved" => account.status \notin Terminal
  /\ desk[t].task = "move" => desk[t].outcome \in AllowedMoves(account.status)
  /\ desk[t].task = "risk" => desk[t].left >= account.risk

\* A seller under review has no agent available but by a call that did not look.
PendingIsDark == account.status = "pending" /\ capability.available => relit

\* One call decides the request, which is pending; its transition is made when
\* the call is about to say so, or it is approved.
MadeBy(t) == IF desk[t].task = "mark" /\ desk[t].outcome = "approved" THEN 1 ELSE 0

RecoveryIsSingle ==
  /\ \A t, u \in RecoveryCalls : t = u
  /\ \A t \in RecoveryCalls : recovery.status = "pending" /\ recovery.made = MadeBy(t)
  /\ RecoveryCalls = {} => recovery.made = (IF recovery.status = "approved" THEN 1 ELSE 0)

AccountsBase == CallsTyped(AccountWork) /\ FaultsTyped /\ AccountsTyped

AccountsInv ==
  /\ AccountsBase
  /\ ApprovedIsIdentified /\ RulingHolds /\ AvailableIsAllowed
  /\ overlapped \/ PendingIsDark
  /\ overlapped \/ torn \/ RecoveryIsSingle
  /\ \A t \in Staff : AccountWorkRests(t)
  /\ \A t \in Staff : Current(t) => AccountKnows(t)

LEMMA NoAccountWork == NoWork \in AccountWork /\ NoWork.task = "none"
  BY DEF AccountWork, NoWork, Work

LEMMA InitAccountsInv == AccountsInit => AccountsInv
  <1> SUFFICES ASSUME AccountsInit PROVE AccountsInv
    OBVIOUS
  <1>1. CallsTyped(AccountWork)
    BY NoAccountWork DEF AccountsInit, CallsInit, CallsTyped
  <1>2. FaultsTyped
    BY FaultsAssumption DEF AccountsInit, FaultsTyped
  <1>3. AccountsTyped
    <2>1. account \in AccountRow
      BY DEF AccountsInit, AccountRow, AccountStatuses
    <2>2. /\ capability \in [status : {"none", "active", "limited", "disabled"}, available : BOOLEAN]
          /\ recovery \in [status : {"none", "pending", "approved", "rejected"}, made : 0 .. 2]
      BY DEF AccountsInit, NoCapability, NoRecovery
    <2> QED
      BY <2>1, <2>2 DEF AccountsInit, AccountsTyped
  <1>4. ApprovedIsIdentified /\ RulingHolds /\ AvailableIsAllowed /\ PendingIsDark
    BY DEF AccountsInit, ApprovedIsIdentified, RulingHolds, AvailableIsAllowed, PendingIsDark,
         NoCapability
  <1>5. RecoveryIsSingle
    <2>1. RecoveryCalls = {}
      BY NoWorkTask DEF AccountsInit, CallsInit, RecoveryCalls
    <2> QED
      BY <2>1 DEF AccountsInit, RecoveryIsSingle, NoRecovery
  <1>6. \A t \in Staff : AccountWorkRests(t) /\ AccountKnows(t)
    BY NoWorkTask DEF AccountsInit, CallsInit, AccountWorkRests, AccountKnows
  <1> QED
    BY <1>1, <1>2, <1>3, <1>4, <1>5, <1>6 DEF AccountsInv, AccountsBase

-----------------------------------------------------------------------------
(* Seller accounts: what a step leaves alone.                               *)

\* The calls that decide the request are those they were.
LEMMA RecoveryKept ==
  ASSUME AccountsInv, UNCHANGED <<recovery, torn>>, overlapped' \/ ~overlapped,
         \A u \in Staff : /\ u \in RecoveryCalls' <=> u \in RecoveryCalls
                          /\ u \in RecoveryCalls => desk'[u] = desk[u]
  PROVE  overlapped' \/ torn' \/ RecoveryIsSingle'
  <1> SUFFICES ASSUME ~overlapped', ~torn' PROVE RecoveryIsSingle'
    OBVIOUS
  <1>1. RecoveryIsSingle
    BY DEF AccountsInv
  <1>2. RecoveryCalls' = RecoveryCalls
    BY DEF RecoveryCalls
  <1>3. \A t \in RecoveryCalls : MadeBy(t)' = MadeBy(t)
    BY DEF MadeBy, RecoveryCalls
  <1> QED
    BY <1>1, <1>2, <1>3 DEF RecoveryIsSingle

\* A call writes, and goes on to nothing that reads the account.
LEMMA WritesAccountInv ==
  ASSUME AccountsInv, NEW t \in Staff, NEW next \in AccountWork,
         next.task = "none" \/ (next.task = "mark" /\ next.outcome \in {"approved", "rejected"}),
         Writes(t, next), AccountsTyped', proofs' = proofs,
         ApprovedIsIdentified', RulingHolds', AvailableIsAllowed',
         overlapped' \/ PendingIsDark',
         overlapped' \/ torn' \/ RecoveryIsSingle'
  PROVE  AccountsInv'
  <1>1. /\ CallsTyped(AccountWork)' /\ FaultsTyped' /\ desk'[t] = next
        /\ \A u \in Staff : u # t => desk'[u] = desk[u]
        /\ \A u \in Staff : u # t => desk[u].task = "none" \/ ~Current(u)'
    BY WritesEffect DEF AccountsInv, AccountsBase
  <1>2. ASSUME NEW u \in Staff
        PROVE  AccountWorkRests(u)' /\ (Current(u)' => AccountKnows(u)')
    BY <1>1 DEF AccountsInv, AccountWorkRests, AccountKnows
  <1> QED
    BY <1>1, <1>2 DEF AccountsInv, AccountsBase

\* A call that reads: the account stays.
LEMMA ReadsAccountInv ==
  ASSUME AccountsInv, NEW t \in Staff, CallsTyped(AccountWork)', FaultsTyped',
         UNCHANGED <<account, proofs, capability, recovery, ruledOut, forced, relit, overlapped>>,
         torn' \in BOOLEAN,
         \A u \in Staff : u # t => desk'[u] = desk[u] /\ (Current(u)' => Current(u)),
         AccountWorkRests(t)', Current(t)' => AccountKnows(t)',
         overlapped' \/ torn' \/ RecoveryIsSingle'
  PROVE  AccountsInv'
  <1>1. AccountsTyped'
    BY DEF AccountsInv, AccountsBase, AccountsTyped
  <1>2. ApprovedIsIdentified' /\ RulingHolds' /\ AvailableIsAllowed' /\ (overlapped' \/ PendingIsDark')
    BY DEF AccountsInv, ApprovedIsIdentified, RulingHolds, AvailableIsAllowed, PendingIsDark
  <1>3. ASSUME NEW u \in Staff
        PROVE  AccountWorkRests(u)' /\ (Current(u)' => AccountKnows(u)')
    BY DEF AccountsInv, AccountWorkRests, AccountKnows
  <1> QED
    BY <1>1, <1>2, <1>3 DEF AccountsInv, AccountsBase

-----------------------------------------------------------------------------
\* The calls that read and write in one statement.
LEMMA AtOnceAccountInv ==
  ASSUME AccountsInv, ~overlapped,
         \/ \E p \in {"email", "wallet"} : Proves(p)
         \/ ActivateParentAccount \/ RejectAccount \/ RequestRecovery
  PROVE  AccountsInv'
  <1> USE DEF AccountsInv, AccountsBase
  <1>1. WritesAtOnce /\ torn' = torn
    BY DEF Proves, ActivateParentAccount, RejectAccount, RequestRecovery, OnlyAccount
  <1>2. /\ CallsTyped(AccountWork)' /\ FaultsTyped'
        /\ UNCHANGED <<desk, overlapped, faults>>
        /\ \A u \in Staff : desk[u].task = "none" \/ ~Current(u)'
    BY <1>1, WritesAtOnceEffect
  <1>3. proofs \subseteq proofs'
    BY DEF Proves, ActivateParentAccount, RejectAccount, RequestRecovery, OnlyAccount
  <1>4. ASSUME NEW u \in Staff
        PROVE  AccountWorkRests(u)' /\ (Current(u)' => AccountKnows(u)')
    BY <1>2, <1>3 DEF AccountWorkRests, AccountKnows
  <1>5. AccountsTyped'
    <2> USE DEF AccountsTyped
    <2>1. CASE \E p \in {"email", "wallet"} : Proves(p)
      BY <1>1, <2>1 DEF Proves
    <2>2. CASE ActivateParentAccount
      <3>1. /\ account' = [status |-> "active", verified |-> TRUE, risk |-> 0]
            /\ capability' = [capability EXCEPT !.available = TRUE]
            /\ ruledOut' = FALSE /\ forced' = TRUE /\ relit' = TRUE
            /\ UNCHANGED <<proofs, recovery, torn>>
        BY <2>2 DEF ActivateParentAccount, OnlyAccount
      <3>2. account' \in AccountRow
        BY <3>1 DEF AccountRow, AccountStatuses
      <3>3. capability' \in [status : {"none", "active", "limited", "disabled"}, available : BOOLEAN]
        BY <3>1
      <3> QED
        BY <3>1, <3>2, <3>3
    <2>3. CASE RejectAccount
      BY <1>1, <2>3 DEF RejectAccount, OnlyAccount, AccountRow, AccountStatuses, Blocked, Terminal
    <2>4. CASE RequestRecovery
      BY <1>1, <2>4 DEF RequestRecovery
    <2> QED
      BY <2>1, <2>2, <2>3, <2>4
  <1>6. ApprovedIsIdentified' /\ RulingHolds' /\ AvailableIsAllowed' /\ PendingIsDark'
    <2> USE DEF ApprovedIsIdentified, RulingHolds, AvailableIsAllowed, PendingIsDark
    <2>1. CASE \E p \in {"email", "wallet"} : Proves(p)
      BY <1>2, <1>3, <2>1 DEF Proves
    <2>2. CASE ActivateParentAccount
      BY <2>2 DEF ActivateParentAccount
    <2>3. CASE RejectAccount
      BY <1>2, <2>3 DEF RejectAccount, OnlyAccount, Terminal, AccountsTyped, AccountRow
    <2>4. CASE RequestRecovery
      BY <1>2, <2>4 DEF RequestRecovery
    <2> QED
      BY <2>1, <2>2, <2>3, <2>4
  <1>7. overlapped' \/ torn' \/ RecoveryIsSingle'
    <2>1. RecoveryCalls' = RecoveryCalls
      BY <1>2 DEF RecoveryCalls
    <2>2. CASE recovery' = recovery
      BY <1>1, <1>2, <2>1, <2>2, RecoveryKept
    <2>3. CASE RequestRecovery
      <3>1. recovery.status = "none" /\ recovery' = [status |-> "pending", made |-> 0]
        BY <2>3 DEF RequestRecovery, NoRecovery
      <3>2. ~torn => RecoveryCalls = {}
        BY <3>1 DEF RecoveryIsSingle
      <3> QED
        BY <1>1, <2>1, <3>1, <3>2 DEF RecoveryIsSingle
    <2> QED
      BY <2>2, <2>3 DEF Proves, ActivateParentAccount, RejectAccount, OnlyAccount
  <1> QED
    BY <1>2, <1>4, <1>5, <1>6, <1>7

\* A call that writes the agent, without a look at its seller.
LEMMA SetCapabilityInv ==
  ASSUME AccountsInv, SetCapability
  PROVE  AccountsInv'
  <1> USE DEF AccountsInv, AccountsBase
  <1>1. /\ UNCHANGED <<account, proofs, recovery, ruledOut, forced, torn>>
        /\ UNCHANGED <<desk, outdated, overlapped, faults>>
    BY DEF SetCapability, OnlyAccount, callVars
  <1>2. /\ capability' \in [status : {"none", "active", "limited", "disabled"}, available : BOOLEAN]
        /\ relit' = capability'.available
    BY DEF SetCapability
  <1>3. /\ CallsTyped(AccountWork)' /\ FaultsTyped'
        /\ \A u \in Staff : AccountWorkRests(u)' /\ (Current(u)' => AccountKnows(u)')
    BY <1>1 DEF CallsTyped, FaultsTyped, AccountWorkRests, Current, AccountKnows
  <1>4. AccountsTyped'
    BY <1>1, <1>2 DEF AccountsTyped
  <1>5. ApprovedIsIdentified' /\ RulingHolds' /\ AvailableIsAllowed' /\ PendingIsDark'
    BY <1>1, <1>2 DEF ApprovedIsIdentified, RulingHolds, AvailableIsAllowed, PendingIsDark
  <1>6. overlapped' \/ torn' \/ RecoveryIsSingle'
    BY <1>1 DEF RecoveryIsSingle, RecoveryCalls, MadeBy
  <1> QED
    BY <1>3, <1>4, <1>5, <1>6

LEMMA MovesAreStatuses ==
  ASSUME NEW status \in AccountStatuses, NEW next \in AllowedMoves(status)
  PROVE  /\ next \in AccountStatuses
         /\ status \in Terminal => next \in Terminal
         /\ next = "pending" => status = "pending"
  BY DEF AllowedMoves, AccountStatuses, Blocked, Terminal

\* The calls that begin, and read.
LEMMA BeginsAccountInv ==
  ASSUME AccountsInv, ~overlapped, NEW t \in Staff,
         \/ BeginRegistration(t)
         \/ BeginAccountApproval(t) \/ BeginOnboarding(t) \/ BeginLapse(t)
         \/ BeginRiskEvent(t) \/ BeginAccountMove(t) \/ BeginDecision(t)
  PROVE  AccountsInv'
  <1> USE DEF AccountsInv, AccountsBase, AccountsTyped
  <1> DEFINE
    Begun(work) ==
      /\ work \in AccountWork
      /\ Takes(t, work)
      /\ work.task = "register" /\ work.left = 1 => account.status = "active"
      /\ work.task = "approve" =>
           work.outcome \in {"approved", "override"} /\ {"email", "wallet"} \subseteq proofs
      /\ work.task = "approve" /\ work.outcome = "approved" => account.status \notin Terminal
      /\ work.task \in {"risk", "move"} => work.outcome \in AccountStatuses
      /\ work.task = "move" => work.outcome \in AllowedMoves(account.status) /\ work.left = 0
      /\ work.task = "risk" => work.left >= account.risk
      /\ IF BeginDecision(t)
         THEN \/ work = Work("decide", "approved", 0)
              \/ work = Work("mark", "rejected", 0)
         ELSE work.task \notin {"decide", "mark"} /\ torn' = torn
  <1>1. \E work : Begun(work)
    <2>1. ASSUME NEW outcome \in {"approved", "override"}, Decides(t, "approve", outcome),
                 {"email", "wallet"} \subseteq proofs, UNCHANGED torn, ~BeginDecision(t),
                 outcome = "approved" => account.status \notin Terminal
          PROVE  \E work : Begun(work)
      <3>1. Begun(Work("approve", outcome, 0))
        BY <2>1 DEF Decides, Work, AccountWork
      <3> QED
        BY <3>1
    <2>2. CASE BeginLapse(t) /\ ~BeginDecision(t)
      <3>1. Begun(Work("lapse", "none", 0))
        BY <2>2 DEF BeginLapse, Decides, Work, AccountWork, accountTables
      <3> QED
        BY <3>1
    <2>3. CASE BeginRiskEvent(t) /\ ~BeginDecision(t)
      <3>1. PICK risk \in account.risk .. 3 :
              Takes(t, Work("risk", StatusAt(risk, account.status), risk))
        BY <2>3 DEF BeginRiskEvent
      <3>2. account.risk \in 0 .. 3 /\ account.status \in AccountStatuses
        BY DEF AccountRow
      <3>3. risk \in 0 .. 3 /\ risk >= account.risk
        BY <3>1, <3>2
      <3>4. StatusAt(risk, account.status) \in AccountStatuses
        BY <3>2 DEF StatusAt, AccountStatuses, Blocked
      <3>5. torn' = torn
        BY <2>3 DEF BeginRiskEvent, accountTables
      <3>6. Begun(Work("risk", StatusAt(risk, account.status), risk))
        BY <2>3, <3>1, <3>3, <3>4, <3>5 DEF Work, AccountWork
      <3> QED
        BY <3>6
    <2>4. CASE BeginAccountMove(t) /\ ~BeginDecision(t)
      <3>1. PICK next \in AllowedMoves(account.status) : Decides(t, "move", next)
        BY <2>4 DEF BeginAccountMove
      <3>2. next \in AccountStatuses
        BY <3>1, MovesAreStatuses DEF AccountRow
      <3>3. Begun(Work("move", next, 0))
        BY <2>4, <3>1, <3>2 DEF BeginAccountMove, Decides, Work, AccountWork, accountTables
      <3> QED
        BY <3>3
    <2>5. CASE BeginDecision(t)
      <3>1. CASE Decides(t, "decide", "approved")
        <4>1. Begun(Work("decide", "approved", 0))
          BY <2>5, <3>1 DEF Decides, Work, AccountWork
        <4> QED
          BY <4>1
      <3>2. CASE Decides(t, "mark", "rejected")
        <4>1. Begun(Work("mark", "rejected", 0))
          BY <2>5, <3>2 DEF Decides, Work, AccountWork, AccountStatuses, Blocked, Terminal
        <4> QED
          BY <4>1
      <3> QED
        BY <2>5, <3>1, <3>2 DEF BeginDecision
    <2>7. CASE BeginRegistration(t) /\ ~BeginDecision(t)
      <3> DEFINE
        left == IF account.status = "active" /\ account.verified THEN 1 ELSE 0
      <3>1. Takes(t, Work("register", "none", left)) /\ torn' = torn
        BY <2>7 DEF BeginRegistration, accountTables
      <3>2. left \in 0 .. 3 /\ (left = 1 => account.status = "active")
        OBVIOUS
      <3>3. Begun(Work("register", "none", left))
        BY <2>7, <3>1, <3>2 DEF Work, AccountWork
      <3> QED
        BY <3>3
    <2>6. CASE (BeginAccountApproval(t) \/ BeginOnboarding(t)) /\ ~BeginDecision(t)
      BY <2>1, <2>6 DEF BeginAccountApproval, BeginOnboarding, accountTables, Terminal
    <2> QED
      BY <2>2, <2>3, <2>4, <2>5, <2>6, <2>7
  <1> HIDE DEF Begun
  <1>2. PICK work : Begun(work)
    BY <1>1
  <1>3. UNCHANGED <<account, proofs, capability, recovery, ruledOut, forced, relit>>
    BY DEF BeginRegistration, BeginAccountApproval, BeginOnboarding, BeginLapse, BeginRiskEvent,
         BeginAccountMove, BeginDecision, accountTables
  <1>4. /\ CallsTyped(AccountWork)' /\ FaultsTyped' /\ t \notin Busy /\ desk'[t] = work
        /\ \A u \in Staff : u # t => desk'[u] = desk[u]
        /\ UNCHANGED <<outdated, overlapped>>
    BY <1>2, TakesEffect DEF Begun
  <1>5. desk[t].task = "none" /\ t \notin RecoveryCalls
    BY <1>4, NoAccountWork DEF Busy, RecoveryCalls
  <1>6. AccountWorkRests(t)' /\ AccountKnows(t)'
    BY <1>2, <1>3, <1>4 DEF AccountWorkRests, AccountKnows, Begun, Work
  <1>7. torn' \in BOOLEAN /\ (overlapped' \/ torn' \/ RecoveryIsSingle')
    <2>1. CASE BeginDecision(t)
      <3>1. torn' = (torn \/ RecoveryCalls # {}) /\ recovery.status = "pending"
        BY <2>1 DEF BeginDecision
      <3>2. CASE ~torn'
        <4>1. RecoveryCalls = {} /\ recovery.made = 0
          BY <3>1, <3>2 DEF RecoveryIsSingle
        <4>2. RecoveryCalls' = {t}
          <5>1. t \in RecoveryCalls'
            BY <1>2, <1>4, <2>1 DEF Begun, RecoveryCalls, Work
          <5>2. \A u \in Staff : u # t => u \notin RecoveryCalls'
            BY <1>4, <4>1 DEF RecoveryCalls
          <5> QED
            BY <5>1, <5>2 DEF RecoveryCalls
        <4>3. MadeBy(t)' = 0
          BY <1>2, <1>4, <2>1 DEF Begun, MadeBy, Work
        <4> QED
          BY <1>3, <3>1, <4>1, <4>2, <4>3 DEF RecoveryIsSingle
      <3> QED
        BY <3>1, <3>2
    <2>2. CASE ~BeginDecision(t)
      <3>1. t \notin RecoveryCalls' /\ torn' = torn
        BY <1>2, <1>4, <2>2 DEF Begun, RecoveryCalls
      <3>2. \A u \in Staff : /\ u \in RecoveryCalls' <=> u \in RecoveryCalls
                             /\ u \in RecoveryCalls => desk'[u] = desk[u]
        BY <1>4, <1>5, <3>1 DEF RecoveryCalls
      <3> QED
        BY <1>3, <3>1, <3>2, RecoveryKept
    <2> QED
      BY <2>1, <2>2
  <1> QED
    BY <1>3, <1>4, <1>6, <1>7, ReadsAccountInv DEF Current

\* The decision goes on to the transition, or finds that it is not allowed.
LEMMA BeginRecoveryInv ==
  ASSUME AccountsInv, ~overlapped, NEW t \in Staff, BeginRecovery(t)
  PROVE  AccountsInv'
  <1> USE DEF AccountsInv, AccountsBase, AccountsTyped
  <1>1. /\ desk[t].task = "decide"
        /\ UNCHANGED <<account, proofs, capability, recovery, ruledOut, forced, relit, torn, faults>>
    BY DEF BeginRecovery, accountTables
  <1>2. t \in RecoveryCalls /\ FaultsTyped'
    BY <1>1 DEF RecoveryCalls, FaultsTyped
  <1>3. CASE "watchlist" \in AllowedMoves(account.status)
    <2>1. desk' = [desk EXCEPT ![t] = Work("move", "watchlist", 1)] /\ UNCHANGED <<outdated, overlapped>>
      BY <1>3 DEF BeginRecovery
    <2>2. /\ Work("move", "watchlist", 1) \in AccountWork
          /\ Work("move", "watchlist", 1).task = "move" /\ Work("move", "watchlist", 1).left = 1
          /\ Work("move", "watchlist", 1).outcome = "watchlist"
      BY DEF Work, AccountWork, AccountStatuses
    <2>3. /\ CallsTyped(AccountWork)' /\ desk'[t] = Work("move", "watchlist", 1)
          /\ \A u \in Staff : u # t => desk'[u] = desk[u]
      BY <2>1, <2>2 DEF CallsTyped
    <2>4. AccountWorkRests(t)' /\ AccountKnows(t)'
      BY <1>1, <1>3, <2>2, <2>3 DEF AccountWorkRests, AccountKnows, AccountStatuses
    <2>5. torn' \/ RecoveryIsSingle'
      <3>1. RecoveryCalls' = RecoveryCalls
        BY <1>2, <2>2, <2>3 DEF RecoveryCalls
      <3>2. MadeBy(t)' = MadeBy(t) /\ \A u \in Staff : u # t => MadeBy(u)' = MadeBy(u)
        BY <1>1, <2>2, <2>3 DEF MadeBy
      <3>3. RecoveryCalls \subseteq Staff
        BY DEF RecoveryCalls
      <3> QED
        BY <1>1, <3>1, <3>2, <3>3 DEF RecoveryIsSingle
    <2> QED
      BY <1>1, <1>2, <2>1, <2>3, <2>4, <2>5, ReadsAccountInv DEF Current
  <1>4. CASE "watchlist" \notin AllowedMoves(account.status)
    <2>1. Leaves(t)
      BY <1>4 DEF BeginRecovery
    <2>2. /\ CallsTyped(AccountWork)' /\ desk'[t] = NoWork
          /\ \A u \in Staff : u # t => desk'[u] = desk[u]
          /\ \A u \in Staff : u # t => (Current(u)' <=> Current(u))
          /\ UNCHANGED overlapped
      BY <2>1, NoAccountWork, LeavesEffect
    <2>3. AccountWorkRests(t)' /\ AccountKnows(t)'
      BY <2>2, NoAccountWork DEF AccountWorkRests, AccountKnows
    <2>4. torn' \/ RecoveryIsSingle'
      <3>1. CASE ~torn
        <4>1. RecoveryCalls = {t} /\ recovery.status = "pending" /\ recovery.made = 0
          BY <1>1, <1>2, <3>1 DEF RecoveryIsSingle, MadeBy
        <4>2. RecoveryCalls' = {}
          BY <2>2, <4>1, NoAccountWork DEF RecoveryCalls
        <4> QED
          BY <1>1, <4>1, <4>2 DEF RecoveryIsSingle
      <3> QED
        BY <1>1, <3>1
    <2> QED
      BY <1>1, <1>2, <2>2, <2>3, <2>4, ReadsAccountInv
  <1> QED
    BY <1>3, <1>4

LEMMA DecisionDiesInv ==
  ASSUME AccountsInv, ~overlapped, NEW t \in Staff, DecisionDies(t)
  PROVE  AccountsInv'
  <1> USE DEF AccountsInv, AccountsBase, AccountsTyped
  <1>1. /\ UNCHANGED <<account, proofs, capability, recovery, ruledOut, forced, relit>> /\ torn' = TRUE
        /\ FaultsTyped'
    BY FaultTyped DEF DecisionDies
  <1>2. /\ CallsTyped(AccountWork)' /\ desk'[t] = NoWork
        /\ \A u \in Staff : u # t => desk'[u] = desk[u]
        /\ \A u \in Staff : u # t => (Current(u)' <=> Current(u))
        /\ UNCHANGED overlapped
    BY NoAccountWork, LeavesEffect DEF DecisionDies
  <1>3. AccountWorkRests(t)' /\ AccountKnows(t)'
    BY <1>2, NoAccountWork DEF AccountWorkRests, AccountKnows
  <1> QED
    BY <1>1, <1>2, <1>3, ReadsAccountInv

\* What a transition writes, of staff or of a recovery.
LEMMA MoveWritten ==
  ASSUME AccountsInv, ~overlapped, NEW t \in Staff, MoveAccount(t),
         overlapped' \/ AccountKnows(t), proofs' = proofs, torn' = torn,
         recovery' \in [status : {"none", "pending", "approved", "rejected"}, made : 0 .. 2]
  PROVE  /\ AccountsTyped' /\ ApprovedIsIdentified' /\ RulingHolds' /\ AvailableIsAllowed'
         /\ overlapped' \/ PendingIsDark'
  <1> DEFINE next == desk[t].outcome
  <1>1. /\ desk[t].task = "move" /\ account' = [account EXCEPT !.status = next]
        /\ capability' = IF next \in Blocked /\ capability # NoCapability
             THEN [capability EXCEPT !.status = "disabled", !.available = FALSE]
             ELSE capability
        /\ ruledOut' = (ruledOut \/ next \in Terminal)
        /\ relit' = (relit /\ capability'.available) /\ forced' = forced
    BY DEF MoveAccount
  <1>2. /\ AccountsTyped /\ account \in AccountRow /\ next \in AccountStatuses
        /\ capability \in [status : {"none", "active", "limited", "disabled"}, available : BOOLEAN]
    BY <1>1 DEF AccountsInv, AccountsBase, AccountsTyped, AccountWorkRests
  <1>3. /\ account' \in AccountRow /\ account'.status = next
        /\ account'.verified = account.verified
    BY <1>1, <1>2 DEF AccountRow
  <1>4. /\ capability' \in [status : {"none", "active", "limited", "disabled"}, available : BOOLEAN]
        /\ capability'.available => next \notin Blocked /\ capability' = capability
    <2>1. capability = NoCapability => ~capability.available
      BY DEF NoCapability
    <2>2. CASE next \in Blocked /\ capability # NoCapability
      <3>1. capability' = [capability EXCEPT !.status = "disabled", !.available = FALSE]
        BY <1>1, <2>2
      <3> QED
        BY <1>2, <3>1
    <2>3. CASE ~(next \in Blocked /\ capability # NoCapability)
      BY <1>1, <1>2, <2>1, <2>3
    <2> QED
      BY <2>2, <2>3
  <1>5. AccountsTyped'
    BY <1>1, <1>2, <1>3, <1>4 DEF AccountsTyped
  <1>6. ApprovedIsIdentified'
    BY <1>1, <1>3 DEF AccountsInv, ApprovedIsIdentified
  <1>7. RulingHolds'
    <2>1. SUFFICES ASSUME ruledOut, ~overlapped' PROVE next \in Terminal
      BY <1>1, <1>3 DEF RulingHolds
    <2>2. account.status \in Terminal /\ next \in AllowedMoves(account.status)
      BY <1>1, <2>1 DEF AccountsInv, RulingHolds, AccountKnows
    <2>3. account.status \in AccountStatuses
      BY <1>2 DEF AccountRow
    <2> QED
      BY <2>2, <2>3, MovesAreStatuses
  <1>8. AvailableIsAllowed'
    <2>1. SUFFICES ASSUME capability'.available, ~relit'
                   PROVE  account'.status \notin Blocked /\ capability'.status = "active"
      BY DEF AvailableIsAllowed
    <2>2. capability' = capability /\ next \notin Blocked /\ ~relit
      BY <1>1, <1>2, <1>4, <2>1 DEF AccountsTyped
    <2> QED
      BY <1>3, <2>1, <2>2 DEF AccountsInv, AvailableIsAllowed
  <1>9. overlapped' \/ PendingIsDark'
    <2>1. SUFFICES ASSUME ~overlapped', next = "pending", capability'.available PROVE relit'
      BY <1>3 DEF PendingIsDark
    <2>2. account.status = "pending"
      <3>1. next \in AllowedMoves(account.status) /\ account.status \in AccountStatuses
        BY <1>1, <1>2, <2>1 DEF AccountKnows, AccountRow
      <3> QED
        BY <2>1, <3>1, MovesAreStatuses
    <2>3. capability' = capability
      BY <1>4, <2>1
    <2>4. relit
      BY <2>1, <2>2, <2>3 DEF AccountsInv, PendingIsDark
    <2> QED
      BY <1>1, <2>1, <2>4
  <1> QED
    BY <1>5, <1>6, <1>7, <1>8, <1>9

\* The calls that write the account, and do not decide the request.
LEMMA WritersAccountInv ==
  ASSUME AccountsInv, ~overlapped, NEW t \in Staff,
         \/ RegisterCapability(t) \/ ApproveAccount(t) \/ Lapse(t) \/ RiskEvent(t)
         \/ MoveAccount(t) /\ desk[t].left # 1
  PROVE  AccountsInv'
  <1> USE DEF AccountsInv, AccountsBase
  <1>1. /\ Writes(t, NoWork) /\ UNCHANGED <<proofs, recovery, torn>>
        /\ desk[t].task \in {"register", "approve", "lapse", "risk", "move"}
        /\ desk[t].task = "move" => desk[t].left # 1
    BY DEF RegisterCapability, ApproveAccount, Lapse, RiskEvent, MoveAccount, OnlyAccount
  <1>2. /\ desk'[t] = NoWork /\ overlapped' = (overlapped \/ t \in outdated)
        /\ \A u \in Staff : u # t => desk'[u] = desk[u]
    BY <1>1, NoAccountWork, WritesEffect
  <1>3. overlapped' \/ AccountKnows(t)
    BY <1>2 DEF Current
  <1>4. overlapped' \/ torn' \/ RecoveryIsSingle'
    <2>1. \A u \in Staff : /\ u \in RecoveryCalls' <=> u \in RecoveryCalls
                           /\ u \in RecoveryCalls => desk'[u] = desk[u]
      BY <1>1, <1>2, NoAccountWork DEF RecoveryCalls
    <2> QED
      BY <1>1, <2>1, RecoveryKept
  <1>5. /\ account \in AccountRow /\ capability.available \in BOOLEAN
        /\ capability \in [status : {"none", "active", "limited", "disabled"}, available : BOOLEAN]
        /\ desk[t] \in AccountWork /\ AccountWorkRests(t)
    BY DEF AccountsTyped, CallsTyped
  <1>6. /\ AccountsTyped' /\ ApprovedIsIdentified' /\ RulingHolds' /\ AvailableIsAllowed'
        /\ overlapped' \/ PendingIsDark'
    <2>1. CASE ApproveAccount(t)
      <3>1. /\ desk[t].task = "approve"
            /\ account' = [account EXCEPT !.status = "active", !.verified = TRUE]
            /\ ruledOut' = (ruledOut /\ desk[t].outcome # "override")
            /\ UNCHANGED <<capability, relit>> /\ forced' = FALSE
        BY <2>1 DEF ApproveAccount
      <3>2. /\ account' \in AccountRow /\ account'.status = "active"
        BY <1>5, <3>1 DEF AccountRow, AccountStatuses
      <3>3. AccountsTyped' /\ ApprovedIsIdentified'
        BY <1>1, <1>5, <3>1, <3>2 DEF AccountsTyped, ApprovedIsIdentified, AccountWorkRests
      <3>4. RulingHolds'
        BY <1>3, <1>5, <3>1 DEF RulingHolds, AccountKnows, AccountWorkRests
      <3>5. AvailableIsAllowed' /\ PendingIsDark'
        BY <3>1, <3>2 DEF AvailableIsAllowed, PendingIsDark, Blocked, Terminal
      <3> QED
        BY <3>3, <3>4, <3>5
    <2>2. CASE Lapse(t)
      <3>1. UNCHANGED <<capability, relit>>
        BY <2>2 DEF Lapse
      <3>2. CASE account.status = "pending"
        <4>1. /\ account' = [account EXCEPT !.status = "rejected", !.verified = FALSE]
              /\ ruledOut' = TRUE /\ forced' = FALSE
          BY <2>2, <3>2 DEF Lapse
        <4>2. account' \in AccountRow /\ account'.status = "rejected" /\ ~account'.verified
          BY <1>5, <4>1 DEF AccountRow, AccountStatuses, Blocked, Terminal
        <4>3. overlapped' \/ ~capability.available \/ relit
          BY <1>2, <3>2 DEF PendingIsDark
        <4>4. capability.available /\ ~relit => capability.status = "active"
          BY DEF AvailableIsAllowed
        <4> QED
          BY <1>1, <3>1, <4>1, <4>2, <4>3, <4>4
          DEF AccountsTyped, ApprovedIsIdentified, RulingHolds, AvailableIsAllowed, PendingIsDark,
              Terminal
      <3>3. CASE account.status # "pending"
        <4>1. UNCHANGED <<account, ruledOut, forced>>
          BY <2>2, <3>3 DEF Lapse
        <4> QED
          BY <1>1, <1>2, <3>1, <3>3, <4>1
          DEF AccountsTyped, ApprovedIsIdentified, RulingHolds, AvailableIsAllowed, PendingIsDark
      <3> QED
        BY <3>2, <3>3
    <2>3. CASE RiskEvent(t)
      <3> DEFINE
        risk == desk[t].left
        status == desk[t].outcome
      <3>1. /\ account' = [account EXCEPT !.status = status, !.risk = risk]
            /\ relit' = (capability'.available /\ capability.status # "active")
            /\ ruledOut' = (ruledOut /\ status \in Terminal)
            /\ desk[t].task = "risk" /\ forced' = forced
        BY <2>3 DEF RiskEvent
      <3>2. PICK left \in {capability.status} \cup
              (IF risk > 0 /\ capability.status = "active" THEN {"limited"} ELSE {}) :
              capability' = IF capability = NoCapability THEN capability
                ELSE [capability EXCEPT !.status = left, !.available = AvailableAt(risk, status)]
        BY <2>3 DEF RiskEvent
      <3>3. /\ risk \in 0 .. 3 /\ status \in AccountStatuses
        BY <1>5, <3>1 DEF AccountWork, AccountWorkRests
      <3>4. /\ account' \in AccountRow /\ account'.status = status
            /\ account'.verified = account.verified
        BY <1>5, <3>1, <3>3 DEF AccountRow
      <3>5. /\ capability' \in [status : {"none", "active", "limited", "disabled"}, available : BOOLEAN]
            /\ capability'.available => status = "active" /\ risk = 0
            /\ capability'.available => capability'.status = capability.status
        <4>1. CASE capability = NoCapability
          BY <1>5, <3>2, <4>1 DEF NoCapability
        <4>2. CASE capability # NoCapability
          <5>1. capability' = [capability EXCEPT !.status = left, !.available = AvailableAt(risk, status)]
            BY <3>2, <4>2
          <5>2. left \in {"none", "active", "limited", "disabled"} /\ AvailableAt(risk, status) \in BOOLEAN
            BY <1>5, <3>2 DEF AvailableAt
          <5>3. /\ capability' \in [status : {"none", "active", "limited", "disabled"}, available : BOOLEAN]
                /\ capability'.status = left /\ capability'.available = AvailableAt(risk, status)
            BY <1>5, <5>1, <5>2
          <5>4. risk = 0 => left = capability.status
            BY <3>2
          <5> QED
            BY <5>3, <5>4 DEF AvailableAt
        <4> QED
          BY <4>1, <4>2
      <3>6. AccountsTyped' /\ ApprovedIsIdentified' /\ RulingHolds'
        BY <1>1, <3>1, <3>4, <3>5 DEF AccountsTyped, ApprovedIsIdentified, RulingHolds
      <3>7. AvailableIsAllowed' /\ PendingIsDark'
        BY <3>1, <3>4, <3>5 DEF AvailableIsAllowed, PendingIsDark, Blocked, Terminal
      <3> QED
        BY <3>6, <3>7
    <2>4. CASE MoveAccount(t)
      <3>1. recovery' \in [status : {"none", "pending", "approved", "rejected"}, made : 0 .. 2]
        BY <1>1 DEF AccountsTyped
      <3> QED
        BY <1>1, <1>3, <2>4, <3>1, MoveWritten
    <2>5. CASE RegisterCapability(t)
      <3>1. /\ desk[t].task = "register" /\ UNCHANGED <<account, ruledOut, forced, relit>>
            /\ capability' = IF capability = NoCapability
                 THEN [status |-> "active", available |-> desk[t].left = 1] ELSE capability
        BY <2>5 DEF RegisterCapability
      <3>2. /\ capability' \in [status : {"none", "active", "limited", "disabled"}, available : BOOLEAN]
            /\ \/ capability' = capability
               \/ /\ capability'.status = "active"
                  /\ capability'.available => desk[t].left = 1
        BY <1>5, <3>1
      <3>3. AccountsTyped' /\ ApprovedIsIdentified' /\ RulingHolds'
        BY <1>1, <1>2, <3>1, <3>2 DEF AccountsTyped, ApprovedIsIdentified, RulingHolds
      <3>4. overlapped' \/ desk[t].left = 1 => overlapped' \/ account'.status = "active"
        BY <1>3, <3>1 DEF AccountKnows
      <3>5. AvailableIsAllowed'
        BY <1>2, <3>1, <3>2, <3>4 DEF AvailableIsAllowed, Blocked, Terminal
      <3>6. overlapped' \/ PendingIsDark'
        BY <1>2, <3>1, <3>2, <3>4 DEF PendingIsDark
      <3> QED
        BY <3>3, <3>5, <3>6
    <2> QED
      BY <2>1, <2>2, <2>3, <2>4, <2>5
  <1> QED
    BY <1>1, <1>4, <1>6, NoAccountWork, WritesAccountInv

\* The transition of a recovery: the request is approved next.
LEMMA MoveForRecoveryInv ==
  ASSUME AccountsInv, ~overlapped, NEW t \in Staff, MoveAccount(t), desk[t].left = 1
  PROVE  AccountsInv'
  <1> USE DEF AccountsInv, AccountsBase
  <1> DEFINE next == Work("mark", "approved", 0)
  <1>1. /\ Writes(t, next) /\ UNCHANGED <<proofs, torn>> /\ desk[t].task = "move"
        /\ recovery' = [recovery EXCEPT !.made = IF @ < 2 THEN @ + 1 ELSE @]
    BY DEF MoveAccount
  <1>2. next \in AccountWork /\ next.task = "mark" /\ next.outcome = "approved"
    BY DEF Work, AccountWork
  <1>3. /\ desk'[t] = next /\ overlapped' = (overlapped \/ t \in outdated)
        /\ \A u \in Staff : u # t => desk'[u] = desk[u]
    BY <1>1, <1>2, WritesEffect
  <1>4. overlapped' \/ AccountKnows(t)
    BY <1>3 DEF Current
  <1>5. /\ recovery' \in [status : {"none", "pending", "approved", "rejected"}, made : 0 .. 2]
        /\ recovery'.status = recovery.status
        /\ recovery.made = 0 => recovery'.made = 1
    BY <1>1 DEF AccountsTyped
  <1>6. /\ AccountsTyped' /\ ApprovedIsIdentified' /\ RulingHolds' /\ AvailableIsAllowed'
        /\ overlapped' \/ PendingIsDark'
    BY <1>1, <1>4, <1>5, MoveWritten
  <1>7. torn' \/ RecoveryIsSingle'
    <2>1. t \in RecoveryCalls /\ RecoveryCalls' = RecoveryCalls
      BY <1>1, <1>2, <1>3 DEF RecoveryCalls
    <2>2. CASE ~torn
      <3>1. /\ RecoveryCalls = {t} /\ recovery.status = "pending" /\ recovery.made = 0
        BY <1>1, <2>1, <2>2 DEF RecoveryIsSingle, MadeBy
      <3>2. MadeBy(t)' = 1
        BY <1>2, <1>3 DEF MadeBy
      <3> QED
        BY <1>5, <2>1, <3>1, <3>2 DEF RecoveryIsSingle
    <2> QED
      BY <1>1, <2>2
  <1> QED
    BY <1>1, <1>2, <1>6, <1>7, WritesAccountInv

LEMMA MarkRecoveryInv ==
  ASSUME AccountsInv, ~overlapped, NEW t \in Staff, MarkRecovery(t)
  PROVE  AccountsInv'
  <1> USE DEF AccountsInv, AccountsBase
  <1>1. /\ Writes(t, NoWork) /\ desk[t].task = "mark"
        /\ recovery' = [recovery EXCEPT !.status = desk[t].outcome]
        /\ UNCHANGED <<account, proofs, capability, ruledOut, forced, relit, torn>>
    BY DEF MarkRecovery
  <1>2. /\ desk'[t] = NoWork /\ overlapped' = (overlapped \/ t \in outdated)
        /\ \A u \in Staff : u # t => desk'[u] = desk[u]
    BY <1>1, NoAccountWork, WritesEffect
  <1>3. desk[t].outcome \in {"approved", "rejected"}
    BY <1>1 DEF AccountWorkRests
  <1>4. /\ recovery' \in [status : {"none", "pending", "approved", "rejected"}, made : 0 .. 2]
        /\ recovery'.status = desk[t].outcome /\ recovery'.made = recovery.made
    BY <1>1, <1>3 DEF AccountsTyped
  <1>5. AccountsTyped'
    BY <1>1, <1>4 DEF AccountsTyped
  <1>6. ApprovedIsIdentified' /\ RulingHolds' /\ AvailableIsAllowed' /\ PendingIsDark'
    BY <1>1, <1>2 DEF ApprovedIsIdentified, RulingHolds, AvailableIsAllowed, PendingIsDark
  <1>7. torn' \/ RecoveryIsSingle'
    <2>1. t \in RecoveryCalls
      BY <1>1 DEF RecoveryCalls
    <2>2. CASE ~torn
      <3>1. RecoveryCalls = {t} /\ recovery.made = MadeBy(t)
        BY <2>1, <2>2 DEF RecoveryIsSingle
      <3>2. RecoveryCalls' = {}
        BY <1>2, <3>1, NoAccountWork DEF RecoveryCalls
      <3>3. recovery'.made = (IF recovery'.status = "approved" THEN 1 ELSE 0)
        BY <1>1, <1>3, <1>4, <3>1 DEF MadeBy
      <3> QED
        BY <3>2, <3>3 DEF RecoveryIsSingle
    <2> QED
      BY <1>1, <2>2
  <1> QED
    BY <1>1, <1>5, <1>6, <1>7, NoAccountWork, WritesAccountInv

LEMMA NextAccountsInv ==
  ASSUME AccountsInv, [AccountsNext]_accountVars
  PROVE  AccountsInv'
  <1>1. CASE UNCHANGED accountVars
    BY <1>1 DEF accountVars, accountTables, callVars, AccountsInv, AccountsBase, CallsTyped,
         FaultsTyped, AccountsTyped, ApprovedIsIdentified, RulingHolds, AvailableIsAllowed,
         PendingIsDark, RecoveryIsSingle, RecoveryCalls, MadeBy, AccountWorkRests, AccountKnows,
         Current
  <1>2. ASSUME ~overlapped, NEW t \in Staff, MoveAccount(t) PROVE AccountsInv'
    BY <1>2, WritersAccountInv, MoveForRecoveryInv
  <1> QED
    BY <1>1, <1>2, AtOnceAccountInv, SetCapabilityInv, BeginsAccountInv, BeginRecoveryInv,
       DecisionDiesInv, WritersAccountInv, MarkRecoveryInv
    DEF AccountsNext

LEMMA AccountsInductive == AccountsSpec => []AccountsInv
  BY InitAccountsInv, NextAccountsInv, PTL DEF AccountsSpec

\* However many calls of staff, deadlines, reviews, risk events and recoveries
\* are at work, and however many of them die: see AccountsTypeOK.
THEOREM AccountsTypeCorrect == AccountsSpec => []AccountsTypeOK
  <1>1. AccountsInv => AccountsTypeOK
    <2> SUFFICES ASSUME AccountsInv PROVE AccountsTypeOK
      OBVIOUS
    <2>1. /\ account \in [status : AccountStatuses, risk : 0 .. 3, verified : BOOLEAN]
          /\ {ruledOut, forced, relit, torn, overlapped} \subseteq BOOLEAN
      BY DEF AccountsInv, AccountsBase, AccountsTyped, AccountRow, CallsTyped
    <2> QED
      BY <2>1 DEF AccountsInv, AccountsBase, AccountsTyped, CallsTyped, AccountWork, FaultsTyped,
           AccountsTypeOK
  <1> QED
    BY <1>1, AccountsInductive, PTL

\* The risk of a seller is written by risk events, and by its activation.
LEMMA RiskComesAlone ==
  ASSUME AccountsInv, AccountsNext, account'.risk # account.risk
  PROVE  ActivateParentAccount \/ \E t \in Staff : RiskEvent(t)
  <1>0. account \in AccountRow
    BY DEF AccountsInv, AccountsBase, AccountsTyped
  <1>1. /\ \A p \in {"email", "wallet"} : ~Proves(p)
        /\ ~SetCapability /\ ~RequestRecovery
    BY DEF Proves, SetCapability, RequestRecovery
  <1>2. ~RejectAccount
    BY <1>0 DEF RejectAccount, AccountRow
  <1>3. \A t \in Staff : ~ApproveAccount(t) /\ ~Lapse(t) /\ ~MoveAccount(t)
    BY <1>0 DEF ApproveAccount, Lapse, MoveAccount, AccountRow
  <1>4. \A t \in Staff :
          /\ ~BeginRegistration(t) /\ ~RegisterCapability(t)
          /\ ~BeginAccountApproval(t) /\ ~BeginOnboarding(t) /\ ~BeginLapse(t)
          /\ ~BeginRiskEvent(t) /\ ~BeginAccountMove(t) /\ ~BeginDecision(t)
          /\ ~BeginRecovery(t) /\ ~MarkRecovery(t) /\ ~DecisionDies(t)
    BY DEF BeginRegistration, RegisterCapability, BeginAccountApproval, BeginOnboarding,
         BeginLapse, BeginRiskEvent, BeginAccountMove, BeginDecision, BeginRecovery, MarkRecovery,
         DecisionDies, accountTables
  <1> QED
    BY <1>1, <1>2, <1>3, <1>4 DEF AccountsNext

\* For any number of calls at work and of faults: a seller that is vouched for has
\* proven its identity, or has been activated over one of its agents; and, but for
\* calls that wrote over what they had not read, a rejection or a ban stands until
\* it is overridden, agents of blocked sellers are available by calls only that do
\* not look at the seller, a recovery is made once and for an approval, and only
\* that activation lowers risk.
THEOREM SellersStayGoverned == AccountsSpec => SellerIsGoverned
  <1>1. AccountsInv =>
          ApprovedIsIdentified /\ RulingHolds /\ AvailableIsAllowed /\ RecoveryIsMadeOnce
    <2> SUFFICES ASSUME AccountsInv, ~overlapped, ~torn PROVE RecoveryIsMadeOnce
      BY DEF AccountsInv, RecoveryIsMadeOnce
    <2>1. RecoveryIsSingle
      BY DEF AccountsInv
    <2>2. CASE RecoveryCalls = {}
      BY <2>1, <2>2 DEF RecoveryIsSingle, RecoveryIsMadeOnce
    <2>3. CASE RecoveryCalls # {}
      <3>1. PICK t \in RecoveryCalls : recovery.status = "pending" /\ recovery.made = MadeBy(t)
        BY <2>1, <2>3 DEF RecoveryIsSingle
      <3> QED
        BY <3>1 DEF MadeBy, RecoveryIsMadeOnce
    <2> QED
      BY <2>2, <2>3
  <1>2. ASSUME AccountsInv, [AccountsNext]_accountVars PROVE RiskStays
    <2>1. account \in AccountRow
      BY <1>2 DEF AccountsInv, AccountsBase, AccountsTyped
    <2>2. CASE account'.risk = account.risk
      BY <2>1, <2>2 DEF RiskStays, AccountRow
    <2>3. CASE account'.risk # account.risk
      <3>1. AccountsNext
        BY <1>2, <2>3 DEF accountVars, accountTables
      <3>2. SUFFICES ASSUME NEW t \in Staff, RiskEvent(t) PROVE RiskStays
        BY <1>2, <2>3, <3>1, RiskComesAlone DEF RiskStays
      <3>3. desk[t].task = "risk" /\ account'.risk = desk[t].left /\ Writes(t, NoWork)
        BY <2>1, <3>2 DEF RiskEvent, AccountRow
      <3>4. overlapped' \/ AccountKnows(t)
        BY <1>2, <3>3 DEF AccountsInv, Current, Writes
      <3> QED
        BY <3>3, <3>4 DEF AccountKnows, RiskStays
    <2> QED
      BY <2>2, <2>3
  <1> QED
    BY <1>1, <1>2, AccountsInductive, PTL DEF AccountsSpec, SellerIsGoverned


-----------------------------------------------------------------------------
(* Threat memories: the invariant.                                          *)

ThreatWork ==
  [task : {"none", "forecast", "reinforce", "propagate", "decay"},
   outcome : Threats \cup {NoThreatRow, "none", "observed", "false_positive"}, left : {0}]

\* The threats move and the responses do not.
ThreatsSpec == ResponsesInit /\ [][ThreatsNext]_responseVars

ResponsesRest ==
  /\ footing = [s \in Sellers |-> "clear"]
  /\ taken = [s \in Sellers |-> NoResponses] /\ made = taken
  /\ met = {} /\ raced = {} /\ racing = FALSE /\ unrecorded = {}

ThreatsTyped ==
  /\ threat \in [Threats -> ThreatRows]
  /\ read \in [Staff -> [Threats -> ThreatRows]]
  /\ about \in [Staff -> SUBSET (Sellers \cup Threats)]
  /\ revived \in BOOLEAN

\* What each call at work is about.
Subjects ==
  \A t \in Staff :
    /\ desk[t].task \in {"forecast", "propagate"} => \E s \in Sellers : about[t] = {s}
    /\ desk[t].task = "reinforce" => \E x \in Threats : about[t] = {x}

\* A row that is archived is faint, as long as no call wrote over another's write.
RowsStand ==
  ~overlapped =>
    \A x \in Threats :
      /\ threat[x] = NoThreat \/ threat[x].status \in {"active", "archived"}
      /\ threat[x].status = "archived" => threat[x].faint

\* What a call has read and decided on still holds.
ThreatReads(t) ==
  /\ desk[t].task = "forecast" =>
       \A s \in Sellers : about[t] = {s} =>
         IF desk[t].outcome = NoThreatRow THEN ActiveOf(s) = {}
                                          ELSE desk[t].outcome \in ActiveOf(s)
  /\ desk[t].task = "reinforce" =>
       /\ read[t] = threat
       /\ \A x \in Threats : about[t] = {x} => threat[x] # NoThreat
  /\ desk[t].task = "propagate" =>
       \A s \in Sellers : about[t] = {s} => MayReceive(s)
  /\ desk[t].task = "decay" => read[t] = threat

ThreatsInv ==
  /\ CallsTyped(ThreatWork) /\ FaultsTyped /\ ThreatsTyped /\ ResponsesRest
  /\ Subjects /\ RowsStand
  /\ \A t \in Staff : Current(t) => ThreatReads(t)
  /\ ThreatsAreDistinct

LEMMA NoThreatTyped == NoThreat \in ThreatRows /\ NoThreat.status = "none" /\ NoWork \in ThreatWork
  BY DEF NoThreat, Threat, ThreatRows, NoWork, Work, ThreatWork

LEMMA ThreatsStart == ResponsesInit => ThreatsInv
  <1> SUFFICES ASSUME ResponsesInit PROVE ThreatsInv
    OBVIOUS
  <1>1. CallsTyped(ThreatWork) /\ FaultsTyped /\ \A t \in Staff : desk[t].task = "none"
    <2>1. desk = [t \in Staff |-> NoWork] /\ outdated = {} /\ overlapped = FALSE /\ faults = 0
      BY DEF ResponsesInit, CallsInit
    <2>2. CallsTyped(ThreatWork)
      BY <2>1, NoThreatTyped DEF CallsTyped
    <2>3. FaultsTyped
      BY <2>1, FaultsAssumption DEF FaultsTyped
    <2> QED
      BY <2>1, <2>2, <2>3, NoWorkTask
  <1>2. ThreatsTyped /\ ResponsesRest
    BY NoThreatTyped DEF ResponsesInit, ThreatsTyped, ResponsesRest, NoRead
  <1>3. \A x \in Threats : threat[x] = NoThreat
    BY DEF ResponsesInit, NoRead
  <1> QED
    BY <1>1, <1>2, <1>3, NoThreatTyped DEF ThreatsInv, Subjects, RowsStand, ThreatReads,
       ThreatsAreDistinct, ActiveOf

\* A call begins: it is about its subject and has read what it has read; the rows
\* and the other calls stay.
LEMMA ThreatTakes ==
  ASSUME ThreatsInv, NEW t \in Staff, NEW work \in ThreatWork, Takes(t, work),
         about' \in [Staff -> SUBSET (Sellers \cup Threats)],
         read' \in [Staff -> [Threats -> ThreatRows]],
         \A u \in Staff : u # t => about'[u] = about[u] /\ read'[u] = read[u],
         UNCHANGED <<threat, revived, responseTables>>,
         work.task \in {"forecast", "propagate"} => \E s \in Sellers : about'[t] = {s},
         work.task = "reinforce" => \E x \in Threats : about'[t] = {x},
         ThreatReads(t)'
  PROVE  ThreatsInv'
  <1>1. /\ CallsTyped(ThreatWork)' /\ FaultsTyped' /\ desk'[t] = work
        /\ \A u \in Staff : u # t => desk'[u] = desk[u]
        /\ UNCHANGED <<outdated, overlapped>>
    BY TakesEffect DEF ThreatsInv
  <1>2. ThreatsTyped' /\ ResponsesRest'
    BY DEF ThreatsInv, ThreatsTyped, ResponsesRest, responseTables
  <1>3. Subjects'
    BY <1>1 DEF ThreatsInv, Subjects
  <1>4. RowsStand' /\ ThreatsAreDistinct'
    BY <1>1 DEF ThreatsInv, RowsStand, ThreatsAreDistinct, ActiveOf, Propagated
  <1>5. ASSUME NEW u \in Staff, u # t, Current(u)' PROVE ThreatReads(u)'
    <2>1. Current(u) /\ ThreatReads(u)
      BY <1>1, <1>5 DEF Current, ThreatsInv
    <2>2. /\ desk'[u] = desk[u] /\ about'[u] = about[u] /\ read'[u] = read[u] /\ threat' = threat
      BY <1>1, <1>5
    <2>3. (\A s : ActiveOf(s)' = ActiveOf(s)) /\ \A x : Propagated(x)' = Propagated(x)
      BY <2>2 DEF ActiveOf, Propagated
    <2>4. \A s : MayReceive(s)' = MayReceive(s)
      BY <2>3 DEF MayReceive
    <2> QED
      BY <2>1, <2>2, <2>3, <2>4 DEF ThreatReads
  <1> QED
    BY <1>1, <1>2, <1>3, <1>4, <1>5 DEF ThreatsInv

\* A call writes what it decided: the others at work are outdated.
LEMMA ThreatWrites ==
  ASSUME ThreatsInv, ~overlapped, NEW t \in Staff, Writes(t, NoWork),
         about' \in [Staff -> SUBSET (Sellers \cup Threats)],
         \A u \in Staff : u # t => about'[u] = about[u],
         read' \in [Staff -> [Threats -> ThreatRows]],
         threat' \in [Threats -> ThreatRows], revived' \in BOOLEAN,
         UNCHANGED responseTables,
         Current(t) => RowsStand' /\ ThreatsAreDistinct'
  PROVE  ThreatsInv' /\ (Current(t) \/ overlapped')
  <1>1. /\ CallsTyped(ThreatWork)' /\ FaultsTyped' /\ desk'[t] = NoWork
        /\ \A u \in Staff : u # t => desk'[u] = desk[u]
        /\ overlapped' = (overlapped \/ t \in outdated)
        /\ \A u \in Staff : u # t => desk[u].task = "none" \/ ~Current(u)'
    BY WritesEffect, NoThreatTyped DEF ThreatsInv
  <1>2. Current(t) \/ overlapped'
    BY <1>1 DEF Current
  <1>3. ThreatsTyped' /\ ResponsesRest'
    BY DEF ThreatsInv, ThreatsTyped, ResponsesRest, responseTables
  <1>4. Subjects'
    BY <1>1, NoWorkTask DEF ThreatsInv, Subjects
  <1>5. RowsStand' /\ ThreatsAreDistinct'
    BY <1>2 DEF RowsStand, ThreatsAreDistinct
  <1>6. \A u \in Staff : Current(u)' => desk'[u].task = "none"
    BY <1>1, NoWorkTask
  <1>7. \A u \in Staff : Current(u)' => ThreatReads(u)'
    BY <1>6 DEF ThreatReads
  <1> QED
    BY <1>1, <1>2, <1>3, <1>4, <1>5, <1>7 DEF ThreatsInv

-----------------------------------------------------------------------------
(* Threat memories: the steps.                                              *)

\* What a step may do to a memory that is archived.
LEMMA ThreatsBegin ==
  ASSUME ThreatsInv, NEW t \in Staff,
         \/ BeginForecast(t) \/ BeginReinforcement(t) \/ BeginPropagation(t) \/ BeginThreatDecay(t)
  PROVE  ThreatsInv' /\ UNCHANGED threat
  <1>0. /\ about \in [Staff -> SUBSET (Sellers \cup Threats)]
        /\ threat \in [Threats -> ThreatRows]
        /\ read \in [Staff -> [Threats -> ThreatRows]]
    BY DEF ThreatsInv, ThreatsTyped
  <1>1. CASE BeginForecast(t)
    <2>1. PICK s \in Sellers :
            /\ about' = [about EXCEPT ![t] = {s}]
            /\ \/ \E x \in ActiveOf(s) : Decides(t, "forecast", x)
               \/ ActiveOf(s) = {} /\ Decides(t, "forecast", NoThreatRow)
      BY <1>1 DEF BeginForecast
    <2>2. UNCHANGED <<threat, read, revived, responseTables>>
      BY <1>1 DEF BeginForecast, threatTables
    <2>3. PICK x \in Threats \cup {NoThreatRow} :
            /\ Takes(t, Work("forecast", x, 0))
            /\ IF x = NoThreatRow THEN ActiveOf(s) = {} ELSE x \in ActiveOf(s)
      BY <2>1, ResponsesAssumption DEF Decides, ActiveOf
    <2> DEFINE work == Work("forecast", x, 0)
    <2>4. work \in ThreatWork /\ work.task = "forecast" /\ work.outcome = x
      BY DEF Work, ThreatWork
    <2> HIDE DEF work
    <2>5. desk'[t] = work
      BY <2>3, <2>4, TakesEffect DEF ThreatsInv, work
    <2>6. ThreatReads(t)'
      <3>1. \A r \in Sellers : about'[t] = {r} => r = s
        BY <1>0, <2>1
      <3> QED
        BY <2>2, <2>3, <2>4, <2>5, <3>1 DEF ThreatReads, ActiveOf
    <2> QED
      BY <1>0, <2>1, <2>2, <2>3, <2>4, <2>6, ThreatTakes DEF work
  <1>2. CASE BeginReinforcement(t)
    <2>1. PICK x \in Threats, seen \in {"observed", "false_positive"} :
            /\ threat[x] # NoThreat /\ about' = [about EXCEPT ![t] = {x}]
            /\ Takes(t, Work("reinforce", seen, 0))
      BY <1>2 DEF BeginReinforcement, Decides
    <2>2. read' = [read EXCEPT ![t] = threat] /\ UNCHANGED <<threat, revived, responseTables>>
      BY <1>2 DEF BeginReinforcement
    <2> DEFINE work == Work("reinforce", seen, 0)
    <2>4. work \in ThreatWork /\ work.task = "reinforce"
      BY DEF Work, ThreatWork
    <2> HIDE DEF work
    <2>5. desk'[t] = work
      BY <2>1, <2>4, TakesEffect DEF ThreatsInv, work
    <2>6. ThreatReads(t)'
      <3>1. \A y \in Threats : about'[t] = {y} => y = x
        BY <1>0, <2>1
      <3>2. read'[t] = threat'
        BY <1>0, <2>2
      <3> QED
        BY <2>1, <2>2, <2>4, <2>5, <3>1, <3>2 DEF ThreatReads
    <2> QED
      BY <1>0, <2>1, <2>2, <2>4, <2>6, ThreatTakes DEF work
  <1>3. CASE BeginPropagation(t)
    <2>1. PICK s \in Sellers : MayReceive(s) /\ about' = [about EXCEPT ![t] = {s}]
      BY <1>3 DEF BeginPropagation
    <2>2. /\ Takes(t, Work("propagate", NoThreatRow, 0))
          /\ UNCHANGED <<threat, read, revived, responseTables>>
      BY <1>3 DEF BeginPropagation, Decides, threatTables
    <2> DEFINE work == Work("propagate", NoThreatRow, 0)
    <2>4. work \in ThreatWork /\ work.task = "propagate"
      BY DEF Work, ThreatWork
    <2> HIDE DEF work
    <2>5. desk'[t] = work
      BY <2>2, <2>4, TakesEffect DEF ThreatsInv, work
    <2>6. ThreatReads(t)'
      <3>1. \A r \in Sellers : about'[t] = {r} => r = s
        BY <1>0, <2>1
      <3> QED
        BY <2>1, <2>2, <2>4, <2>5, <3>1 DEF ThreatReads, ActiveOf, MayReceive, Propagated
    <2> QED
      BY <1>0, <2>1, <2>2, <2>4, <2>6, ThreatTakes DEF work
  <1>4. CASE BeginThreatDecay(t)
    <2>1. /\ Takes(t, Work("decay", NoThreatRow, 0)) /\ read' = [read EXCEPT ![t] = threat]
          /\ UNCHANGED <<threat, revived, about, responseTables>>
      BY <1>4 DEF BeginThreatDecay, Decides
    <2> DEFINE work == Work("decay", NoThreatRow, 0)
    <2>4. work \in ThreatWork /\ work.task = "decay"
      BY DEF Work, ThreatWork
    <2> HIDE DEF work
    <2>5. desk'[t] = work
      BY <2>1, <2>4, TakesEffect DEF ThreatsInv, work
    <2>6. ThreatReads(t)'
      BY <1>0, <2>1, <2>4, <2>5 DEF ThreatReads
    <2> QED
      BY <1>0, <2>1, <2>4, <2>6, ThreatTakes DEF work
  <1> QED
    BY <1>1, <1>2, <1>3, <1>4

\* What is true of the memory x after the step of a call that is current.
LEMMA ForecastStored ==
  ASSUME ThreatsInv, ~overlapped, NEW t \in Staff, StoreForecast(t)
  PROVE  /\ ThreatsInv'
         /\ \A x \in Threats :
              threat[x].status = "archived" /\ threat'[x].status = "active" => overlapped'
  <1>0. /\ about \in [Staff -> SUBSET (Sellers \cup Threats)]
        /\ threat \in [Threats -> ThreatRows]
        /\ read \in [Staff -> [Threats -> ThreatRows]] /\ revived \in BOOLEAN
        /\ desk \in [Staff -> ThreatWork] /\ RowsStand /\ ThreatsAreDistinct
    BY DEF ThreatsInv, ThreatsTyped, CallsTyped
  <1>1. PICK s \in Sellers : about[t] = {s}
    BY DEF StoreForecast, ThreatsInv, Subjects
  <1> DEFINE new == Threat("active", "forecast", {s}, FALSE)
             old == desk[t].outcome
  <1>2. new \in ThreatRows /\ new.status = "active" /\ new.of = {s} /\ new.source = "forecast"
    BY DEF Threat, ThreatRows
  <1>3. /\ desk[t].task = "forecast" /\ about' = [about EXCEPT ![t] = {}] /\ Writes(t, NoWork)
        /\ UNCHANGED <<read, revived, responseTables>>
        /\ IF old = NoThreatRow THEN Stores(new)
                                ELSE threat' = [threat EXCEPT ![old].faint = FALSE]
    BY <1>1 DEF StoreForecast
  <1> HIDE DEF new
  <1>4. CASE old = NoThreatRow
    <2>1. PICK y \in Threats : threat[y] = NoThreat /\ threat' = [threat EXCEPT ![y] = new]
      BY <1>3, <1>4 DEF Stores
    <2>2. /\ threat' \in [Threats -> ThreatRows] /\ threat'[y] = new
          /\ \A x \in Threats \ {y} : threat'[x] = threat[x]
      BY <1>0, <1>2, <2>1
    <2>3. ASSUME Current(t) PROVE RowsStand' /\ ThreatsAreDistinct'
      <3>1. ActiveOf(s) = {}
        BY <1>1, <1>3, <1>4, <2>3 DEF ThreatsInv, ThreatReads
      <3>2. RowsStand'
        BY <1>0, <1>2, <2>2, <2>3 DEF RowsStand, Current
      <3>3. ASSUME NEW r \in Sellers, NEW a \in ActiveOf(r)', NEW b \in ActiveOf(r)',
                   Propagated(a)' = Propagated(b)', ~revived
            PROVE  a = b
        <4>1. CASE r = s
          <5>1. ActiveOf(r)' \subseteq {y}
            BY <2>2, <3>1, <4>1 DEF ActiveOf
          <5> QED
            BY <5>1
        <4>2. CASE r # s
          <5>1. a # y /\ b # y /\ a \in Threats /\ b \in Threats
            BY <1>2, <2>2, <4>2 DEF ActiveOf
          <5>2. a \in ActiveOf(r) /\ b \in ActiveOf(r) /\ Propagated(a) = Propagated(b)
            BY <2>2, <3>3, <5>1 DEF ActiveOf, Propagated
          <5> QED
            BY <1>0, <2>3, <3>3, <5>2 DEF ThreatsAreDistinct, Current
        <4> QED
          BY <4>1, <4>2
      <3> QED
        BY <1>3, <3>2, <3>3 DEF ThreatsAreDistinct
    <2>4. ThreatsInv' /\ (Current(t) \/ overlapped')
      BY <1>0, <1>3, <2>2, <2>3, ThreatWrites
    <2>5. \A x \in Threats : threat[x].status = "archived" => threat'[x] = threat[x]
      BY <2>1, <2>2, NoThreatTyped
    <2> QED
      BY <2>4, <2>5
  <1>5. CASE old # NoThreatRow
    <2>1. threat' = [threat EXCEPT ![old].faint = FALSE]
      BY <1>3, <1>5
    <2>2. \A x \in Threats : threat[x] \in ThreatRows
      BY <1>0
    <2>3. ASSUME NEW x \in Threats
          PROVE  /\ threat'[x] \in ThreatRows /\ threat'[x].status = threat[x].status
                 /\ threat'[x].of = threat[x].of /\ threat'[x].source = threat[x].source
                 /\ x # old => threat'[x] = threat[x]
      <3>1. CASE x = old
        <4>1. threat'[x] = [threat[x] EXCEPT !.faint = FALSE]
          BY <1>0, <2>1, <3>1
        <4> QED
          BY <2>2, <3>1, <4>1 DEF ThreatRows
      <3>2. CASE x # old
        BY <1>0, <2>1, <2>2, <3>2
      <3> QED
        BY <3>1, <3>2
    <2>4. threat' \in [Threats -> ThreatRows]
      <3>1. DOMAIN threat' = Threats /\ threat' = [x \in Threats |-> threat'[x]]
        BY <1>0, <2>1
      <3> QED
        BY <2>3, <3>1
    <2>5. \A r \in Sellers : ActiveOf(r)' = ActiveOf(r)
      BY <2>3 DEF ActiveOf
    <2>6. ASSUME Current(t) PROVE RowsStand' /\ ThreatsAreDistinct'
      <3>1. old \in ActiveOf(s)
        BY <1>1, <1>3, <1>5, <2>6 DEF ThreatsInv, ThreatReads
      <3>2. threat[old].status = "active" /\ old \in Threats
        BY <3>1 DEF ActiveOf
      <3>3. RowsStand'
        <4> SUFFICES ASSUME NEW x \in Threats
                     PROVE  /\ threat'[x] = NoThreat \/ threat'[x].status \in {"active", "archived"}
                            /\ threat'[x].status = "archived" => threat'[x].faint
          BY DEF RowsStand
        <4> QED
          BY <1>0, <2>3, <2>6, <3>2 DEF RowsStand, Current
      <3>4. \A x \in Threats : Propagated(x)' = Propagated(x)
        BY <2>3 DEF Propagated
      <3>5. ThreatsAreDistinct'
        <4> SUFFICES ASSUME ~revived, NEW r \in Sellers, NEW a \in ActiveOf(r)', NEW b \in ActiveOf(r)',
                            Propagated(a)' = Propagated(b)'
                     PROVE  a = b
          BY <1>3 DEF ThreatsAreDistinct
        <4>1. a \in ActiveOf(r) /\ b \in ActiveOf(r) /\ Propagated(a) = Propagated(b)
          BY <2>5, <3>4 DEF ActiveOf
        <4> QED
          BY <1>0, <2>6, <4>1 DEF ThreatsAreDistinct, Current
      <3> QED
        BY <3>3, <3>5
    <2>7. ThreatsInv' /\ (Current(t) \/ overlapped')
      BY <1>0, <1>3, <2>4, <2>6, ThreatWrites
    <2> QED
      BY <2>3, <2>7
  <1> QED
    BY <1>4, <1>5

LEMMA Propagates ==
  ASSUME ThreatsInv, ~overlapped, NEW t \in Staff, Propagate(t)
  PROVE  /\ ThreatsInv'
         /\ \A x \in Threats :
              threat[x].status = "archived" /\ threat'[x].status = "active" => overlapped'
  <1>0. /\ about \in [Staff -> SUBSET (Sellers \cup Threats)]
        /\ threat \in [Threats -> ThreatRows]
        /\ read \in [Staff -> [Threats -> ThreatRows]] /\ revived \in BOOLEAN
        /\ RowsStand /\ ThreatsAreDistinct
    BY DEF ThreatsInv, ThreatsTyped, CallsTyped
  <1>1. PICK s \in Sellers : about[t] = {s}
    BY DEF Propagate, ThreatsInv, Subjects
  <1>2. PICK faint \in BOOLEAN : Stores(Threat("active", "propagated", {s}, faint))
    BY <1>1 DEF Propagate
  <1> DEFINE new == Threat("active", "propagated", {s}, faint)
  <1>3. new \in ThreatRows /\ new.status = "active" /\ new.of = {s} /\ new.source = "propagated"
    BY DEF Threat, ThreatRows
  <1>4. /\ desk[t].task = "propagate" /\ about' = [about EXCEPT ![t] = {}] /\ Writes(t, NoWork)
        /\ UNCHANGED <<read, revived, responseTables>> /\ Stores(new)
    BY <1>2 DEF Propagate
  <1> HIDE DEF new
  <1>5. PICK y \in Threats : threat[y] = NoThreat /\ threat' = [threat EXCEPT ![y] = new]
    BY <1>4 DEF Stores
  <1>6. /\ threat' \in [Threats -> ThreatRows] /\ threat'[y] = new
        /\ \A x \in Threats \ {y} : threat'[x] = threat[x]
    BY <1>0, <1>3, <1>5
  <1>7. ASSUME Current(t) PROVE RowsStand' /\ ThreatsAreDistinct'
    <2>1. \A x \in ActiveOf(s) : ~Propagated(x)
      BY <1>1, <1>4, <1>7 DEF ThreatsInv, ThreatReads, MayReceive
    <2>2. RowsStand'
      BY <1>0, <1>3, <1>6, <1>7 DEF RowsStand, Current
    <2>3. ASSUME NEW r \in Sellers, NEW a \in ActiveOf(r)', NEW b \in ActiveOf(r)',
                 Propagated(a)' = Propagated(b)', ~revived
          PROVE  a = b
      <3>1. a \in Threats /\ b \in Threats
        BY DEF ActiveOf
      <3>2. ASSUME NEW x \in Threats, x # y, x \in ActiveOf(r)'
            PROVE  x \in ActiveOf(r) /\ Propagated(x)' = Propagated(x)
        BY <1>6, <3>2 DEF ActiveOf, Propagated
      <3>3. y \in ActiveOf(r)' => r = s /\ Propagated(y)'
        BY <1>3, <1>6 DEF ActiveOf, Propagated
      <3>4. CASE a # y /\ b # y
        <4>1. a \in ActiveOf(r) /\ b \in ActiveOf(r) /\ Propagated(a) = Propagated(b)
          BY <2>3, <3>1, <3>2, <3>4
        <4> QED
          BY <1>0, <1>7, <2>3, <4>1 DEF ThreatsAreDistinct, Current
      <3>5. CASE a = y /\ b # y
        <4>1. r = s /\ b \in ActiveOf(s) /\ Propagated(b)
          BY <2>3, <3>1, <3>2, <3>3, <3>5
        <4> QED
          BY <2>1, <4>1
      <3>6. CASE a # y /\ b = y
        <4>1. r = s /\ a \in ActiveOf(s) /\ Propagated(a)
          BY <2>3, <3>1, <3>2, <3>3, <3>6
        <4> QED
          BY <2>1, <4>1
      <3> QED
        BY <3>4, <3>5, <3>6
    <2> QED
      BY <1>4, <2>2, <2>3 DEF ThreatsAreDistinct
  <1>8. ThreatsInv' /\ (Current(t) \/ overlapped')
    BY <1>0, <1>4, <1>6, <1>7, ThreatWrites
  <1>9. \A x \in Threats : threat[x].status = "archived" => threat'[x] = threat[x]
    BY <1>5, <1>6, NoThreatTyped
  <1> QED
    BY <1>8, <1>9

\* Rows of which none becomes active, none is moved to another seller or given
\* another source, and none is archived but faint, are as good as they were.
LEMMA NoneActivated ==
  ASSUME ThreatsInv, ~overlapped, ~revived,
         \A x \in Threats :
           /\ threat'[x].status = "active" => threat[x].status = "active"
           /\ threat'[x].of = threat[x].of /\ threat'[x].source = threat[x].source
  PROVE  ThreatsAreDistinct'
  <1> SUFFICES ASSUME NEW r \in Sellers, NEW a \in ActiveOf(r)', NEW b \in ActiveOf(r)',
                      Propagated(a)' = Propagated(b)'
               PROVE  a = b
    BY DEF ThreatsAreDistinct
  <1>1. /\ a \in ActiveOf(r) /\ b \in ActiveOf(r)
        /\ Propagated(a)' = Propagated(a) /\ Propagated(b)' = Propagated(b)
    BY DEF ActiveOf, Propagated
  <1> QED
    BY <1>1 DEF ThreatsInv, ThreatsAreDistinct

LEMMA Reinforced ==
  ASSUME ThreatsInv, ~overlapped, NEW t \in Staff, Reinforce(t)
  PROVE  /\ ThreatsInv'
         /\ \A x \in Threats :
              threat[x].status = "archived" /\ threat'[x].status = "active" =>
                overlapped' \/ (about[t] = {x} /\ desk[t].outcome = "observed")
  <1>0. /\ about \in [Staff -> SUBSET (Sellers \cup Threats)]
        /\ threat \in [Threats -> ThreatRows] /\ NoRead \in [Threats -> ThreatRows]
        /\ read \in [Staff -> [Threats -> ThreatRows]] /\ revived \in BOOLEAN
        /\ RowsStand /\ ThreatsAreDistinct
    BY NoThreatTyped DEF ThreatsInv, ThreatsTyped, CallsTyped, NoRead
  <1>1. PICK y \in Threats : about[t] = {y}
    BY DEF Reinforce, ThreatsInv, Subjects
  <1> DEFINE row == read[t][y]
             sides == IF desk[t].outcome = "observed" THEN Clearer(row.faint) ELSE Fainter(row.faint)
  <1>2. PICK new \in Moved(row, sides) :
          /\ threat' = [threat EXCEPT ![y] = new]
          /\ revived' = (revived \/ (row.status = "archived" /\ ~new.faint))
    BY <1>1 DEF Reinforce
  <1>3. /\ desk[t].task = "reinforce" /\ about' = [about EXCEPT ![t] = {}]
        /\ read' = [read EXCEPT ![t] = NoRead] /\ Writes(t, NoWork) /\ UNCHANGED responseTables
    BY DEF Reinforce
  <1>4. row \in ThreatRows
    BY <1>0
  <1>5. /\ new \in ThreatRows /\ new.status = (IF new.faint THEN "archived" ELSE "active")
        /\ new.of = row.of /\ new.source = row.source
        /\ desk[t].outcome # "observed" => new.faint \in {row.faint, TRUE}
    <2>1. PICK f \in sides : new = [row EXCEPT !.faint = f,
                                               !.status = IF f THEN "archived" ELSE "active"]
      BY DEF Moved
    <2>2. row.faint \in BOOLEAN /\ f \in BOOLEAN
          /\ (desk[t].outcome # "observed" => f \in {row.faint, TRUE})
      BY <1>4 DEF ThreatRows, Clearer, Fainter
    <2> HIDE DEF row, sides
    <2> QED
      BY <1>4, <2>1, <2>2 DEF ThreatRows
  <1> HIDE DEF row, sides
  <1>6. /\ threat' \in [Threats -> ThreatRows] /\ threat'[y] = new
        /\ \A x \in Threats \ {y} : threat'[x] = threat[x]
    BY <1>0, <1>2, <1>5
  <1>7. ASSUME Current(t)
        PROVE  row = threat[y] /\ threat[y].status \in {"active", "archived"}
               /\ (threat[y].status = "archived" => threat[y].faint)
    <2>1. read[t] = threat /\ threat[y] # NoThreat
      BY <1>1, <1>3, <1>7 DEF ThreatsInv, ThreatReads
    <2> QED
      BY <1>0, <1>7, <2>1 DEF row, RowsStand, Current
  <1>8. ASSUME Current(t) PROVE RowsStand' /\ ThreatsAreDistinct'
    <2>1. RowsStand'
      BY <1>0, <1>5, <1>6, <1>8 DEF RowsStand, Current
    <2>2. ASSUME ~revived' PROVE ThreatsAreDistinct'
      <3>1. new.status = "active" => threat[y].status = "active"
        BY <1>2, <1>5, <1>7, <1>8, <2>2
      <3>2. ~revived
        BY <1>2, <2>2
      <3> QED
        BY <1>5, <1>6, <1>7, <1>8, <3>1, <3>2, NoneActivated
    <2> QED
      BY <2>1, <2>2 DEF ThreatsAreDistinct
  <1>9. ThreatsInv' /\ (Current(t) \/ overlapped')
    <2>1. read' \in [Staff -> [Threats -> ThreatRows]] /\ revived' \in BOOLEAN
      BY <1>0, <1>2, <1>3
    <2> QED
      BY <1>0, <1>3, <1>6, <1>8, <2>1, ThreatWrites
  <1>10. ASSUME NEW x \in Threats, threat[x].status = "archived", threat'[x].status = "active",
                Current(t)
         PROVE  about[t] = {x} /\ desk[t].outcome = "observed"
    <2>1. x = y
      BY <1>6, <1>10
    <2> QED
      BY <1>1, <1>5, <1>6, <1>7, <1>10, <2>1
  <1> QED
    BY <1>9, <1>10

LEMMA Decays ==
  ASSUME ThreatsInv, ~overlapped, NEW t \in Staff, DecayThreats(t)
  PROVE  /\ ThreatsInv'
         /\ \A x \in Threats :
              threat[x].status = "archived" /\ threat'[x].status = "active" => overlapped'
  <1>0. /\ about \in [Staff -> SUBSET (Sellers \cup Threats)]
        /\ threat \in [Threats -> ThreatRows] /\ NoRead \in [Threats -> ThreatRows]
        /\ read \in [Staff -> [Threats -> ThreatRows]] /\ revived \in BOOLEAN
        /\ RowsStand /\ ThreatsAreDistinct
    BY NoThreatTyped DEF ThreatsInv, ThreatsTyped, CallsTyped, NoRead
  <1> DEFINE Written(old, gone) ==
               [x \in Threats |->
                  IF x \in old
                  THEN [read[t][x] EXCEPT !.faint = x \in gone,
                                          !.status = IF x \in gone THEN "archived" ELSE "active"]
                  ELSE threat[x]]
  <1>a. PICK old \in SUBSET {x \in Threats : read[t][x].status = "active"} :
          \E gone \in SUBSET old : threat' = Written(old, gone)
    BY DEF DecayThreats
  <1>b. PICK gone \in SUBSET old : threat' = Written(old, gone)
    BY <1>a
  <1>1. threat' = Written(old, gone)
    BY <1>b
  <1>2. /\ desk[t].task = "decay" /\ read' = [read EXCEPT ![t] = NoRead] /\ Writes(t, NoWork)
        /\ UNCHANGED <<about, revived, responseTables>>
    BY DEF DecayThreats
  <1>3. ASSUME NEW x \in Threats
        PROVE  /\ threat'[x] \in ThreatRows
               /\ x \notin old => threat'[x] = threat[x]
               /\ x \in old => /\ threat'[x].of = read[t][x].of
                               /\ threat'[x].source = read[t][x].source
                               /\ threat'[x].status \in {"active", "archived"}
                               /\ threat'[x].status = "archived" => threat'[x].faint
    <2>1. read[t][x] \in ThreatRows /\ threat[x] \in ThreatRows
      BY <1>0
    <2>2. CASE x \notin old
      BY <1>1, <2>1, <2>2
    <2>3. CASE x \in old
      <3> DEFINE now == x \in gone
      <3>1. threat'[x] = [read[t][x] EXCEPT !.faint = now,
                                            !.status = IF now THEN "archived" ELSE "active"]
        BY <1>1, <2>3
      <3>2. now \in BOOLEAN
        OBVIOUS
      <3> HIDE DEF now
      <3> QED
        BY <2>1, <2>3, <3>1, <3>2 DEF ThreatRows
    <2> QED
      BY <2>2, <2>3
  <1>4. threat' \in [Threats -> ThreatRows]
    <2>1. threat' = [x \in Threats |-> threat'[x]]
      BY <1>1
    <2> QED
      BY <1>3, <2>1
  <1>5. ASSUME Current(t)
        PROVE  \A x \in Threats :
                 /\ threat'[x].status = "active" => threat[x].status = "active"
                 /\ threat'[x].of = threat[x].of /\ threat'[x].source = threat[x].source
    <2>1. read[t] = threat
      BY <1>2, <1>5 DEF ThreatsInv, ThreatReads
    <2>2. \A x \in old : read[t][x].status = "active"
      OBVIOUS
    <2> HIDE DEF Written
    <2> QED
      BY <1>3, <2>1, <2>2
  <1>6. ASSUME Current(t) PROVE RowsStand' /\ ThreatsAreDistinct'
    <2>1. RowsStand'
      BY <1>0, <1>3, <1>6 DEF RowsStand, Current
    <2>2. revived \/ ThreatsAreDistinct'
      BY <1>5, <1>6, NoneActivated
    <2> QED
      BY <1>2, <2>1, <2>2 DEF ThreatsAreDistinct
  <1>7. ThreatsInv' /\ (Current(t) \/ overlapped')
    <2>1. read' \in [Staff -> [Threats -> ThreatRows]]
      BY <1>0, <1>2
    <2> QED
      BY <1>0, <1>2, <1>4, <1>6, <2>1, ThreatWrites
  <1> QED
    BY <1>5, <1>7, SMTT(30)

LEMMA ThreatsStep ==
  ASSUME ThreatsInv, [ThreatsNext]_responseVars
  PROVE  ThreatsInv' /\ ArchivedStays /\ ResponseIsWithinBudget
  <1>1. ResponseIsWithinBudget
    BY DEF ThreatsInv, CallsTyped, ThreatWork, ResponseIsWithinBudget
  <1>2. CASE UNCHANGED responseVars
    <2>1. UNCHANGED <<threat, read, revived, footing, taken, made, met, raced, racing, unrecorded,
                      about, desk, outdated, overlapped, faults>>
      BY <1>2 DEF responseVars, threatTables, responseTables, callVars
    <2>2. CallsTyped(ThreatWork)' /\ FaultsTyped' /\ ThreatsTyped' /\ ResponsesRest'
      BY <2>1 DEF ThreatsInv, CallsTyped, FaultsTyped, ThreatsTyped, ResponsesRest
    <2>3. Subjects' /\ RowsStand' /\ ThreatsAreDistinct'
      BY <2>1 DEF ThreatsInv, Subjects, RowsStand, ThreatsAreDistinct, ActiveOf, Propagated
    <2>4. ASSUME NEW t \in Staff, Current(t)' PROVE ThreatReads(t)'
      <3>1. ThreatReads(t)
        BY <2>1, <2>4 DEF ThreatsInv, Current
      <3> QED
        BY <2>1, <3>1 DEF ThreatReads, ActiveOf, MayReceive, Propagated
    <2>5. ArchivedStays
      BY <2>1 DEF ArchivedStays
    <2> QED
      BY <1>1, <2>2, <2>3, <2>4, <2>5 DEF ThreatsInv
  <1>3. CASE ThreatsNext
    <2>1. PICK t \in Staff :
            \/ BeginForecast(t) \/ StoreForecast(t)
            \/ BeginReinforcement(t) \/ Reinforce(t)
            \/ BeginPropagation(t) \/ Propagate(t)
            \/ BeginThreatDecay(t) \/ DecayThreats(t)
      BY <1>3 DEF ThreatsNext
    <2>2. ~overlapped
      BY <1>3 DEF ThreatsNext
    <2>3. CASE BeginForecast(t) \/ BeginReinforcement(t) \/ BeginPropagation(t) \/ BeginThreatDecay(t)
      BY <1>1, <2>3, ThreatsBegin DEF ArchivedStays
    <2>4. CASE StoreForecast(t)
      BY <1>1, <2>2, <2>4, ForecastStored DEF ArchivedStays
    <2>5. CASE Propagate(t)
      BY <1>1, <2>2, <2>5, Propagates DEF ArchivedStays
    <2>6. CASE Reinforce(t)
      BY <1>1, <2>2, <2>6, Reinforced DEF ArchivedStays
    <2>7. CASE DecayThreats(t)
      BY <1>1, <2>2, <2>7, Decays DEF ArchivedStays
    <2> QED
      BY <2>1, <2>3, <2>4, <2>5, <2>6, <2>7
  <1> QED
    BY <1>2, <1>3

\* store_threat_forecast_db, propagate_threat_memory_db, reinforce_threat_memory_db,
\* decay_threat_memory_db: whatever calls are at work on the memories, a seller has
\* one active memory of each source, and an archived one comes back only when it is
\* observed, as long as no call has written over what it had not read.
THEOREM ThreatsStayDistinct == ThreatsSpec => ResponsesAreBounded
  <1>1. ThreatsInv => ThreatsAreDistinct
    BY DEF ThreatsInv
  <1>2. ThreatsInv /\ [ThreatsNext]_responseVars => ThreatsInv'
    BY ThreatsStep
  <1>3. ThreatsInv /\ [ThreatsNext]_responseVars => ArchivedStays /\ ResponseIsWithinBudget
    BY ThreatsStep
  <1> QED
    BY <1>1, <1>2, <1>3, ThreatsStart, PTL DEF ThreatsSpec, ResponsesAreBounded

-----------------------------------------------------------------------------
(* Responses: how many there are, and how severe.                           *)

LEMMA ResponsesAre ==
  /\ Responses = {"monitor", "reduce_exposure", "require_more_stake"}
  /\ Severity["monitor"] = 3 /\ Severity["reduce_exposure"] = 8
  /\ Severity["require_more_stake"] = 12
  /\ IsFiniteSet(Responses)
  <1>1. /\ Responses = {"monitor", "reduce_exposure", "require_more_stake"}
        /\ Severity["monitor"] = 3 /\ Severity["reduce_exposure"] = 8
        /\ Severity["require_more_stake"] = 12
    BY DEF Responses, Severity
  <1>2. IsFiniteSet({"monitor", "reduce_exposure", "require_more_stake"})
    <2>1. IsFiniteSet({"monitor"})
      BY FS_Singleton
    <2>2. IsFiniteSet({"monitor"} \cup {"reduce_exposure"})
      BY <2>1, FS_AddElement
    <2>3. IsFiniteSet(({"monitor"} \cup {"reduce_exposure"}) \cup {"require_more_stake"})
      BY <2>2, FS_AddElement
    <2>4. {"monitor", "reduce_exposure", "require_more_stake"}
            = ({"monitor"} \cup {"reduce_exposure"}) \cup {"require_more_stake"}
      OBVIOUS
    <2> QED
      BY <2>3, <2>4
  <1> QED
    BY <1>1, <1>2

LEMMA SumOfResponses ==
  ASSUME NEW w, \A a \in Responses : w[a] \in Nat
  PROVE  SumOver(w, Responses) = w["monitor"] + w["reduce_exposure"] + w["require_more_stake"]
  <1> DEFINE S3 == Responses
             S2 == S3 \ {"monitor"}
             S1 == S2 \ {"reduce_exposure"}
             S0 == S1 \ {"require_more_stake"}
  <1>1. /\ S2 \subseteq S3 /\ S1 \subseteq S3 /\ S0 = {}
        /\ "monitor" \in S3 /\ "reduce_exposure" \in S2 /\ "require_more_stake" \in S1
    BY ResponsesAre
  <1>2. IsFiniteSet(S3) /\ IsFiniteSet(S2) /\ IsFiniteSet(S1)
    BY <1>1, ResponsesAre, FS_Subset
  <1>3. \A a \in S3 : w[a] \in Nat
    OBVIOUS
  <1>4. SumOver(w, S3) = w["monitor"] + SumOver(w, S2)
    BY <1>1, <1>2, <1>3, SumWithout
  <1>5. SumOver(w, S2) = w["reduce_exposure"] + SumOver(w, S1)
    <2> HIDE DEF S2
    <2> QED
      BY <1>1, <1>2, <1>3, SumWithout
  <1>6. SumOver(w, S1) = w["require_more_stake"] + SumOver(w, S0)
    <2> HIDE DEF S1
    <2> QED
      BY <1>1, <1>2, <1>3, SumWithout
  <1>7. SumOver(w, S0) = 0
    BY <1>1, SumOfNothing
  <1>8. /\ w["monitor"] \in Nat /\ w["reduce_exposure"] \in Nat /\ w["require_more_stake"] \in Nat
    BY <1>1, <1>3
  <1> HIDE DEF S3, S2, S1, S0
  <1>9. SumOver(w, S3) = w["monitor"] + w["reduce_exposure"] + w["require_more_stake"]
    BY <1>4, <1>5, <1>6, <1>7, <1>8
  <1> QED
    BY <1>9 DEF S3

Tally == [Responses -> Nat]

LEMMA CountIs ==
  ASSUME NEW r \in Tally
  PROVE  /\ Count(r) = r["monitor"] + r["reduce_exposure"] + r["require_more_stake"]
         /\ SeverityOf(r) = 3 * r["monitor"] + 8 * r["reduce_exposure"]
                              + 12 * r["require_more_stake"]
         /\ r["monitor"] \in Nat /\ r["reduce_exposure"] \in Nat /\ r["require_more_stake"] \in Nat
         /\ Count(r) \in Nat
  <1>1. \A a \in Responses : r[a] \in Nat
    BY DEF Tally
  <1>2. r["monitor"] \in Nat /\ r["reduce_exposure"] \in Nat /\ r["require_more_stake"] \in Nat
    BY <1>1, ResponsesAre
  <1>3. Count(r) = r["monitor"] + r["reduce_exposure"] + r["require_more_stake"]
    <2>1. SumOver(r, Responses) = r["monitor"] + r["reduce_exposure"] + r["require_more_stake"]
      BY <1>1, SumOfResponses
    <2> QED
      BY <2>1 DEF Count, SumOver
  <1> DEFINE w == [a \in Responses |-> Severity[a] * r[a]]
  <1>4. /\ w["monitor"] = 3 * r["monitor"] /\ w["reduce_exposure"] = 8 * r["reduce_exposure"]
        /\ w["require_more_stake"] = 12 * r["require_more_stake"]
    BY ResponsesAre
  <1>5. \A a \in Responses : w[a] \in Nat
    <2>1. w["monitor"] \in Nat /\ w["reduce_exposure"] \in Nat /\ w["require_more_stake"] \in Nat
      BY <1>2, <1>4
    <2> HIDE DEF w
    <2> QED
      BY <2>1, ResponsesAre
  <1>6. SeverityOf(r) = SumOver(w, Responses)
    BY DEF SeverityOf, SumOver
  <1> HIDE DEF w
  <1>7. SumOver(w, Responses) = w["monitor"] + w["reduce_exposure"] + w["require_more_stake"]
    BY <1>5, SumOfResponses
  <1> QED
    BY <1>2, <1>3, <1>4, <1>6, <1>7

\* One more response of a kind, or one less.
LEMMA OneMore ==
  ASSUME NEW r \in Tally, NEW a \in Responses, NEW q \in Tally,
         \A b \in Responses : q[b] = IF b = a THEN r[b] + 1 ELSE r[b]
  PROVE  /\ Count(q) = Count(r) + 1 /\ SeverityOf(q) = SeverityOf(r) + Severity[a]
         /\ SeverityOf(r) <= SeverityOf(q) /\ q[a] = r[a] + 1
         /\ SeverityOf(r) \in Nat /\ SeverityOf(q) \in Nat /\ Severity[a] \in Nat
  <1>1. \A b \in Responses : q[b] = IF b = a THEN r[b] + 1 ELSE r[b]
    OBVIOUS
  <1>2. a \in {"monitor", "reduce_exposure", "require_more_stake"}
    BY ResponsesAre
  <1>3. /\ q["monitor"] = IF a = "monitor" THEN r["monitor"] + 1 ELSE r["monitor"]
        /\ q["reduce_exposure"] = IF a = "reduce_exposure" THEN r["reduce_exposure"] + 1
                                                           ELSE r["reduce_exposure"]
        /\ q["require_more_stake"] = IF a = "require_more_stake" THEN r["require_more_stake"] + 1
                                                                 ELSE r["require_more_stake"]
    BY <1>1, ResponsesAre
  <1>4. /\ Count(r) = r["monitor"] + r["reduce_exposure"] + r["require_more_stake"]
        /\ SeverityOf(r) = 3 * r["monitor"] + 8 * r["reduce_exposure"] + 12 * r["require_more_stake"]
        /\ r["monitor"] \in Nat /\ r["reduce_exposure"] \in Nat /\ r["require_more_stake"] \in Nat
    BY CountIs
  <1>5. /\ Count(q) = q["monitor"] + q["reduce_exposure"] + q["require_more_stake"]
        /\ SeverityOf(q) = 3 * q["monitor"] + 8 * q["reduce_exposure"] + 12 * q["require_more_stake"]
    BY CountIs
  <1>6. q[a] = r[a] + 1
    BY <1>1
  <1>7. CASE a = "monitor"
    <2>1. Severity[a] = 3
      BY <1>7, ResponsesAre
    <2>2. Count(q) = Count(r) + 1 /\ Count(r) \in Nat
      BY <1>3, <1>4, <1>5, <1>7
    <2>3. SeverityOf(q) = SeverityOf(r) + 3 /\ SeverityOf(r) \in Nat
      BY <1>3, <1>4, <1>5, <1>7
    <2> QED
      BY <1>6, <2>1, <2>2, <2>3
  <1>8. CASE a = "reduce_exposure"
    <2>1. Severity[a] = 8
      BY <1>8, ResponsesAre
    <2>2. Count(q) = Count(r) + 1 /\ Count(r) \in Nat
      BY <1>3, <1>4, <1>5, <1>8
    <2>3. SeverityOf(q) = SeverityOf(r) + 8 /\ SeverityOf(r) \in Nat
      BY <1>3, <1>4, <1>5, <1>8
    <2> QED
      BY <1>6, <2>1, <2>2, <2>3
  <1>9. CASE a = "require_more_stake"
    <2>1. Severity[a] = 12
      BY <1>9, ResponsesAre
    <2>2. Count(q) = Count(r) + 1 /\ Count(r) \in Nat
      BY <1>3, <1>4, <1>5, <1>9
    <2>3. SeverityOf(q) = SeverityOf(r) + 12 /\ SeverityOf(r) \in Nat
      BY <1>3, <1>4, <1>5, <1>9, SMTT(30)
    <2> QED
      BY <1>6, <2>1, <2>2, <2>3
  <1> QED
    BY <1>2, <1>7, <1>8, <1>9

LEMMA NoResponsesTally ==
  NoResponses \in Tally /\ Count(NoResponses) = 0 /\ SeverityOf(NoResponses) = 0
  <1>1. NoResponses \in Tally /\ \A a \in Responses : NoResponses[a] = 0
    BY DEF NoResponses, Tally
  <1> QED
    BY <1>1, CountIs, ResponsesAre

\* The responses to all sellers, when those to one of them change.
LEMMA ToAllMoves ==
  ASSUME NEW x \in [Sellers -> Tally], NEW y \in [Sellers -> Tally], NEW s \in Sellers,
         \A r \in Sellers : r # s => y[r] = x[r]
  PROVE  /\ ToAll(y) + Count(x[s]) = ToAll(x) + Count(y[s])
         /\ ToAll(x) \in Nat /\ ToAll(y) \in Nat
  <1> DEFINE v == [r \in Sellers |-> Count(x[r])]
             w == [r \in Sellers |-> Count(y[r])]
             R == Sellers \ {s}
  <1>1. /\ \A r \in Sellers : v[r] \in Nat /\ w[r] \in Nat
        /\ v[s] = Count(x[s]) /\ w[s] = Count(y[s])
        /\ \A r \in R : v[r] = w[r]
    <2>1. \A r \in Sellers : x[r] \in Tally /\ y[r] \in Tally
      OBVIOUS
    <2> QED
      BY <2>1, CountIs
  <1>2. ToAll(x) = SumOver(v, Sellers) /\ ToAll(y) = SumOver(w, Sellers)
    BY DEF ToAll, SumOver
  <1> HIDE DEF v, w
  <1>3. IsFiniteSet(Sellers) /\ IsFiniteSet(R)
    BY ResponsesAssumption, FS_Subset
  <1>4. SumOver(v, Sellers) = v[s] + SumOver(v, R)
    BY <1>1, <1>3, SumWithout
  <1>5. SumOver(w, Sellers) = w[s] + SumOver(w, R)
    BY <1>1, <1>3, SumWithout
  <1>6. SumOver(v, R) = SumOver(w, R)
    <2> HIDE DEF R
    <2> QED
      BY <1>1, <1>3, SumsAgree
  <1>7. SumOver(v, R) \in Nat
    BY <1>1, <1>3, SumType
  <1> HIDE DEF R
  <1>8. v[s] \in Nat /\ w[s] \in Nat
    BY <1>1
  <1> QED
    BY <1>1, <1>2, <1>4, <1>5, <1>6, <1>7, <1>8

-----------------------------------------------------------------------------
(* Responses: the invariant.                                                *)

ResponseWork ==
  [task : {"none", "turn", "respond", "record"}, outcome : Responses \cup {NoThreatRow, "none"},
   left : {0, 10, 25, 100}]

\* The responses move and the memories do not.
ResponsesSpec == ResponsesInit /\ [][ResponsesNext]_responseVars

ThreatsRest ==
  threat = NoRead /\ read = [t \in Staff |-> NoRead] /\ revived = FALSE

BooksTyped ==
  /\ footing \in [Sellers -> {"clear", "watched", "threatened", "ruled_out"}]
  /\ taken \in [Sellers -> Tally]
  /\ made \in [Sellers -> [Responses -> Int]]
  /\ about \in [Staff -> SUBSET Sellers]
  /\ met \in SUBSET Sellers /\ raced \in SUBSET Sellers /\ unrecorded \in SUBSET Sellers
  /\ racing \in BOOLEAN

\* A turn is about one seller, and about a response once it has passed the check.
Turns ==
  \A t \in Staff :
    /\ IF desk[t].task = "none" THEN about[t] = {} ELSE \E s \in Sellers : about[t] = {s}
    /\ desk[t].task \in {"respond", "record"} =>
         desk[t].outcome \in Responses /\ desk[t].left \in {10, 25, 100}

\* The sets note every meeting and every race.
Meetings ==
  /\ raced \subseteq met
  /\ \A s \in Sellers \ met : \A t, u \in TurnsAbout(s) : t = u
  /\ \A s \in Sellers \ raced : \A t, u \in TurnsAbout(s) \cap Responding : t = u
  /\ ~racing => raced = {} /\ \A t, u \in Responding : t = u

\* Of a seller without races and deaths, what was made was recorded, but for the
\* response that is about to be.
Books(s) ==
  /\ (\A t \in TurnsAbout(s) : desk[t].task # "record") => made[s] = taken[s]
  /\ \A t \in TurnsAbout(s) :
       desk[t].task = "record" => made[s] = [taken[s] EXCEPT ![desk[t].outcome] = @ + 1]

\* What the check found is still so: nothing about the seller can have come since.
WithinOwn(s) ==
  \A t \in TurnsAbout(s) :
    desk[t].task = "respond" /\ desk[t].left < 100 =>
      /\ taken[s][desk[t].outcome] = 0
      /\ SeverityOf(taken[s]) + Severity[desk[t].outcome] <= desk[t].left

WithinAll ==
  ~racing /\ unrecorded = {} =>
    \A t \in Staff :
      desk[t].task = "respond" /\ desk[t].left < 100 =>
        ToAll(taken) < GlobalLimit(desk[t].left)

ResponsesInv ==
  /\ CallsTyped(ResponseWork) /\ FaultsTyped /\ BooksTyped /\ ThreatsRest
  /\ Turns /\ Meetings
  /\ \A s \in Sellers \ (raced \cup unrecorded) : Books(s) /\ WithinOwn(s)
  /\ \A s \in Sellers \ (met \cup unrecorded) :
       TurnsAbout(s) # {} => taken[s] = NoResponses
  /\ WithinAll

LEMMA NoWorkResponse == NoWork \in ResponseWork /\ NoWork.task = "none"
  BY DEF NoWork, Work, ResponseWork

LEMMA TallyIsInt == Tally \subseteq [Responses -> Int]
  BY DEF Tally

LEMMA ResponsesStart == ResponsesInit => ResponsesInv
  <1> SUFFICES ASSUME ResponsesInit PROVE ResponsesInv
    OBVIOUS
  <1>1. /\ desk = [t \in Staff |-> NoWork] /\ outdated = {} /\ overlapped = FALSE /\ faults = 0
        /\ about = [t \in Staff |-> {}] /\ taken = [s \in Sellers |-> NoResponses]
        /\ made = taken /\ met = {} /\ raced = {} /\ racing = FALSE /\ unrecorded = {}
        /\ footing = [s \in Sellers |-> "clear"]
    BY DEF ResponsesInit, CallsInit
  <1>2. CallsTyped(ResponseWork)
    BY <1>1, NoWorkResponse DEF CallsTyped
  <1>3. FaultsTyped
    BY <1>1, FaultsAssumption DEF FaultsTyped
  <1>4. BooksTyped
    BY <1>1, NoResponsesTally, TallyIsInt DEF BooksTyped
  <1>5. ThreatsRest
    BY DEF ResponsesInit, ThreatsRest
  <1>6. /\ \A t \in Staff : desk[t].task = "none" /\ about[t] = {}
        /\ \A s \in Sellers : TurnsAbout(s) = {} /\ made[s] = taken[s]
        /\ Responding = {}
    BY <1>1, NoWorkResponse DEF TurnsAbout, Responding
  <1> QED
    BY <1>1, <1>2, <1>3, <1>4, <1>5, <1>6
       DEF ResponsesInv, Turns, Meetings, Books, WithinOwn, WithinAll

-----------------------------------------------------------------------------
(* Responses: the steps.                                                    *)

\* Of the others, a turn changes neither the desk nor the seller it is about.
Others(t) ==
  \A u \in Staff : u # t => desk'[u] = desk[u] /\ about'[u] = about[u]

LEMMA TurnBegins ==
  ASSUME ResponsesInv, NEW t \in Staff, BeginTurn(t)
  PROVE  ResponsesInv'
  <1>0. /\ CallsTyped(ResponseWork) /\ FaultsTyped /\ BooksTyped /\ Turns /\ Meetings
        /\ ThreatsRest /\ WithinAll
    BY DEF ResponsesInv
  <1>1. PICK s \in Sellers :
          /\ taken[s] = NoResponses
          /\ about' = [about EXCEPT ![t] = {s}]
          /\ met' = met \cup {r \in {s} : TurnsAbout(r) # {}}
    BY DEF BeginTurn
  <1>2. /\ Takes(t, Work("turn", NoThreatRow, 0))
        /\ UNCHANGED <<threatTables, footing, taken, made, raced, racing, unrecorded>>
    BY DEF BeginTurn
  <1> DEFINE work == Work("turn", NoThreatRow, 0)
  <1>3. work \in ResponseWork /\ work.task = "turn"
    BY DEF Work, ResponseWork
  <1> HIDE DEF work
  <1>4. /\ CallsTyped(ResponseWork)' /\ FaultsTyped' /\ desk'[t] = work /\ t \notin Busy
        /\ \A u \in Staff : u # t => desk'[u] = desk[u]
    BY <1>0, <1>2, <1>3, TakesEffect DEF work
  <1>5. desk[t].task = "none" /\ about[t] = {}
    BY <1>0, <1>4, NoWorkResponse DEF Busy, Turns
  <1>6. Others(t) /\ about'[t] = {s} /\ desk'[t].task = "turn"
    BY <1>0, <1>1, <1>3, <1>4 DEF Others, BooksTyped
  <1>7. /\ Responding' = Responding
        /\ TurnsAbout(s)' = TurnsAbout(s) \cup {t}
        /\ \A r \in Sellers : r # s => TurnsAbout(r)' = TurnsAbout(r)
    BY <1>0, <1>5, <1>6 DEF Others, TurnsAbout, Responding
  <1>8. BooksTyped' /\ ThreatsRest'
    BY <1>0, <1>1, <1>2 DEF BooksTyped, ThreatsRest, threatTables
  <1>9. Turns'
    BY <1>0, <1>1, <1>6 DEF Turns, Others
  <1>10. Meetings'
    <2>1. \A r \in Sellers \ met' : \A v, u \in TurnsAbout(r)' : v = u
      BY <1>0, <1>1, <1>7 DEF Meetings
    <2>2. \A r \in Sellers : TurnsAbout(r)' \cap Responding' = TurnsAbout(r) \cap Responding
      BY <1>5, <1>7 DEF Responding
    <2> QED
      BY <1>0, <1>1, <1>2, <1>7, <2>1, <2>2 DEF Meetings
  <1>11. ASSUME NEW r \in Sellers \ (raced' \cup unrecorded') PROVE Books(r)' /\ WithinOwn(r)'
    <2>1. Books(r) /\ WithinOwn(r) /\ made'[r] = made[r] /\ taken'[r] = taken[r]
      BY <1>2 DEF ResponsesInv
    <2>2. \A u \in TurnsAbout(r)' : u = t \/ (u \in TurnsAbout(r) /\ desk'[u] = desk[u])
      BY <1>6, <1>7 DEF Others, TurnsAbout
    <2>3. (\A u \in TurnsAbout(r)' : desk'[u].task # "record")
            => (\A u \in TurnsAbout(r) : desk[u].task # "record")
      <3>1. \A u \in TurnsAbout(r) : u # t /\ u \in TurnsAbout(r)' /\ desk'[u] = desk[u]
        BY <1>5, <1>6, <1>7 DEF Others, TurnsAbout
      <3> QED
        BY <3>1
    <2>4. Books(r)'
      BY <1>6, <2>1, <2>2, <2>3 DEF Books
    <2>5. WithinOwn(r)'
      BY <1>6, <2>1, <2>2 DEF WithinOwn
    <2> QED
      BY <2>4, <2>5
  <1>12. \A r \in Sellers \ (met' \cup unrecorded') :
           TurnsAbout(r)' # {} => taken'[r] = NoResponses
    BY <1>1, <1>2, <1>7 DEF ResponsesInv
  <1>13. WithinAll'
    <2>1. ToAll(taken') = ToAll(taken)
      BY <1>2
    <2> QED
      BY <1>0, <1>2, <1>6, <2>1 DEF WithinAll, Others, GlobalLimit
  <1> QED
    BY <1>4, <1>8, <1>9, <1>10, <1>11, <1>12, <1>13 DEF ResponsesInv

LEMMA BudgetIs ==
  ASSUME NEW mode
  PROVE  Budget(mode) \in {10, 25, 100} /\ (Budget(mode) < 100 => mode # "override")
  BY DEF Budget

LEMMA TurnPasses ==
  ASSUME ResponsesInv, NEW t \in Staff, Authorize(t)
  PROVE  ResponsesInv'
  <1>0. /\ CallsTyped(ResponseWork) /\ FaultsTyped /\ BooksTyped /\ Turns /\ Meetings
        /\ ThreatsRest /\ WithinAll
    BY DEF ResponsesInv
  <1>1. PICK s \in Sellers : about[t] = {s}
    BY <1>0 DEF Authorize, Turns
  <1>2. PICK a \in Responses, mode \in Modes(s) :
          /\ Safe(s, a, mode)
          /\ desk' = [desk EXCEPT ![t] = Work("respond", a, Budget(mode))]
          /\ raced' = raced \cup {r \in {s} : TurnsAbout(r) \cap Responding # {}}
    BY <1>1 DEF Authorize
  <1>3. /\ desk[t].task = "turn" /\ racing' = (racing \/ Responding # {})
        /\ UNCHANGED <<threatTables, footing, taken, made, met, unrecorded, about,
                       outdated, overlapped, faults>>
    BY DEF Authorize
  <1> DEFINE work == Work("respond", a, Budget(mode))
  <1>4. work \in ResponseWork /\ work.task = "respond" /\ work.outcome = a
        /\ work.left = Budget(mode) /\ work.left \in {10, 25, 100}
    BY BudgetIs DEF Work, ResponseWork
  <1> HIDE DEF work
  <1>5. /\ desk' \in [Staff -> ResponseWork] /\ desk'[t] = work
        /\ \A u \in Staff : u # t => desk'[u] = desk[u]
    BY <1>0, <1>2, <1>4 DEF CallsTyped, work
  <1>6. CallsTyped(ResponseWork)' /\ FaultsTyped' /\ BooksTyped' /\ ThreatsRest'
    BY <1>0, <1>2, <1>3, <1>5 DEF CallsTyped, FaultsTyped, BooksTyped, ThreatsRest, threatTables
  <1>7. Turns'
    BY <1>0, <1>1, <1>3, <1>4, <1>5 DEF Turns
  <1>8. /\ Responding' = Responding \cup {t} /\ t \notin Responding
        /\ \A r \in Sellers : TurnsAbout(r)' = TurnsAbout(r)
        /\ t \in TurnsAbout(s) /\ \A r \in Sellers : t \in TurnsAbout(r) => r = s
    BY <1>1, <1>3, <1>4, <1>5 DEF Responding, TurnsAbout
  <1>9. Meetings'
    <2>1. raced' \subseteq met'
      <3>1. TurnsAbout(s) \cap Responding # {} => s \in met
        BY <1>0, <1>8 DEF Meetings
      <3> QED
        BY <1>0, <1>2, <1>3, <3>1 DEF Meetings
    <2>2. \A r \in Sellers \ raced' : \A v, u \in TurnsAbout(r)' \cap Responding' : v = u
      BY <1>0, <1>2, <1>8 DEF Meetings
    <2>3. ~racing' => raced' = {} /\ \A v, u \in Responding' : v = u
      <3> SUFFICES ASSUME ~racing' PROVE raced' = {} /\ \A v, u \in Responding' : v = u
        OBVIOUS
      <3>1. ~racing /\ Responding = {}
        BY <1>3
      <3>2. raced = {} /\ Responding' = {t}
        BY <1>0, <1>8, <3>1 DEF Meetings
      <3> QED
        BY <1>2, <3>1, <3>2
    <2> QED
      BY <1>0, <1>3, <1>8, <2>1, <2>2, <2>3 DEF Meetings
  <1>10. ASSUME NEW r \in Sellers \ (raced' \cup unrecorded') PROVE Books(r)' /\ WithinOwn(r)'
    <2>1. Books(r) /\ WithinOwn(r) /\ made'[r] = made[r] /\ taken'[r] = taken[r]
      BY <1>2, <1>3 DEF ResponsesInv
    <2>2. \A u \in TurnsAbout(r) : u = t \/ (u # t /\ u \in Staff /\ desk'[u] = desk[u])
      BY <1>5 DEF TurnsAbout
    <2>3. \A u \in TurnsAbout(r) : desk'[u].task = "record" <=> desk[u].task = "record"
      BY <1>3, <1>4, <1>5, <2>2
    <2>4. Books(r)'
      <3>1. \A u \in TurnsAbout(r) : desk[u].task = "record" => desk'[u] = desk[u]
        BY <1>3, <2>2
      <3> QED
        BY <1>8, <2>1, <2>3, <3>1 DEF Books
    <2>5. ASSUME NEW u \in TurnsAbout(r), desk'[u].task = "respond", desk'[u].left < 100
          PROVE  /\ taken[r][desk'[u].outcome] = 0
                 /\ SeverityOf(taken[r]) + Severity[desk'[u].outcome] <= desk'[u].left
      <3>1. CASE u = t
        <4>1. r = s /\ Safe(s, a, mode) /\ mode # "override"
          BY <1>2, <1>4, <1>5, <1>8, <2>5, <3>1, BudgetIs
        <4> QED
          BY <1>4, <1>5, <3>1, <4>1 DEF Safe
      <3>2. CASE u # t
        BY <2>1, <2>2, <2>5, <3>2 DEF WithinOwn
      <3> QED
        BY <3>1, <3>2
    <2>6. WithinOwn(r)'
      <3>1. SeverityOf(taken'[r]) = SeverityOf(taken[r])
        BY <1>3
      <3> QED
        BY <1>3, <1>8, <2>5 DEF WithinOwn
    <2> QED
      BY <2>4, <2>6
  <1>11. \A r \in Sellers \ (met' \cup unrecorded') :
           TurnsAbout(r)' # {} => taken'[r] = NoResponses
    BY <1>3, <1>8 DEF ResponsesInv
  <1>12. WithinAll'
    <2> SUFFICES ASSUME ~racing', unrecorded' = {}, NEW u \in Staff, desk'[u].task = "respond",
                        desk'[u].left < 100
                 PROVE  ToAll(taken') < GlobalLimit(desk'[u].left)
      BY DEF WithinAll
    <2>1. Responding = {} /\ taken' = taken
      BY <1>3
    <2>2. u = t
      BY <1>5, <2>1 DEF Responding
    <2>3. mode # "override"
      BY <1>4, <1>5, <2>2, BudgetIs
    <2> QED
      BY <1>2, <1>4, <1>5, <2>1, <2>2, <2>3 DEF Safe
  <1> QED
    BY <1>6, <1>7, <1>9, <1>10, <1>11, <1>12 DEF ResponsesInv

\* A turn ends, whatever it leaves behind.
LEMMA TurnEnds ==
  ASSUME ResponsesInv, NEW t \in Staff, Leaves(t), about' = [about EXCEPT ![t] = {}],
         UNCHANGED <<threatTables, footing, met, raced, racing>>,
         FaultsTyped',
         taken' \in [Sellers -> Tally], made' \in [Sellers -> [Responses -> Int]],
         unrecorded' \in SUBSET Sellers,
         \A s \in Sellers \ (raced' \cup unrecorded') : Books(s)' /\ WithinOwn(s)',
         \A s \in Sellers \ (met' \cup unrecorded') :
           TurnsAbout(s)' # {} => taken'[s] = NoResponses,
         WithinAll'
  PROVE  ResponsesInv'
  <1>0. /\ CallsTyped(ResponseWork) /\ BooksTyped /\ Turns /\ Meetings /\ ThreatsRest
    BY DEF ResponsesInv
  <1>1. /\ CallsTyped(ResponseWork)' /\ desk'[t] = NoWork
        /\ \A u \in Staff : u # t => desk'[u] = desk[u]
    BY <1>0, LeavesEffect, NoWorkResponse
  <1>2. BooksTyped' /\ ThreatsRest'
    BY <1>0 DEF BooksTyped, ThreatsRest, threatTables
  <1>3. \A u \in Staff : IF u = t THEN about'[u] = {} ELSE about'[u] = about[u]
    BY <1>0 DEF BooksTyped
  <1>4. Turns'
    BY <1>0, <1>1, <1>3, NoWorkResponse DEF Turns
  <1>5. /\ \A s \in Sellers : TurnsAbout(s)' \subseteq TurnsAbout(s)
        /\ Responding' \subseteq Responding
    BY <1>1, <1>3, NoWorkResponse DEF TurnsAbout, Responding
  <1>6. Meetings'
    BY <1>0, <1>5 DEF Meetings
  <1> QED
    BY <1>1, <1>2, <1>4, <1>6 DEF ResponsesInv

\* The desks, the sellers and the books after a turn has ended that recorded
\* nothing.
LEMMA EndsQuietly ==
  ASSUME ResponsesInv, NEW t \in Staff, Leaves(t), about' = [about EXCEPT ![t] = {}],
         UNCHANGED <<taken, made>>
  PROVE  /\ \A s \in Sellers : t \notin TurnsAbout(s)' /\ TurnsAbout(s)' = TurnsAbout(s) \ {t}
         /\ \A s \in Sellers : \A u \in TurnsAbout(s)' : desk'[u] = desk[u]
         /\ \A s \in Sellers \ (raced \cup unrecorded) : WithinOwn(s)'
         /\ \A s \in Sellers \ (raced \cup unrecorded) :
              t \notin TurnsAbout(s) \/ desk[t].task # "record" => Books(s)'
         /\ \A s \in Sellers \ (met \cup unrecorded) :
              TurnsAbout(s)' # {} => taken'[s] = NoResponses
         /\ ~racing /\ unrecorded = {} =>
              \A u \in Staff :
                desk'[u].task = "respond" /\ desk'[u].left < 100 =>
                  ToAll(taken') < GlobalLimit(desk'[u].left)
  <1>0. /\ CallsTyped(ResponseWork) /\ BooksTyped /\ Turns /\ Meetings /\ WithinAll
    BY DEF ResponsesInv
  <1>1. /\ desk'[t] = NoWork /\ \A u \in Staff : u # t => desk'[u] = desk[u]
    BY <1>0, LeavesEffect, NoWorkResponse
  <1>2. \A u \in Staff : IF u = t THEN about'[u] = {} ELSE about'[u] = about[u]
    BY <1>0 DEF BooksTyped
  <1>3. /\ \A s \in Sellers : t \notin TurnsAbout(s)' /\ TurnsAbout(s)' = TurnsAbout(s) \ {t}
        /\ \A s \in Sellers : \A u \in TurnsAbout(s)' : desk'[u] = desk[u]
    BY <1>1, <1>2 DEF TurnsAbout
  <1>4. ASSUME NEW s \in Sellers \ (raced \cup unrecorded) PROVE WithinOwn(s)'
    <2>1. WithinOwn(s) /\ SeverityOf(taken'[s]) = SeverityOf(taken[s])
      BY DEF ResponsesInv
    <2> QED
      BY <1>3, <2>1 DEF WithinOwn
  <1>5. ASSUME NEW s \in Sellers \ (raced \cup unrecorded),
               t \notin TurnsAbout(s) \/ desk[t].task # "record"
        PROVE  Books(s)'
    <2>1. Books(s) /\ made'[s] = made[s] /\ taken'[s] = taken[s]
      BY DEF ResponsesInv
    <2>2. (\A u \in TurnsAbout(s)' : desk'[u].task # "record")
            => (\A u \in TurnsAbout(s) : desk[u].task # "record")
      BY <1>3, <1>5
    <2> QED
      BY <1>3, <2>1, <2>2 DEF Books
  <1>6. \A s \in Sellers \ (met \cup unrecorded) :
          TurnsAbout(s)' # {} => taken'[s] = NoResponses
    BY <1>3 DEF ResponsesInv
  <1>7. ASSUME ~racing, unrecorded = {}, NEW u \in Staff, desk'[u].task = "respond",
               desk'[u].left < 100
        PROVE  ToAll(taken') < GlobalLimit(desk'[u].left)
    <2>1. u # t
      BY <1>1, <1>7, NoWorkResponse
    <2>2. desk'[u] = desk[u] /\ ToAll(taken') = ToAll(taken)
      BY <1>1, <2>1
    <2> QED
      BY <1>0, <1>7, <2>2 DEF WithinAll
  <1> QED
    BY <1>3, <1>4, <1>5, <1>6, <1>7

LEMMA TurnForgone ==
  ASSUME ResponsesInv, NEW t \in Staff, Forgo(t)
  PROVE  ResponsesInv'
  <1>1. /\ Leaves(t) /\ about' = [about EXCEPT ![t] = {}] /\ desk[t].task = "turn"
        /\ UNCHANGED <<threatTables, footing, taken, made, met, raced, racing, unrecorded, faults>>
    BY DEF Forgo, responseTables
  <1>2. /\ BooksTyped /\ FaultsTyped
    BY DEF ResponsesInv
  <1>3. FaultsTyped' /\ taken' \in [Sellers -> Tally] /\ made' \in [Sellers -> [Responses -> Int]]
        /\ unrecorded' \in SUBSET Sellers
    BY <1>1, <1>2 DEF BooksTyped, FaultsTyped
  <1>4. /\ \A s \in Sellers \ (raced' \cup unrecorded') : Books(s)' /\ WithinOwn(s)'
        /\ \A s \in Sellers \ (met' \cup unrecorded') :
             TurnsAbout(s)' # {} => taken'[s] = NoResponses
    BY <1>1, EndsQuietly
  <1>5. WithinAll'
    BY <1>1, EndsQuietly DEF WithinAll
  <1> QED
    BY <1>1, <1>3, <1>4, <1>5, TurnEnds

LEMMA TurnDying ==
  ASSUME ResponsesInv, NEW t \in Staff, TurnDies(t)
  PROVE  ResponsesInv'
  <1>1. /\ Leaves(t) /\ about' = [about EXCEPT ![t] = {}] /\ Fault
        /\ desk[t].task = "record" /\ unrecorded' = unrecorded \cup about[t]
        /\ UNCHANGED <<threatTables, footing, taken, made, met, raced, racing>>
    BY DEF TurnDies
  <1>2. /\ BooksTyped /\ FaultsTyped
    BY DEF ResponsesInv
  <1>3. FaultsTyped' /\ taken' \in [Sellers -> Tally] /\ made' \in [Sellers -> [Responses -> Int]]
        /\ unrecorded' \in SUBSET Sellers
    BY <1>1, <1>2, FaultTyped DEF BooksTyped
  <1>4. PICK s \in Sellers : about[t] = {s}
    BY <1>1 DEF ResponsesInv, Turns
  <1>5. ASSUME NEW r \in Sellers \ (raced' \cup unrecorded') PROVE Books(r)' /\ WithinOwn(r)'
    <2>1. r \in Sellers \ (raced \cup unrecorded) /\ t \notin TurnsAbout(r)
      BY <1>1, <1>4 DEF TurnsAbout
    <2> QED
      BY <1>1, <2>1, EndsQuietly
  <1>6. \A r \in Sellers \ (met' \cup unrecorded') :
          TurnsAbout(r)' # {} => taken'[r] = NoResponses
    BY <1>1, EndsQuietly
  <1>7. WithinAll'
    BY <1>1, <1>4 DEF WithinAll
  <1> QED
    BY <1>1, <1>3, <1>5, <1>6, <1>7, TurnEnds

LEMMA TurnRecords ==
  ASSUME ResponsesInv, NEW t \in Staff, RecordApplied(t)
  PROVE  ResponsesInv'
  <1>0. /\ CallsTyped(ResponseWork) /\ BooksTyped /\ FaultsTyped /\ Turns /\ Meetings /\ WithinAll
    BY DEF ResponsesInv
  <1>1. /\ Leaves(t) /\ about' = [about EXCEPT ![t] = {}] /\ desk[t].task = "record"
        /\ UNCHANGED <<threatTables, footing, made, met, raced, racing, unrecorded, faults>>
    BY DEF RecordApplied
  <1>2. PICK s \in Sellers : about[t] = {s}
    BY <1>0, <1>1 DEF Turns
  <1> DEFINE a == desk[t].outcome
  <1>3. a \in Responses
    BY <1>0, <1>1 DEF Turns
  <1>4. taken' = [taken EXCEPT ![s] = [taken[s] EXCEPT ![a] = @ + 1]]
    BY <1>2 DEF RecordApplied
  <1> HIDE DEF a
  <1>5. /\ taken'[s] = [taken[s] EXCEPT ![a] = @ + 1]
        /\ \A r \in Sellers : r # s => taken'[r] = taken[r]
        /\ taken' \in [Sellers -> Tally] /\ made' \in [Sellers -> [Responses -> Int]]
        /\ unrecorded' \in SUBSET Sellers /\ FaultsTyped'
    <2>1. [taken[s] EXCEPT ![a] = @ + 1] \in Tally
      BY <1>0, <1>3 DEF BooksTyped, Tally
    <2> QED
      BY <1>0, <1>1, <1>4, <2>1 DEF BooksTyped, FaultsTyped
  <1>6. /\ desk'[t] = NoWork /\ \A u \in Staff : u # t => desk'[u] = desk[u]
    BY <1>0, <1>1, LeavesEffect, NoWorkResponse
  <1>7. \A u \in Staff : IF u = t THEN about'[u] = {} ELSE about'[u] = about[u]
    BY <1>0, <1>1 DEF BooksTyped
  <1>8. /\ \A r \in Sellers : TurnsAbout(r)' = TurnsAbout(r) \ {t}
        /\ \A r \in Sellers : \A u \in TurnsAbout(r)' : desk'[u] = desk[u]
        /\ t \in TurnsAbout(s) /\ t \in Responding
        /\ \A r \in Sellers : r # s => t \notin TurnsAbout(r)
    BY <1>1, <1>2, <1>6, <1>7 DEF TurnsAbout, Responding
  <1>9. ASSUME NEW r \in Sellers \ (raced' \cup unrecorded') PROVE Books(r)' /\ WithinOwn(r)'
    <2>1. Books(r) /\ WithinOwn(r) /\ made'[r] = made[r] /\ r \in Sellers \ raced
      BY <1>1 DEF ResponsesInv
    <2>2. CASE r = s
      <3>1. \A u \in TurnsAbout(s)' : u \notin Responding
        BY <1>0, <1>8, <2>1, <2>2 DEF Meetings
      <3>2. \A u \in TurnsAbout(s)' : desk'[u].task \notin {"respond", "record"}
        BY <1>8, <3>1 DEF Responding, TurnsAbout
      <3>3. made[s] = taken'[s]
        BY <1>1, <1>5, <1>8, <2>1, <2>2 DEF Books, a
      <3> QED
        BY <2>1, <2>2, <3>2, <3>3 DEF Books, WithinOwn
    <2>3. CASE r # s
      <3>0. t \notin TurnsAbout(r) /\ TurnsAbout(r)' = TurnsAbout(r) \ {t} /\ taken'[r] = taken[r]
        BY <1>5, <1>8, <2>3
      <3>1. TurnsAbout(r)' = TurnsAbout(r) /\ taken'[r] = taken[r]
        BY <3>0
      <3>2. Books(r)'
        BY <1>8, <2>1, <3>1 DEF Books
      <3>3. SeverityOf(taken'[r]) = SeverityOf(taken[r])
        BY <3>1
      <3>4. WithinOwn(r)'
        BY <1>8, <2>1, <3>1, <3>3 DEF WithinOwn
      <3> QED
        BY <3>2, <3>4
    <2> QED
      BY <2>2, <2>3
  <1>10. ASSUME NEW r \in Sellers \ (met' \cup unrecorded'), TurnsAbout(r)' # {}
         PROVE  taken'[r] = NoResponses
    <2>1. r \in Sellers \ (met \cup unrecorded) /\ TurnsAbout(r) # {}
      BY <1>1, <1>8, <1>10
    <2>2. r # s
      BY <1>0, <1>8, <1>10, <2>1 DEF Meetings
    <2> QED
      BY <1>5, <2>1, <2>2 DEF ResponsesInv
  <1>11. WithinAll'
    <2> SUFFICES ASSUME ~racing, NEW u \in Staff, desk'[u].task = "respond" PROVE FALSE
      BY <1>1 DEF WithinAll
    <2>1. u # t
      BY <1>6, NoWorkResponse
    <2>2. u \in Responding
      BY <1>6, <2>1 DEF Responding
    <2> QED
      BY <1>0, <1>8, <2>1, <2>2 DEF Meetings
  <1> QED
    BY <1>1, <1>5, <1>9, <1>10, <1>11, TurnEnds

\* The event is made: what the check found is what it is held to.
LEMMA TurnResponds ==
  ASSUME ResponsesInv, NEW t \in Staff, Respond(t)
  PROVE  /\ ResponsesInv'
         /\ \E s \in Sellers :
              /\ about[t] = {s}
              /\ \A u \in Staff : u # t => desk'[u] = desk[u]
              /\ s \notin raced \cup unrecorded /\ desk[t].left < 100 =>
                   /\ made'[s][desk[t].outcome] = 1
                   /\ SeverityOf(made'[s]) <= desk[t].left
              /\ ~racing /\ unrecorded = {} /\ desk[t].left < 100 =>
                   ToAll(made') <= GlobalLimit(desk[t].left)
              /\ s \notin met \cup unrecorded => Count(made'[s]) = 1
  <1>0. /\ CallsTyped(ResponseWork) /\ BooksTyped /\ FaultsTyped /\ Turns /\ Meetings /\ WithinAll
        /\ ThreatsRest
    BY DEF ResponsesInv
  <1>1. /\ desk[t].task = "respond" /\ desk' = [desk EXCEPT ![t].task = "record"]
        /\ UNCHANGED <<threatTables, taken, met, raced, racing, unrecorded, about,
                       outdated, overlapped, faults>>
    BY DEF Respond
  <1>2. PICK s \in Sellers : about[t] = {s}
    BY <1>0, <1>1 DEF Turns
  <1> DEFINE a == desk[t].outcome
  <1>3. a \in Responses /\ desk[t].left \in {10, 25, 100}
    BY <1>0, <1>1 DEF Turns
  <1>4. /\ made' = [made EXCEPT ![s] = [made[s] EXCEPT ![a] = @ + 1]]
        /\ \E next \in {footing[s]} \cup
             (IF footing[s] = "threatened" THEN {} ELSE {"clear", "watched"}) :
             footing' = [footing EXCEPT ![s] = next]
    BY <1>2 DEF Respond
  <1>5. /\ desk' \in [Staff -> ResponseWork] /\ desk'[t] = [desk[t] EXCEPT !.task = "record"]
        /\ desk'[t].task = "record" /\ desk'[t].outcome = a /\ desk'[t].left = desk[t].left
        /\ \A u \in Staff : u # t => desk'[u] = desk[u]
    <2>1. desk[t] \in ResponseWork /\ desk \in [Staff -> ResponseWork]
      BY <1>0 DEF CallsTyped
    <2>2. desk'[t] = [desk[t] EXCEPT !.task = "record"]
      BY <1>1, <2>1
    <2>3. [desk[t] EXCEPT !.task = "record"] \in ResponseWork
      BY <2>1 DEF ResponseWork
    <2>4. desk'[t].task = "record" /\ desk'[t].outcome = a /\ desk'[t].left = desk[t].left
      BY <2>1, <2>2 DEF ResponseWork
    <2>5. DOMAIN desk' = Staff /\ \A u \in Staff : u # t => desk'[u] = desk[u]
      BY <1>1, <2>1
    <2>6. desk' = [u \in Staff |-> desk'[u]]
      BY <1>1, <2>1
    <2>7. \A u \in Staff : desk'[u] \in ResponseWork
      BY <2>1, <2>2, <2>3, <2>5
    <2>8. desk' \in [Staff -> ResponseWork]
      BY <2>6, <2>7
    <2> QED
      BY <2>2, <2>4, <2>5, <2>8
  <1> HIDE DEF a
  <1>6. /\ made'[s] = [made[s] EXCEPT ![a] = @ + 1]
        /\ \A r \in Sellers : r # s => made'[r] = made[r]
        /\ made' \in [Sellers -> [Responses -> Int]]
    <2>1. [made[s] EXCEPT ![a] = @ + 1] \in [Responses -> Int]
      <3>1. made[s] \in [Responses -> Int]
        BY <1>0 DEF BooksTyped
      <3> QED
        BY <1>3, <3>1
    <2> QED
      BY <1>0, <1>4, <2>1 DEF BooksTyped
  <1>7. CallsTyped(ResponseWork)' /\ FaultsTyped' /\ ThreatsRest'
    BY <1>0, <1>1, <1>5 DEF CallsTyped, FaultsTyped, ThreatsRest, threatTables
  <1>8. BooksTyped'
    BY <1>0, <1>1, <1>4, <1>6 DEF BooksTyped
  <1>9. Turns'
    BY <1>0, <1>1, <1>2, <1>3, <1>5 DEF Turns
  <1>10. /\ Responding' = Responding /\ t \in Responding
         /\ \A r \in Sellers : TurnsAbout(r)' = TurnsAbout(r)
         /\ t \in TurnsAbout(s) /\ \A r \in Sellers : r # s => t \notin TurnsAbout(r)
    BY <1>1, <1>2, <1>5 DEF Responding, TurnsAbout
  <1>11. Meetings'
    BY <1>0, <1>1, <1>10 DEF Meetings
  <1>12. ASSUME NEW r \in Sellers \ (raced \cup unrecorded) PROVE Books(r) /\ WithinOwn(r)
    BY DEF ResponsesInv
  <1>13. ASSUME s \notin raced \cup unrecorded
         PROVE  made[s] = taken[s] /\ \A u \in TurnsAbout(s) : u # t => u \notin Responding
    <2>1. \A u \in TurnsAbout(s) : u # t => u \notin Responding
      BY <1>0, <1>10, <1>13 DEF Meetings
    <2>2. \A u \in TurnsAbout(s) : desk[u].task # "record"
      BY <1>1, <2>1 DEF Responding, TurnsAbout
    <2> QED
      BY <1>12, <1>13, <2>1, <2>2 DEF Books
  <1>14. ASSUME NEW r \in Sellers \ (raced' \cup unrecorded') PROVE Books(r)' /\ WithinOwn(r)'
    <2>1. Books(r) /\ WithinOwn(r) /\ taken'[r] = taken[r]
      BY <1>1, <1>12
    <2>2. CASE r = s
      <3>1. /\ made[s] = taken[s] /\ \A u \in TurnsAbout(s) : u # t => u \notin Responding
        BY <1>1, <1>13, <2>2
      <3>2. \A u \in TurnsAbout(s) : u = t \/ desk'[u].task \notin {"respond", "record"}
        BY <1>5, <3>1 DEF Responding, TurnsAbout
      <3>3. Books(s)'
        BY <1>1, <1>5, <1>6, <1>10, <3>1, <3>2 DEF Books
      <3>4. WithinOwn(s)'
        BY <1>5, <1>10, <3>2 DEF WithinOwn
      <3> QED
        BY <2>2, <3>3, <3>4
    <2>3. CASE r # s
      <3>1. /\ made'[r] = made[r] /\ SeverityOf(taken'[r]) = SeverityOf(taken[r])
            /\ TurnsAbout(r)' = TurnsAbout(r)
            /\ \A u \in TurnsAbout(r) : desk'[u] = desk[u]
        <4>1. \A u \in TurnsAbout(r) : u # t /\ u \in Staff
          BY <1>10, <2>3 DEF TurnsAbout
        <4> QED
          BY <1>1, <1>5, <1>6, <1>10, <2>3, <4>1
      <3>2. Books(r)'
        BY <2>1, <3>1 DEF Books
      <3>3. WithinOwn(r)'
        BY <2>1, <3>1 DEF WithinOwn
      <3> QED
        BY <3>2, <3>3
    <2> QED
      BY <2>2, <2>3
  <1>15. \A r \in Sellers \ (met' \cup unrecorded') :
           TurnsAbout(r)' # {} => taken'[r] = NoResponses
    BY <1>1, <1>10 DEF ResponsesInv
  <1>16. WithinAll'
    <2>1. \A u \in Staff : desk'[u].task = "respond" => desk'[u] = desk[u]
      BY <1>5
    <2>2. ToAll(taken') = ToAll(taken)
      BY <1>1
    <2> QED
      BY <1>0, <1>1, <2>1, <2>2 DEF WithinAll
  <1>17. ResponsesInv'
    BY <1>7, <1>8, <1>9, <1>11, <1>14, <1>15, <1>16 DEF ResponsesInv
  <1>18. ASSUME s \notin raced \cup unrecorded
         PROVE  /\ made'[s] \in Tally /\ Count(made'[s]) = Count(taken[s]) + 1
                /\ SeverityOf(made'[s]) = SeverityOf(taken[s]) + Severity[a]
                /\ made'[s][a] = taken[s][a] + 1
    <2>1. made'[s] = [taken[s] EXCEPT ![a] = @ + 1] /\ taken[s] \in Tally
      BY <1>0, <1>6, <1>13, <1>18 DEF BooksTyped
    <2> DEFINE r == taken[s]
               q == [r EXCEPT ![a] = @ + 1]
    <2>2. q \in Tally /\ r \in Tally
      BY <1>3, <2>1 DEF Tally
    <2>3. (\A b \in Responses : q[b] = IF b = a THEN r[b] + 1 ELSE r[b]) /\ made'[s] = q
      BY <2>1, <2>2 DEF Tally
    <2> HIDE DEF q, r
    <2>4. /\ Count(q) = Count(r) + 1 /\ SeverityOf(q) = SeverityOf(r) + Severity[a]
          /\ q[a] = r[a] + 1
      <3>1. a \in Responses
        BY <1>3
      <3> HIDE DEF a
      <3> QED
        BY ONLY <2>2, <2>3, <3>1, OneMore, Zenon
    <2> QED
      BY <2>2, <2>3, <2>4 DEF r
  <1>19. ASSUME s \notin raced \cup unrecorded, desk[t].left < 100
         PROVE  made'[s][a] = 1 /\ SeverityOf(made'[s]) <= desk[t].left
    <2>1. taken[s][a] = 0 /\ SeverityOf(taken[s]) + Severity[a] <= desk[t].left
      BY <1>1, <1>10, <1>12, <1>19 DEF WithinOwn, a
    <2> QED
      BY <1>18, <1>19, <2>1
  <1>20. ASSUME ~racing, unrecorded = {}, desk[t].left < 100
         PROVE  ToAll(made') <= GlobalLimit(desk[t].left)
    <2>1. raced = {} /\ Responding = {t}
      BY <1>0, <1>10, <1>20 DEF Meetings
    <2>2. ASSUME NEW r \in Sellers, r # s PROVE made'[r] = taken[r]
      <3>1. \A u \in TurnsAbout(r) : desk[u].task # "record"
        BY <1>10, <2>1, <2>2 DEF Responding, TurnsAbout
      <3>2. made[r] = taken[r]
        BY <1>12, <1>20, <2>1, <3>1 DEF Books
      <3> QED
        BY <1>6, <2>2, <3>2
    <2>3. made' \in [Sellers -> Tally] /\ taken \in [Sellers -> Tally]
      <3>1. \A r \in Sellers : made'[r] \in Tally
        BY <1>0, <1>18, <1>20, <2>1, <2>2 DEF BooksTyped
      <3>2. made' = [r \in Sellers |-> made'[r]]
        BY <1>6
      <3> QED
        BY <1>0, <3>1, <3>2 DEF BooksTyped
    <2>4. /\ ToAll(made') + Count(taken[s]) = ToAll(taken) + Count(made'[s])
          /\ ToAll(made') \in Nat /\ ToAll(taken) \in Nat
      BY <2>2, <2>3, ToAllMoves
    <2>5. Count(made'[s]) = Count(taken[s]) + 1 /\ Count(taken[s]) \in Nat
      BY <1>18, <1>20, <2>1, <2>3, CountIs
    <2>6. ToAll(taken) < GlobalLimit(desk[t].left)
      BY <1>0, <1>1, <1>20 DEF WithinAll
    <2>7. GlobalLimit(desk[t].left) \in Nat
      BY ResponsesAssumption DEF GlobalLimit
    <2> QED
      BY <2>4, <2>5, <2>6, <2>7
  <1>21. ASSUME s \notin met \cup unrecorded PROVE Count(made'[s]) = 1
    <2>1. taken[s] = NoResponses /\ s \notin raced
      BY <1>0, <1>10, <1>21 DEF ResponsesInv, Meetings
    <2> QED
      BY <1>18, <1>21, <2>1, NoResponsesTally
  <1> QED
    BY <1>2, <1>5, <1>17, <1>19, <1>20, <1>21 DEF a

\* The hour of a response is over: there is one less, and it was recorded.
LEMMA ResponseExpires ==
  ASSUME ResponsesInv, NEW s \in Sellers, NEW a \in Responses, Expires(s, a)
  PROVE  ResponsesInv'
  <1>0. /\ CallsTyped(ResponseWork) /\ BooksTyped /\ FaultsTyped /\ Turns /\ Meetings /\ WithinAll
        /\ ThreatsRest
    BY DEF ResponsesInv
  <1>1. /\ taken[s][a] > 0
        /\ taken' = [taken EXCEPT ![s] = [taken[s] EXCEPT ![a] = @ - 1]]
        /\ made' = [made EXCEPT ![s] = [made[s] EXCEPT ![a] = @ - 1]]
        /\ UNCHANGED <<threatTables, footing, met, raced, racing, unrecorded, about,
                       desk, outdated, overlapped, faults>>
    BY DEF Expires, callVars
  <1>2. taken[s] \in Tally /\ made[s] \in [Responses -> Int]
    BY <1>0 DEF BooksTyped
  <1> DEFINE fewer == [taken[s] EXCEPT ![a] = @ - 1]
             less == [made[s] EXCEPT ![a] = @ - 1]
  <1>3. /\ fewer \in Tally /\ less \in [Responses -> Int]
        /\ \A b \in Responses : taken[s][b] = IF b = a THEN fewer[b] + 1 ELSE fewer[b]
    <2>1. taken[s] \in [Responses -> Nat] /\ taken[s][a] \in Nat /\ taken[s][a] - 1 \in Nat
      BY <1>1, <1>2 DEF Tally
    <2>2. fewer \in [Responses -> Nat] /\ less \in [Responses -> Int]
      BY <1>2, <2>1
    <2>3. \A b \in Responses : taken[s][b] = IF b = a THEN fewer[b] + 1 ELSE fewer[b]
      BY <2>1
    <2> QED
      BY <2>2, <2>3 DEF Tally
  <1>4. /\ Count(taken[s]) = Count(fewer) + 1 /\ SeverityOf(fewer) <= SeverityOf(taken[s])
        /\ SeverityOf(fewer) \in Nat /\ SeverityOf(taken[s]) \in Nat
    <2>1. taken[s] \in Tally
      BY <1>2
    <2> HIDE DEF fewer
    <2> QED
      BY <1>2, <1>3, <2>1, OneMore
  <1>5. /\ taken'[s] = fewer /\ made'[s] = less
        /\ \A r \in Sellers : r # s => taken'[r] = taken[r] /\ made'[r] = made[r]
        /\ taken' \in [Sellers -> Tally] /\ made' \in [Sellers -> [Responses -> Int]]
    <2> HIDE DEF fewer, less
    <2>1. taken' = [taken EXCEPT ![s] = fewer] /\ made' = [made EXCEPT ![s] = less]
      BY <1>1 DEF fewer, less
    <2> QED
      BY <1>0, <1>3, <2>1 DEF BooksTyped
  <1>6. /\ Responding' = Responding /\ \A r \in Sellers : TurnsAbout(r)' = TurnsAbout(r)
        /\ desk' = desk
    BY <1>1 DEF Responding, TurnsAbout
  <1>7. CallsTyped(ResponseWork)' /\ FaultsTyped' /\ ThreatsRest' /\ BooksTyped' /\ Turns'
    BY <1>0, <1>1, <1>5 DEF CallsTyped, FaultsTyped, ThreatsRest, threatTables, BooksTyped, Turns
  <1>8. Meetings'
    BY <1>0, <1>1, <1>6 DEF Meetings
  <1>9. ASSUME NEW r \in Sellers \ (raced' \cup unrecorded') PROVE Books(r)' /\ WithinOwn(r)'
    <2>1. Books(r) /\ WithinOwn(r)
      BY <1>1 DEF ResponsesInv
    <2>2. CASE r = s
      <3>1. made[s] = taken[s] => less = fewer
        OBVIOUS
      <3>2. ASSUME NEW u \in TurnsAbout(s), desk[u].task = "record"
            PROVE  less = [fewer EXCEPT ![desk[u].outcome] = @ + 1]
        <4> DEFINE o == desk[u].outcome
        <4>1. made[s] = [taken[s] EXCEPT ![o] = @ + 1] /\ o \in Responses
          BY <1>0, <2>1, <2>2, <3>2 DEF Books, Turns, TurnsAbout
        <4> HIDE DEF o
        <4>2. \A b \in Responses : less[b] = [fewer EXCEPT ![o] = @ + 1][b]
          BY <1>2, <4>1 DEF Tally
        <4>3. DOMAIN less = Responses /\ DOMAIN fewer = Responses
          BY <1>2 DEF Tally
        <4>4. less = [fewer EXCEPT ![o] = @ + 1]
          BY <1>2, <4>2, <4>3 DEF Tally
        <4> QED
          BY <4>4 DEF o
      <3> HIDE DEF less, fewer
      <3>3. Books(s)'
        BY <1>5, <1>6, <2>1, <2>2, <3>1, <3>2 DEF Books
      <3>4. ASSUME NEW u \in TurnsAbout(s), desk[u].task = "respond", desk[u].left < 100
            PROVE  /\ fewer[desk[u].outcome] = 0
                   /\ SeverityOf(fewer) + Severity[desk[u].outcome] <= desk[u].left
        <4>1. /\ taken[s][desk[u].outcome] = 0 /\ desk[u].outcome \in Responses
              /\ SeverityOf(taken[s]) + Severity[desk[u].outcome] <= desk[u].left
              /\ desk[u].left \in Nat
          BY <1>0, <2>1, <2>2, <3>4 DEF WithinOwn, Turns, TurnsAbout
        <4>2. fewer[desk[u].outcome] = 0
          BY <1>1, <1>2, <4>1 DEF fewer, Tally
        <4>3. Severity[desk[u].outcome] \in Nat
          BY <4>1, ResponsesAre
        <4> QED
          BY <1>4, <4>1, <4>2, <4>3
      <3>5. WithinOwn(s)'
        BY <1>5, <1>6, <3>4 DEF WithinOwn
      <3> QED
        BY <2>2, <3>3, <3>5
    <2>3. CASE r # s
      <3>1. made'[r] = made[r] /\ taken'[r] = taken[r] /\ SeverityOf(taken'[r]) = SeverityOf(taken[r])
        BY <1>5, <2>3
      <3>2. Books(r)'
        BY <1>6, <2>1, <3>1 DEF Books
      <3>3. WithinOwn(r)'
        BY <1>6, <2>1, <3>1 DEF WithinOwn
      <3> QED
        BY <3>2, <3>3
    <2> QED
      BY <2>2, <2>3
  <1>10. ASSUME NEW r \in Sellers \ (met' \cup unrecorded'), TurnsAbout(r)' # {}
         PROVE  taken'[r] = NoResponses
    <2>1. taken[r] = NoResponses
      BY <1>1, <1>6, <1>10 DEF ResponsesInv
    <2>2. r # s
      BY <1>1, <2>1 DEF NoResponses
    <2> QED
      BY <1>5, <2>1, <2>2
  <1>11. WithinAll'
    <2> SUFFICES ASSUME ~racing, unrecorded = {}, NEW u \in Staff, desk[u].task = "respond",
                        desk[u].left < 100
                 PROVE  ToAll(taken') < GlobalLimit(desk[u].left)
      BY <1>1 DEF WithinAll
    <2>1. ToAll(taken) < GlobalLimit(desk[u].left)
      BY <1>0 DEF WithinAll
    <2>2. /\ ToAll(taken') + Count(taken[s]) = ToAll(taken) + Count(taken'[s])
          /\ ToAll(taken) \in Nat /\ ToAll(taken') \in Nat
      <3>1. taken \in [Sellers -> Tally] /\ \A r \in Sellers : r # s => taken'[r] = taken[r]
        BY <1>0, <1>5 DEF BooksTyped
      <3>2. taken' \in [Sellers -> Tally]
        BY <1>5
      <3> HIDE DEF fewer, less
      <3> QED
        BY <3>1, <3>2, ToAllMoves
    <2>3. Count(fewer) \in Nat
      <3> HIDE DEF fewer
      <3> QED
        BY <1>3, CountIs
    <2>4. GlobalLimit(desk[u].left) \in Nat
      BY ResponsesAssumption DEF GlobalLimit
    <2> HIDE DEF fewer
    <2> QED
      BY <1>4, <1>5, <2>1, <2>2, <2>3, <2>4
  <1> QED
    BY <1>7, <1>8, <1>9, <1>10, <1>11 DEF ResponsesInv

LEMMA ResponsesStill ==
  ASSUME ResponsesInv,
         UNCHANGED <<threatTables, taken, made, met, raced, racing, unrecorded, about, callVars, faults>>,
         footing' \in [Sellers -> {"clear", "watched", "threatened", "ruled_out"}]
  PROVE  ResponsesInv'
  <1>1. UNCHANGED <<threat, read, revived, taken, made, met, raced, racing, unrecorded, about,
                    desk, outdated, overlapped, faults>>
    BY DEF threatTables, callVars
  <1>2. CallsTyped(ResponseWork)' /\ FaultsTyped' /\ BooksTyped' /\ ThreatsRest' /\ Turns'
    BY <1>1 DEF ResponsesInv, CallsTyped, FaultsTyped, BooksTyped, ThreatsRest, Turns
  <1>3. /\ Responding' = Responding /\ \A s \in Sellers : TurnsAbout(s)' = TurnsAbout(s)
        /\ ToAll(taken') = ToAll(taken)
        /\ \A s \in Sellers : SeverityOf(taken'[s]) = SeverityOf(taken[s])
    BY <1>1 DEF Responding, TurnsAbout
  <1>4. Meetings'
    BY <1>1, <1>3 DEF ResponsesInv, Meetings
  <1>5. ASSUME NEW s \in Sellers \ (raced' \cup unrecorded') PROVE Books(s)' /\ WithinOwn(s)'
    <2>1. Books(s) /\ WithinOwn(s)
      BY <1>1 DEF ResponsesInv
    <2> QED
      BY <1>1, <1>3, <2>1, SMTT(30) DEF Books, WithinOwn
  <1>6. \A s \in Sellers \ (met' \cup unrecorded') :
          TurnsAbout(s)' # {} => taken'[s] = NoResponses
    BY <1>1, <1>3 DEF ResponsesInv
  <1>7. WithinAll'
    BY <1>1, <1>3 DEF ResponsesInv, WithinAll
  <1> QED
    BY <1>2, <1>4, <1>5, <1>6, <1>7 DEF ResponsesInv

LEMMA ResponsesStep ==
  ASSUME ResponsesInv, [ResponsesNext]_responseVars
  PROVE  ResponsesInv' /\ ArchivedStays /\ ResponseIsWithinBudget
  <1>0. /\ CallsTyped(ResponseWork) /\ BooksTyped /\ ThreatsRest
    BY DEF ResponsesInv
  <1>1. \A s \in Sellers : footing[s] \in {"clear", "watched", "threatened", "ruled_out"}
    BY <1>0 DEF BooksTyped
  <1>2. ArchivedStays
    BY <1>0, NoThreatTyped DEF ArchivedStays, ThreatsRest, NoRead
  <1>3. CASE UNCHANGED responseVars
    <2>1. UNCHANGED <<threatTables, footing, taken, made, met, raced, racing, unrecorded, about,
                      callVars, faults>>
      BY <1>3 DEF responseVars, responseTables
    <2>2. ResponsesInv'
      BY <1>0, <2>1, ResponsesStill DEF BooksTyped
    <2>3. desk' = desk
      BY <2>1 DEF callVars
    <2>4. ResponseIsWithinBudget
      BY <2>3 DEF ResponseIsWithinBudget
    <2> QED
      BY <1>2, <2>2, <2>4
  <1>4. ASSUME NEW t \in Staff,
               \/ BeginTurn(t) \/ Authorize(t) \/ Forgo(t) \/ RecordApplied(t) \/ TurnDies(t)
        PROVE  ResponsesInv' /\ ResponseIsWithinBudget
    <2>1. ResponsesInv'
      BY <1>4, TurnBegins, TurnPasses, TurnForgone, TurnRecords, TurnDying
    <2>2. \E work : desk' = [desk EXCEPT ![t] = work]
      BY <1>4 DEF BeginTurn, Takes, Authorize, Forgo, RecordApplied, TurnDies, Leaves
    <2>3. \A u \in Staff : u # t => desk'[u] = desk[u]
      BY <1>0, <2>2 DEF CallsTyped
    <2>4. desk[t].task # "respond" \/ desk'[t].task # "record"
      <3>1. CASE BeginTurn(t)
        <4>1. desk'[t] = Work("turn", NoThreatRow, 0)
          BY <1>0, <3>1 DEF BeginTurn, Takes, CallsTyped
        <4> QED
          BY <4>1 DEF Work
      <3>2. CASE Authorize(t) \/ Forgo(t) \/ RecordApplied(t) \/ TurnDies(t)
        BY <3>2 DEF Authorize, Forgo, RecordApplied, TurnDies
      <3> QED
        BY <1>4, <3>1, <3>2
    <2> QED
      BY <2>1, <2>3, <2>4 DEF ResponseIsWithinBudget
  <1>5. ASSUME NEW t \in Staff, Respond(t) PROVE ResponsesInv' /\ ResponseIsWithinBudget
    <2>1. /\ ResponsesInv'
          /\ \E s \in Sellers :
               /\ about[t] = {s}
               /\ \A u \in Staff : u # t => desk'[u] = desk[u]
               /\ s \notin raced \cup unrecorded /\ desk[t].left < 100 =>
                    /\ made'[s][desk[t].outcome] = 1
                    /\ SeverityOf(made'[s]) <= desk[t].left
               /\ ~racing /\ unrecorded = {} /\ desk[t].left < 100 =>
                    ToAll(made') <= GlobalLimit(desk[t].left)
               /\ s \notin met \cup unrecorded => Count(made'[s]) = 1
      BY <1>5, TurnResponds
    <2>2. ResponseIsWithinBudget
      BY <2>1 DEF ResponseIsWithinBudget
    <2> QED
      BY <2>1, <2>2
  <1>6. ASSUME NEW s \in Sellers, FootingMoves(s) \/ \E a \in Responses : Expires(s, a)
        PROVE  ResponsesInv' /\ ResponseIsWithinBudget
    <2>1. desk' = desk
      BY <1>6 DEF FootingMoves, Expires, callVars
    <2>2. ResponseIsWithinBudget
      BY <2>1 DEF ResponseIsWithinBudget
    <2>3. CASE FootingMoves(s)
      <3>1. PICK next \in {"clear", "watched", "threatened", "ruled_out"} \ {footing[s]} :
              footing' = [footing EXCEPT ![s] = next]
        BY <2>3 DEF FootingMoves
      <3>2. footing' \in [Sellers -> {"clear", "watched", "threatened", "ruled_out"}]
        BY <1>0, <3>1 DEF BooksTyped
      <3>3. UNCHANGED <<threatTables, taken, made, met, raced, racing, unrecorded, about, callVars, faults>>
        BY <2>3 DEF FootingMoves
      <3> QED
        BY <2>2, <3>2, <3>3, ResponsesStill
    <2>4. CASE \E a \in Responses : Expires(s, a)
      BY <2>2, <2>4, ResponseExpires
    <2> QED
      BY <1>6, <2>3, <2>4
  <1> QED
    BY <1>2, <1>3, <1>4, <1>5, <1>6 DEF ResponsesNext

\* can_execute_autonomous_action_db, apply_controlled_protocol_response_db: of any
\* number of heartbeat loops about any number of sellers, the responses of an hour
\* keep to the budgets under which each was allowed, unless two turns were past the
\* check at once or one died before it recorded its event.
THEOREM ResponsesStayBounded == ResponsesSpec => ResponsesAreBounded
  <1>1. ResponsesInv => ThreatsAreDistinct
    BY NoThreatTyped DEF ResponsesInv, ThreatsRest, NoRead, ThreatsAreDistinct, ActiveOf
  <1>2. ResponsesInv /\ [ResponsesNext]_responseVars => ResponsesInv'
    BY ResponsesStep
  <1>3. ResponsesInv /\ [ResponsesNext]_responseVars => ArchivedStays /\ ResponseIsWithinBudget
    BY ResponsesStep
  <1> QED
    BY <1>1, <1>2, <1>3, ResponsesStart, PTL DEF ResponsesSpec, ResponsesAreBounded
=============================================================================
