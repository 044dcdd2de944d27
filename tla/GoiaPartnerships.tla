-------------------------- MODULE GoiaPartnerships --------------------------
(***************************************************************************)
(* Outreach of GOIA to merchants (iat/goia/repository.py,                  *)
(* partnership_dispatcher.py, partnership_responses.py): a merchant's      *)
(* manifest opts in, the collector proves that the merchant hosts it,      *)
(* proposals are prepared for the markets that lack offers, dispatchers    *)
(* claim and send them, and the merchant answers, or opts out for good.    *)
(*                                                                         *)
(* A merchant stands for its domain, its provider row and its prospect.    *)
(* Scores, payloads, signatures and the network are left out; what demand  *)
(* and a merchant do is a free choice.  Time is what it brings about: a    *)
(* proof or a proposal expires, a lease ends; a retry may be due at once.  *)
(* Responses that decline or ask for information are handled as one that   *)
(* accepts is.                                                             *)
(***************************************************************************)
EXTENDS StaffCalls, FiniteSets

CONSTANTS
  Merchants,
  Markets,          \* combinations of kind, country and currency
  Manifests,        \* the manifests, by hash, that accept requests
  NoManifest        \* one that does not, no proof, or one that is over

VARIABLES
  lacking,          \* goia_partnership_opportunities that are qualified
  found,            \* goia_partner_prospects that are qualified
  linked,           \* goia_opportunity_prospects
  manifest,         \* goia_merchants.manifest_hash
  proof,            \* goia_provider_verifications that are current
  permission,       \* goia_partner_prospects.permission_status
  suppressed,       \* goia_partnership_suppressions
  contacted,        \* goia_partner_prospects.contact_attempted
  outbox,           \* goia_partnership_outbox
  relation,         \* goia_partnership_relationships.status
  lapsed,           \* proposals whose lease was once taken back
  matter            \* the proposals that each call is about

partnerTables == <<lacking, found, linked, manifest, proof, permission, suppressed,
                   contacted, outbox, relation, lapsed, matter>>

partnerVars == <<partnerTables, callVars, faults>>

Proposals == [market : Markets, merchant : Merchants, manifest : Manifests]

\* A proposal of the outbox; the attempts are those of one that may be sent again.
Proposal(status, attempts, holder) ==
  [status |-> status, attempts |-> attempts, holder |-> holder]

NoProposal == Proposal("none", 0, {})

\* Expired, cancelled or failed: nothing asks which.
Closed == Proposal("closed", 0, {})

PartnersInit ==
  /\ lacking = {} /\ found = {} /\ linked = {}
  /\ manifest = [d \in Merchants |-> NoManifest]
  /\ proof = [d \in Merchants |-> NoManifest]
  /\ permission = [d \in Merchants |-> "none"]
  /\ suppressed = {} /\ contacted = {}
  /\ outbox = [p \in Proposals |-> NoProposal]
  /\ relation = [d \in Merchants |-> "none"]
  /\ lapsed = {}
  /\ matter = [t \in Staff |-> {}]
  /\ CallsInit
  /\ faults = 0

\* maximum_attempts of finish_partner_proposal_delivery
MaxDeliveries == 3

PartnerDecisions == {"accepted", "opted_out"}
PartnerAnswers == {"received", "opt_out", "temporary", "permanent"}

PartnersTypeOK ==
  /\ lacking \subseteq Markets /\ found \subseteq Merchants
  /\ linked \subseteq Markets \X Merchants
  /\ manifest \in [Merchants -> Manifests \cup {NoManifest}]
  /\ proof \in [Merchants -> Manifests \cup {NoManifest}]
  /\ permission \in [Merchants -> {"none", "declared_opt_in", "verified_opt_in", "suppressed"}]
  /\ suppressed \subseteq Merchants /\ contacted \subseteq Merchants
  /\ outbox \in [Proposals ->
       [status : {"none", "prepared", "delivering", "retryable", "delivered", "closed"},
        attempts : 0 .. MaxDeliveries + MaxFaults, holder : {{}} \cup {{t} : t \in Staff}]]
  /\ relation \in [Merchants -> {"none"} \cup PartnerDecisions]
  /\ lapsed \subseteq Proposals
  /\ matter \in [Staff -> SUBSET Proposals]
  /\ desk \in [Staff -> [task : {"none", "prepare", "claim", "send", "finish", "record", "respond"},
                         outcome : {"none"} \cup PartnerAnswers \cup PartnerDecisions, left : {0}]]
  /\ outdated \subseteq Staff /\ overlapped \in BOOLEAN
  /\ faults \in 0 .. MaxFaults

Waiting == {"prepared", "retryable"}

-----------------------------------------------------------------------------
\* Markets, merchants and permissions.

\* refresh_partnership_opportunities: from the demand and the offers.
RefreshOpportunities ==
  /\ lacking' \in SUBSET Markets \ {lacking}
  /\ UNCHANGED <<found, linked, manifest, proof, permission, suppressed, contacted, outbox,
                 relation, lapsed, matter, callVars, faults>>

\* upsert_partner_hints, until the evidence qualifies the prospect.
FindMerchant(d) ==
  /\ d \notin found
  /\ found' = found \cup {d}
  /\ UNCHANGED <<lacking, linked, manifest, proof, permission, suppressed, contacted, outbox,
                 relation, lapsed, matter, callVars, faults>>

\* refresh_opportunity_prospect_links: no link is ever taken back.
RefreshLinks ==
  /\ linked' = linked \cup (lacking \X found)
  /\ UNCHANGED <<lacking, found, manifest, proof, permission, suppressed, contacted, outbox,
                 relation, lapsed, matter, callVars, faults>>

\* upsert_merchant
PublishManifest(d, m) ==
  /\ m # manifest[d]
  /\ manifest' = [manifest EXCEPT ![d] = m]
  /\ UNCHANGED <<lacking, found, linked, proof, permission, suppressed, contacted, outbox,
                 relation, lapsed, matter>>
  /\ WritesAtOnce

\* record_provider_manifest_verification: what was fetched is the manifest that
\* is registered, and it opts in.
VerifyManifest(d) ==
  /\ manifest[d] \in Manifests
  /\ proof' = [proof EXCEPT ![d] = manifest[d]]
  /\ UNCHANGED <<lacking, found, linked, manifest, permission, suppressed, contacted, outbox,
                 relation, lapsed, matter>>
  /\ WritesAtOnce

\* A proof expires, and a proposal no later than the proof it rests on.
ProofExpires(d) ==
  /\ proof[d] # NoManifest
  /\ proof' = [proof EXCEPT ![d] = NoManifest]
  /\ outbox' = [p \in Proposals |->
       IF p.merchant = d /\ p.manifest = proof[d] /\ outbox[p].status \in Waiting
       THEN Closed ELSE outbox[p]]
  /\ UNCHANGED <<lacking, found, linked, manifest, permission, suppressed, contacted,
                 relation, lapsed, matter>>
  /\ WritesAtOnce

\* (Not the code: a declaration outweighs the suppression.)
DeclaredPermission(d) ==
  IF manifest[d] = NoManifest THEN "none"
  ELSE IF manifest[d] = proof[d] THEN "verified_opt_in"
  ELSE "declared_opt_in"

\* refresh_partner_permissions: its first statement locks the prospects, so that
\* no opt-out is recorded between what it reads and what it writes.
Permission(d) ==
  IF d \in suppressed THEN "suppressed"
  ELSE IF manifest[d] = NoManifest THEN "none"
  ELSE IF manifest[d] = proof[d] THEN "verified_opt_in"
  ELSE "declared_opt_in"

RefreshPermissions ==
  /\ permission' = [d \in Merchants |-> IF d \in found THEN Permission(d) ELSE "none"]
  /\ UNCHANGED <<lacking, found, linked, manifest, proof, suppressed, contacted, outbox,
                 relation, lapsed, matter>>
  /\ WritesAtOnce

-----------------------------------------------------------------------------
\* prepare_partner_proposals: expires and cancels what may not be sent, selects
\* what may, and inserts it; one transaction, but what it has selected may be
\* withdrawn before it inserts.
Granted(d, m) == permission[d] = "verified_opt_in" /\ proof[d] = m

Cleaned(p) ==
  IF outbox[p].status \in Waiting /\ ~Granted(p.merchant, p.manifest)
  THEN Closed ELSE outbox[p]

BeginPreparation(t) ==
  /\ outbox' = [p \in Proposals |-> Cleaned(p)]
  /\ matter' = [matter EXCEPT ![t] =
       {p \in Proposals : /\ p.market \in lacking
                          /\ <<p.market, p.merchant>> \in linked
                          /\ Granted(p.merchant, p.manifest)
                          /\ manifest[p.merchant] = p.manifest
                          /\ outbox[p].status = "none"}]
  /\ matter'[t] # {} \/ outbox' # outbox
  /\ Decides(t, "prepare", "none")
  /\ UNCHANGED <<lacking, found, linked, manifest, proof, permission, suppressed, contacted,
                 relation, lapsed>>

InsertProposals(t) ==
  /\ desk[t].task = "prepare"
  /\ outbox' = [p \in Proposals |->
       IF p \in matter[t] /\ outbox[p].status = "none"
       THEN Proposal("prepared", 0, {}) ELSE outbox[p]]
  /\ matter' = [matter EXCEPT ![t] = {}]
  /\ Writes(t, NoWork)
  /\ UNCHANGED <<lacking, found, linked, manifest, proof, permission, suppressed, contacted,
                 relation, lapsed>>

-----------------------------------------------------------------------------
\* Dispatchers (process_one_delivery).

\* claim_partner_proposal: its SELECT.
Sendable(p) ==
  /\ outbox[p].status \in Waiting
  /\ Granted(p.merchant, p.manifest)
  /\ manifest[p.merchant] = p.manifest
  /\ ~ \E q \in Proposals : q.merchant = p.merchant /\ outbox[q].status = "delivering"

SelectProposal(t, p) ==
  /\ Sendable(p)
  /\ matter' = [matter EXCEPT ![t] = {p}]
  /\ Decides(t, "claim", "none")
  /\ UNCHANGED <<lacking, found, linked, manifest, proof, permission, suppressed, contacted,
                 outbox, relation, lapsed>>

\* Its UPDATE asks for the status only.
ClaimProposal(t, p) ==
  /\ desk[t].task = "claim" /\ matter[t] = {p}
  /\ \/ /\ outbox[p].status \in Waiting
        /\ outbox' = [outbox EXCEPT ![p] = Proposal("delivering", @.attempts + 1, {t})]
        /\ Writes(t, Work("send", "none", 0))
        /\ UNCHANGED matter
     \/ /\ outbox[p].status \notin Waiting
        /\ matter' = [matter EXCEPT ![t] = {}]
        /\ Leaves(t)
        /\ UNCHANGED <<outbox, faults>>
  /\ UNCHANGED <<lacking, found, linked, manifest, proof, permission, suppressed, contacted,
                 relation, lapsed>>

\* send_partnership_proposal: the merchant acknowledges or opts out, or the
\* attempt fails, for now or for good.
SendProposal(t) ==
  /\ desk[t].task = "send"
  /\ \E answer \in PartnerAnswers : desk' = [desk EXCEPT ![t] = Work("finish", answer, 0)]
  /\ UNCHANGED <<partnerTables, outdated, overlapped, faults>>

\* An opt-out: the domain is suppressed, the prospect too, and what waits for it
\* is cancelled.
OptsOut(d, box) ==
  /\ suppressed' = suppressed \cup {d}
  /\ permission' = [permission EXCEPT ![d] = "suppressed"]
  /\ outbox' = [q \in Proposals |->
       IF q.merchant = d /\ box[q].status \in Waiting THEN Closed ELSE box[q]]

\* finish_partner_proposal_delivery: what becomes of the proposal.
\* (Not the code: one attempt too many.)
FinishedLate(p, answer) ==
  CASE answer \in {"received", "opt_out"} -> Proposal("delivered", 0, {})
    [] answer = "temporary" /\ outbox[p].attempts <= MaxDeliveries ->
         Proposal("retryable", outbox[p].attempts, {})
    [] OTHER -> Closed

Finished(p, answer) ==
  CASE answer \in {"received", "opt_out"} -> Proposal("delivered", 0, {})
    [] answer = "temporary" /\ outbox[p].attempts < MaxDeliveries ->
         Proposal("retryable", outbox[p].attempts, {})
    [] OTHER -> Closed

\* Its SELECT asks for the lease.
CheckLease(t, p) ==
  /\ desk[t].task = "finish" /\ matter[t] = {p}
  /\ outbox[p].holder = {t}
  /\ desk' = [desk EXCEPT ![t].task = "record"]
  /\ UNCHANGED <<partnerTables, outdated, overlapped, faults>>

\* The row is written by that lease, and the rest even when it was taken back.
FinishDelivery(t, p) ==
  LET answer == desk[t].outcome
      box == IF outbox[p].holder = {t} THEN [outbox EXCEPT ![p] = Finished(p, answer)]
             ELSE outbox
  IN
  /\ desk[t].task = "record" /\ matter[t] = {p}
  /\ IF answer = "opt_out"
     THEN OptsOut(p.merchant, box)
     ELSE outbox' = box /\ UNCHANGED <<suppressed, permission>>
  /\ contacted' = IF answer \in {"received", "opt_out"}
                  THEN contacted \cup {p.merchant} ELSE contacted
  /\ matter' = [matter EXCEPT ![t] = {}]
  /\ Writes(t, NoWork)
  /\ UNCHANGED <<lacking, found, linked, manifest, proof, relation, lapsed>>

\* It raises otherwise, which ends the dispatcher: its answer is lost.
LoseLease(t, p) ==
  /\ desk[t].task = "finish" /\ matter[t] = {p}
  /\ outbox[p].holder # {t}
  /\ matter' = [matter EXCEPT ![t] = {}]
  /\ Leaves(t)
  /\ UNCHANGED <<lacking, found, linked, manifest, proof, permission, suppressed, contacted,
                 outbox, relation, lapsed, faults>>

\* A day passes: the proposal is past its date, and never claimed again.
ProposalExpires(p) ==
  /\ outbox[p].status \in Waiting
  /\ outbox' = [outbox EXCEPT ![p] = Closed]
  /\ UNCHANGED <<lacking, found, linked, manifest, proof, permission, suppressed, contacted,
                 relation, lapsed, matter>>
  /\ WritesAtOnce

\* recover_stale_partner_deliveries, whatever the attempts: a lease has ended, of a
\* dispatcher that died or, which is a fault, of one that is slow.
RecoverDelivery(p) ==
  /\ outbox[p].status = "delivering"
  /\ IF \E t \in Busy : outbox[p].holder = {t} /\ matter[t] = {p}
     THEN Fault ELSE UNCHANGED faults
  /\ outbox' = [outbox EXCEPT ![p] = Proposal("retryable", @.attempts, {})]
  /\ lapsed' = lapsed \cup {p}
  /\ UNCHANGED <<lacking, found, linked, manifest, proof, permission, suppressed, contacted,
                 relation, matter, desk, overlapped>>
  /\ Outdates(Busy)

-----------------------------------------------------------------------------
\* record_partner_response: a merchant decides on what was delivered to it.  What
\* is checked is read before the transaction that records the response.
BeginResponse(t, p, decision) ==
  /\ outbox[p].status = "delivered"
  /\ proof[p.merchant] = p.manifest /\ manifest[p.merchant] = p.manifest
  /\ p.merchant \in suppressed => decision = "opted_out"
  /\ matter' = [matter EXCEPT ![t] = {p}]
  /\ Decides(t, "respond", decision)
  /\ UNCHANGED <<lacking, found, linked, manifest, proof, permission, suppressed, contacted,
                 outbox, relation, lapsed>>

RecordResponse(t, p) ==
  /\ desk[t].task = "respond" /\ matter[t] = {p}
  /\ relation' = [relation EXCEPT ![p.merchant] = desk[t].outcome]
  /\ IF desk[t].outcome = "opted_out"
     THEN OptsOut(p.merchant, outbox)
     ELSE UNCHANGED <<suppressed, permission, outbox>>
  /\ matter' = [matter EXCEPT ![t] = {}]
  /\ Writes(t, NoWork)
  /\ UNCHANGED <<lacking, found, linked, manifest, proof, contacted, lapsed>>

-----------------------------------------------------------------------------
PartnerCallDies(t) ==
  /\ t \in Busy /\ Fault
  /\ matter' = [matter EXCEPT ![t] = {}]
  /\ Leaves(t)
  /\ UNCHANGED <<lacking, found, linked, manifest, proof, permission, suppressed, contacted,
                 outbox, relation, lapsed>>

PartnersNext ==
  \/ RefreshOpportunities \/ RefreshLinks \/ RefreshPermissions
  \/ \E d \in Merchants :
       \/ FindMerchant(d) \/ VerifyManifest(d) \/ ProofExpires(d)
       \/ \E m \in Manifests \cup {NoManifest} : PublishManifest(d, m)
  \/ \E p \in Proposals : ProposalExpires(p) \/ RecoverDelivery(p)
  \/ \E t \in Staff :
       \/ BeginPreparation(t) \/ InsertProposals(t) \/ SendProposal(t) \/ PartnerCallDies(t)
       \/ \E p \in Proposals :
            \/ SelectProposal(t, p) \/ ClaimProposal(t, p)
            \/ CheckLease(t, p) \/ FinishDelivery(t, p) \/ LoseLease(t, p)
            \/ \E decision \in PartnerDecisions : BeginResponse(t, p, decision)
            \/ RecordResponse(t, p)

PartnersSpec == PartnersInit /\ [][PartnersNext]_partnerVars

-----------------------------------------------------------------------------
\* A domain that has opted out has no permission, whatever it declares
\* (GOIA_PARTNERSHIPS.md:173), and one that no delivery has reached has not.
SuppressionHolds ==
  \A d \in suppressed : permission[d] = "suppressed" /\ d \in contacted

\* A merchant is sent one proposal at a time, three times each, or once more for
\* every lease that was taken back.
SentInTurn ==
  /\ \A p, q \in Proposals :
       /\ outbox[p].status = "delivering" /\ outbox[q].status = "delivering"
       /\ p.merchant = q.merchant
       => p = q \/ overlapped
  /\ \A p \in Proposals \ lapsed : outbox[p].attempts <= MaxDeliveries

\* claim_partner_proposal, record_partner_response: what is claimed has the
\* permission of the merchant, by the manifest it was prepared for, and a merchant
\* that has opted out by a response is not taken for a partner again; as long as
\* no call wrote over what another had read.
ClaimIsPermitted(p) ==
  outbox[p].status # "delivering" /\ outbox'[p].status = "delivering"
  => Granted(p.merchant, p.manifest) /\ manifest[p.merchant] = p.manifest

OptOutStays(d) == relation[d] = "opted_out" => relation'[d] = "opted_out"

OutreachIsPermitted ==
  /\ [](SuppressionHolds /\ SentInTurn)
  /\ [][\/ overlapped'
        \/ (\A p \in Proposals : ClaimIsPermitted(p)) /\ (\A d \in Merchants : OptOutStays(d))
      ]_partnerVars
=============================================================================
