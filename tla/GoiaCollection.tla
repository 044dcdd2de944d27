--------------------------- MODULE GoiaCollection ---------------------------
(***************************************************************************)
(* The collection of offers (iat/goia/collector_worker.py, repository.py,  *)
(* autonomous_review.py): jobs that collectors claim, recover and finish,  *)
(* the candidates they store and review, the retries of candidates in      *)
(* quarantine, and an operator who decides on a candidate by hand.  Beside *)
(* it, the prospects found in public registries.                           *)
(*                                                                         *)
(* A sitemap has one page and a document one offer, the contents of which  *)
(* may differ from one fetch to the next.  The verdict of the policy also  *)
(* rests on the provider's manifest, so it is free at every review.        *)
(***************************************************************************)
EXTENDS Faults, Sequences, FiniteSets

CONSTANTS
  Collectors,       \* worker processes
  Pages,            \* bound: rows of goia_collection_jobs
  Contents,         \* what a document may hold
  PageAttempts,     \* maximum_attempts: 3
  PageRetries       \* maximum_retries: 3

ASSUME CollectionAssumption ==
  PageAttempts \in Nat \ {0} /\ PageRetries \in Nat

VARIABLES
  page,         \* goia_collection_jobs
  candidate,    \* goia_review_candidates, by job and contents
  indexed,      \* goia_offer_observations: candidates, and who approved them
  collector,    \* what each collector is doing, and with what
  operator,     \* the call of the operator, and about what
  refused,      \* candidates the operator was told are rejected
  contested,    \* candidates that were decided while another was deciding
  cut,          \* candidates that a collector died over
  prospect,     \* goia_external_prospects: the status of one
  ruling,       \* goia_external_prospect_reviews: the last one
  qualifying,   \* a collector has read that the prospect is discovered
  overruled     \* the prospect was qualified after it had been decided on

collectionTables == <<page, candidate, indexed, collector, operator, refused, contested, cut>>

prospectTables == <<prospect, ruling, qualifying, overruled>>

collectionVars == <<collectionTables, prospectTables, faults>>

Candidates == Pages \X Contents

\* The key of the n-th retry of x.
RetryKey(x, n) == <<x[1], x[2], n>>

NoPage == [kind |-> "none", key |-> <<>>, status |-> "none", attempts |-> 0]

NoCandidate == [status |-> "none", by |-> "none", retries |-> 0]

AtRest == [at |-> "idle", with |-> <<>>]

CollectionInit ==
  /\ page = [p \in Pages |-> NoPage]
  /\ candidate = [x \in Candidates |-> NoCandidate]
  /\ indexed = {}
  /\ collector = [c \in Collectors |-> AtRest]
  /\ operator = AtRest
  /\ refused = {} /\ contested = {} /\ cut = {}
  /\ prospect = "none" /\ ruling = "none"
  /\ qualifying = FALSE /\ overruled = FALSE
  /\ faults = 0

Rulings == {"governance_approved", "governance_rejected", "governance_evidence_required"}

CollectionTypeOK ==
  /\ \A p \in Pages :
       /\ page[p].kind \in {"none", "sitemap", "catalog", "manifest", "page"}
       /\ page[p].status \in {"none", "queued", "processing", "completed", "failed"}
       /\ page[p].attempts \in 0 .. PageAttempts
       /\ page[p].key \in {<<>>} \cup {<<q>> : q \in Pages}
            \cup {RetryKey(x, n) : x \in Candidates, n \in 1 .. PageRetries}
  /\ candidate \in [Candidates ->
       [status : {"none", "pending_review", "approved", "rejected", "quarantined",
                  "quarantine_exhausted"},
        by : {"none", "policy", "operator"}, retries : 0 .. PageRetries]]
  /\ indexed \subseteq Candidates \X {"policy", "operator"}
  /\ \A w \in {operator} \cup {collector[c] : c \in Collectors} :
       /\ w.at \in {"idle", "fetch", "review", "approve", "mark", "quarantine", "reject",
                    "finish", "fail"}
       /\ w.with \in {<<>>} \cup {<<p>> : p \in Pages} \cup Candidates
  /\ refused \cup contested \cup cut \subseteq Candidates
  /\ prospect \in {"none", "discovered", "candidate_qualified"} \cup Rulings
  /\ ruling \in {"none"} \cup Rulings
  /\ qualifying \in BOOLEAN /\ overruled \in BOOLEAN
  /\ faults \in 0 .. MaxFaults

-----------------------------------------------------------------------------
\* Jobs.
Free == {p \in Pages : page[p] = NoPage}

\* enqueue_collection_job: the key makes it idempotent.
Enqueued(key, kind) ==
  IF key # <<>> /\ \E p \in Pages : page[p].key = key THEN {page}
  ELSE {[page EXCEPT ![p] = [kind |-> kind, key |-> key, status |-> "queued", attempts |-> 0]] :
          p \in {q \in Free : q = CHOOSE r \in Free : TRUE}}

\* seed_due_catalog_sources.  (Bound: one source, in one window of time.)
SeedSource(c) ==
  /\ collector[c] = AtRest
  /\ Free = Pages
  /\ \E kind \in {"sitemap", "catalog", "manifest"} : page' \in Enqueued(<<>>, kind)
  /\ UNCHANGED <<candidate, indexed, collector, operator, refused, contested, cut, faults>>

InHands == {collector[c].with[1] : c \in {d \in Collectors : collector[d] # AtRest}}

Processing == {p \in Pages : page[p].status = "processing"}

Recovered(row) ==
  IF row.attempts < PageAttempts THEN [row EXCEPT !.status = "queued"]
  ELSE [row EXCEPT !.status = "failed"]

\* recover_stale_collection_jobs: jobs taken five minutes ago, by a collector that
\* has died or, a fault, by one that is late.
RecoverStale(c) ==
  /\ collector[c] = AtRest
  /\ Processing # {}
  /\ \/ Processing \subseteq InHands /\ Fault
     \/ ~ Processing \subseteq InHands /\ UNCHANGED faults
  /\ page' = [p \in Pages |->
       IF p \in Processing /\ (p \notin InHands \/ faults' > faults)
       THEN Recovered(page[p]) ELSE page[p]]
  /\ UNCHANGED <<candidate, indexed, collector, operator, refused, contested, cut>>

Queued == {p \in Pages : page[p].status = "queued"}

\* claim_collection_job.  (Their priorities are left out: any of them.)
ClaimPage(c, p) ==
  /\ collector[c] = AtRest
  /\ p \in Queued
  /\ page' = [page EXCEPT ![p].status = "processing", ![p].attempts = @ + 1]
  /\ collector' = [collector EXCEPT ![c] = [at |-> "fetch", with |-> <<p>>]]
  /\ UNCHANGED <<candidate, indexed, operator, refused, contested, cut, faults>>

CollectorAt(c, at) == collector' = [collector EXCEPT ![c].at = at]

\* fetch_allowed_document refuses the document, or its extraction does.
FetchFails(c) ==
  /\ collector[c].at = "fetch"
  /\ CollectorAt(c, "fail")
  /\ UNCHANGED <<page, candidate, indexed, operator, refused, contested, cut, faults>>

\* enqueue_sitemap_pages.  (The verification of a manifest is GoiaPartnerships'.)
FetchSource(c) ==
  /\ collector[c].at = "fetch"
  /\ LET p == collector[c].with[1] IN
       /\ page[p].kind \in {"sitemap", "manifest"}
       /\ IF page[p].kind = "sitemap" THEN page' \in Enqueued(<<p>>, "page")
          ELSE UNCHANGED page
  /\ CollectorAt(c, "finish")
  /\ UNCHANGED <<candidate, indexed, operator, refused, contested, cut, faults>>

\* store_review_candidates, for a document that holds an offer.
FetchOffer(c) ==
  /\ collector[c].at = "fetch"
  /\ LET p == collector[c].with[1] IN
       /\ page[p].kind \in {"catalog", "page"}
       /\ \/ CollectorAt(c, "finish") /\ UNCHANGED candidate
          \/ \E v \in Contents :
               /\ candidate' = IF candidate[<<p, v>>] # NoCandidate THEN candidate
                    ELSE [candidate EXCEPT ![<<p, v>>].status = "pending_review"]
               /\ collector' = [collector EXCEPT ![c] = [at |-> "review", with |-> <<p, v>>]]
  /\ UNCHANGED <<page, indexed, operator, refused, contested, cut, faults>>

\* _finish_collection_job, for a job that is processing still.
EndJob(p, status) ==
  page' = IF p \in Processing THEN [page EXCEPT ![p].status = status] ELSE page

\* It raises when the job is not, and the collector records a failure instead,
CompleteJob(c) ==
  LET p == collector[c].with[1] IN
  /\ collector[c].at = "finish"
  /\ EndJob(p, "completed")
  /\ IF p \in Processing THEN collector' = [collector EXCEPT ![c] = AtRest]
     ELSE CollectorAt(c, "fail")
  /\ UNCHANGED <<candidate, indexed, operator, refused, contested, cut, faults>>

\* which raises again unless the job was claimed anew in between.
FailJob(c) ==
  /\ collector[c].at = "fail"
  /\ EndJob(collector[c].with[1], "failed")
  /\ collector' = [collector EXCEPT ![c] = AtRest]
  /\ UNCHANGED <<candidate, indexed, operator, refused, contested, cut, faults>>

-----------------------------------------------------------------------------
\* Candidates.
Pending(x) == candidate[x].status = "pending_review"

\* Those who have read that x is pending, and are to decide.
Deciding(x) ==
  {c \in Collectors : collector[c].with = x
                        /\ collector[c].at \in {"approve", "mark", "quarantine"}}

\* (Not the code: the update does not ask whether it is pending.)
DecideAnyway(x, status, by, others) ==
  /\ candidate' = [candidate EXCEPT ![x].status = status, ![x].by = by]
  /\ contested' = IF others THEN contested \cup {x} ELSE contested

\* The decision on x, as long as it is pending; when another has read it too, it
\* is contested.
Decide(x, status, by, others) ==
  IF Pending(x)
  THEN /\ candidate' = [candidate EXCEPT ![x].status = status, ![x].by = by]
       /\ contested' = IF others THEN contested \cup {x} ELSE contested
  ELSE UNCHANGED <<candidate, contested>>

\* autonomously_review_candidate, up to what approve_review_candidate reads.
ReviewCandidate(c) ==
  /\ collector[c].at = "review"
  /\ LET x == collector[c].with IN
       CASE Pending(x) -> \E at \in {"approve", "quarantine"} : CollectorAt(c, at)
         [] candidate[x].status \in {"approved", "quarantined"} -> CollectorAt(c, "finish")
         [] OTHER -> CollectorAt(c, "fail")
  /\ UNCHANGED <<page, candidate, indexed, operator, refused, contested, cut, faults>>

\* quarantine_review_candidate does not look whether its update found the row.
QuarantineCandidate(c) ==
  /\ collector[c].at = "quarantine"
  /\ LET x == collector[c].with IN
       Decide(x, "quarantined", "policy", Deciding(x) # {c} \/ operator.with = x)
  /\ CollectorAt(c, "finish")
  /\ UNCHANGED <<page, indexed, operator, refused, cut, faults>>

\* approve_review_candidate: ingest_observation commits before the approval.
IngestOffer(c) ==
  /\ collector[c].at = "approve"
  /\ indexed' = indexed \cup {<<collector[c].with, "policy">>}
  /\ CollectorAt(c, "mark")
  /\ UNCHANGED <<page, candidate, operator, refused, contested, cut, faults>>

ApproveCandidate(c) ==
  /\ collector[c].at = "mark"
  /\ LET x == collector[c].with IN
       /\ Decide(x, "approved", "policy", Deciding(x) # {c} \/ operator.with = x)
       /\ CollectorAt(c, IF Pending(x) THEN "finish" ELSE "fail")
  /\ UNCHANGED <<page, indexed, operator, refused, cut, faults>>

\* schedule_due_quarantine_retries: it enqueues a job by the number of the retry
\* and then counts it, or dies before that.
RetryCandidate(c, x) ==
  LET n == candidate[x].retries + 1 IN
  /\ collector[c] = AtRest
  /\ candidate[x].status = "quarantined" /\ n <= PageRetries
  /\ page' \in Enqueued(RetryKey(x, n), "page")
  /\ \/ candidate' = [candidate EXCEPT ![x].retries = n] /\ UNCHANGED faults
     \/ Fault /\ UNCHANGED candidate
  /\ UNCHANGED <<indexed, collector, operator, refused, contested, cut>>

ExhaustCandidate(c, x) ==
  /\ collector[c] = AtRest
  /\ candidate[x].status = "quarantined" /\ candidate[x].retries >= PageRetries
  /\ candidate' = [candidate EXCEPT ![x].status = "quarantine_exhausted"]
  /\ UNCHANGED <<page, indexed, collector, operator, refused, contested, cut, faults>>

CollectorDies(c) ==
  /\ collector[c] # AtRest /\ Fault
  /\ cut' = IF collector[c].with \in Candidates THEN cut \cup {collector[c].with} ELSE cut
  /\ collector' = [collector EXCEPT ![c] = AtRest]
  /\ UNCHANGED <<page, candidate, indexed, operator, refused, contested>>

\* The operator reads that a candidate is pending, and decides.
OperatorReads(x) ==
  /\ operator = AtRest /\ Pending(x)
  /\ \E at \in {"approve", "reject"} : operator' = [at |-> at, with |-> x]
  /\ UNCHANGED <<page, candidate, indexed, collector, refused, contested, cut, faults>>

OperatorIngests ==
  /\ operator.at = "approve"
  /\ indexed' = indexed \cup {<<operator.with, "operator">>}
  /\ operator' = [operator EXCEPT !.at = "mark"]
  /\ UNCHANGED <<page, candidate, collector, refused, contested, cut, faults>>

OperatorApproves ==
  /\ operator.at = "mark"
  /\ Decide(operator.with, "approved", "operator", Deciding(operator.with) # {})
  /\ operator' = AtRest
  /\ UNCHANGED <<page, indexed, collector, refused, cut, faults>>

\* reject_review_candidate does not look whether its update found the row.
OperatorRejects ==
  /\ operator.at = "reject"
  /\ Decide(operator.with, "rejected", "operator", Deciding(operator.with) # {})
  /\ refused' = refused \cup {operator.with}
  /\ operator' = AtRest
  /\ UNCHANGED <<page, indexed, collector, cut, faults>>

\* What a collector does in its cycles.
Collect(c) ==
  \/ SeedSource(c) \/ RecoverStale(c)
  \/ \E p \in Pages : ClaimPage(c, p)
  \/ FetchFails(c) \/ FetchSource(c) \/ FetchOffer(c) \/ CompleteJob(c) \/ FailJob(c)
  \/ ReviewCandidate(c) \/ QuarantineCandidate(c) \/ IngestOffer(c) \/ ApproveCandidate(c)
  \/ \E x \in Candidates : RetryCandidate(c, x) \/ ExhaustCandidate(c, x)

CollectionNext ==
  \/ \E c \in Collectors : Collect(c) \/ CollectorDies(c)
  \/ \E x \in Candidates : OperatorReads(x)
  \/ OperatorIngests \/ OperatorApproves \/ OperatorRejects

-----------------------------------------------------------------------------
\* Prospects.

\* upsert_external_prospect leaves the status of a row alone.
StoreProspect ==
  /\ prospect = "none"
  /\ prospect' = "discovered"
  /\ UNCHANGED <<ruling, qualifying, overruled>>

\* qualify_external_prospects reads, and updates what it read.
ReadProspect ==
  /\ prospect = "discovered" /\ ~qualifying
  /\ qualifying' = TRUE
  /\ UNCHANGED <<prospect, ruling, overruled>>

QualifyProspect ==
  /\ qualifying
  /\ qualifying' = FALSE
  /\ prospect' = "candidate_qualified"
  /\ overruled' = (overruled \/ ruling # "none")
  /\ UNCHANGED ruling

\* decide_external_prospect asks for no status.
DecideProspect ==
  /\ prospect # "none"
  /\ \E next \in Rulings : prospect' = next /\ ruling' = next
  /\ UNCHANGED <<qualifying, overruled>>

ProspectsNext ==
  /\ StoreProspect \/ ReadProspect \/ QualifyProspect \/ DecideProspect
  /\ UNCHANGED faults

\* The collection and the prospects share no table.
CollectionSpec ==
  /\ CollectionInit
  /\ [][\/ CollectionNext /\ UNCHANGED prospectTables
        \/ ProspectsNext /\ UNCHANGED collectionTables]_collectionVars

-----------------------------------------------------------------------------
\* One who has ingested x and is to approve it.
Approving(x, by) ==
  IF by = "operator" THEN operator = [at |-> "mark", with |-> x]
  ELSE \E c \in Collectors : collector[c] = [at |-> "mark", with |-> x]

\* approve_review_candidate, reject_review_candidate: what the index holds was
\* approved, by the one it was ingested for, and what was answered to be rejected
\* is not there; unless it was decided on by two at once, or a collector died
\* over it.
IndexIsApproved ==
  /\ \A x \in Candidates : candidate[x].status = "approved" => <<x, candidate[x].by>> \in indexed
  /\ \A x \in Candidates \ (contested \cup cut) :
       /\ \A by \in {"policy", "operator"} : <<x, by>> \in indexed =>
            Approving(x, by) \/ (candidate[x].status = "approved" /\ candidate[x].by = by)
       /\ x \in refused => candidate[x].status = "rejected"

\* collector_worker.py: a completed job leaves no candidate undecided, unless a
\* collector is still at it or died over it.
CompletedIsReviewed ==
  \A x \in Candidates \ cut :
    page[x[1]].status = "completed" /\ Pending(x)
    => \E c \in Collectors : collector[c].with = x /\ collector[c].at # "finish"

\* schedule_due_quarantine_retries: a candidate is retried as often as it says,
\* whoever dies between the retry and its count.
RetriesAreBounded ==
  \A x \in Candidates :
    LET retries == {p \in Pages : \E n \in 1 .. PageRetries : page[p].key = RetryKey(x, n)} IN
    Cardinality(retries) \in candidate[x].retries .. candidate[x].retries + faults

\* The last ruling on a prospect stands, unless a qualification had read it before.
RulingStands == ruling # "none" /\ ~overruled => prospect = ruling

\* A decision on a candidate is final, but for the quarantine that is exhausted.
DecisionIsFinal(x) ==
  candidate[x].status \in {"approved", "rejected", "quarantined", "quarantine_exhausted"}
  => \/ /\ candidate'[x].status = candidate[x].status
        /\ candidate'[x].by = candidate[x].by
     \/ /\ candidate[x].status = "quarantined"
        /\ candidate'[x].status = "quarantine_exhausted"

CollectionIsReviewed ==
  /\ [](IndexIsApproved /\ CompletedIsReviewed /\ RetriesAreBounded /\ RulingStands)
  /\ [][\A x \in Candidates : DecisionIsFinal(x)]_collectionVars

CollectionPending == Queued # {} \/ Processing # {}

CollectionEnded == Queued = {} /\ Processing = {}
=============================================================================
