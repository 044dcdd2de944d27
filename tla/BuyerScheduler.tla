--------------------------- MODULE BuyerScheduler ---------------------------
(***************************************************************************)
(* The autonomous buyer's scheduler (iat/buyer_agent_scheduler.py) and the *)
(* evidence service it talks to.  Its SQLite file holds one job per        *)
(* purchase, with an append-only hash-chained journal, and for a completed *)
(* job one anchor: the journal's head, which the wallet attests and the    *)
(* scheduler then carries through nine phases, one request at a time, up   *)
(* to the permit to settle the purchase.                                   *)
(*                                                                         *)
(* A run takes a lease on a job or an anchor, works, and writes what came  *)
(* of it; the write names the row only, not the lease.  A run may die at   *)
(* any step, an answer may be lost, and a lease may end under a run that   *)
(* still works (a deployment that overlaps with the worker it replaces).   *)
(* Deadlines other than the lease (next_run_at) are left out: a row that   *)
(* is not due yet is one that is claimed later.                            *)
(***************************************************************************)
EXTENDS EvidenceChain, Faults

CONSTANTS
  Runners,        \* worker processes on one database file
  NoDecision,     \* no purchase
  MaxAttempts,    \* attempts a job is scheduled with
  MaxBudget,      \* bound: attempts a resumed job may have in all
  PhaseAttempts,  \* attempts of one phase of an anchor
  MaxOverruns     \* bound: leases that end under a run still at work

VARIABLES
  job,            \* buyer_agent_jobs, with the length of the journal, and whether a
                  \* run that had stopped it went on with it
  anchor,         \* buyer_agent_job_anchors
  turn,           \* what each worker process is doing
  overruns        \* leases that ended under a run at work

schedulerVars == <<chain, job, anchor, turn, overruns, faults>>

ASSUME SchedulerBounds ==
  /\ {MaxAttempts, MaxBudget, PhaseAttempts} \subseteq Nat \ {0}
  /\ MaxOverruns \in Nat

Phases == {"attest", "publish", "validate", "quality", "eligibility",
           "plan", "authorize", "simulate", "permit"}

SettlementPhases == {"plan", "authorize", "simulate", "permit"}

\* The states from which a phase is claimed, holds its lease, gives up, and
\* the state each answer leads to.
Ready == [attest      |-> {"pending"},
          publish     |-> {"attested"},
          validate    |-> {"published"},
          quality     |-> {"delivery_verified"},
          eligibility |-> {"quality_accepted", "quality_rejected"},
          plan        |-> {"release_eligible"},
          authorize   |-> {"settlement_planned"},
          simulate    |-> {"settlement_authorized"},
          permit      |-> {"settlement_simulated"}]

Working == [attest      |-> "attesting",
            publish     |-> "publishing",
            validate    |-> "validating",
            quality     |-> "quality_validating",
            eligibility |-> "eligibility_evaluating",
            plan        |-> "settlement_planning",
            authorize   |-> "settlement_authorizing",
            simulate    |-> "settlement_simulating",
            permit      |-> "settlement_permitting"]

Failed == [attest      |-> "failed",
           publish     |-> "publication_failed",
           validate    |-> "validation_failed",
           quality     |-> "quality_validation_failed",
           eligibility |-> "settlement_eligibility_failed",
           plan        |-> "settlement_planning_failed",
           authorize   |-> "settlement_authorization_failed",
           simulate    |-> "settlement_simulation_failed",
           permit      |-> "settlement_permit_failed"]

Reached == [attest      |-> [ok |-> "attested"],
            publish     |-> [ok |-> "published"],
            validate    |-> [verified |-> "delivery_verified",
                             rejected |-> "delivery_rejected"],
            quality     |-> [accepted   |-> "quality_accepted",
                             rejected   |-> "quality_rejected",
                             undeclared |-> "quality_not_configured"],
            eligibility |-> [release      |-> "release_eligible",
                             compensation |-> "compensation_review_eligible"],
            plan        |-> [ok |-> "settlement_planned"],
            authorize   |-> [ok |-> "settlement_authorized"],
            simulate    |-> [ok |-> "settlement_simulated"],
            permit      |-> [ok |-> "settlement_execution_permitted"]]

FinalStates == {Failed[k] : k \in Phases}
               \cup {"delivery_rejected", "quality_not_configured",
                     "compensation_review_eligible",
                     "settlement_execution_permitted"}

AnchorStates == FinalStates \cup {Working[k] : k \in Phases}
                \cup {"none"} \cup UNION {Ready[k] : k \in Phases}

Answers == {"none", "ok", "error", "unexpected", "verified", "rejected",
            "accepted", "undeclared", "release", "compensation"}

JobStates == {"none", "scheduled", "running", "waiting", "completed", "stopped"}

Leases == {"none", "held", "ended"}

\* A run has claimed a job, and works on it once it has read it again.
JobWork == {"claimed", "job"}

IdleTurn == [work |-> "none", on |-> NoDecision, answer |-> "none",
         attempts |-> 0, signature |-> 0, owns |-> FALSE]

SchedulerInit ==
  /\ chain = [d \in Decisions |-> NoRecords]
  /\ job = [d \in Decisions |-> [state |-> "none", lease |-> "none", error |-> "none",
                                 attempts |-> 0, budget |-> 0, events |-> 0,
                                 joined |-> FALSE]]
  /\ anchor = [d \in Decisions |-> [state |-> "none", lease |-> "none", evidence |-> 0,
                                    signature |-> 0, quality |-> "none",
                                    attempts |-> [k \in Phases |-> 0]]]
  /\ turn = [r \in Runners |-> IdleTurn]
  /\ overruns = 0 /\ faults = 0

SchedulerTypeOK ==
  /\ chain \in [Decisions -> ChainRecords]
  /\ job \in [Decisions -> [state : JobStates, lease : Leases,
                            error : {"none", "maximum_attempts_reached", "other"},
                            attempts : Nat, budget : Nat, events : Nat,
                            joined : BOOLEAN]]
  /\ anchor \in [Decisions -> [state : AnchorStates, lease : Leases, evidence : Nat,
                               signature : Nat,
                               quality : {"none", "accepted", "rejected"},
                               attempts : [Phases -> 0 .. PhaseAttempts]]]
  /\ turn \in [Runners -> [work : Phases \cup {"none"} \cup JobWork, on : Decisions \cup {NoDecision},
                          answer : Answers, attempts : 0 .. PhaseAttempts,
                          signature : Nat, owns : BOOLEAN]]
  /\ overruns \in 0 .. MaxOverruns
  /\ faults \in 0 .. MaxFaults

-----------------------------------------------------------------------------
(* Jobs.  Every write of a job appends an event to its journal in the same *)
(* transaction.                                                            *)

\* The buyer's service schedules a purchase once; asked again it changes
\* nothing.
Schedule(d) ==
  /\ job[d].state = "none"
  /\ job' = [job EXCEPT ![d].state = "scheduled", ![d].budget = MaxAttempts,
                        ![d].events = 1]
  /\ UNCHANGED <<chain, anchor, turn, overruns, faults>>

\* An operator grants a job that used up its budget one attempt more.
Resume(d) ==
  /\ job[d].state = "stopped" /\ job[d].error = "maximum_attempts_reached"
  /\ job[d].attempts < MaxBudget
  /\ job' = [job EXCEPT ![d].state = "scheduled", ![d].lease = "none",
                        ![d].error = "none", ![d].budget = job[d].attempts + 1,
                        ![d].events = @ + 1]
  /\ UNCHANGED <<chain, anchor, turn, overruns, faults>>

\* The run r takes a row; a run that had lost it does not own it any more.
Take(r, work, d, attempts, signature) ==
  turn' = [s \in Runners |->
    IF s = r THEN [work |-> work, on |-> d, answer |-> "none", attempts |-> attempts,
                   signature |-> signature, owns |-> TRUE]
    ELSE IF turn[s].on = d /\ (turn[s].work \in JobWork <=> work \in JobWork)
    THEN [turn[s] EXCEPT !.owns = FALSE]
    ELSE turn[s]]

\* (Not the code: a job whose run died is never claimed again.)
JobIsDueOnce(d) == job[d].state \in {"scheduled", "waiting"}

JobIsDue(d) ==
  \/ job[d].state \in {"scheduled", "waiting"}
  \/ job[d].state = "running" /\ job[d].lease = "ended"

\* A job that is due but has spent its attempts is stopped instead; the run is
\* told its name all the same.
ClaimOne(r, d) ==
  /\ turn[r] = IdleTurn /\ JobIsDue(d)
  /\ \/ /\ job[d].attempts >= job[d].budget
        /\ job' = [job EXCEPT ![d].state = "stopped", ![d].lease = "none",
                              ![d].error = "maximum_attempts_reached",
                              ![d].events = @ + 1]
        /\ turn' = [turn EXCEPT ![r] = [IdleTurn EXCEPT !.work = "claimed", !.on = d]]
     \/ /\ job[d].attempts < job[d].budget
        /\ job' = [job EXCEPT ![d].state = "running", ![d].lease = "held",
                              ![d].attempts = @ + 1, ![d].events = @ + 1]
        /\ Take(r, "claimed", d, 0, 0)
  /\ UNCHANGED <<chain, anchor, overruns, faults>>

\* The run reads the job in another transaction, and leaves it alone if it is
\* stopped.  Of one that it stopped itself and an operator has resumed since, it
\* holds no lease.
ReadClaimed(r) ==
  LET d == turn[r].on IN
  /\ turn[r].work = "claimed"
  /\ \/ /\ job[d].state = "stopped"
        /\ turn' = [turn EXCEPT ![r] = IdleTurn]
        /\ UNCHANGED job
     \/ /\ job[d].state # "stopped"
        /\ turn' = [turn EXCEPT ![r].work = "job"]
        /\ job' = [job EXCEPT ![d].joined = @ \/ ~turn[r].owns]
  /\ UNCHANGED <<chain, anchor, overruns, faults>>

\* The transition asked for was made, or is still awaited, or failed in a way
\* that may pass: try again, unless that was the last attempt.
Wait(r) ==
  LET d == turn[r].on IN
  /\ turn[r].work = "job"
  /\ \/ /\ job[d].attempts >= job[d].budget
        /\ job' = [job EXCEPT ![d].state = "stopped", ![d].lease = "none",
                              ![d].error = "maximum_attempts_reached",
                              ![d].events = @ + 1]
     \/ /\ job[d].attempts < job[d].budget
        /\ job' = [job EXCEPT ![d].state = "waiting", ![d].lease = "none",
                              ![d].error = "none", ![d].events = @ + 1]
  /\ turn' = [turn EXCEPT ![r] = IdleTurn]
  /\ UNCHANGED <<chain, anchor, overruns, faults>>

\* A refusal that must not be retried, an action the scheduler does not know,
\* or an exception nobody foresaw.
Stop(r) ==
  LET d == turn[r].on IN
  /\ turn[r].work = "job"
  /\ job' = [job EXCEPT ![d].state = "stopped", ![d].lease = "none",
                        ![d].error = "other", ![d].events = @ + 1]
  /\ turn' = [turn EXCEPT ![r] = IdleTurn]
  /\ UNCHANGED <<chain, anchor, overruns, faults>>

\* (Not the code: the head is read before the completion is appended.)
HeadAtFinishEarly(d) == job[d].events

HeadAtFinish(d) == job[d].events + 1

\* The delivery was opened.  The anchor is created once, with the journal's
\* head, its last event included.
Finish(r) ==
  LET d == turn[r].on IN
  /\ turn[r].work = "job"
  /\ job' = [job EXCEPT ![d].state = "completed", ![d].lease = "none",
                        ![d].error = "none", ![d].events = @ + 1]
  /\ anchor' = IF anchor[d].state # "none" THEN anchor
               ELSE [anchor EXCEPT ![d].state = "pending",
                                   ![d].evidence = HeadAtFinish(d)]
  /\ turn' = [turn EXCEPT ![r] = IdleTurn]
  /\ UNCHANGED <<chain, overruns, faults>>

RunClaimed(r) == ReadClaimed(r) \/ Wait(r) \/ Stop(r) \/ Finish(r)

-----------------------------------------------------------------------------
(* Anchors.                                                                *)

AnchorIsDue(k, d) ==
  \/ anchor[d].state \in Ready[k]
  \/ anchor[d].state = Working[k] /\ anchor[d].lease = "ended"

\* (Not the code: the limit of a phase's attempts is checked one claim late.)
AttemptsSpentLate(k, d) == anchor[d].attempts[k] > PhaseAttempts

AttemptsSpent(k, d) == anchor[d].attempts[k] >= PhaseAttempts

\* The run keeps a copy of the row it claimed.
ClaimPhase(k, r, d) ==
  /\ turn[r] = IdleTurn /\ AnchorIsDue(k, d)
  /\ \/ /\ AttemptsSpent(k, d)
        /\ anchor' = [anchor EXCEPT ![d].state = Failed[k], ![d].lease = "none"]
        /\ UNCHANGED turn
     \/ /\ ~AttemptsSpent(k, d)
        /\ anchor' = [anchor EXCEPT ![d].state = Working[k], ![d].lease = "held",
                                    ![d].attempts[k] = @ + 1]
        /\ Take(r, k, d, anchor[d].attempts[k] + 1, anchor[d].signature)
  /\ UNCHANGED <<chain, job, overruns, faults>>

ClaimAnchor(r, d)                == ClaimPhase("attest", r, d)
ClaimPublication(r, d)           == ClaimPhase("publish", r, d)
ClaimValidation(r, d)            == ClaimPhase("validate", r, d)
ClaimQualityValidation(r, d)     == ClaimPhase("quality", r, d)
ClaimSettlementEligibility(r, d) == ClaimPhase("eligibility", r, d)
ClaimSettlementPhase(r, d)       == \E k \in SettlementPhases : ClaimPhase(k, r, d)

\* The request of phase k is answered with one of the responses; or it is
\* refused for a reason of the service's own, its answer is lost on the way
\* back, or handling it raises an exception.
AskService(r, k, responses) ==
  LET d == turn[r].on IN
  /\ turn[r].work = k /\ turn[r].answer = "none"
  /\ \/ \E x \in responses :
          /\ chain' = [chain EXCEPT ![d] = x.row]
          /\ turn' = [turn EXCEPT ![r].answer = x.answer]
          /\ UNCHANGED faults
     \/ \E x \in responses \cup {Response(chain[d], "error")},
           failure \in {"error", "unexpected"} :
          /\ Fault
          /\ chain' = [chain EXCEPT ![d] = x.row]
          /\ turn' = [turn EXCEPT ![r].answer = failure]
  /\ UNCHANGED <<job, anchor, overruns>>

\* The answer is what the phase waits for: the next phase becomes due.
Advance(r, k) ==
  LET d == turn[r].on
      answer == turn[r].answer IN
  /\ turn[r].work = k /\ answer \in DOMAIN Reached[k]
  /\ anchor' = [anchor EXCEPT
       ![d].state = Reached[k][answer],
       ![d].lease = "none",
       ![d].signature = IF k = "attest" THEN turn[r].signature ELSE @,
       ![d].quality = IF k = "quality" /\ answer # "undeclared" THEN answer ELSE @]
  /\ turn' = [turn EXCEPT ![r] = IdleTurn]
  /\ UNCHANGED <<chain, job, overruns, faults>>

\* (Not the code: the eligibility is always given back as that of an accepted quality.)
StatesBeforeAccepted(k, quality) ==
  IF k = "eligibility" THEN {"quality_accepted"} ELSE Ready[k]

\* The verdict on the quality is on record when the eligibility is asked for,
\* and names the state before.
StatesBefore(k, quality) ==
  IF k # "eligibility" THEN Ready[k]
  ELSE IF quality = "accepted" THEN {"quality_accepted"}
  ELSE {"quality_rejected"}

\* The phase is tried again later, unless the run made the last attempt.  An
\* exception nobody foresaw ends the early phases at once and is an error like
\* any other in those of the settlement.
GiveBack(r, k) ==
  LET d == turn[r].on
      retried == turn[r].answer = "error" \/ k \in SettlementPhases IN
  /\ turn[r].work = k /\ turn[r].answer \in {"error", "unexpected"}
  /\ \/ /\ retried /\ turn[r].attempts < PhaseAttempts
        /\ \E s \in StatesBefore(k, anchor[d].quality) :
             anchor' = [anchor EXCEPT ![d].state = s, ![d].lease = "none"]
     \/ /\ ~retried \/ turn[r].attempts >= PhaseAttempts
        /\ anchor' = [anchor EXCEPT ![d].state = Failed[k], ![d].lease = "none"]
  /\ turn' = [turn EXCEPT ![r] = IdleTurn]
  /\ UNCHANGED <<chain, job, overruns, faults>>

\* The journal must still end where the job was completed; then the wallet
\* signs its head with the time of day, another one for every attempt.
RunAnchor(r) ==
  LET d == turn[r].on
      journalIsIntact == job[d].events = anchor[d].evidence IN
  \/ /\ turn[r].work = "attest" /\ turn[r].answer = "none"
     /\ \/ /\ ~journalIsIntact
           /\ turn' = [turn EXCEPT ![r].answer = "unexpected"]
           /\ UNCHANGED faults
        \/ /\ journalIsIntact
           /\ turn' = [turn EXCEPT ![r].answer = "ok", ![r].signature = turn[r].attempts]
           /\ UNCHANGED faults
        \/ /\ journalIsIntact /\ Fault
           /\ \E failure \in {"error", "unexpected"} :
                turn' = [turn EXCEPT ![r].answer = failure]
     /\ UNCHANGED <<chain, job, anchor, overruns>>
  \/ Advance(r, "attest") \/ GiveBack(r, "attest")

RunPublication(r) ==
  \/ AskService(r, "publish", PublishProtocolEvidence(chain[turn[r].on], turn[r].signature))
  \/ Advance(r, "publish") \/ GiveBack(r, "publish")

RunValidation(r) ==
  \/ AskService(r, "validate", ValidateDeliveryBinding(chain[turn[r].on]))
  \/ Advance(r, "validate") \/ GiveBack(r, "validate")

RunQualityValidation(r) ==
  \/ AskService(r, "quality", ValidateDeliveryQuality(chain[turn[r].on]))
  \/ Advance(r, "quality") \/ GiveBack(r, "quality")

RunSettlementEligibility(r) ==
  \/ AskService(r, "eligibility", EvaluateSettlementEligibility(chain[turn[r].on]))
  \/ Advance(r, "eligibility") \/ GiveBack(r, "eligibility")

RunSettlementPlan(r) ==
  \/ AskService(r, "plan", PlanSettlementExecution(chain[turn[r].on]))
  \/ Advance(r, "plan") \/ GiveBack(r, "plan")

RunSettlementAuthorization(r) ==
  \/ AskService(r, "authorize", AuthorizeSettlementPlan(chain[turn[r].on]))
  \/ Advance(r, "authorize") \/ GiveBack(r, "authorize")

RunSettlementSimulation(r) ==
  \/ AskService(r, "simulate", SimulateSettlement(chain[turn[r].on]))
  \/ Advance(r, "simulate") \/ GiveBack(r, "simulate")

RunSettlementPermit(r) ==
  \/ AskService(r, "permit", IssueSettlementExecutionPermit(chain[turn[r].on]))
  \/ Advance(r, "permit") \/ GiveBack(r, "permit")

-----------------------------------------------------------------------------
(* Leases, and time at the service.                               *)

Owned(work, d) ==
  \E r \in Runners : turn[r].owns /\ turn[r].on = d /\ (turn[r].work \in JobWork <=> work \in JobWork)

\* The lease of a run that died ends.
LeaseEnds(d) ==
  /\ \/ /\ job[d].lease = "held" /\ ~Owned("job", d)
        /\ job' = [job EXCEPT ![d].lease = "ended"]
        /\ UNCHANGED anchor
     \/ /\ anchor[d].lease = "held" /\ ~Owned("anchor", d)
        /\ anchor' = [anchor EXCEPT ![d].lease = "ended"]
        /\ UNCHANGED job
  /\ UNCHANGED <<chain, turn, overruns, faults>>

\* The lease ends while its run is still at work.
LeaseOverrun(r) ==
  LET d == turn[r].on IN
  /\ turn[r].owns /\ overruns < MaxOverruns
  /\ overruns' = overruns + 1
  /\ turn' = [turn EXCEPT ![r].owns = FALSE]
  /\ \/ /\ turn[r].work \in JobWork /\ job[d].lease = "held"
        /\ job' = [job EXCEPT ![d].lease = "ended"]
        /\ UNCHANGED anchor
     \/ /\ turn[r].work \notin JobWork /\ anchor[d].lease = "held"
        /\ anchor' = [anchor EXCEPT ![d].lease = "ended"]
        /\ UNCHANGED job
  /\ UNCHANGED <<chain, faults>>

\* The worker process dies and is started again.
SchedulerCrash(r) ==
  /\ turn[r] # IdleTurn /\ Fault
  /\ turn' = [turn EXCEPT ![r] = IdleTurn]
  /\ UNCHANGED <<chain, job, anchor, overruns>>

ServiceTime(d) ==
  /\ SimulationExpires(d) \/ PermitExpires(d) \/ ClaimPermit(d)
  /\ UNCHANGED <<job, anchor, turn, overruns, faults>>

\* One wake of the worker claims at most one anchor, then the jobs that are due.
RunDueOnce(r) ==
  \E d \in Decisions :
    \/ ClaimOne(r, d) \/ ClaimAnchor(r, d) \/ ClaimPublication(r, d)
    \/ ClaimValidation(r, d) \/ ClaimQualityValidation(r, d)
    \/ ClaimSettlementEligibility(r, d) \/ ClaimSettlementPhase(r, d)

SchedulerWork(r) ==
  \/ RunClaimed(r) \/ RunAnchor(r) \/ RunPublication(r) \/ RunValidation(r)
  \/ RunQualityValidation(r) \/ RunSettlementEligibility(r)
  \/ RunSettlementPlan(r) \/ RunSettlementAuthorization(r)
  \/ RunSettlementSimulation(r) \/ RunSettlementPermit(r)

SchedulerNext ==
  \/ \E d \in Decisions : Schedule(d) \/ Resume(d) \/ LeaseEnds(d) \/ ServiceTime(d)
  \/ \E r \in Runners : RunDueOnce(r) \/ SchedulerWork(r) \/ LeaseOverrun(r) \/ SchedulerCrash(r)

\* A worker wakes for ever and finishes what it does not die in; the clock ends
\* the leases of the dead.  Nothing forces a purchase, a resumption, a fault,
\* or the passing of 300 seconds.
SchedulerFairness ==
  /\ \A r \in Runners : /\ WF_schedulerVars(RunDueOnce(r))
                       /\ WF_schedulerVars(SchedulerWork(r))
  /\ \A d \in Decisions : WF_schedulerVars(LeaseEnds(d))

SchedulerSpec == SchedulerInit /\ [][SchedulerNext]_schedulerVars /\ SchedulerFairness

-----------------------------------------------------------------------------
\* What the service must hold before each phase asks it for the next record.
Rests(k, c) ==
  CASE k = "attest"      -> TRUE
    [] k = "publish"     -> TRUE
    [] k = "validate"    -> c.evidence # 0
    [] k = "quality"     -> c.binding = "verified"
    [] k = "eligibility" -> c.quality # "none"
    [] k = "plan"        -> c.eligibility = "release"
    [] k = "authorize"   -> c.plan
    [] k = "simulate"    -> c.authorization
    [] k = "permit"      -> c.simulation # "none"

\* buyer_agent_scheduler.py _run_*, _finish_*, _retry_settlement_phase:
\* whatever runs died, overlapped or wrote late, an anchor never claims more
\* than the service has on record for its purchase.
AnchorIsBacked ==
  \A d \in Decisions :
    LET s == anchor[d].state
        c == chain[d] IN
    /\ \A k \in Phases : s \in Ready[k] \cup {Working[k], Failed[k]} => Rests(k, c)
    /\ s = "quality_accepted" => c.quality = "accepted"
    /\ s = "quality_rejected" => c.quality = "rejected"
    /\ s = "delivery_rejected" => c.binding = "rejected"
    /\ s = "compensation_review_eligible" => c.eligibility = "compensation"
    /\ s = "settlement_execution_permitted" => c.permit # "none"

\* protocol_evidence.py: whatever the buyers' schedulers ask, however often and
\* in whatever order, every record rests on the ones before it.
PermitIsEarned == \A d \in Decisions : RecordsAreChained(chain[d])

\* Both sides of the protocol between the scheduler and the service: what an
\* anchor claims is on record, and every record rests on the ones before it.
ClaimsAreBacked == AnchorIsBacked /\ PermitIsEarned

\* buyer_agent_scheduler.py _claim_one, _finish, _run_anchor: as long as no lease
\* ended under its run, the journal of an anchored job never grows again: the
\* head the wallet signs is the head of the journal, and what was published is
\* the signature on record.  A job is excepted that a run went on with although
\* it had stopped it, as an operator resumed it between the run's two looks.
JournalIsSealed ==
  overruns = 0 =>
    \A d \in Decisions : anchor[d].state # "none" =>
      /\ ~job[d].joined =>
           /\ job[d].state = "completed"
           /\ job[d].events = anchor[d].evidence
      /\ chain[d].evidence \in {0, anchor[d].signature}

\* run_due_once, resume: every job is completed or stopped, and every anchor
\* reaches a final state, whatever is lost on the way.
SchedulerPending ==
  \E d \in Decisions : job[d].state = "scheduled" \/ anchor[d].state = "pending"

SchedulerEnded ==
  \A d \in Decisions :
    /\ job[d].state \in {"none", "completed", "stopped"}
    /\ anchor[d].state \in FinalStates \cup {"none"}
=============================================================================
