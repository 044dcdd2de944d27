----------------------------- MODULE HostedJobs -----------------------------
(***************************************************************************)
(* The queue of the hosted buyers (iat/hosted_buyer_jobs.py) and its       *)
(* worker (iat/hosted_buyer_worker.py), for one job: a row with a lease,   *)
(* and a journal of events chained by their hashes.                        *)
(*                                                                         *)
(* The journal is kept in the order its readers sort it by: the second of  *)
(* the event, then its id.  Ids are random, so an event takes any place    *)
(* among those of its second.  Hashes are the numbers of the events, 0 the *)
(* genesis.  A worker reads the clock once, when it claims, and dates all  *)
(* its events with it.                                                     *)
(***************************************************************************)
EXTENDS Faults, SequencesExt

CONSTANTS
  HostedWorkers,      \* worker processes
  HostedAttempts,     \* the attempts the job is enqueued with
  LastSecond          \* bound: the clock

VARIABLES
  hosted,    \* hosted_buyer_jobs: the row of the job
  journal,   \* hosted_buyer_job_events, by (created_at, event_id)
  shift,     \* the job each worker has claimed: its lease, attempt and time
  second     \* the time of day

hostedVars == <<hosted, journal, shift, second, faults>>

ASSUME HostedAssumption ==
  /\ HostedAttempts \in Nat \ {0}
  /\ LastSecond \in Nat

OffShift == [lease |-> 0, attempt |-> 0, at |-> 0]

HostedFinal == {"waiting", "completed", "stopped"}

HostedInit ==
  /\ hosted = [state |-> "none", lease |-> 0, until |-> 0, attempts |-> 0]
  /\ journal = <<>>
  /\ shift = [w \in HostedWorkers |-> OffShift]
  /\ second = 0
  /\ faults = 0

HostedTypeOK ==
  /\ hosted \in [state : {"none", "queued", "leased"} \cup HostedFinal,
                 lease : Nat, until : Nat, attempts : Nat]
  /\ journal \in Seq([type : {"queued", "leased"} \cup HostedFinal, at : Nat,
                      hash : Nat \ {0}, previous : Nat])
  /\ shift \in [HostedWorkers -> [lease : Nat, attempt : Nat, at : Nat]]
  /\ second \in 0 .. LastSecond
  /\ faults \in 0 .. MaxFaults

-----------------------------------------------------------------------------
\* (Not the code: the sort is ascending.)
JournalHeadAscending(j) == IF j = <<>> THEN 0 ELSE j[1].hash

\* The hash of the event that sorts last.
JournalHead(j) == IF j = <<>> THEN 0 ELSE Last(j).hash

\* A new event links to the one that sorts last and is sorted in by its date.
RecordEvent(type, at) ==
  LET event == [type |-> type, at |-> at, hash |-> Len(journal) + 1,
                previous |-> JournalHead(journal)]
  IN \E place \in 1 .. Len(journal) + 1 :
       /\ \A i \in 1 .. Len(journal) :
            /\ i < place => journal[i].at <= at
            /\ i >= place => journal[i].at >= at
       /\ journal' = InsertAt(journal, place, event)

\* An administrator queues the intent once; again, it is a replay.
EnqueueHostedBuyerJob ==
  /\ hosted.state = "none"
  /\ hosted' = [hosted EXCEPT !.state = "queued"]
  /\ RecordEvent("queued", second)
  /\ UNCHANGED <<shift, second, faults>>

\* (Not the code: ended leases are left to the workers that held them.)
NeverRequeued(job) == job

\* A claim first puts every job whose lease has ended back into the queue; the
\* attempts left are not looked at.
Requeued(job) ==
  IF job.state = "leased" /\ job.until < second
  THEN [job EXCEPT !.state = "queued", !.lease = 0, !.until = 0] ELSE job

\* The lease is a token of its own; it lasts until the next second.
ClaimHostedBuyerJob(w) ==
  LET job == Requeued(hosted)
      attempt == job.attempts + 1 IN
  /\ shift[w] = OffShift /\ job.state = "queued"
  /\ hosted' = [state |-> "leased", lease |-> attempt, until |-> second,
                attempts |-> attempt]
  /\ RecordEvent("leased", second)
  /\ shift' = [shift EXCEPT ![w] = [lease |-> attempt, attempt |-> attempt, at |-> second]]
  /\ UNCHANGED <<second, faults>>

\* The write is the holder's only; a worker that lost its lease is told so.
FinishHostedBuyerJob(w, state) ==
  /\ shift[w] # OffShift
  /\ IF hosted.state = "leased" /\ hosted.lease = shift[w].lease
     THEN /\ hosted' = [hosted EXCEPT !.state = state, !.lease = 0, !.until = 0]
          /\ RecordEvent(state, shift[w].at)
     ELSE UNCHANGED <<hosted, journal>>
  /\ shift' = [shift EXCEPT ![w] = OffShift]
  /\ UNCHANGED <<second, faults>>

\* The transition was made or is awaited, or failed in a way that may pass.
HostedWait(w) ==
  FinishHostedBuyerJob(w, IF shift[w].attempt >= HostedAttempts THEN "stopped" ELSE "waiting")

\* One transition of the buyer's intent: the delivery is opened, or a step is
\* taken or awaited, or the job cannot go on.
RunOnce(w) ==
  \/ ClaimHostedBuyerJob(w)
  \/ FinishHostedBuyerJob(w, "completed")
  \/ HostedWait(w)
  \/ FinishHostedBuyerJob(w, "stopped")

\* A worker dies and is started again.  (Bound: there is time to recover.)
HostedCrash(w) ==
  /\ shift[w] # OffShift /\ second < LastSecond /\ Fault
  /\ shift' = [shift EXCEPT ![w] = OffShift]
  /\ UNCHANGED <<hosted, journal, second>>

Tick ==
  /\ second < LastSecond
  /\ second' = second + 1
  /\ UNCHANGED <<hosted, journal, shift, faults>>

HostedNext ==
  \/ EnqueueHostedBuyerJob \/ Tick
  \/ \E w \in HostedWorkers : RunOnce(w) \/ HostedCrash(w)

\* Workers are called again and again, and time passes.
HostedFairness ==
  /\ \A w \in HostedWorkers : WF_hostedVars(RunOnce(w))
  /\ WF_hostedVars(Tick)

HostedSpec == HostedInit /\ [][HostedNext]_hostedVars /\ HostedFairness

-----------------------------------------------------------------------------
(* verify_hosted_buyer_job_events: by_previous keeps, of the events that   *)
(* name the same predecessor, the one that sorts last; the walk follows it *)
(* from the genesis.                                                       *)

Predecessors(j) == {j[i].previous : i \in DOMAIN j}

Follower(j, hash) == j[Max({i \in DOMAIN j : j[i].previous = hash})].hash

Walk(j) ==
  LET upTo[n \in 0 .. Len(j)] ==
        IF n = 0 THEN {0}
        ELSE upTo[n - 1] \cup {Follower(j, hash) : hash \in upTo[n - 1] \cap Predecessors(j)}
  IN upTo[Len(j)]

\* The verdict is "ok" when no predecessor is left over.
JournalIsValid(j) == Predecessors(j) \subseteq Walk(j)

\* The genesis is no event.
EventCount(j) == Cardinality(Walk(j)) - 1

\* A job queued and claimed, or claimed twice, within one second.
Crowded(j) == \E i, k \in DOMAIN j :
                i < k /\ j[i].at = j[k].at /\ {j[i].type, j[k].type} \subseteq {"queued", "leased"}

\* hosted_buyer_jobs.py _record_event, verify_hosted_buyer_job_events: a journal
\* the code itself wrote is never reported as tampered with, whichever worker
\* wrote late or died; and as long as no job is claimed in the second it was
\* queued in, the walk meets every event.
HostedJournalVerifies ==
  /\ JournalIsValid(journal)
  /\ ~Crowded(journal) => EventCount(journal) = Len(journal)

\* claim_hosted_buyer_job, run_once: a queued job is worked on until it is
\* completed, stopped or waiting, whatever dies on the way.
HostedPending == hosted.state = "queued"

HostedEnded == hosted.state \in HostedFinal \cup {"none"}
=============================================================================
