-------------------------- MODULE ProtocolLearning --------------------------
(***************************************************************************)
(* What the protocol learns (iat/api/db.py): memories are stored, observed *)
(* again or found false, decay, are archived and promoted to knowledge;    *)
(* hypotheses are put to experiments, whose ends evaluate them.  Memories  *)
(* and hypotheses do not meet, so each has a next-state relation.          *)
(*                                                                         *)
(* Modelled for one signature of a memory and one statement of a           *)
(* hypothesis, with several rows each.  Of scores it is kept which side of *)
(* a threshold they are on, and what a call adds or takes may move them    *)
(* across or not.  The reports that the learning cycle stores of itself,   *)
(* tags and payloads are left out.                                         *)
(***************************************************************************)
EXTENDS StaffCalls, FiniteSets, FiniteSetsExt

CONSTANTS
  Rows,             \* bound: rows of protocol_memory, and of protocol_hypotheses
  Experiments,      \* bound: rows of protocol_experiments
  MaxLessons        \* bound: observations, or evaluations

\* The server has so many threads, and the tables so many rows.
ASSUME LearningAssumption == IsFiniteSet(Staff) /\ IsFiniteSet(Rows) /\ MaxLessons \in Nat

VARIABLES
  memory,           \* protocol_memory
  knowledge,        \* the memories that protocol_knowledge holds, unless forced
  lessons,          \* what was seen for and against each row
  hypothesis,       \* protocol_hypotheses
  experiment,       \* protocol_experiments
  uncounted,        \* hypotheses that missed the end of an experiment
  copy              \* the row that each call has read, and which row it is

memoryTables == <<memory, knowledge>>

hypothesisTables == <<hypothesis, experiment, uncounted>>

learningTables == <<memoryTables, hypothesisTables, lessons, copy>>

learningVars == <<learningTables, callVars, faults>>

\* strong: confidence, strength and importance are those of knowledge.
Memory(status, strong, observed, falsified) ==
  [status |-> status, strong |-> strong, observed |-> observed, falsified |-> falsified]

NoMemory == Memory("none", FALSE, 0, 0)

\* sure: the confidence is that of a validated hypothesis.
Hypothesis(status, sure, successes, failures) ==
  [status |-> status, sure |-> sure, successes |-> successes, failures |-> failures]

NoHypothesis == Hypothesis("none", FALSE, 0, 0)

NoExperiment == [status |-> "none", of |-> {}]

NoCopy == [rows |-> {}, memory |-> NoMemory, hypothesis |-> NoHypothesis]

LearningInit ==
  /\ memory = [r \in Rows |-> NoMemory]
  /\ knowledge = {}
  /\ lessons = [r \in Rows |-> [for |-> 0, against |-> 0]]
  /\ hypothesis = [r \in Rows |-> NoHypothesis]
  /\ experiment = [e \in Experiments |-> NoExperiment]
  /\ uncounted = {}
  /\ copy = [t \in Staff |-> NoCopy]
  /\ CallsInit
  /\ faults = 0

Lessons == 0 .. MaxLessons + MaxFaults

Memories ==
  [status : {"none", "active", "archived"}, strong : BOOLEAN,
   observed : Lessons, falsified : Lessons]

Hypotheses ==
  [status : {"none", "proposed", "testing", "validated", "rejected"},
   sure : BOOLEAN, successes : Lessons, failures : Lessons]

LearningTypeOK ==
  /\ memory \in [Rows -> Memories]
  /\ knowledge \subseteq Rows
  /\ lessons \in [Rows -> [for : Lessons, against : Lessons]]
  /\ hypothesis \in [Rows -> Hypotheses]
  /\ \A e \in Experiments :
       /\ experiment[e].status \in {"none", "planned", "running", "succeeded", "failed"}
       /\ experiment[e].of \in SUBSET Rows /\ Cardinality(experiment[e].of) <= 1
  /\ uncounted \subseteq Rows
  /\ \A t \in Staff :
       /\ copy[t].rows \subseteq Rows
       /\ copy[t].memory \in Memories /\ copy[t].hypothesis \in Hypotheses
  /\ desk \in [Staff ->
       [task : {"none", "remember", "observe", "falsify", "promote", "force", "cycle",
                "decay", "suppose", "start", "complete", "evaluate", "judge"},
        outcome : {"none", "succeeded", "failed"} \cup Experiments, left : {0, 1}]]
  /\ outdated \subseteq Staff /\ overlapped \in BOOLEAN
  /\ faults \in 0 .. MaxFaults

\* A score that only rises, or only falls, from one side of its threshold.
Raised(side) == {side, TRUE}
Lowered(side) == {side, FALSE}

\* A call has read what it needs of some rows.
Copies(t, rows, row, supposition) ==
  copy' = [copy EXCEPT ![t] =
    [rows |-> rows, memory |-> row, hypothesis |-> supposition]]

MoreLessons ==
  LET seen == [r \in Rows |-> lessons[r].for + lessons[r].against] IN
  MapThenSumSet(LAMBDA r : seen[r], Rows) < MaxLessons

Forgets(t) == copy' = [copy EXCEPT ![t] = NoCopy]

-----------------------------------------------------------------------------
\* Memories.
Active == {r \in Rows : memory[r].status = "active"}

Unused == {r \in Rows : memory[r].status = "none"}

\* find_similar_protocol_memory_db: an active row of the signature, if any.
FindSimilar(t) ==
  /\ \/ \E r \in Active : Copies(t, {r}, memory[r], NoHypothesis)
     \/ Active = {} /\ Unused # {} /\ Copies(t, {}, NoMemory, NoHypothesis)
  /\ Decides(t, "remember", "none")
  /\ UNCHANGED <<memoryTables, hypothesisTables, lessons>>

\* store_protocol_memory_db, for what it has found: the row is written from the
\* copy, its status and its counts left alone, or one is inserted.
StoreMemory(t) ==
  /\ desk[t].task = "remember"
  /\ \/ \E r \in copy[t].rows, strong \in Raised(copy[t].memory.strong) :
          memory' = [memory EXCEPT ![r].strong = strong]
     \/ /\ copy[t].rows = {}
        /\ \E r \in Unused :
             /\ r = CHOOSE u \in Unused : TRUE
             /\ memory' = [memory EXCEPT ![r] = Memory("active", FALSE, 0, 0)]
  /\ Forgets(t)
  /\ Writes(t, NoWork)
  /\ UNCHANGED <<knowledge, hypothesisTables, lessons>>

\* reinforce_protocol_memory_db, for a row that may be archived.
ReadMemory(t, r, task) ==
  /\ memory[r].status # "none"
  /\ MoreLessons
  /\ Copies(t, {r}, memory[r], NoHypothesis)
  /\ Decides(t, task, "none")
  /\ UNCHANGED <<memoryTables, hypothesisTables, lessons>>

BeginObservation(t, r) == ReadMemory(t, r, "observe")
BeginFalsification(t, r) == ReadMemory(t, r, "falsify")

\* It archives the memory when its scores are still, or have come down, far
\* enough, whatever was seen.
Observed(m) ==
  {Memory("active", strong, m.observed + 1, m.falsified) : strong \in Raised(m.strong)}
  \cup {Memory("archived", FALSE, m.observed + 1, m.falsified) : weak \in {FALSE} \ {m.strong}}

\* (Not the code: what is found false counts as an observation too.)
FalsifiedAsObserved(m) ==
  {Memory("active", strong, m.observed + 1, m.falsified) : strong \in Lowered(m.strong)}

Falsified(m) ==
  {Memory("active", strong, m.observed, m.falsified + 1) : strong \in Lowered(m.strong)}
  \cup {Memory("archived", FALSE, m.observed, m.falsified + 1) : weak \in {FALSE} \ {m.strong}}

WriteObservation(t, r) ==
  /\ desk[t].task = "observe" /\ copy[t].rows = {r}
  /\ \E row \in Observed(copy[t].memory) : memory' = [memory EXCEPT ![r] = row]
  /\ lessons' = [lessons EXCEPT ![r].for = @ + 1]
  /\ Forgets(t)
  /\ Writes(t, NoWork)
  /\ UNCHANGED <<knowledge, hypothesisTables>>

WriteFalsification(t, r) ==
  /\ desk[t].task = "falsify" /\ copy[t].rows = {r}
  /\ \E row \in Falsified(copy[t].memory) : memory' = [memory EXCEPT ![r] = row]
  /\ lessons' = [lessons EXCEPT ![r].against = @ + 1]
  /\ Forgets(t)
  /\ Writes(t, NoWork)
  /\ UNCHANGED <<knowledge, hypothesisTables>>

\* archive_protocol_memory_db
ArchiveMemory(r) ==
  /\ memory[r].status # "none"
  /\ memory' = [memory EXCEPT ![r].status = "archived"]
  /\ WritesAtOnce
  /\ UNCHANGED <<knowledge, hypothesisTables, lessons, copy>>

\* decay_protocol_memory_db: a row that was not written for a week loses strength,
\* and is archived when all its scores are low.
Decayed(m) ==
  {[m EXCEPT !.status = "active", !.strong = strong] : strong \in Lowered(m.strong)}
  \cup {[m EXCEPT !.status = "archived"] : weak \in {FALSE} \ {m.strong}}

BeginDecay(t, r) ==
  /\ r \in Active
  /\ Copies(t, {r}, memory[r], NoHypothesis)
  /\ Decides(t, "decay", "none")
  /\ UNCHANGED <<memoryTables, hypothesisTables, lessons>>

WriteDecay(t, r) ==
  /\ desk[t].task = "decay" /\ copy[t].rows = {r}
  /\ \E row \in Decayed(copy[t].memory) :
       memory' = [memory EXCEPT ![r].status = row.status, ![r].strong = row.strong]
  /\ Forgets(t)
  /\ Writes(t, NoWork)
  /\ UNCHANGED <<knowledge, hypothesisTables, lessons>>

\* run_protocol_learning_cycle_db: it selects what was found false more often than
\* it was observed, archives it, and then lets memories decay.
Refuted(m) == m.falsified > m.observed

BeginLearningCycle(t) ==
  /\ Active # {}
  /\ Copies(t, {r \in Active : Refuted(memory[r])}, NoMemory, NoHypothesis)
  /\ Decides(t, "cycle", "none")
  /\ UNCHANGED <<memoryTables, hypothesisTables, lessons>>

ArchiveRefuted(t, r) ==
  /\ desk[t].task = "cycle" /\ r \in copy[t].rows
  /\ memory' = [memory EXCEPT ![r].status = "archived"]
  /\ Copies(t, copy[t].rows \ {r}, NoMemory, NoHypothesis)
  /\ Writes(t, desk[t])
  /\ UNCHANGED <<knowledge, hypothesisTables, lessons>>

DecayInCycle(t) ==
  /\ desk[t].task = "cycle" /\ copy[t].rows = {}
  /\ \/ Forgets(t) /\ Leaves(t)
     \/ \E r \in Active :
          /\ Copies(t, {r}, memory[r], NoHypothesis)
          /\ desk' = [desk EXCEPT ![t].task = "decay"]
          /\ outdated' = outdated \ {t}
          /\ UNCHANGED overlapped
  /\ UNCHANGED <<memoryTables, hypothesisTables, lessons, faults>>

\* promote_memory_to_knowledge_db reads the memory, and then stores.
Promotable(m) ==
  m.strong /\ m.observed >= 2 /\ m.falsified = 0

BeginPromotionOf(t, r, forced) ==
  /\ r \in Active
  /\ forced \/ Promotable(memory[r])
  /\ Copies(t, {r}, memory[r], NoHypothesis)
  /\ Decides(t, IF forced THEN "force" ELSE "promote", "none")
  /\ UNCHANGED <<memoryTables, hypothesisTables, lessons>>

\* store_protocol_knowledge_db: a row that exists takes the metadata of the last.
StoreKnowledge(t, r) ==
  /\ desk[t].task \in {"promote", "force"} /\ copy[t].rows = {r}
  /\ knowledge' = IF desk[t].task = "force" THEN knowledge \ {r} ELSE knowledge \cup {r}
  /\ Forgets(t)
  /\ Writes(t, NoWork)
  /\ UNCHANGED <<memory, hypothesisTables, lessons>>

LearningCallDies(t) ==
  /\ t \in Busy /\ Fault
  /\ uncounted' = IF desk[t].task \in {"evaluate", "judge"} /\ desk[t].left = 1
                  THEN uncounted \cup copy[t].rows ELSE uncounted
  /\ Forgets(t)
  /\ Leaves(t)
  /\ UNCHANGED <<memoryTables, hypothesis, experiment, lessons>>

\* (Bound: what follows the first overlap is left out, as nothing is said of it.)
MemoryNext ==
  /\ ~overlapped
  /\ \/ \E r \in Rows : ArchiveMemory(r)
     \/ \E t \in Staff :
          \/ FindSimilar(t) \/ StoreMemory(t) \/ BeginLearningCycle(t) \/ DecayInCycle(t)
          \/ LearningCallDies(t)
          \/ \E r \in Rows :
               \/ BeginObservation(t, r) \/ WriteObservation(t, r)
               \/ BeginFalsification(t, r) \/ WriteFalsification(t, r)
               \/ ArchiveRefuted(t, r) \/ BeginDecay(t, r) \/ WriteDecay(t, r)
               \/ \E forced \in BOOLEAN : BeginPromotionOf(t, r, forced)
               \/ StoreKnowledge(t, r)

-----------------------------------------------------------------------------
\* Hypotheses.
Supposed == {r \in Rows : hypothesis[r].status \in {"proposed", "testing", "validated"}}

Blank == {r \in Rows : hypothesis[r].status = "none"}

\* store_protocol_hypothesis_db
FindHypothesis(t) ==
  /\ \/ \E r \in Supposed : Copies(t, {r}, NoMemory, hypothesis[r])
     \/ Supposed = {} /\ Blank # {} /\ Copies(t, {}, NoMemory, NoHypothesis)
  /\ Decides(t, "suppose", "none")
  /\ UNCHANGED <<memoryTables, hypothesisTables, lessons>>

StoreHypothesis(t) ==
  /\ desk[t].task = "suppose"
  /\ \/ \E r \in copy[t].rows, sure \in Raised(copy[t].hypothesis.sure) :
          hypothesis' = [hypothesis EXCEPT ![r].sure = sure]
     \/ /\ copy[t].rows = {}
        /\ \E r \in Blank, sure \in BOOLEAN :
             /\ r = CHOOSE u \in Blank : TRUE
             /\ hypothesis' = [hypothesis EXCEPT ![r] = Hypothesis("proposed", sure, 0, 0)]
  /\ Forgets(t)
  /\ Writes(t, NoWork)
  /\ UNCHANGED <<memoryTables, experiment, uncounted, lessons>>

\* An evaluation is one more for or against the hypothesis; that of an experiment
\* since the experiment has ended.
Seen(r, result) ==
  IF result = "succeeded" THEN [lessons[r] EXCEPT !.for = @ + 1]
  ELSE [lessons[r] EXCEPT !.against = @ + 1]

\* store_protocol_experiment_db
PlanExperiment(e, r) ==
  /\ experiment[e] = NoExperiment
  /\ hypothesis[r] # NoHypothesis
  /\ experiment' = [experiment EXCEPT ![e] = [status |-> "planned", of |-> {r}]]
  /\ UNCHANGED <<memoryTables, hypothesis, uncounted, lessons, copy, callVars, faults>>

\* start_protocol_experiment_db and complete_protocol_experiment_db
BeginStart(t, e) ==
  /\ experiment[e].status = "planned"
  /\ Decides(t, "start", e)
  /\ UNCHANGED learningTables

StartExperiment(t) ==
  /\ desk[t].task = "start"
  /\ experiment' = [experiment EXCEPT ![desk[t].outcome].status = "running"]
  /\ Writes(t, NoWork)
  /\ UNCHANGED <<memoryTables, hypothesis, uncounted, lessons, copy>>

BeginCompletion(t, e) ==
  /\ experiment[e].status \in {"planned", "running"}
  /\ Decides(t, "complete", e)
  /\ UNCHANGED learningTables

CompleteExperiment(t) ==
  LET e == desk[t].outcome IN
  /\ desk[t].task = "complete"
  /\ MoreLessons
  /\ \E result \in {"succeeded", "failed"} :
       /\ experiment' = [experiment EXCEPT ![e].status = result]
       /\ Writes(t, Work("evaluate", result, 1))
  /\ lessons' = [r \in Rows |->
       IF r \notin experiment[e].of THEN lessons[r] ELSE Seen(r, experiment'[e].status)]
  /\ Copies(t, experiment[e].of, NoMemory, NoHypothesis)
  /\ UNCHANGED <<memoryTables, hypothesis, uncounted>>

\* evaluate_protocol_hypothesis_db, at the end of an experiment or on its own.
BeginEvaluation(t, r, result) ==
  /\ hypothesis[r] # NoHypothesis
  /\ MoreLessons
  /\ Copies(t, {r}, NoMemory, hypothesis[r])
  /\ Decides(t, "judge", result)
  /\ UNCHANGED <<memoryTables, hypothesisTables, lessons>>

ReadHypothesis(t, r) ==
  /\ desk[t].task = "evaluate" /\ copy[t].rows = {r}
  /\ Copies(t, {r}, NoMemory, hypothesis[r])
  /\ desk' = [desk EXCEPT ![t].task = "judge"]
  /\ outdated' = outdated \ {t}
  /\ UNCHANGED <<memoryTables, hypothesisTables, lessons, overlapped, faults>>

\* At three evaluations or more, three quarters of successes validate, and a
\* third (0.34) or fewer reject.
LearnedVerdict(sure, successes, failures) ==
  LET evaluations == successes + failures IN
  CASE evaluations >= 3 /\ 4 * successes >= 3 * evaluations /\ sure -> "validated"
    [] evaluations >= 3 /\ 100 * successes <= 34 * evaluations -> "rejected"
    [] OTHER -> "testing"

Judged(h, result) ==
  LET successes == h.successes + (IF result = "succeeded" THEN 1 ELSE 0)
      failures == h.failures + (IF result = "failed" THEN 1 ELSE 0)
  IN
  {Hypothesis(LearnedVerdict(sure, successes, failures), sure, successes, failures) :
     sure \in IF result = "succeeded" THEN Raised(h.sure) ELSE Lowered(h.sure)}

WriteEvaluation(t, r) ==
  /\ desk[t].task = "judge" /\ copy[t].rows = {r}
  /\ \E row \in Judged(copy[t].hypothesis, desk[t].outcome) :
       hypothesis' = [hypothesis EXCEPT ![r] = row]
  /\ lessons' = IF desk[t].left = 1 THEN lessons
                ELSE [lessons EXCEPT ![r] = Seen(r, desk[t].outcome)]
  /\ Forgets(t)
  /\ Writes(t, NoWork)
  /\ UNCHANGED <<memoryTables, experiment, uncounted>>

HypothesesNext ==
  /\ ~overlapped
  /\ \/ \E e \in Experiments, r \in Rows : PlanExperiment(e, r)
     \/ \E t \in Staff :
          \/ FindHypothesis(t) \/ StoreHypothesis(t) \/ StartExperiment(t) \/ CompleteExperiment(t)
          \/ LearningCallDies(t)
          \/ \E e \in Experiments : BeginStart(t, e) \/ BeginCompletion(t, e)
          \/ \E r \in Rows :
               \/ \E result \in {"succeeded", "failed"} : BeginEvaluation(t, r, result)
               \/ ReadHypothesis(t, r) \/ WriteEvaluation(t, r)

\* lessons[r] is what was seen of the memory r in the one, of the hypothesis r in
\* the other.
MemorySpec == LearningInit /\ [][MemoryNext /\ UNCHANGED hypothesisTables]_learningVars

HypothesesSpec == LearningInit /\ [][HypothesesNext /\ UNCHANGED memoryTables]_learningVars

-----------------------------------------------------------------------------
\* No call has written over what it had not read, nor has one that evaluates r
\* for an experiment died, or still to write.
Counted(r) ==
  /\ ~overlapped /\ r \notin uncounted
  /\ ~ \E t \in Staff : /\ desk[t].task \in {"evaluate", "judge"} /\ desk[t].left = 1
                        /\ copy[t].rows = {r}

\* reinforce_protocol_memory_db, evaluate_protocol_hypothesis_db: a row holds what
\* was seen of it, an ended experiment once, and a hypothesis is validated on
\* three evaluations of which three quarters succeeded.
CountsAreTrue(r) ==
  Counted(r) =>
    /\ memory[r] # NoMemory =>
         memory[r].observed = lessons[r].for /\ memory[r].falsified = lessons[r].against
    /\ hypothesis[r] # NoHypothesis =>
         hypothesis[r].successes = lessons[r].for /\ hypothesis[r].failures = lessons[r].against
    /\ hypothesis[r].status = "validated" =>
         lessons[r].for >= 3 /\ lessons[r].for >= 3 * lessons[r].against

\* promote_memory_to_knowledge_db: knowledge that nobody forced comes of a memory
\* that is active, was seen twice and never found false.
KnowledgeIsEarned(r) ==
  r \in knowledge' \ knowledge
  => \/ overlapped'
     \/ r \in Active /\ lessons[r].for >= 2 /\ lessons[r].against = 0

\* A memory is active for having been stored when no other of its signature was,
\* or, archived, for having been reported on again.
RevivesOnReport(r) ==
  r \notin Active /\ r \in Active'
  => overlapped' \/ Active = {} \/ lessons'[r] # lessons[r]

LearningIsEarned ==
  /\ [](\A r \in Rows : CountsAreTrue(r))
  /\ [][\A r \in Rows : KnowledgeIsEarned(r) /\ RevivesOnReport(r)]_learningVars
=============================================================================
