--------------------------- MODULE ThreatResponse ---------------------------
(***************************************************************************)
(* What the protocol holds against sellers and what it does about it by    *)
(* itself (iat/api/db.py): threat memories are stored from forecasts,      *)
(* observed again or found false, passed on to related sellers and decay;  *)
(* the heartbeat loop of each API process responds to what the memories    *)
(* and the account of a seller come to.  The loop sees the memories only   *)
(* through scores, so each has a next-state relation.                      *)
(*                                                                         *)
(* Modelled for one attack vector.  Of confidence and strength it is kept  *)
(* whether both are low enough to archive a memory, and of the scores of a *)
(* node nothing: any response may be recommended at any time, and the gate *)
(* may let any of low impact pass.  The budgets of severity for all        *)
(* sellers are left out, which bind beyond the number of sellers here.     *)
(***************************************************************************)
EXTENDS StaffCalls, FiniteSetsExt

CONSTANTS
  Sellers,
  Threats,             \* bound: rows of threat_memory
  NoThreatRow,
  GlobalResponses,     \* responses to all sellers in an hour, 20 in the code
  DampenedResponses    \* the same when the signals are weak, 5 in the code

ASSUME ResponsesAssumption ==
  /\ GlobalResponses \in Nat /\ DampenedResponses \in 0 .. GlobalResponses
  /\ IsFiniteSet(Sellers)
  /\ NoThreatRow \notin Threats

VARIABLES
  threat,        \* threat_memory; faint: confidence and strength are both low
  revived,       \* whether an archived row was made active again
  read,          \* the rows that each call has read
  about,         \* the seller, or the row, that each call is about
  footing,      \* what the account and the memories of a seller come to
  taken,         \* the responses recorded within the hour
  made,          \* those that have changed the risk of the seller
  met,           \* sellers about whom two turns were at work at once
  raced,         \* sellers about whom two turns had both passed the safety check
  racing,        \* whether any two turns had
  unrecorded     \* sellers a response to whom was never recorded

threatTables == <<threat, read, revived>>

responseTables == <<footing, taken, made, met, raced, racing, unrecorded>>

responseVars == <<threatTables, responseTables, about, callVars, faults>>

Threat(status, source, of, faint) ==
  [status |-> status, source |-> source, of |-> of, faint |-> faint]

NoThreat == Threat("none", "none", {}, FALSE)

NoRead == [x \in Threats |-> NoThreat]

\* The responses that need no review, and their severity in hundredths.
Severity == [monitor |-> 3, reduce_exposure |-> 8, require_more_stake |-> 12]

Responses == DOMAIN Severity

NoResponses == [a \in Responses |-> 0]

ResponsesInit ==
  /\ threat = NoRead /\ revived = FALSE
  /\ read = [t \in Staff |-> NoRead]
  /\ about = [t \in Staff |-> {}]
  /\ footing = [s \in Sellers |-> "clear"]
  /\ taken = [s \in Sellers |-> NoResponses]
  /\ made = taken
  /\ met = {} /\ raced = {} /\ racing = FALSE /\ unrecorded = {}
  /\ CallsInit
  /\ faults = 0

ThreatRows ==
  [status : {"none", "active", "archived"}, source : {"none", "forecast", "propagated"},
   of : SUBSET Sellers, faint : BOOLEAN]

ResponsesTypeOK ==
  /\ threat \in [Threats -> ThreatRows]
  /\ \A t \in Staff :
       /\ read[t] \in [Threats -> ThreatRows]
       /\ about[t] \subseteq Sellers \cup Threats
  /\ footing \in [Sellers -> {"clear", "watched", "threatened", "ruled_out"}]
  /\ \A s \in Sellers, a \in Responses : {taken[s][a], made[s][a]} \subseteq 0 .. MaxFaults + 1
  /\ met \cup raced \cup unrecorded \subseteq Sellers
  /\ {racing, revived, overlapped} \subseteq BOOLEAN
  /\ \A t \in Staff :
       /\ desk[t].task \in {"none", "forecast", "reinforce", "propagate", "decay",
                            "turn", "respond", "record"}
       /\ desk[t].left \in {0, 10, 25, 100}
  /\ outdated \subseteq Staff
  /\ faults \in 0 .. MaxFaults

-----------------------------------------------------------------------------
\* get_active_threat_memory_db
ActiveOf(s) == {x \in Threats : threat[x].status = "active" /\ threat[x].of = {s}}

Propagated(x) == threat[x].source = "propagated"

Fainter(side) == {side, TRUE}
Clearer(side) == {side, FALSE}

\* A score has moved; both low archive the memory, and otherwise it is active.
Moved(row, sides) ==
  {[row EXCEPT !.faint = f, !.status = IF f THEN "archived" ELSE "active"] : f \in sides}

\* Which unused row it is is of no consequence.
Stores(row) ==
  LET unused == {x \in Threats : threat[x] = NoThreat} IN
    /\ unused # {}
    /\ threat' = [threat EXCEPT ![CHOOSE x \in unused : TRUE] = row]

\* store_threat_forecast_db looks for an active memory of the same content,
\* whatever its source.
BeginForecast(t) ==
  /\ \E s \in Sellers :
       /\ about' = [about EXCEPT ![t] = {s}]
       /\ \/ \E x \in ActiveOf(s) : Decides(t, "forecast", x)
          \/ ActiveOf(s) = {} /\ Decides(t, "forecast", NoThreatRow)
  /\ UNCHANGED <<threatTables, responseTables>>

\* It updates the row it has found, without asking whether it is still active, or
\* inserts one.
StoreForecast(t) ==
  /\ desk[t].task = "forecast"
  /\ IF desk[t].outcome = NoThreatRow
     THEN Stores(Threat("active", "forecast", about[t], FALSE))
     ELSE threat' = [threat EXCEPT ![desk[t].outcome].faint = FALSE]
  /\ about' = [about EXCEPT ![t] = {}]
  /\ Writes(t, NoWork)
  /\ UNCHANGED <<read, revived, responseTables>>

\* reinforce_threat_memory_db, for a row in any state, and whether the threat was
\* observed or was a false positive.
BeginReinforcement(t) ==
  /\ \E x \in Threats :
       /\ threat[x] # NoThreat
       /\ about' = [about EXCEPT ![t] = {x}]
       /\ \E seen \in {"observed", "false_positive"} : Decides(t, "reinforce", seen)
  /\ read' = [read EXCEPT ![t] = threat]
  /\ UNCHANGED <<threat, revived, responseTables>>

Reinforce(t) ==
  /\ desk[t].task = "reinforce"
  /\ \E x \in about[t] :
       LET row == read[t][x] IN
       \E new \in Moved(row, IF desk[t].outcome = "observed" THEN Clearer(row.faint)
                                                             ELSE Fainter(row.faint)) :
         /\ threat' = [threat EXCEPT ![x] = new]
         /\ revived' = (revived \/ (row.status = "archived" /\ ~new.faint))
  /\ about' = [about EXCEPT ![t] = {}]
  /\ read' = [read EXCEPT ![t] = NoRead]
  /\ Writes(t, NoWork)
  /\ UNCHANGED responseTables

\* (Not the code: what was propagated before is not looked for.)
MayAlwaysReceive(related) == TRUE

MayReceive(related) == \A x \in ActiveOf(related) : ~Propagated(x)

\* propagate_threat_memory_db, along an edge to another seller that has no active
\* memory that was propagated.
BeginPropagation(t) ==
  /\ \E s, related \in Sellers :
       /\ s # related
       /\ ActiveOf(s) # {}
       /\ MayReceive(related)
       /\ about' = [about EXCEPT ![t] = {related}]
  /\ Decides(t, "propagate", NoThreatRow)
  /\ UNCHANGED <<threatTables, responseTables>>

\* What is passed on may be so little that it is as faint as what is archived.
Propagate(t) ==
  /\ desk[t].task = "propagate"
  /\ \E faint \in BOOLEAN : Stores(Threat("active", "propagated", about[t], faint))
  /\ about' = [about EXCEPT ![t] = {}]
  /\ Writes(t, NoWork)
  /\ UNCHANGED <<read, revived, responseTables>>

\* decay_threat_memory_db
BeginThreatDecay(t) ==
  /\ \E x \in Threats : threat[x].status = "active"
  /\ Decides(t, "decay", NoThreatRow)
  /\ read' = [read EXCEPT ![t] = threat]
  /\ UNCHANGED <<threat, revived, about, responseTables>>

\* It writes the rows that are old enough, as it has read them.
DecayThreats(t) ==
  /\ desk[t].task = "decay"
  /\ \E old \in SUBSET {x \in Threats : read[t][x].status = "active"} :
     \E gone \in SUBSET old :
       /\ \A x \in old : (x \in gone) \in Fainter(read[t][x].faint)
       /\ threat' = [x \in Threats |->
            IF x \in old
            THEN [read[t][x] EXCEPT !.faint = x \in gone,
                                    !.status = IF x \in gone THEN "archived" ELSE "active"]
            ELSE threat[x]]
  /\ read' = [read EXCEPT ![t] = NoRead]
  /\ Writes(t, NoWork)
  /\ UNCHANGED <<about, revived, responseTables>>

ThreatsNext ==
  /\ ~overlapped
  /\ \E t \in Staff :
       \/ BeginForecast(t) \/ StoreForecast(t)
       \/ BeginReinforcement(t) \/ Reinforce(t)
       \/ BeginPropagation(t) \/ Propagate(t)
       \/ BeginThreatDecay(t) \/ DecayThreats(t)

-----------------------------------------------------------------------------

\* compute_threat_correlated_execution_mode_db, as far as the safety check tells
\* the modes apart: a ruling, or memories that confirm a threat, override the
\* budgets; weak signals lower them, but not for a seller on the watchlist.
Modes(s) ==
  CASE footing[s] = "ruled_out" -> {"override"}
    [] footing[s] = "threatened" -> {"override", "normal", "dampened"}
    [] footing[s] = "watched" -> {"normal"}
    [] OTHER -> {"normal", "dampened"}

\* The budget of severity for one seller, and the limit of responses to all.
Budget(mode) == CASE mode = "override" -> 100 [] mode = "normal" -> 25 [] OTHER -> 10

GlobalLimit(budget) == IF budget = 10 THEN DampenedResponses ELSE GlobalResponses

Count(responses) == MapThenSumSet(LAMBDA a : responses[a], Responses)

SeverityOf(responses) ==
  LET severities == [a \in Responses |-> Severity[a] * responses[a]]
  IN MapThenSumSet(LAMBDA a : severities[a], Responses)

ToAll(responses) ==
  LET counts == [s \in Sellers |-> Count(responses[s])]
  IN MapThenSumSet(LAMBDA s : counts[s], Sellers)

\* (Not the code: what was spent before is forgotten.)
SafeAlone(s, a, mode) ==
  \/ mode = "override"
  \/ /\ taken[s][a] = 0
     /\ ToAll(taken) < GlobalLimit(Budget(mode))
     /\ Severity[a] <= Budget(mode)

\* can_execute_autonomous_action_db
Safe(s, a, mode) ==
  \/ mode = "override"
  \/ /\ taken[s][a] = 0
     /\ ToAll(taken) < GlobalLimit(Budget(mode))
     /\ SeverityOf(taken[s]) + Severity[a] <= Budget(mode)

TurnsAbout(s) == {t \in Staff : s \in about[t]}

Responding == {t \in Staff : desk[t].task \in {"respond", "record"}}

\* runtime_heartbeat_governance_loop: no response to the seller is recorded within
\* the hour.
BeginTurn(t) ==
  /\ \E s \in Sellers :
       /\ taken[s] = NoResponses
       /\ about' = [about EXCEPT ![t] = {s}]
       /\ met' = met \cup {r \in {s} : TurnsAbout(r) # {}}
  /\ Takes(t, Work("turn", NoThreatRow, 0))
  /\ UNCHANGED <<threatTables, footing, taken, made, raced, racing, unrecorded>>

\* authorize_protocol_response_execution_db lets a response of low impact pass, and
\* the safety check, which reads the events anew.
Authorize(t) ==
  /\ desk[t].task = "turn"
  /\ \E s \in about[t], a \in Responses :
       /\ \E mode \in Modes(s) :
            /\ Safe(s, a, mode)
            /\ desk' = [desk EXCEPT ![t] = Work("respond", a, Budget(mode))]
       /\ raced' = raced \cup {r \in {s} : TurnsAbout(r) \cap Responding # {}}
  /\ racing' = (racing \/ Responding # {})
  /\ UNCHANGED <<threatTables, footing, taken, made, met, unrecorded, about,
                 outdated, overlapped, faults>>

Forgo(t) ==
  /\ desk[t].task = "turn"
  /\ Leaves(t)
  /\ about' = [about EXCEPT ![t] = {}]
  /\ UNCHANGED <<threatTables, responseTables, faults>>

\* apply_controlled_protocol_response_db makes the risk event, which may take even
\* a seller that is ruled out back to the watchlist,
Respond(t) ==
  /\ desk[t].task = "respond"
  /\ \E s \in about[t] :
       /\ made' = [made EXCEPT ![s][desk[t].outcome] = @ + 1]
       /\ \E next \in {footing[s]} \cup
            (IF footing[s] = "threatened" THEN {} ELSE {"clear", "watched"}) :
            footing' = [footing EXCEPT ![s] = next]
  /\ desk' = [desk EXCEPT ![t].task = "record"]
  /\ UNCHANGED <<threatTables, taken, met, raced, racing, unrecorded, about,
                 outdated, overlapped, faults>>

\* and records it in a transaction of its own.
RecordApplied(t) ==
  /\ desk[t].task = "record"
  /\ \E s \in about[t] : taken' = [taken EXCEPT ![s][desk[t].outcome] = @ + 1]
  /\ Leaves(t)
  /\ about' = [about EXCEPT ![t] = {}]
  /\ UNCHANGED <<threatTables, footing, made, met, raced, racing, unrecorded, faults>>

TurnDies(t) ==
  /\ desk[t].task = "record"
  /\ Fault
  /\ unrecorded' = unrecorded \cup about[t]
  /\ Leaves(t)
  /\ about' = [about EXCEPT ![t] = {}]
  /\ UNCHANGED <<threatTables, footing, taken, made, met, raced, racing>>

\* The hour of a response is over.
Expires(s, a) ==
  /\ taken[s][a] > 0
  /\ taken' = [taken EXCEPT ![s][a] = @ - 1]
  /\ made' = [made EXCEPT ![s][a] = @ - 1]
  /\ UNCHANGED <<threatTables, footing, met, raced, racing, unrecorded, about,
                 callVars, faults>>

\* Its account and the memories about it move, as SellerAccounts and ThreatsNext
\* say.
FootingMoves(s) ==
  /\ \E next \in {"clear", "watched", "threatened", "ruled_out"} \ {footing[s]} :
       footing' = [footing EXCEPT ![s] = next]
  /\ UNCHANGED <<threatTables, taken, made, met, raced, racing, unrecorded, about,
                 callVars, faults>>

ResponsesNext ==
  \/ \E t \in Staff :
       \/ BeginTurn(t) \/ Authorize(t) \/ Forgo(t)
       \/ Respond(t) \/ RecordApplied(t) \/ TurnDies(t)
  \/ \E s \in Sellers : FootingMoves(s) \/ \E a \in Responses : Expires(s, a)

-----------------------------------------------------------------------------
\* store_threat_forecast_db, propagate_threat_memory_db: a seller has one active
\* memory of a content from forecasts and one that was propagated, unless an
\* archived one was observed again or a call has written over what it had not read.
ThreatsAreDistinct ==
  ~overlapped /\ ~revived =>
    \A s \in Sellers : \A x, y \in ActiveOf(s) :
      Propagated(x) = Propagated(y) => x = y

\* reinforce_threat_memory_db, decay_threat_memory_db: a memory that was archived
\* comes back only when it is observed.
ArchivedStays ==
  \A x \in Threats :
    threat[x].status = "archived" /\ threat'[x].status = "active" =>
      \/ overlapped'
      \/ \E t \in Staff : about[t] = {x} /\ desk[t].outcome = "observed"

\* can_execute_autonomous_action_db: the risk events of an hour keep to the budgets
\* under which each was allowed, unless two turns passed the check at once or one
\* died before it recorded its event; and, but for turns about one seller at once,
\* no seller meets two.
ResponseIsWithinBudget ==
  \A t \in Staff, s \in Sellers :
    desk[t].task = "respond" /\ desk'[t].task = "record" /\ s \in about[t] =>
      /\ s \notin raced \cup unrecorded /\ desk[t].left < 100 =>
           /\ made'[s][desk[t].outcome] = 1
           /\ SeverityOf(made'[s]) <= desk[t].left
      /\ ~racing /\ unrecorded = {} /\ desk[t].left < 100 =>
           ToAll(made') <= GlobalLimit(desk[t].left)
      /\ s \notin met \cup unrecorded => Count(made'[s]) = 1

ResponsesAreBounded ==
  []ThreatsAreDistinct /\ [][ArchivedStays /\ ResponseIsWithinBudget]_responseVars
=============================================================================
