----------------------------- MODULE StaffCalls -----------------------------
(***************************************************************************)
(* Calls of the endpoints of the seller protocol (iat/api/agent_b_api.py). *)
(* The server runs them on threads, and most read some rows, decide, and   *)
(* write what they decided without looking again: they are two steps, with *)
(* the writes of other calls in between.                                   *)
(***************************************************************************)
EXTENDS Faults

CONSTANT
  Staff           \* calls at work, of staff, dashboards and sellers

VARIABLES
  desk,           \* what each call is about to write, and how much of it
  outdated,       \* calls that read what another has since written over
  overlapped      \* whether one of them has written

callVars == <<desk, outdated, overlapped>>

Work(task, outcome, left) == [task |-> task, outcome |-> outcome, left |-> left]

NoWork == Work("none", "none", 0)

CallsInit ==
  /\ desk = [t \in Staff |-> NoWork]
  /\ outdated = {}
  /\ overlapped = FALSE

Busy == {t \in Staff : desk[t] # NoWork}

\* A call has read and decided.  Which idle thread serves it is of no
\* consequence, so it is one of them.  (Bound: a call that begins while another
\* is at work counts as a fault.)
Takes(t, work) ==
  /\ Busy # Staff
  /\ t = CHOOSE u \in Staff \ Busy : TRUE
  /\ IF Busy = {} THEN UNCHANGED faults ELSE Fault
  /\ desk' = [desk EXCEPT ![t] = work]
  /\ UNCHANGED <<outdated, overlapped>>

Decides(t, task, outcome) ==
  Takes(t, Work(task, outcome, 0))

\* What the calls have read is outdated; there is no more to note once one of
\* them has written.
Outdates(calls) ==
  outdated' = IF overlapped' THEN {} ELSE outdated \cup calls

\* A call writes.
Writes(t, next) ==
  /\ desk' = [desk EXCEPT ![t] = next]
  /\ overlapped' = (overlapped \/ t \in outdated)
  /\ Outdates(Busy \ {t})
  /\ UNCHANGED faults

\* A call that reads and writes in one statement.
WritesAtOnce ==
  /\ UNCHANGED <<desk, overlapped, faults>>
  /\ Outdates(Busy)

\* A call ends without writing.
Leaves(t) ==
  /\ desk' = [desk EXCEPT ![t] = NoWork]
  /\ outdated' = outdated \ {t}
  /\ UNCHANGED overlapped
=============================================================================
