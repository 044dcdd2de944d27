------------------------------- MODULE Faults -------------------------------
(***************************************************************************)
(* What goes wrong around the background workers, and how often: processes *)
(* that die, requests that fail or whose answers are lost.  The bound is   *)
(* one for all of them.                                                    *)
(***************************************************************************)
EXTENDS Naturals

CONSTANTS
  MaxFaults     \* bound: faults in one behaviour

VARIABLE
  faults        \* the faults so far

ASSUME FaultsAssumption == MaxFaults \in Nat

Fault == faults < MaxFaults /\ faults' = faults + 1
=============================================================================
