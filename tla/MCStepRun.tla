------------------------------- MODULE MCStepRun -------------------------------
(***************************************************************************)
(* StepRun for TLC: runs in one clone, which may be thrown away whenever   *)
(* nothing runs in it.                                                     *)
(***************************************************************************)
EXTENDS StepRun, TLC

CONSTANT home

MCClone == [r \in Runs |-> home]
===============================================================================
