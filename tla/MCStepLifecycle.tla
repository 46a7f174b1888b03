-------------------------- MODULE MCStepLifecycle --------------------------
(***************************************************************************)
(* Instances of StepLifecycle for TLC: one step on its own, or a gated     *)
(* step (prd-writer) and the step that depends on it (create-docs-pr);     *)
(* the headless process, alone or beside sessions people started.          *)
(***************************************************************************)
EXTENDS StepLifecycle

OneStepDeps == [s \in 1..1 |-> {}]
TwoStepDeps == [s \in 1..2 |-> IF s = 1 THEN {} ELSE {1}]
============================================================================
