----------------------------- MODULE MCItemWrites ------------------------------
(***************************************************************************)
(* ItemWrites for TLC: a step that patches the section it owns and raises  *)
(* a work item, and a step that replaces the body and opens the pull       *)
(* request, with one label request that clears and one that does not.      *)
(***************************************************************************)
EXTENDS ItemWrites, TLC

CONSTANTS patcher, replacer, tasks, wanted, barred

MCSection == patcher :> tasks @@ replacer :> Whole
MCRequested == patcher :> {wanted, barred} @@ replacer :> {}
MCAllowed == patcher :> {wanted} @@ replacer :> {wanted, barred}
===============================================================================
