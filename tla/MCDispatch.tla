------------------------------ MODULE MCDispatch ------------------------------
(***************************************************************************)
(* Dispatch for TLC: issues of a flow of two steps.  a and c are half way  *)
(* through, b is untagged and waits for a; the headless tick and a session *)
(* started on b.                                                           *)
(***************************************************************************)
EXTENDS Dispatch, TLC

CONSTANTS a, b, c, x, y, tick, session

MCTurn == (a :> 1) @@ (b :> 2) @@ (c :> 3)
MCComponents == (a :> {x}) @@ (b :> {}) @@ (c :> {y})
MCBlockedBy == (a :> {}) @@ (b :> {a}) @@ (c :> {})
MCThrough == (a :> 1) @@ (b :> 0) @@ (c :> 1)
MCStopOn == <<1, 2>>
MCTarget == (session :> b)
===============================================================================
