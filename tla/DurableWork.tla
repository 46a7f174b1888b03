------------------------------ MODULE DurableWork ------------------------------
(***************************************************************************)
(* What a branch promises the people who read the pipeline's records:      *)
(* commits are made, some of them reach the remote and stay there, and     *)
(* whoever is told that a step is done finds its commits on the remote.    *)
(***************************************************************************)
VARIABLES
    made,     \* the commits there have been
    durable,  \* those on the remote branch
    vouched   \* those of the runs recorded as done

vars == <<made, durable, vouched>>

Init == made = {} /\ durable = {} /\ vouched = {}

\* Commits are made, elsewhere or here, and maybe some of them land.
Work ==
    /\ made \subseteq made'
    /\ durable \subseteq durable'
    /\ durable' \subseteq made'
    /\ UNCHANGED vouched

\* A run is recorded as done; only what has landed is vouched for.
Vouch ==
    /\ vouched \subseteq vouched'
    /\ vouched' \subseteq durable
    /\ UNCHANGED <<made, durable>>

Next == Work \/ Vouch

Spec == Init /\ [][Next]_vars
===============================================================================
