------------------------ MODULE StepLifecycle_proofs ------------------------
(***************************************************************************)
(* Theorems about StepLifecycle, for every flow (any number of steps, any  *)
(* dependencies and gates), any set of interactive sessions and any        *)
(* budgets: TypeOK, the gates hold against the system itself               *)
(* (GateNeedsPerson), dependents run only past decided gates               *)
(* (DependentsNeedPerson), and the lease outlives every announced run      *)
(* (LeaseOutlivesRun), whose lock nobody takes back (AnnouncedRunsSpared). *)
(* For a headless process alone: no halted step runs again without a       *)
(* person (HaltNeedsPerson).                                               *)
(***************************************************************************)
EXTENDS StepLifecycle, TLAPS

----------------------------------------------------------------------------
(* Type correctness *)

\* A process at one of these places works on a step of the flow.
AtStep == {"promoting", "promoted", "acquire", "lock", "announce", "running", "release",
           "clear", "stamp"}

\* The inductive form of the type invariant.
TypeInv ==
    /\ TypeOK
    /\ \A p \in Procs : pc[p] \in AtStep => at[p] \in Steps

\* The lease is a length of time.
LEMMA LeaseType == Lease \in Nat
  BY BoundsAssumption DEF Lease

\* The positions a pass over the steps goes through.
LEMMA StepRange ==
  /\ 1 \in 1..(NumSteps + 1)
  /\ \A s \in Steps : s \in 1..(NumSteps + 1) /\ s + 1 \in 1..(NumSteps + 1)
  BY StepsAssumption DEF Steps

\* Whatever is recorded is a status.
LEMMA ResolveType ==
  \A s \in Steps, outcome \in Outcomes : Resolve(s, outcome) \in Outcomes
  BY DEF Resolve, Outcomes

\* Nothing is running, nothing is on GitHub at the start.
LEMMA TypeInit == Init => TypeInv
  BY StepsAssumption, BoundsAssumption, LeaseType
  DEF Init, TypeInv, TypeOK, NoLabels, Never, Places, AtStep

LEMMA TypeStep == TypeInv /\ [Next]_vars => TypeInv'
<1> SUFFICES ASSUME TypeInv, [Next]_vars PROVE TypeInv'
  OBVIOUS
<1> USE StepsAssumption, BoundsAssumption, LeaseType, StepRange
    DEF TypeInv, TypeOK, AtStep, Places, MoveOn, GoTo, Never,
        github, process, history, bounds, run
<1>1. ASSUME NEW p \in Procs, Wake(p) PROVE TypeInv'
  BY <1>1 DEF Wake
<1>2. ASSUME NEW p \in Procs, PromotionDone(p) PROVE TypeInv'
  BY <1>2 DEF PromotionDone
<1>3. ASSUME NEW p \in Procs, NEW s \in Gated, Reject(p, s) PROVE TypeInv'
  BY <1>3 DEF Reject, Unreview, Relabel, Promoting
<1>4. ASSUME NEW p \in Procs, NEW s \in Gated, PromoteAdd(p, s) PROVE TypeInv'
  BY <1>4 DEF PromoteAdd, Relabel, Promoting, Status
<1>5. ASSUME NEW p \in Procs, NEW s \in Gated, PromoteRemove(p, s) PROVE TypeInv'
  <2>1. CASE MoveOn(p, "promote", s + 1)
    BY <1>5, <2>1 DEF PromoteRemove, Relabel
  <2>2. CASE MoveOn(p, "promoted", s)
    BY <1>5, <2>2 DEF PromoteRemove, Relabel
  <2> QED
    BY <1>5, <2>1, <2>2 DEF PromoteRemove
<1>5a. ASSUME NEW p \in Procs, NEW s \in Gated, PromoteUnrequest(p, s) PROVE TypeInv'
  BY <1>5a DEF PromoteUnrequest, Relabel
<1>6. ASSUME NEW p \in Procs, ReclaimDone(p) PROVE TypeInv'
  BY <1>6 DEF ReclaimDone
<1>7. ASSUME NEW p \in Procs, NothingToRun(p) PROVE TypeInv'
  BY <1>7 DEF NothingToRun, Leave, Rest, NoLabels
<1>8. ASSUME NEW p \in Procs, NEW s \in Steps, Reclaim(p, s) PROVE TypeInv'
  BY <1>8 DEF Reclaim
<1>9. ASSUME NEW p \in Procs, NEW s \in Steps, Choose(p, s) PROVE TypeInv'
  BY <1>9 DEF Choose
<1>10. ASSUME NEW p \in Procs, AcquireUnrequest(p) PROVE TypeInv'
  BY <1>10 DEF AcquireUnrequest, Relabel
<1>11. ASSUME NEW p \in Procs, AcquireLock(p) PROVE TypeInv'
  BY <1>11 DEF AcquireLock, Relabel, Status
<1>12. ASSUME NEW p \in Procs, Announce(p) PROVE TypeInv'
  BY <1>12 DEF Announce
<1>13. ASSUME NEW p \in Procs, Retry(p) PROVE TypeInv'
  BY <1>13 DEF Retry
<1>14. ASSUME NEW p \in Procs, RateLimited(p) PROVE TypeInv'
  BY <1>14 DEF RateLimited, Rest
<1>15. ASSUME NEW p \in Procs, Release(p) PROVE TypeInv'
  BY <1>15 DEF Release, Leave, Rest, NoLabels
<1>16. ASSUME NEW p \in Procs, NEW o \in Outcomes, Return(p, o) PROVE TypeInv'
  <2>1. at[p] \in Steps /\ Resolve(at[p], o) \in Outcomes
    BY <1>16, ResolveType DEF Return
  <2>2. result' \in [Procs -> Outcomes \union {"none", "reclaimed"}]
    BY <1>16, <2>1 DEF Return
  <2>3. revision' \in [Steps -> Nat]
    <3>1. CASE revision' = [revision EXCEPT ![at[p]] = @ + 1]
      BY <2>1, <3>1
    <3>2. CASE UNCHANGED revision
      BY <3>2
    <3> QED
      BY <1>16, <3>1, <3>2 DEF Return
  <2> QED
    BY <1>16, <2>2, <2>3 DEF Return, Rest
<1>17. ASSUME NEW p \in Procs, ClearStatus(p) PROVE TypeInv'
  BY <1>17 DEF ClearStatus, Clear
<1>18. ASSUME NEW p \in Procs, StampHalt(p) PROVE TypeInv'
  BY <1>18 DEF StampHalt, Stamp, Leave, Rest, NoLabels, StatusOf, Status, Outcomes, Halts
<1>19. ASSUME NEW p \in Procs, StampComplete(p) PROVE TypeInv'
  BY <1>19 DEF StampComplete, Refresh, Stamp, StatusOf, Status, Halts
<1>20. ASSUME NEW p \in Procs, StampReclaimed(p) PROVE TypeInv'
  BY <1>20 DEF StampReclaimed, NextLock, Stamp, StatusOf, Status, Halts
<1>21. ASSUME NEW p \in Procs, PromotionFails(p) PROVE TypeInv'
  <2>1. CASE pc[p] \in {"promoting", "promoted"} /\ MoveOn(p, "promote", at[p] + 1)
    BY <1>21, <2>1 DEF PromotionFails, Fault
  <2>2. ASSUME NEW s \in Gated, Promoting(p, s), MoveOn(p, "promote", s + 1)
        PROVE  TypeInv'
    BY <1>21, <2>2 DEF PromotionFails, Fault
  <2> QED
    BY <1>21, <2>1, <2>2 DEF PromotionFails
<1>22. ASSUME NEW p \in Procs, NEW s \in Gated, ApprovalUnreadable(p, s) PROVE TypeInv'
  BY <1>22 DEF ApprovalUnreadable, Fault, Unreview, Relabel
<1>23. ASSUME NEW p \in Procs, NEW s \in Steps, ChooseFails(p, s) PROVE TypeInv'
  BY <1>23 DEF ChooseFails, Fault
<1>24. ASSUME NEW p \in Procs, AcquireFails(p) PROVE TypeInv'
  BY <1>24 DEF AcquireFails, Fault
<1>25. ASSUME NEW p \in Procs, ReleaseFails(p) PROVE TypeInv'
  BY <1>25 DEF ReleaseFails, Fault, Leave, Rest, NoLabels
<1>26. ASSUME NEW p \in Procs, ClearFails(p) PROVE TypeInv'
  BY <1>26 DEF ClearFails, Fault, Clear
<1>27. ASSUME NEW p \in Procs, StampFails(p) PROVE TypeInv'
  <2>1. labels' \in [Steps -> SUBSET Status]
    <3>1. CASE labels' = [labels EXCEPT ![at[p]] = @ \union {"wip"}]
      BY <3>1 DEF Status
    <3>2. CASE UNCHANGED labels
      BY <3>2
    <3> QED
      BY <1>27, <3>1, <3>2 DEF StampFails
  <2>2. CASE Leave(p)
    BY <1>27, <2>1, <2>2 DEF StampFails, Fault, Leave, Rest, NoLabels
  <2>3. CASE Refresh(p)
    BY <1>27, <2>1, <2>3 DEF StampFails, Fault, Refresh
  <2>4. CASE NextLock(p)
    BY <1>27, <2>1, <2>4 DEF StampFails, Fault, NextLock, Status
  <2> QED
    BY <1>27, <2>2, <2>3, <2>4 DEF StampFails
<1>28. ASSUME NEW p \in Procs, Crash(p) PROVE TypeInv'
  BY <1>28 DEF Crash, Fault, Leave, Rest, NoLabels
<1>29. CASE People
  <2>1. ASSUME NEW s \in Steps, Approve(s) PROVE TypeInv'
    BY <2>1 DEF Approve, Act
  <2>2. ASSUME NEW s \in Steps, Withdraw(s) PROVE TypeInv'
    BY <2>2 DEF Withdraw, Act
  <2>3. ASSUME NEW s \in Steps, Request(s) PROVE TypeInv'
    BY <2>3 DEF Request, Act, Status
  <2>4. ASSUME NEW s \in Steps, Skip(s) PROVE TypeInv'
    BY <2>4 DEF Skip, Act, Status
  <2>5. ASSUME NEW s \in Steps, NEW halt \in Halts, ClearHalt(s, halt) PROVE TypeInv'
    BY <2>5 DEF ClearHalt, Act
  <2>6. ASSUME NEW s \in Steps, NEW p \in Procs, SelfApprove(p, s) PROVE TypeInv'
    BY <2>6 DEF SelfApprove, Act
  <2> QED
    BY <1>29, <2>1, <2>2, <2>3, <2>4, <2>5, <2>6 DEF People
<1>30. CASE Tick
  <2>1. age' \in [Steps -> {Never} \union 0..(Lease + 1)]
    BY <1>30 DEF Tick
  <2>2. ASSUME NEW p \in Procs PROVE runAge'[p] \in 0..MaxWall
    <3>1. CASE pc[p] = "running"
      <4>1. runAge[p] < MaxWall
        BY <1>30, <3>1 DEF Tick
      <4>2. runAge[p] \in 0..MaxWall /\ runAge'[p] = runAge[p] + 1
        BY <1>30, <3>1 DEF Tick
      <4> HIDE DEF TypeInv, TypeOK
      <4> QED
        BY <4>1, <4>2
    <3>2. CASE pc[p] # "running"
      BY <1>30, <3>2 DEF Tick
    <3> QED
      BY <3>1, <3>2
  <2>3. runAge' \in [Procs -> 0..MaxWall]
    BY <1>30, <2>2 DEF Tick
  <2> QED
    BY <1>30, <2>1, <2>3 DEF Tick
<1>31. CASE UNCHANGED vars
  BY <1>31 DEF vars
<1> QED
  BY <1>1, <1>2, <1>3, <1>4, <1>5, <1>5a, <1>6, <1>7, <1>8, <1>9, <1>10, <1>11, <1>12,
     <1>13, <1>14, <1>15, <1>16, <1>17, <1>18, <1>19, <1>20, <1>21, <1>22, <1>23,
     <1>24, <1>25, <1>26, <1>27, <1>28, <1>29, <1>30, <1>31
  DEF Next, ProcessStep, ProcessFault

\* Every reachable state is typed, for any flow and any processes.
THEOREM TypeCorrect == Spec => []TypeOK
<1>1. TypeInv => TypeOK
  BY DEF TypeInv
<1> QED
  BY <1>1, TypeInit, TypeStep, PTL DEF Spec

----------------------------------------------------------------------------
(* What a person has decided *)

\* Somebody approved step s, or bypassed it.
Decided(s) == approvedRev[s] # Never \/ "skipped" \in labels[s]

\* Decisions are never lost: no action forgets an approval or takes a bypass off.
DecisionsStand ==
    \A s \in Steps : /\ approvedRev[s] # Never => approvedRev'[s] # Never
                     /\ "skipped" \in labels[s] => "skipped" \in labels'[s]

LEMMA DecisionsLast == TypeInv /\ [Next]_vars => DecisionsStand
<1> SUFFICES ASSUME TypeInv, [Next]_vars PROVE DecisionsStand
  OBVIOUS
<1> USE DEF TypeInv, TypeOK, DecisionsStand, AtStep, Places, github, history
<1>1. ASSUME NEW p \in Procs, ProcessStep(p) PROVE DecisionsStand
  <2>1. UNCHANGED approvedRev
    BY <1>1 DEF ProcessStep, Wake, PromotionDone, Reject, PromoteAdd, PromoteRemove,
                PromoteUnrequest, Unreview, ReclaimDone, NothingToRun, Reclaim, Choose, AcquireUnrequest,
                AcquireLock, Announce, Retry, RateLimited, Release, Return, ClearStatus,
                Clear, StampHalt, StampComplete, StampReclaimed
  <2>2. \A s \in Steps : "skipped" \in labels[s] => "skipped" \in labels'[s]
    <3>1. ASSUME NEW s \in Gated, \/ Reject(p, s) \/ PromoteAdd(p, s)
                                 \/ PromoteRemove(p, s) \/ PromoteUnrequest(p, s)
          PROVE  \A t \in Steps : "skipped" \in labels[t] => "skipped" \in labels'[t]
      <4>1. CASE Reject(p, s)
        BY <4>1 DEF Reject, Unreview, Relabel
      <4>2. CASE PromoteAdd(p, s)
        BY <4>2 DEF PromoteAdd, Relabel
      <4>3. CASE PromoteRemove(p, s)
        BY <4>3, StepsAssumption DEF PromoteRemove, Relabel
      <4>4. CASE PromoteUnrequest(p, s)
        BY <4>4, StepsAssumption DEF PromoteUnrequest, Relabel
      <4> QED
        BY <3>1, <4>1, <4>2, <4>3, <4>4
    <3>2. CASE AcquireUnrequest(p) \/ AcquireLock(p) \/ Release(p)
      <4>1. CASE AcquireUnrequest(p)
        BY <4>1 DEF AcquireUnrequest, Relabel
      <4>2. CASE AcquireLock(p)
        BY <4>2 DEF AcquireLock, Relabel
      <4>3. CASE Release(p)
        BY <4>3 DEF Release
      <4> QED
        BY <3>2, <4>1, <4>2, <4>3
    <3>3. CASE ClearStatus(p)
      BY <3>3 DEF ClearStatus, Clear, Transient
    <3>4. CASE StampHalt(p) \/ StampComplete(p) \/ StampReclaimed(p)
      BY <3>4 DEF StampHalt, StampComplete, StampReclaimed, Stamp
    <3>5. ASSUME NEW s \in Steps, Reclaim(p, s) \/ Choose(p, s) PROVE UNCHANGED labels
      BY <3>5 DEF Reclaim, Choose
    <3>6. CASE Wake(p) \/ PromotionDone(p) \/ ReclaimDone(p) \/ NothingToRun(p)
      BY <3>6 DEF Wake, PromotionDone, ReclaimDone, NothingToRun
    <3>7. CASE Announce(p) \/ Retry(p) \/ RateLimited(p)
      BY <3>7 DEF Announce, Retry, RateLimited
    <3>8. ASSUME NEW o \in Outcomes, Return(p, o) PROVE UNCHANGED labels
      BY <3>8 DEF Return
    <3> QED
      BY <1>1, <3>1, <3>2, <3>3, <3>4, <3>5, <3>6, <3>7, <3>8 DEF ProcessStep
  <2> QED
    BY <2>1, <2>2
<1>2. ASSUME NEW p \in Procs, ProcessFault(p) PROVE DecisionsStand
  <2>1. UNCHANGED approvedRev
    BY <1>2 DEF ProcessFault, PromotionFails, ApprovalUnreadable, Unreview, ChooseFails,
                AcquireFails, ReleaseFails, ClearFails, Clear, StampFails, Crash
  <2>2. \A s \in Steps : "skipped" \in labels[s] => "skipped" \in labels'[s]
    <3>1. ASSUME NEW s \in Gated, ApprovalUnreadable(p, s)
          PROVE  \A t \in Steps : "skipped" \in labels[t] => "skipped" \in labels'[t]
      BY <3>1 DEF ApprovalUnreadable, Unreview, Relabel
    <3>2. CASE ClearFails(p)
      BY <3>2 DEF ClearFails, Clear, Transient
    <3>3. CASE StampFails(p)
      BY <3>3 DEF StampFails
    <3>4. CASE PromotionFails(p) \/ AcquireFails(p) \/ ReleaseFails(p) \/ Crash(p)
      BY <3>4 DEF PromotionFails, AcquireFails, ReleaseFails, Crash
    <3>5. ASSUME NEW s \in Steps, ChooseFails(p, s) PROVE UNCHANGED labels
      BY <3>5 DEF ChooseFails
    <3> QED
      BY <1>2, <3>1, <3>2, <3>3, <3>4, <3>5 DEF ProcessFault
  <2> QED
    BY <2>1, <2>2
<1>3. CASE People
  BY <1>3, StepsAssumption DEF People, Approve, Withdraw, Request, Skip, ClearHalt, Halts,
                               SelfApprove, Act, process, Never
<1>4. CASE Tick \/ UNCHANGED vars
  BY <1>4 DEF Tick, vars
<1> QED
  BY <1>1, <1>2, <1>3, <1>4 DEF Next

----------------------------------------------------------------------------
(* Gates hold against the system itself *)

\* The inductive form of GateNeedsPerson: what a process remembers of the labels
\* claims no more than the labels did, and no gated step is about to be recorded
\* complete without passing through :review.
GateInv ==
    /\ GateNeedsPerson
    /\ \A s \in HardGated : gateBy[s] = "human" => approvedRev[s] # Never
    /\ \A p \in Procs, s \in HardGated :
          "complete" \in view[p][s] => approvedRev[s] # Never
    /\ \A p \in Procs :
          pc[p] \in {"clear", "stamp"} /\ result[p] = "complete" => at[p] \notin HardGated

LEMMA GateInit == Init => GateInv
  BY StepsAssumption DEF Init, GateInv, GateNeedsPerson, NoLabels, HardGated, Steps

LEMMA GateStep == TypeInv /\ GateInv /\ [Next]_vars => GateInv'
<1> SUFFICES ASSUME TypeInv, GateInv, [Next]_vars PROVE GateInv'
  OBVIOUS
<1>0. HardGated \subseteq Steps /\ DecisionsStand
  BY StepsAssumption, DecisionsLast DEF HardGated
<1> USE <1>0 DEF TypeInv, TypeOK, GateInv, GateNeedsPerson, DecisionsStand, AtStep, Places,
              MoveOn, GoTo, github, history
<1>1. ASSUME NEW p \in Procs, Wake(p) PROVE GateInv'
  BY <1>1 DEF Wake
<1>2. ASSUME NEW p \in Procs, PromotionDone(p) PROVE GateInv'
  BY <1>2 DEF PromotionDone
<1>3. ASSUME NEW p \in Procs, NEW s \in Gated, Reject(p, s) PROVE GateInv'
  BY <1>3 DEF Reject, Unreview, Relabel
<1>4. ASSUME NEW p \in Procs, NEW s \in Gated, PromoteAdd(p, s) PROVE GateInv'
  BY <1>4 DEF PromoteAdd, Relabel, Approved, GatePresent, GateLabelHumanApplied
<1>5. ASSUME NEW p \in Procs, NEW s \in Gated, PromoteRemove(p, s) PROVE GateInv'
  BY <1>5 DEF PromoteRemove, Relabel
<1>5a. ASSUME NEW p \in Procs, NEW s \in Gated, PromoteUnrequest(p, s) PROVE GateInv'
  BY <1>5a DEF PromoteUnrequest, Relabel
<1>6. ASSUME NEW p \in Procs, ReclaimDone(p) PROVE GateInv'
  BY <1>6 DEF ReclaimDone
<1>7. ASSUME NEW p \in Procs, NothingToRun(p) PROVE GateInv'
  BY <1>7 DEF NothingToRun, Leave, NoLabels
<1>8. ASSUME NEW p \in Procs, NEW s \in Steps, Reclaim(p, s) PROVE GateInv'
  BY <1>8 DEF Reclaim
<1>9. ASSUME NEW p \in Procs, NEW s \in Steps, Choose(p, s) PROVE GateInv'
  BY <1>9 DEF Choose
<1>10. ASSUME NEW p \in Procs, AcquireUnrequest(p) PROVE GateInv'
  BY <1>10 DEF AcquireUnrequest, Relabel
<1>11. ASSUME NEW p \in Procs, AcquireLock(p) PROVE GateInv'
  BY <1>11 DEF AcquireLock, Relabel
<1>12. ASSUME NEW p \in Procs, Announce(p) PROVE GateInv'
  BY <1>12 DEF Announce
<1>13. ASSUME NEW p \in Procs, Retry(p) PROVE GateInv'
  BY <1>13 DEF Retry
<1>14. ASSUME NEW p \in Procs, RateLimited(p) PROVE GateInv'
  BY <1>14 DEF RateLimited
<1>15. ASSUME NEW p \in Procs, Release(p) PROVE GateInv'
  BY <1>15 DEF Release, Leave, NoLabels
<1>16. ASSUME NEW p \in Procs, NEW o \in Outcomes, Return(p, o) PROVE GateInv'
  BY <1>16 DEF Return, Resolve
<1>17. ASSUME NEW p \in Procs, ClearStatus(p) PROVE GateInv'
  BY <1>17 DEF ClearStatus, Clear
<1>18. ASSUME NEW p \in Procs, StampHalt(p) PROVE GateInv'
  BY <1>18 DEF StampHalt, Stamp, StatusOf, Halts, Leave, NoLabels
<1>19. ASSUME NEW p \in Procs, StampComplete(p) PROVE GateInv'
  BY <1>19 DEF StampComplete, Stamp, StatusOf, Refresh
<1>20. ASSUME NEW p \in Procs, StampReclaimed(p) PROVE GateInv'
  BY <1>20 DEF StampReclaimed, Stamp, StatusOf, NextLock
<1>21. ASSUME NEW p \in Procs, PromotionFails(p) PROVE GateInv'
  BY <1>21 DEF PromotionFails
<1>22. ASSUME NEW p \in Procs, NEW s \in Gated, ApprovalUnreadable(p, s) PROVE GateInv'
  BY <1>22 DEF ApprovalUnreadable, Unreview, Relabel
<1>23. ASSUME NEW p \in Procs, NEW s \in Steps, ChooseFails(p, s) PROVE GateInv'
  BY <1>23 DEF ChooseFails
<1>24. ASSUME NEW p \in Procs, AcquireFails(p) PROVE GateInv'
  BY <1>24 DEF AcquireFails
<1>25. ASSUME NEW p \in Procs, ReleaseFails(p) PROVE GateInv'
  BY <1>25 DEF ReleaseFails, Leave, NoLabels
<1>26. ASSUME NEW p \in Procs, ClearFails(p) PROVE GateInv'
  BY <1>26 DEF ClearFails, Clear
<1>27. ASSUME NEW p \in Procs, StampFails(p) PROVE GateInv'
  <2>1. UNCHANGED <<gateBy, approvedRev>>
    BY <1>27 DEF StampFails
  <2>2. \A s \in Steps : "complete" \in labels'[s] => "complete" \in labels[s]
    <3>1. CASE labels' = [labels EXCEPT ![at[p]] = @ \union {"wip"}]
      BY <3>1
    <3>2. CASE UNCHANGED labels
      BY <3>2
    <3> QED
      BY <1>27, <3>1, <3>2 DEF StampFails
  <2>3. CASE Leave(p)
    BY <2>1, <2>2, <2>3 DEF Leave, NoLabels
  <2>4. CASE Refresh(p)
    BY <2>1, <2>2, <2>4 DEF Refresh
  <2>5. CASE NextLock(p)
    BY <2>1, <2>2, <2>5 DEF NextLock
  <2> QED
    BY <1>27, <2>3, <2>4, <2>5 DEF StampFails
<1>28. ASSUME NEW p \in Procs, Crash(p) PROVE GateInv'
  BY <1>28 DEF Crash, Leave, NoLabels
<1>29. CASE People
  <2>1. ASSUME NEW s \in Steps, Approve(s) PROVE GateInv'
    BY <2>1 DEF Approve, Act, process, Never
  <2>2. ASSUME NEW s \in Steps, Withdraw(s) PROVE GateInv'
    BY <2>2 DEF Withdraw, Act, process
  <2>3. ASSUME NEW s \in Steps, Request(s) \/ Skip(s) PROVE GateInv'
    <3>1. UNCHANGED <<gateBy, approvedRev, view, pc, result, at>>
      BY <2>3 DEF Request, Skip, Act, process
    <3>2. \A t \in Steps : "complete" \in labels'[t] => "complete" \in labels[t]
      <4>1. CASE labels' = [labels EXCEPT ![s] = @ \union {"requested"}]
        BY <4>1
      <4>2. CASE labels' = [labels EXCEPT ![s] = @ \union {"skipped"}]
        BY <4>2
      <4> QED
        BY <2>3, <4>1, <4>2 DEF Request, Skip
    <3> QED
      BY <3>1, <3>2
  <2>4. ASSUME NEW s \in Steps, NEW halt \in Halts, ClearHalt(s, halt) PROVE GateInv'
    BY <2>4 DEF ClearHalt, Act, process
  <2>5. ASSUME NEW s \in Steps, NEW p \in Procs, SelfApprove(p, s) PROVE GateInv'
    BY <2>5 DEF SelfApprove, Act, process
  <2> QED
    BY <1>29, <2>1, <2>2, <2>3, <2>4, <2>5 DEF People
<1>30. CASE Tick \/ UNCHANGED vars
  BY <1>30 DEF Tick, vars, process
<1> QED
  BY <1>1, <1>2, <1>3, <1>4, <1>5, <1>5a, <1>6, <1>7, <1>8, <1>9, <1>10, <1>11,
     <1>12, <1>13, <1>14, <1>15, <1>16, <1>17, <1>18, <1>19, <1>20, <1>21,
     <1>22, <1>23, <1>24, <1>25, <1>26, <1>27, <1>28, <1>29, <1>30
  DEF Next, ProcessStep, ProcessFault

\* No gated step is complete unless a person has applied its gate label, however
\* many steps and sessions there are.
THEOREM GatesNeedPersons == Spec => []GateNeedsPerson
<1>1. GateInv => GateNeedsPerson
  BY DEF GateInv
<1> QED
  BY <1>1, TypeInit, TypeStep, GateInit, GateStep, PTL DEF Spec

----------------------------------------------------------------------------
(* Dependents run past decided gates only *)

\* Every gated step that step s depends on has been decided by a person.
GatesDecided(s) == \A d \in Deps[s] \intersect HardGated : Decided(d)

\* The inductive form of DependentsNeedPerson: decisions reach back to the moment
\* the step was chosen, and a bypass a process remembers is one that still stands.
DependentsInv ==
    /\ \A p \in Procs :
          pc[p] \in {"acquire", "lock", "announce", "running"} => GatesDecided(at[p])
    /\ \A p \in Procs, s \in Steps :
          "skipped" \in view[p][s] => "skipped" \in labels[s]

LEMMA DependentsInit == Init => DependentsInv
  BY DEF Init, DependentsInv, NoLabels

\* What has been decided for the dependencies of a step stays decided.
LEMMA DecidedLast ==
  TypeInv /\ [Next]_vars => \A s \in Steps : GatesDecided(s) => GatesDecided(s)'
  BY DecisionsLast, StepsAssumption DEF GatesDecided, Decided, DecisionsStand, HardGated

LEMMA DependentsStep == TypeInv /\ GateInv /\ DependentsInv /\ [Next]_vars => DependentsInv'
<1> SUFFICES ASSUME TypeInv, GateInv, DependentsInv, [Next]_vars PROVE DependentsInv'
  OBVIOUS
<1>0. /\ \A s \in Steps : GatesDecided(s) => GatesDecided(s)'
      /\ \A s \in Steps : "skipped" \in labels[s] => "skipped" \in labels'[s]
      /\ \A p \in Procs : pc[p] \in AtStep => at[p] \in Steps
  BY DecidedLast, DecisionsLast DEF DecisionsStand, TypeInv
<1> USE DEF TypeInv, TypeOK, DependentsInv, AtStep, Places, MoveOn, GoTo, github, history
<1>1. ASSUME NEW p \in Procs, Wake(p) PROVE DependentsInv'
  BY <1>1, <1>0 DEF Wake
<1>2. ASSUME NEW p \in Procs, PromotionDone(p) PROVE DependentsInv'
  BY <1>2, <1>0 DEF PromotionDone
<1>3. ASSUME NEW p \in Procs, NEW s \in Gated, Reject(p, s) PROVE DependentsInv'
  BY <1>3, <1>0 DEF Reject, Unreview, Relabel
<1>4. ASSUME NEW p \in Procs, NEW s \in Gated, PromoteAdd(p, s) PROVE DependentsInv'
  BY <1>4, <1>0 DEF PromoteAdd, Relabel, Approved, GatePresent, GateLabelHumanApplied
<1>5. ASSUME NEW p \in Procs, NEW s \in Gated, PromoteRemove(p, s) PROVE DependentsInv'
  BY <1>5, <1>0 DEF PromoteRemove, Relabel
<1>5a. ASSUME NEW p \in Procs, NEW s \in Gated, PromoteUnrequest(p, s) PROVE DependentsInv'
  BY <1>5a, <1>0 DEF PromoteUnrequest, Relabel
<1>6. ASSUME NEW p \in Procs, ReclaimDone(p) PROVE DependentsInv'
  BY <1>6, <1>0 DEF ReclaimDone
<1>7. ASSUME NEW p \in Procs, NothingToRun(p) PROVE DependentsInv'
  BY <1>7, <1>0 DEF NothingToRun, Leave, NoLabels
<1>8. ASSUME NEW p \in Procs, NEW s \in Steps, Reclaim(p, s) PROVE DependentsInv'
  BY <1>8, <1>0 DEF Reclaim
<1>9. ASSUME NEW p \in Procs, NEW s \in Steps, Choose(p, s) PROVE DependentsInv'
  <2>1. GatesDecided(s)
    <3>1. DependenciesComplete(p, s)
      BY <1>9 DEF Choose, IsFirst, Eligible, ShouldRun
    <3>2. ASSUME NEW d \in Deps[s] \intersect HardGated PROVE Decided(d)
      <4>1. d \in Steps
        BY StepsAssumption DEF HardGated
      <4>2. "skipped" \in view[p][d] \/ GatePresent(p, d)
        BY <3>1 DEF DependenciesComplete
      <4> QED
        BY <4>1, <4>2 DEF Decided, GatePresent, GateLabelHumanApplied, GateInv
    <3> QED
      BY <3>2 DEF GatesDecided
  <2> QED
    BY <1>9, <1>0, <2>1 DEF Choose
<1>10. ASSUME NEW p \in Procs, AcquireUnrequest(p) PROVE DependentsInv'
  BY <1>10, <1>0 DEF AcquireUnrequest, Relabel
<1>11. ASSUME NEW p \in Procs, AcquireLock(p) PROVE DependentsInv'
  BY <1>11, <1>0 DEF AcquireLock, Relabel
<1>12. ASSUME NEW p \in Procs, Announce(p) PROVE DependentsInv'
  BY <1>12, <1>0 DEF Announce
<1>13. ASSUME NEW p \in Procs, Retry(p) PROVE DependentsInv'
  BY <1>13, <1>0 DEF Retry
<1>14. ASSUME NEW p \in Procs, RateLimited(p) PROVE DependentsInv'
  BY <1>14, <1>0 DEF RateLimited
<1>15. ASSUME NEW p \in Procs, Release(p) PROVE DependentsInv'
  BY <1>15, <1>0 DEF Release, Leave, NoLabels
<1>16. ASSUME NEW p \in Procs, NEW o \in Outcomes, Return(p, o) PROVE DependentsInv'
  BY <1>16, <1>0 DEF Return, Resolve
<1>17. ASSUME NEW p \in Procs, ClearStatus(p) PROVE DependentsInv'
  BY <1>17, <1>0 DEF ClearStatus, Clear
<1>18. ASSUME NEW p \in Procs, StampHalt(p) PROVE DependentsInv'
  BY <1>18, <1>0 DEF StampHalt, Stamp, StatusOf, Halts, Leave, NoLabels
<1>19. ASSUME NEW p \in Procs, StampComplete(p) PROVE DependentsInv'
  BY <1>19, <1>0 DEF StampComplete, Stamp, StatusOf, Refresh
<1>20. ASSUME NEW p \in Procs, StampReclaimed(p) PROVE DependentsInv'
  BY <1>20, <1>0 DEF StampReclaimed, Stamp, StatusOf, NextLock
<1>21. ASSUME NEW p \in Procs, PromotionFails(p) PROVE DependentsInv'
  BY <1>21, <1>0 DEF PromotionFails
<1>22. ASSUME NEW p \in Procs, NEW s \in Gated, ApprovalUnreadable(p, s) PROVE DependentsInv'
  BY <1>22, <1>0 DEF ApprovalUnreadable, Unreview, Relabel
<1>23. ASSUME NEW p \in Procs, NEW s \in Steps, ChooseFails(p, s) PROVE DependentsInv'
  BY <1>23, <1>0 DEF ChooseFails
<1>24. ASSUME NEW p \in Procs, AcquireFails(p) PROVE DependentsInv'
  BY <1>24, <1>0 DEF AcquireFails
<1>25. ASSUME NEW p \in Procs, ReleaseFails(p) PROVE DependentsInv'
  BY <1>25, <1>0 DEF ReleaseFails, Leave, NoLabels
<1>26. ASSUME NEW p \in Procs, ClearFails(p) PROVE DependentsInv'
  BY <1>26, <1>0 DEF ClearFails, Clear
<1>27. ASSUME NEW p \in Procs, StampFails(p) PROVE DependentsInv'
  <2>1. CASE Leave(p)
    BY <1>27, <1>0, <2>1 DEF StampFails, Leave, NoLabels
  <2>2. CASE Refresh(p)
    BY <1>27, <1>0, <2>2 DEF StampFails, Refresh
  <2>3. CASE NextLock(p)
    BY <1>27, <1>0, <2>3 DEF StampFails, NextLock
  <2> QED
    BY <1>27, <2>1, <2>2, <2>3 DEF StampFails
<1>28. ASSUME NEW p \in Procs, Crash(p) PROVE DependentsInv'
  BY <1>28, <1>0 DEF Crash, Leave, NoLabels
<1>29. CASE People
  BY <1>29, <1>0 DEF People, Act, process, Approve, Withdraw, Request, Skip, ClearHalt,
                SelfApprove, Never
<1>30. CASE Tick \/ UNCHANGED vars
  BY <1>30, <1>0 DEF Tick, vars, process
<1> QED
  BY <1>1, <1>2, <1>3, <1>4, <1>5, <1>5a, <1>6, <1>7, <1>8, <1>9, <1>10, <1>11,
     <1>12, <1>13, <1>14, <1>15, <1>16, <1>17, <1>18, <1>19, <1>20, <1>21,
     <1>22, <1>23, <1>24, <1>25, <1>26, <1>27, <1>28, <1>29, <1>30
  DEF Next, ProcessStep, ProcessFault

\* Whenever a step runs, a person has approved or bypassed every gated step it
\* depends on.
THEOREM DependentsNeedPersons == Spec => []DependentsNeedPerson
<1>1. DependentsInv => DependentsNeedPerson
  BY DEF DependentsInv, DependentsNeedPerson, GatesDecided, Decided
<1> QED
  BY <1>1, TypeInit, TypeStep, GateInit, GateStep, DependentsInit, DependentsStep,
     PTL DEF Spec

----------------------------------------------------------------------------
(* The lease outlives every announced run *)

\* The inductive form of LeaseOutlivesRun: the announcement is no older than the
\* attempts already spent and the present one together, and only a run that is
\* in progress counts as announced.
LeaseInv ==
    \A p \in Procs :
        IF pc[p] = "running"
        THEN announced[p] => /\ age[at[p]] # Never
                             /\ age[at[p]] <= attempt[p] * MaxWall + runAge[p]
        ELSE ~announced[p]

LEMMA LeaseInit == Init => LeaseInv
  BY DEF Init, LeaseInv

\* Attempts and budgets multiply as numbers do.
LEMMA Budgets ==
  \A a \in 0..MaxRetries : /\ a * MaxWall \in Nat
                           /\ (a + 1) * MaxWall = a * MaxWall + MaxWall
                           /\ (a + 1) * MaxWall <= Lease
<1> SUFFICES ASSUME NEW a \in 0..MaxRetries
             PROVE  /\ a * MaxWall \in Nat
                    /\ (a + 1) * MaxWall = a * MaxWall + MaxWall
                    /\ (a + 1) * MaxWall <= Lease
  OBVIOUS
<1> USE BoundsAssumption
<1>1. a * MaxWall \in Nat /\ (a + 1) * MaxWall = a * MaxWall + MaxWall
  OBVIOUS
<1>2. \A i, j, w \in Nat : i <= j => i * w <= j * w
  OBVIOUS
<1>3. (a + 1) * MaxWall <= (MaxRetries + 1) * MaxWall
  BY <1>2
<1> QED
  BY <1>1, <1>3 DEF Lease

LEMMA LeaseStep == TypeInv /\ LeaseInv /\ [Next]_vars => LeaseInv'
<1> SUFFICES ASSUME TypeInv, LeaseInv, [Next]_vars PROVE LeaseInv'
  OBVIOUS
<1> USE DEF TypeInv, TypeOK, LeaseInv, AtStep, Places, MoveOn, GoTo, Never,
            github, history, run
<1>1. ASSUME NEW p \in Procs, Wake(p) PROVE LeaseInv'
  BY <1>1 DEF Wake
<1>2. ASSUME NEW p \in Procs, PromotionDone(p) PROVE LeaseInv'
  BY <1>2 DEF PromotionDone
<1>3. ASSUME NEW p \in Procs, NEW s \in Gated, Reject(p, s) PROVE LeaseInv'
  BY <1>3 DEF Reject, Promoting, Unreview
<1>4. ASSUME NEW p \in Procs, NEW s \in Gated, PromoteAdd(p, s) PROVE LeaseInv'
  BY <1>4 DEF PromoteAdd, Promoting
<1>5. ASSUME NEW p \in Procs, NEW s \in Gated, PromoteRemove(p, s) PROVE LeaseInv'
  BY <1>5 DEF PromoteRemove
<1>5a. ASSUME NEW p \in Procs, NEW s \in Gated, PromoteUnrequest(p, s) PROVE LeaseInv'
  BY <1>5a DEF PromoteUnrequest
<1>6. ASSUME NEW p \in Procs, ReclaimDone(p) PROVE LeaseInv'
  BY <1>6 DEF ReclaimDone
<1>7. ASSUME NEW p \in Procs, NothingToRun(p) PROVE LeaseInv'
  BY <1>7 DEF NothingToRun, Leave, Rest, NoLabels
<1>8. ASSUME NEW p \in Procs, NEW s \in Steps, Reclaim(p, s) PROVE LeaseInv'
  BY <1>8 DEF Reclaim
<1>9. ASSUME NEW p \in Procs, NEW s \in Steps, Choose(p, s) PROVE LeaseInv'
  BY <1>9 DEF Choose
<1>10. ASSUME NEW p \in Procs, AcquireUnrequest(p) PROVE LeaseInv'
  BY <1>10 DEF AcquireUnrequest
<1>11. ASSUME NEW p \in Procs, AcquireLock(p) PROVE LeaseInv'
  BY <1>11 DEF AcquireLock
<1>12. ASSUME NEW p \in Procs, Announce(p) PROVE LeaseInv'
  <2> SUFFICES ASSUME NEW q \in Procs, pc'[q] = "running", announced'[q]
               PROVE  /\ age'[at'[q]] # Never
                      /\ age'[at'[q]] <= attempt'[q] * MaxWall + runAge'[q]
    BY <1>12 DEF Announce
  <2>1. attempt'[q] * MaxWall \in Nat /\ runAge'[q] \in Nat /\ at'[q] \in Steps
    BY <1>12, Budgets, BoundsAssumption DEF Announce
  <2>2. CASE at[q] = at[p]
    <3>1. age'[at'[q]] = 0
      BY <1>12, <2>1, <2>2 DEF Announce
    <3> QED
      BY <3>1, <2>1
  <2>3. CASE at[q] # at[p]
    BY <1>12, <2>1, <2>3 DEF Announce
  <2> QED
    BY <2>2, <2>3
<1>13. ASSUME NEW p \in Procs, Retry(p) PROVE LeaseInv'
  <2>1. /\ attempt[p] \in 0..MaxRetries
        /\ attempt'[p] = attempt[p] + 1
        /\ runAge'[p] = 0 /\ runAge[p] \in 0..MaxWall
    BY <1>13 DEF Retry
  <2>2. attempt[p] * MaxWall + runAge[p] <= attempt'[p] * MaxWall + runAge'[p]
    BY <2>1, Budgets, BoundsAssumption
  <2>3. announced[p] => /\ age[at[p]] \in Int
                        /\ age[at[p]] # Never
                        /\ age[at[p]] <= attempt'[p] * MaxWall + runAge'[p]
    <3>1. /\ at[p] \in Steps
          /\ announced[p] => /\ age[at[p]] # Never
                             /\ age[at[p]] <= attempt[p] * MaxWall + runAge[p]
      BY <1>13 DEF Retry
    <3>2. age[at[p]] \in Int /\ (attempt[p] + 1) \in 0..MaxRetries
      BY <1>13, <3>1, LeaseType, BoundsAssumption DEF Retry
    <3> HIDE DEF TypeInv, TypeOK, LeaseInv
    <3>3. attempt[p] * MaxWall \in Nat /\ attempt'[p] * MaxWall \in Nat
      BY <2>1, <3>2, Budgets
    <3> QED
      BY <2>1, <2>2, <3>1, <3>2, <3>3, BoundsAssumption
  <2>4. ASSUME NEW q \in Procs, q # p
        PROVE  attempt'[q] = attempt[q] /\ runAge'[q] = runAge[q]
    BY <1>13, <2>4 DEF Retry
  <2> QED
    BY <1>13, <2>3, <2>4 DEF Retry
<1>14. ASSUME NEW p \in Procs, RateLimited(p) PROVE LeaseInv'
  BY <1>14 DEF RateLimited, Rest
<1>15. ASSUME NEW p \in Procs, Release(p) PROVE LeaseInv'
  BY <1>15 DEF Release, Leave, Rest, NoLabels
<1>16. ASSUME NEW p \in Procs, NEW o \in Outcomes, Return(p, o) PROVE LeaseInv'
  BY <1>16 DEF Return, Rest
<1>17. ASSUME NEW p \in Procs, ClearStatus(p) PROVE LeaseInv'
  BY <1>17 DEF ClearStatus, Clear
<1>18. ASSUME NEW p \in Procs, StampHalt(p) PROVE LeaseInv'
  BY <1>18 DEF StampHalt, Stamp, Leave, Rest
<1>19. ASSUME NEW p \in Procs, StampComplete(p) PROVE LeaseInv'
  BY <1>19 DEF StampComplete, Stamp, Refresh
<1>20. ASSUME NEW p \in Procs, StampReclaimed(p) PROVE LeaseInv'
  BY <1>20 DEF StampReclaimed, Stamp, NextLock
<1>21. ASSUME NEW p \in Procs, PromotionFails(p) PROVE LeaseInv'
  <2>1. pc[p] \in {"promote", "promoting", "promoted"} /\ pc'[p] = "promote"
    BY <1>21 DEF PromotionFails, Promoting
  <2>2. \A q \in Procs : q # p => pc'[q] = pc[q] /\ at'[q] = at[q]
    BY <1>21 DEF PromotionFails, Promoting
  <2> QED
    BY <1>21, <2>1, <2>2 DEF PromotionFails
<1>22. ASSUME NEW p \in Procs, NEW s \in Gated, ApprovalUnreadable(p, s) PROVE LeaseInv'
  BY <1>22 DEF ApprovalUnreadable, Promoting, Unreview
<1>23. ASSUME NEW p \in Procs, NEW s \in Steps, ChooseFails(p, s) PROVE LeaseInv'
  BY <1>23 DEF ChooseFails
<1>24. ASSUME NEW p \in Procs, AcquireFails(p) PROVE LeaseInv'
  BY <1>24 DEF AcquireFails
<1>25. ASSUME NEW p \in Procs, ReleaseFails(p) PROVE LeaseInv'
  BY <1>25 DEF ReleaseFails, Leave, Rest, NoLabels
<1>26. ASSUME NEW p \in Procs, ClearFails(p) PROVE LeaseInv'
  BY <1>26 DEF ClearFails, Clear
<1>27. ASSUME NEW p \in Procs, StampFails(p) PROVE LeaseInv'
  BY <1>27 DEF StampFails, Leave, Rest, NoLabels, Refresh, NextLock
<1>28. ASSUME NEW p \in Procs, Crash(p) PROVE LeaseInv'
  BY <1>28 DEF Crash, Leave, Rest, NoLabels
<1>29. CASE People
  BY <1>29 DEF People, Act, process, Approve, Withdraw, Request, Skip, ClearHalt,
                SelfApprove, Never
<1>30. CASE Tick
  <2> SUFFICES ASSUME NEW q \in Procs, pc[q] = "running", announced[q]
               PROVE  /\ age'[at[q]] # Never
                      /\ age'[at[q]] <= attempt[q] * MaxWall + runAge'[q]
    BY <1>30 DEF Tick
  <2>1. /\ at[q] \in Steps
        /\ age[at[q]] \in 0..(Lease + 1)
        /\ age[at[q]] <= attempt[q] * MaxWall + runAge[q]
        /\ attempt[q] \in 0..MaxRetries /\ runAge[q] \in Nat
    BY <1>30, BoundsAssumption
  <2>2. attempt[q] * MaxWall \in Nat
    BY <2>1, Budgets
  <2>3. runAge'[q] = runAge[q] + 1
    BY <1>30 DEF Tick
  <2>4. age'[at[q]] \in {age[at[q]], age[at[q]] + 1}
    BY <1>30, <2>1 DEF Tick
  <2> HIDE DEF TypeInv, TypeOK, LeaseInv
  <2> QED
    BY <2>1, <2>2, <2>3, <2>4, LeaseType
<1>31. CASE UNCHANGED vars
  BY <1>31 DEF vars, process
<1> QED
  BY <1>1, <1>2, <1>3, <1>4, <1>5, <1>5a, <1>6, <1>7, <1>8, <1>9, <1>10, <1>11,
     <1>12, <1>13, <1>14, <1>15, <1>16, <1>17, <1>18, <1>19, <1>20, <1>21,
     <1>22, <1>23, <1>24, <1>25, <1>26, <1>27, <1>28, <1>29, <1>30, <1>31
  DEF Next, ProcessStep, ProcessFault

\* An announced run is younger than the lease of its lock at every moment of
\* every attempt, whatever the retry allowance and the budgets are.
THEOREM LeasesOutliveRuns == Spec => []LeaseOutlivesRun
<1>1. TypeInv /\ LeaseInv => LeaseOutlivesRun
  <2> SUFFICES ASSUME TypeInv, LeaseInv, NEW p \in Procs, pc[p] = "running", announced[p]
               PROVE  age[at[p]] \in 0..Lease
    BY DEF LeaseOutlivesRun
  <2>1. /\ at[p] \in Steps
        /\ attempt[p] \in 0..MaxRetries
        /\ runAge[p] \in 0..MaxWall
        /\ age[at[p]] \in {Never} \union 0..(Lease + 1)
        /\ age[at[p]] # Never
        /\ age[at[p]] <= attempt[p] * MaxWall + runAge[p]
    BY DEF TypeInv, TypeOK, AtStep, LeaseInv
  <2>2. attempt[p] * MaxWall \in Nat /\ attempt[p] * MaxWall + MaxWall <= Lease
    BY <2>1, Budgets
  <2> QED
    BY <2>1, <2>2, LeaseType, BoundsAssumption DEF Never
<1> QED
  BY <1>1, TypeInit, TypeStep, LeaseInit, LeaseStep, PTL DEF Spec

\* A process goes from looking for stale locks to clearing one only by taking it back.
LEMMA OnlyReclaims ==
  ASSUME TypeInv, [Next]_vars, NEW p \in Procs, pc[p] = "reclaim", pc'[p] = "clear"
  PROVE  \E s \in Steps : Reclaim(p, s)
<1> USE DEF TypeInv, TypeOK, MoveOn, GoTo
<1>1. ASSUME NEW q \in Procs, ProcessStep(q) PROVE \E s \in Steps : Reclaim(p, s)
  <2>1. CASE q = p
    <3>1. ASSUME NEW s \in Gated, \/ Reject(p, s) \/ PromoteAdd(p, s)
                                 \/ PromoteRemove(p, s) \/ PromoteUnrequest(p, s)
          PROVE  FALSE
      BY <3>1 DEF Reject, PromoteAdd, PromoteRemove, PromoteUnrequest, Promoting
    <3>2. ASSUME NEW s \in Steps, Choose(p, s) PROVE FALSE
      BY <3>2 DEF Choose
    <3>3. ~(Wake(p) \/ PromotionDone(p) \/ ReclaimDone(p) \/ NothingToRun(p))
      BY DEF Wake, PromotionDone, ReclaimDone, NothingToRun
    <3>4. ~(AcquireUnrequest(p) \/ AcquireLock(p) \/ Announce(p) \/ Retry(p) \/ RateLimited(p)
            \/ Release(p))
      BY DEF AcquireUnrequest, AcquireLock, Announce, Retry, RateLimited, Release
    <3>5. ~(ClearStatus(p) \/ StampHalt(p) \/ StampComplete(p) \/ StampReclaimed(p))
      BY DEF ClearStatus, Clear, StampHalt, StampComplete, StampReclaimed, Stamp
    <3>6. ~\E outcome \in Outcomes : Return(p, outcome)
      BY DEF Return
    <3> QED
      BY <1>1, <2>1, <3>1, <3>2, <3>3, <3>4, <3>5, <3>6 DEF ProcessStep
  <2>2. CASE q # p
    <3>1. pc'[p] = pc[p]
      BY <1>1, <2>2 DEF ProcessStep, Wake, PromotionDone, Reject, PromoteAdd, PromoteRemove,
                PromoteUnrequest, Unreview, ReclaimDone, NothingToRun, Reclaim, Choose, AcquireUnrequest,
                AcquireLock, Announce, Retry, RateLimited, Release, Return, ClearStatus,
                Clear, StampHalt, StampComplete, StampReclaimed, Leave, Refresh, NextLock
    <3> QED
      BY <3>1
  <2> QED
    BY <2>1, <2>2
<1>2. ASSUME NEW q \in Procs, ProcessFault(q) PROVE pc'[p] = pc[p] \/ pc'[p] = "idle"
  <2>1. ASSUME NEW s \in Gated, ApprovalUnreadable(q, s) PROVE pc'[p] = pc[p]
    BY <2>1 DEF ApprovalUnreadable, Promoting, Unreview
  <2>2. ASSUME NEW s \in Steps, ChooseFails(q, s) PROVE pc'[p] = pc[p]
    BY <2>2 DEF ChooseFails
  <2>3. CASE PromotionFails(q) \/ ClearFails(q)
    BY <2>3 DEF PromotionFails, Promoting, ClearFails, Clear
  <2>4. CASE ReleaseFails(q) \/ StampFails(q) \/ Crash(q)
    BY <2>4 DEF ReleaseFails, StampFails, Crash, Leave, Refresh, NextLock
  <2>5. ASSUME NEW here \in {"acquire", "lock", "announce"}, NEW there, pc[q] = here, GoTo(q, there)
        PROVE  pc'[p] = pc[p]
    BY <2>5
  <2>6. CASE AcquireFails(q)
    BY <2>5, <2>6 DEF AcquireFails
  <2> QED
    BY <1>2, <2>1, <2>2, <2>3, <2>4, <2>6 DEF ProcessFault
<1>3. People \/ Tick \/ UNCHANGED vars => pc' = pc
  BY DEF People, Approve, Withdraw, Request, Skip, ClearHalt, SelfApprove, Act, process, Tick,
         vars
<1> QED
  BY <1>1, <1>2, <1>3 DEF Next

\* No lock is taken back while a run of its step is in progress whose announcement was
\* posted, however many sessions run beside the tick (_reclaim_stale_wip): this much of
\* ReclaimSparesLiveRuns holds.
THEOREM AnnouncedRunsAreSpared == Spec => AnnouncedRunsSpared
<1> DEFINE Spares ==
      \A p, q \in Procs :
          pc[p] = "reclaim" /\ pc'[p] = "clear" /\ pc[q] = "running" /\ announced[q]
              => at[q] # at'[p]
<1>1. TypeInv /\ LeaseOutlivesRun /\ [Next]_vars => Spares
  <2> SUFFICES ASSUME TypeInv, LeaseOutlivesRun, [Next]_vars, NEW p \in Procs, NEW q \in Procs,
                      pc[p] = "reclaim", pc'[p] = "clear", pc[q] = "running", announced[q]
               PROVE  at[q] # at'[p]
    OBVIOUS
  <2>1. PICK s \in Steps : Reclaim(p, s)
    BY OnlyReclaims
  <2>2. at'[p] = s
    BY <2>1 DEF Reclaim, MoveOn, TypeInv, TypeOK
  <2>3. age[s] > Lease
    BY <2>1 DEF Reclaim, IsFirst, Stale
  <2>4. age[at[q]] \in 0..Lease
    BY DEF LeaseOutlivesRun
  <2> QED
    BY <2>2, <2>3, <2>4, LeaseType
<1> HIDE DEF Spares
<1>2. Spec => [][Spares]_vars
  BY <1>1, LeasesOutliveRuns, TypeInit, TypeStep, PTL DEF Spec
<1> QED
  BY <1>2 DEF Spares, AnnouncedRunsSpared

----------------------------------------------------------------------------
(* Halts hold while no session runs beside the tick *)

Alone == Interactive = {}

Stopped(ls) == "complete" \in ls \/ ls \intersect Halts # {}

\* From the decision to run a step, or to take its lock back, to its record.
Held == {"acquire", "lock", "announce", "running", "release", "clear", "stamp"}

\* What is owed a person's attention carries a halt nobody asked to override, or
\* the :complete that an approval added beside it.
OwedInv == \A s \in owed : "requested" \notin labels[s] /\ Stopped(labels[s])

\* The process knows as much.  A request it still sees, since its own reclaim took
\* it off, does not let it start: the lock it found has the components claimed.
KnownInv(p) == pc[p] # "idle" =>
    \A s \in owed :
        /\ Stopped(view[p][s])
        /\ "requested" \in view[p][s] =>
              claimed[p] /\ pc[p] \notin {"promote", "promoting", "promoted"}

\* No :complete is ever taken off, so what the process saw of one is still so; an
\* approval has put it on before it takes the halt off.
CompleteInv(p) ==
    /\ \A s \in Steps : "complete" \in view[p][s] => "complete" \in labels[s]
    /\ pc[p] = "promoting" =>
          "complete" \in labels[at[p]] /\ "complete" \in view[p][at[p]]

\* A lock the process found holds the components of the item for its tick.
LocksInv(p) ==
    /\ pc[p] \in {"promote", "promoting", "promoted", "reclaim"} =>
          \A s \in Steps : "wip" \in view[p][s] => claimed[p]
    /\ pc[p] \in {"clear", "stamp"} /\ result[p] = "reclaimed" => claimed[p]

\* The inductive form of HaltNeedsPerson.
HaltInv ==
    /\ OwedInv
    /\ \A p \in Procs :
          /\ pc[p] \in Held => at[p] \notin owed
          /\ KnownInv(p) /\ CompleteInv(p) /\ LocksInv(p)

LEMMA HaltInit == Init => HaltInv
  BY StepsAssumption DEF Init, HaltInv, OwedInv, KnownInv, CompleteInv, LocksInv, Held, NoLabels

\* A lock that reads as :wip stands beside no halt.
LEMMA WipIsBare ==
    ASSUME NEW ls \in SUBSET Status, AgentStatus(ls) = "wip"
    PROVE  "wip" \in ls /\ ~Stopped(ls)
<1> DEFINE First(i) == /\ Priority[i] \in ls
                       /\ \A j \in 1..(i - 1) : Priority[j] \notin ls
           i == CHOOSE i \in 1..8 : First(i)
<1>1. Priority[i] = "wip" /\ ls # {}
  BY DEF AgentStatus
<1>2. \E n \in 1..8 : First(n)
  <2>1. PICK m \in 1..8 : Priority[m] \in ls
    <3>1. /\ Priority[1] = "complete" /\ Priority[2] = "failed" /\ Priority[3] = "exhausted"
          /\ Priority[4] = "skipped" /\ Priority[5] = "review" /\ Priority[6] = "blocked"
          /\ Priority[7] = "wip" /\ Priority[8] = "requested"
      BY DEF Priority
    <3>2. \A x \in Status : \E n \in 1..8 : Priority[n] = x
      BY <3>1 DEF Status
    <3> QED
      BY <1>1, <3>2
  <2>2. \A n \in 1..8 : First(n) \/ Priority[n] \notin ls \/ \E j \in 1..(n - 1) : Priority[j] \in ls
    OBVIOUS
  <2> QED
    BY <2>1, <2>2, SMTT(30)
<1>3. i \in 1..8 /\ First(i)
  BY <1>2
<1> QED
  BY <1>1, <1>3 DEF Priority, Stopped, Halts

\* More labels stop a step no less.
LEMMA MoreStops ==
    ASSUME NEW ls, NEW ms, Stopped(ls), ls \subseteq ms \/ "complete" \in ms
    PROVE  Stopped(ms)
BY DEF Stopped

\* The parts of the invariant, spelled out for the one process there is.
LEMMA HaltFacts ==
    ASSUME Alone, TypeInv, HaltInv, NEW p \in Procs
    PROVE  /\ Procs = {p} /\ Gated \subseteq Steps
           /\ owed \subseteq Steps
           /\ labels \in [Steps -> SUBSET Status]
           /\ view \in [Procs -> [Steps -> SUBSET Status]]
           /\ \A q \in Procs : view[q] \in [Steps -> SUBSET Status]
           /\ pc \in [Procs -> Places] /\ at \in [Procs -> 1..(NumSteps + 1)]
           /\ result \in [Procs -> Outcomes \union {"none", "reclaimed"}]
           /\ claimed \in [Procs -> BOOLEAN]
           /\ \A t \in owed : "requested" \notin labels[t] /\ Stopped(labels[t])
           /\ pc[p] \in Held => at[p] \notin owed
           /\ pc[p] # "idle" => \A t \in owed : Stopped(view[p][t])
           /\ pc[p] # "idle" =>
                 \A t \in owed : "requested" \in view[p][t] =>
                    claimed[p] /\ pc[p] \notin {"promote", "promoting", "promoted"}
           /\ \A t \in Steps : "complete" \in view[p][t] => "complete" \in labels[t]
           /\ pc[p] = "promoting" =>
                 "complete" \in labels[at[p]] /\ "complete" \in view[p][at[p]]
           /\ pc[p] \in {"promote", "promoting", "promoted", "reclaim"} =>
                 \A t \in Steps : "wip" \in view[p][t] => claimed[p]
           /\ pc[p] \in {"clear", "stamp"} /\ result[p] = "reclaimed" => claimed[p]
<1>1. Procs = {p} /\ Gated \subseteq Steps
  BY StepsAssumption DEF Alone, Procs
<1>2. /\ owed \subseteq Steps
      /\ labels \in [Steps -> SUBSET Status]
      /\ view \in [Procs -> [Steps -> SUBSET Status]]
      /\ pc \in [Procs -> Places] /\ at \in [Procs -> 1..(NumSteps + 1)]
      /\ result \in [Procs -> Outcomes \union {"none", "reclaimed"}]
      /\ claimed \in [Procs -> BOOLEAN]
  BY DEF TypeInv, TypeOK
<1>3. OwedInv /\ (pc[p] \in Held => at[p] \notin owed) /\ KnownInv(p) /\ CompleteInv(p) /\ LocksInv(p)
  BY DEF HaltInv
<1>4. \A t \in owed : "requested" \notin labels[t] /\ Stopped(labels[t])
  BY <1>3 DEF OwedInv
<1> QED
  BY <1>1, <1>2, <1>3, <1>4 DEF KnownInv, CompleteInv, LocksInv

\* What a promotion takes off a step, its :complete makes up for.
LEMMA PromoteRemoveHalts ==
    ASSUME Alone, TypeInv, HaltInv, NEW p \in Procs, NEW s \in Gated, PromoteRemove(p, s)
    PROVE  HaltInv'
<1>1. /\ pc[p] = "promoting" /\ pc'[p] \in {"promote", "promoted"}
      /\ s = at[p] /\ s \in Steps
      /\ UNCHANGED <<owed, claimed>>
  BY HaltFacts DEF PromoteRemove, MoveOn, GoTo, history
<1>2. \A t \in Steps : /\ labels'[t] \subseteq labels[t]
                       /\ labels'[t] = labels[t] \/ "complete" \in labels'[t]
  BY <1>1, HaltFacts DEF PromoteRemove, Relabel
<1>3. \A t \in Steps : /\ view'[p][t] \subseteq view[p][t]
                       /\ view'[p][t] = view[p][t] \/ "complete" \in view'[p][t]
  BY <1>1, HaltFacts DEF PromoteRemove, Relabel
<1>4. CompleteInv(p)'
  <2>1. \A t \in Steps : "complete" \in labels[t] => "complete" \in labels'[t]
    BY <1>1, HaltFacts DEF PromoteRemove, Relabel
  <2> QED
    BY <1>1, <1>3, <2>1, HaltFacts DEF CompleteInv
<1>5. OwedInv'
  <2> SUFFICES ASSUME NEW t \in owed PROVE "requested" \notin labels'[t] /\ Stopped(labels'[t])
    BY <1>1 DEF OwedInv
  <2>1. t \in Steps /\ "requested" \notin labels[t] /\ Stopped(labels[t])
    BY HaltFacts
  <2> QED
    BY <1>2, <2>1, MoreStops
<1>6. KnownInv(p)'
  <2> SUFFICES ASSUME NEW t \in owed PROVE "requested" \notin view'[p][t] /\ Stopped(view'[p][t])
    BY <1>1 DEF KnownInv
  <2>1. t \in Steps /\ "requested" \notin view[p][t] /\ Stopped(view[p][t])
    BY <1>1, HaltFacts
  <2> QED
    BY <1>3, <2>1, MoreStops
<1>7. LocksInv(p)'
  BY <1>1, <1>3, HaltFacts DEF LocksInv
<1> QED
  BY HaltFacts, <1>1, <1>4, <1>5, <1>6, <1>7 DEF HaltInv, Held

\* A :review only comes off where a person has asked for a run.
LEMMA UnreviewHalts ==
    ASSUME Alone, TypeInv, HaltInv, NEW p \in Procs, NEW s \in Gated,
           Promoting(p, s), "requested" \in view[p][s], Unreview(p, s)
    PROVE  HaltInv'
<1>1. /\ pc[p] = "promote" /\ pc'[p] = "promote" /\ s \in Steps
      /\ UNCHANGED <<owed, claimed>>
  BY HaltFacts DEF Promoting, Unreview, MoveOn, GoTo, history
<1>2. s \notin owed
  BY <1>1, HaltFacts
<1>3. \A t \in Steps :
         /\ labels'[t] = IF t = s THEN labels[t] \ {"review"} ELSE labels[t]
         /\ view'[p][t] = IF t = s THEN view[p][t] \ {"review"} ELSE view[p][t]
  BY <1>1, HaltFacts DEF Unreview, Relabel
<1>4. OwedInv'
  BY <1>1, <1>2, <1>3, HaltFacts DEF OwedInv
<1>5. KnownInv(p)'
  BY <1>1, <1>2, <1>3, HaltFacts DEF KnownInv
<1>6. CompleteInv(p)' /\ LocksInv(p)'
  BY <1>1, <1>3, HaltFacts DEF CompleteInv, LocksInv
<1> QED
  BY HaltFacts, <1>1, <1>4, <1>5, <1>6 DEF HaltInv, Held

\* The record of a halt stops its step.
LEMMA StampHaltHalts ==
    ASSUME Alone, TypeInv, HaltInv, NEW p \in Procs, StampHalt(p)
    PROVE  HaltInv'
<1>1. /\ result[p] \in Halts /\ StatusOf(result[p]) = result[p]
      /\ pc'[p] = "idle"
  BY HaltFacts DEF StampHalt, Leave, MoveOn, GoTo, StatusOf, Halts
<1>2. \A t \in Steps : /\ labels[t] \subseteq labels'[t]
                       /\ labels'[t] \subseteq labels[t] \union {result[p]}
                       /\ t = at[p] => result[p] \in labels'[t]
  BY HaltFacts, <1>1 DEF StampHalt, Stamp
<1>3. \A t \in owed' : t \in owed \/ (t = at[p] /\ "requested" \notin labels[t])
  BY <1>1 DEF StampHalt, Stamp
<1>4. owed' \subseteq Steps
  <2>1. at[p] \in Steps
    BY DEF StampHalt, Stamp, TypeInv, AtStep
  <2> QED
    BY <1>3, <2>1, HaltFacts
<1>5. OwedInv'
  <2> SUFFICES ASSUME NEW t \in owed' PROVE "requested" \notin labels'[t] /\ Stopped(labels'[t])
    BY DEF OwedInv
  <2>1. t \in Steps /\ result[p] # "requested"
    BY <1>1, <1>4 DEF Halts
  <2>2. CASE t \in owed
    <3>1. "requested" \notin labels[t] /\ Stopped(labels[t])
      BY <2>2, HaltFacts
    <3> QED
      BY <1>2, <2>1, <3>1, MoreStops
  <2>3. CASE t = at[p] /\ "requested" \notin labels[t]
    BY <1>1, <1>2, <2>1, <2>3 DEF Stopped
  <2> QED
    BY <1>3, <2>2, <2>3
<1>6. view'[p] = NoLabels
  BY HaltFacts DEF StampHalt, Leave
<1>7. KnownInv(p)' /\ CompleteInv(p)' /\ LocksInv(p)'
  BY <1>1, <1>6 DEF KnownInv, CompleteInv, LocksInv, NoLabels
<1> QED
  BY HaltFacts, <1>1, <1>5, <1>7 DEF HaltInv, Held

\* A lock taken back leaves the components claimed and its step stopped, on the
\* item or, when the label call failed, in what the process knows.
LEMMA NextLockHalts ==
    ASSUME Alone, TypeInv, HaltInv, NEW p \in Procs, NextLock(p),
           StampReclaimed(p) \/ StampFails(p)
    PROVE  HaltInv'
<1>1. /\ pc[p] = "stamp" /\ pc'[p] = "reclaim" /\ claimed[p] /\ at[p] \notin owed
      /\ UNCHANGED claimed /\ result[p] = "reclaimed" /\ StatusOf(result[p]) = "failed"
      /\ at[p] \in Steps
  BY HaltFacts DEF StampReclaimed, StampFails, Stamp, NextLock, StatusOf, MoveOn, GoTo, Held, TypeInv, AtStep
<1>2. \A t \in Steps : /\ labels[t] \subseteq labels'[t]
                       /\ labels'[t] \subseteq labels[t] \union {"failed", "wip"}
                       /\ t \in owed' \ owed => /\ "requested" \notin labels[t]
                                                 /\ "failed" \in labels'[t]
  <2>1. CASE StampReclaimed(p)
    BY <1>1, <2>1, HaltFacts DEF StampReclaimed, Stamp
  <2>2. CASE StampFails(p)
    <3>1. owed' = owed
      BY <2>2 DEF StampFails, history
    <3>2. UNCHANGED labels
      BY <1>1, <2>2 DEF StampFails
    <3> QED
      BY <3>1, <3>2
  <2> QED
    BY <2>1, <2>2
<1>3. owed' \subseteq Steps /\ \A t \in owed' : t \in owed \/ t = at[p]
  <2>1. CASE StampReclaimed(p)
    BY <1>1, <2>1, HaltFacts DEF StampReclaimed, Stamp
  <2>2. CASE StampFails(p)
    BY <2>2, HaltFacts DEF StampFails, history
  <2> QED
    BY <2>1, <2>2
<1>4. \A t \in Steps : /\ t # at[p] => view'[p][t] = view[p][t]
                       /\ view'[p][t] \subseteq view[p][t] \union {"failed"}
                       /\ t = at[p] => "failed" \in view'[p][t]
  BY <1>1, HaltFacts DEF NextLock
<1>5. \A ls : "failed" \in ls => Stopped(ls)
  BY DEF Stopped, Halts
<1>6. OwedInv'
  <2> SUFFICES ASSUME NEW t \in owed' PROVE "requested" \notin labels'[t] /\ Stopped(labels'[t])
    BY DEF OwedInv
  <2>1. t \in Steps
    BY <1>3
  <2>2. CASE t \in owed
    <3>1. "requested" \notin labels[t] /\ Stopped(labels[t])
      BY <2>2, HaltFacts
    <3> QED
      BY <1>2, <2>1, <3>1, MoreStops
  <2>3. CASE t \notin owed
    BY <1>2, <1>5, <2>1, <2>3
  <2> QED
    BY <2>2, <2>3
<1>7. KnownInv(p)'
  <2> SUFFICES ASSUME NEW t \in owed' PROVE Stopped(view'[p][t])
    BY <1>1 DEF KnownInv
  <2>1. CASE t = at[p]
    BY <1>1, <1>4, <1>5, <2>1
  <2>2. CASE t # at[p]
    <3>1. t \in owed /\ t \in Steps /\ Stopped(view[p][t])
      BY <1>1, <1>3, <2>2, HaltFacts
    <3>2. view'[p][t] = view[p][t]
      BY <1>4, <2>2, <3>1
    <3> QED
      BY <3>1, <3>2
  <2> QED
    BY <2>1, <2>2
<1>8. CompleteInv(p)'
  <2>1. \A t \in Steps : "complete" \in view[p][t] => "complete" \in labels[t]
    BY HaltFacts
  <2>2. \A t \in Steps : "complete" \in view'[p][t] => "complete" \in labels'[t]
    BY <1>2, <1>4, <2>1
  <2> QED
    BY <1>1, <2>2 DEF CompleteInv
<1>9. LocksInv(p)'
  BY <1>1 DEF LocksInv
<1> QED
  BY HaltFacts, <1>1, <1>6, <1>7, <1>8, <1>9 DEF HaltInv, Held

LEMMA HaltStep == ASSUME Alone PROVE TypeInv /\ HaltInv /\ [Next]_vars => HaltInv'
<1> SUFFICES ASSUME TypeInv, HaltInv, [Next]_vars PROVE HaltInv'
  OBVIOUS
<1>0. /\ \A p \in Procs : p = Headless
      /\ Gated \subseteq Steps
  BY StepsAssumption DEF Alone, Procs
<1> USE <1>0 DEF TypeInv, TypeOK, HaltInv, OwedInv, KnownInv, CompleteInv, LocksInv, Held, AtStep,
              Places, MoveOn, GoTo, github, history
<1>1. ASSUME NEW p \in Procs, Wake(p) PROVE HaltInv'
  <2>1. /\ pc'[p] = "promote" /\ view'[p] = labels
        /\ UNCHANGED <<labels, owed>>
    BY <1>1 DEF Wake
  <2>2. ASSUME NEW s \in Steps, "wip" \in labels[s] PROVE claimed'[p]
    <3>1. claimed' = [claimed EXCEPT ![p] = TRUE]
      BY <1>1, <2>2, <1>0 DEF Wake
    <3> QED
      BY <3>1
  <2> QED
    BY <1>0, <2>1, <2>2
<1>2. ASSUME NEW p \in Procs, PromotionDone(p) PROVE HaltInv'
  BY <1>2 DEF PromotionDone
<1>3. ASSUME NEW p \in Procs, NEW s \in Gated, Reject(p, s) PROVE HaltInv'
  BY <1>3, UnreviewHalts DEF Reject, Rejected
<1>4. ASSUME NEW p \in Procs, NEW s \in Gated, PromoteAdd(p, s) PROVE HaltInv'
  <2>1. /\ pc'[p] = "promoting" /\ at'[p] = s
        /\ UNCHANGED <<owed, claimed>> /\ pc[p] = "promote"
    BY <1>4 DEF PromoteAdd, Promoting
  <2>2. \A t \in Steps : /\ labels[t] \subseteq labels'[t]
                         /\ labels'[t] \subseteq labels[t] \union {"complete"}
    BY <1>4 DEF PromoteAdd, Relabel
  <2>3. \A t \in Steps : /\ view[p][t] \subseteq view'[p][t]
                         /\ view'[p][t] \subseteq view[p][t] \union {"complete"}
    BY <1>4 DEF PromoteAdd, Relabel
  <2>4. CompleteInv(p)'
    BY <1>4 DEF PromoteAdd, Relabel
  <2> QED
    BY <1>0, <2>1, <2>2, <2>3, <2>4, MoreStops
<1>5. ASSUME NEW p \in Procs, NEW s \in Gated, PromoteRemove(p, s) PROVE HaltInv'
  BY <1>5, PromoteRemoveHalts
<1>5a. ASSUME NEW p \in Procs, NEW s \in Gated, PromoteUnrequest(p, s) PROVE HaltInv'
  BY <1>5a, <1>0 DEF PromoteUnrequest, Relabel, Stopped
<1>6. ASSUME NEW p \in Procs, ReclaimDone(p) PROVE HaltInv'
  BY <1>6 DEF ReclaimDone
<1>7. ASSUME NEW p \in Procs, NothingToRun(p) PROVE HaltInv'
  BY <1>7 DEF NothingToRun, Leave, NoLabels
<1>8. ASSUME NEW p \in Procs, NEW s \in Steps, Reclaim(p, s) PROVE HaltInv'
  <2>1. AgentStatus(view[p][s]) = "wip" /\ pc[p] = "reclaim"
    BY <1>8 DEF Reclaim, IsFirst, Stale
  <2>2. "wip" \in view[p][s] /\ ~Stopped(view[p][s])
    BY <2>1, WipIsBare
  <2>3. /\ pc'[p] = "clear" /\ at'[p] = s
        /\ UNCHANGED <<labels, view, claimed, owed>>
    BY <1>8 DEF Reclaim
  <2>4. s \notin owed /\ claimed[p]
    BY <2>1, <2>2
  <2> QED
    BY <1>0, <2>1, <2>3, <2>4
<1>9. ASSUME NEW p \in Procs, NEW s \in Steps, Choose(p, s) PROVE HaltInv'
  <2>1. /\ view[p][s] = {} \/ "requested" \in view[p][s]
        /\ ~claimed[p] /\ pc[p] = "scan"
    BY <1>9 DEF Choose, IsFirst, Eligible, ShouldRun, MayStart
  <2>2. s \notin owed
    <3>1. KnownInv(p)
      OBVIOUS
    <3> HIDE DEF TypeInv, TypeOK, HaltInv, OwedInv, CompleteInv, LocksInv
    <3> QED
      BY <2>1, <3>1 DEF Stopped
  <2>3. /\ pc'[p] = "acquire" /\ at'[p] = s
        /\ UNCHANGED <<labels, view, claimed, owed>>
    BY <1>9 DEF Choose
  <2>4. OwedInv'
    BY <2>3
  <2>5. KnownInv(p)'
    BY <1>0, <2>1, <2>3 DEF Stopped
  <2>6. CompleteInv(p)' /\ LocksInv(p)'
    BY <1>0, <2>3
  <2> HIDE DEF OwedInv, KnownInv, CompleteInv, LocksInv
  <2> QED
    BY <1>0, <2>2, <2>3, <2>4, <2>5, <2>6
<1>10. ASSUME NEW p \in Procs, AcquireUnrequest(p) PROVE HaltInv'
  BY <1>10 DEF AcquireUnrequest, Relabel
<1>11. ASSUME NEW p \in Procs, AcquireLock(p) PROVE HaltInv'
  <2>1. /\ pc[p] = "lock" /\ pc'[p] = "announce"
        /\ UNCHANGED <<owed, at>>
    BY <1>11 DEF AcquireLock
  <2>2. claimed'[p]
    <3>1. claimed' = [claimed EXCEPT ![p] = TRUE]
      BY <1>11, <1>0 DEF AcquireLock
    <3> QED
      BY <3>1
  <2>3. \A t \in Steps : labels[t] \subseteq labels'[t] /\ labels'[t] \subseteq labels[t] \union {"wip"}
    BY <1>11 DEF AcquireLock, Relabel
  <2>4. \A t \in Steps : view[p][t] \subseteq view'[p][t] /\ view'[p][t] \subseteq view[p][t] \union {"wip"}
    BY <1>11 DEF AcquireLock, Relabel
  <2> QED
    BY <1>0, <2>1, <2>2, <2>3, <2>4, MoreStops
<1>12. ASSUME NEW p \in Procs, Announce(p) PROVE HaltInv'
  BY <1>12 DEF Announce
<1>13. ASSUME NEW p \in Procs, Retry(p) PROVE HaltInv'
  BY <1>13 DEF Retry
<1>14. ASSUME NEW p \in Procs, RateLimited(p) PROVE HaltInv'
  BY <1>14 DEF RateLimited
<1>15. ASSUME NEW p \in Procs, Release(p) PROVE HaltInv'
  BY <1>15 DEF Release, Leave, NoLabels
<1>16. ASSUME NEW p \in Procs, NEW o \in Outcomes, Return(p, o) PROVE HaltInv'
  BY <1>16 DEF Return, Resolve, Outcomes
<1>17. ASSUME NEW p \in Procs, ClearStatus(p) PROVE HaltInv'
  BY <1>17 DEF ClearStatus, Clear, Transient
<1>18. ASSUME NEW p \in Procs, StampHalt(p) PROVE HaltInv'
  BY <1>18, StampHaltHalts
<1>19. ASSUME NEW p \in Procs, StampComplete(p) PROVE HaltInv'
  <2>1. result[p] = "complete" /\ owed' = owed
    BY <1>19 DEF StampComplete, Stamp, Refresh, StatusOf, Halts
  <2>2. /\ pc'[p] = "scan" /\ view'[p] = labels'
    BY <1>19 DEF StampComplete, Refresh
  <2>3. \A t \in Steps : labels[t] \subseteq labels'[t] /\ labels'[t] \subseteq labels[t] \union {"complete"}
    BY <1>19, <2>1 DEF StampComplete, Stamp, StatusOf
  <2> QED
    BY <1>0, <2>1, <2>2, <2>3, MoreStops
<1>20. ASSUME NEW p \in Procs, StampReclaimed(p) PROVE HaltInv'
  BY <1>20, NextLockHalts DEF StampReclaimed
<1>21. ASSUME NEW p \in Procs, PromotionFails(p) PROVE HaltInv'
  <2>1. pc[p] \in {"promote", "promoting", "promoted"} /\ pc'[p] = "promote"
    BY <1>21 DEF PromotionFails, Promoting
  <2>2. UNCHANGED <<labels, view, claimed, owed>>
    BY <1>21 DEF PromotionFails
  <2> QED
    BY <1>0, <2>1, <2>2
<1>22. ASSUME NEW p \in Procs, NEW s \in Gated, ApprovalUnreadable(p, s) PROVE HaltInv'
  BY <1>22, UnreviewHalts DEF ApprovalUnreadable
<1>23. ASSUME NEW p \in Procs, NEW s \in Steps, ChooseFails(p, s) PROVE HaltInv'
  BY <1>23 DEF ChooseFails
<1>24. ASSUME NEW p \in Procs, AcquireFails(p) PROVE HaltInv'
  BY <1>24 DEF AcquireFails
<1>25. ASSUME NEW p \in Procs, ReleaseFails(p) PROVE HaltInv'
  BY <1>25 DEF ReleaseFails, Leave, NoLabels
<1>26. ASSUME NEW p \in Procs, ClearFails(p) PROVE HaltInv'
  BY <1>26 DEF ClearFails, Clear, Transient
<1>27. ASSUME NEW p \in Procs, StampFails(p) PROVE HaltInv'
  <2>1. CASE NextLock(p)
    BY <1>27, <2>1, NextLockHalts
  <2>2. CASE (result[p] \in Halts /\ Leave(p)) \/ Refresh(p)
    <3>1. UNCHANGED owed /\ pc[p] = "stamp"
      BY <1>27 DEF StampFails
    <3>2. \A t \in Steps : labels[t] \subseteq labels'[t] /\ labels'[t] \subseteq labels[t] \union {"wip"}
      <4>1. CASE labels' = [labels EXCEPT ![at[p]] = @ \union {"wip"}]
        BY <4>1
      <4>2. CASE UNCHANGED labels
        BY <4>2
      <4> QED
        BY <1>27, <4>1, <4>2 DEF StampFails
    <3>3. OwedInv'
      BY <3>1, <3>2, MoreStops
    <3>4. CASE Leave(p)
      BY <1>0, <3>2, <3>3, <3>4 DEF Leave, NoLabels
    <3>5. CASE Refresh(p)
      BY <1>0, <3>1, <3>3, <3>5 DEF Refresh
    <3> QED
      BY <2>2, <3>4, <3>5
  <2> QED
    BY <1>27, <2>1, <2>2 DEF StampFails
<1>28. ASSUME NEW p \in Procs, Crash(p) PROVE HaltInv'
  BY <1>28 DEF Crash, Leave, NoLabels
<1>29. CASE People
  <2>1. ASSUME NEW s \in Steps, Approve(s) \/ Withdraw(s) PROVE HaltInv'
    BY <2>1 DEF Approve, Withdraw, Act, process
  <2>2. ASSUME NEW s \in Steps, Request(s) PROVE HaltInv'
    BY <2>2 DEF Request, Stopped, Act, process
  <2>3. ASSUME NEW s \in Steps, Skip(s) PROVE HaltInv'
    BY <2>3 DEF Skip, Stopped, Act, process
  <2>4. ASSUME NEW s \in Steps, NEW halt \in Halts, ClearHalt(s, halt) PROVE HaltInv'
    BY <2>4 DEF ClearHalt, Stopped, Halts, Act, process
  <2>5. ASSUME NEW s \in Steps, NEW p \in Procs, SelfApprove(p, s) PROVE HaltInv'
    BY <2>5 DEF SelfApprove, Act, process
  <2> QED
    BY <1>29, <2>1, <2>2, <2>3, <2>4, <2>5 DEF People
<1>30. CASE Tick \/ UNCHANGED vars
  BY <1>30 DEF Tick, vars, process
<1> QED
  BY <1>1, <1>2, <1>3, <1>4, <1>5, <1>5a, <1>6, <1>7, <1>8, <1>9, <1>10, <1>11,
     <1>12, <1>13, <1>14, <1>15, <1>16, <1>17, <1>18, <1>19, <1>20, <1>21,
     <1>22, <1>23, <1>24, <1>25, <1>26, <1>27, <1>28, <1>29, <1>30
  DEF Next, ProcessStep, ProcessFault

\* Without a session beside the tick no halted step runs again before a person has
\* requested, cleared or bypassed it, however long the flow and wherever crashes fall.
THEOREM HaltsNeedPersons == ASSUME Alone PROVE Spec => []HaltNeedsPerson
<1>1. HaltInv => HaltNeedsPerson
  BY DEF HaltInv, HaltNeedsPerson, Held
<1> QED
  BY <1>1, TypeInit, TypeStep, HaltInit, HaltStep, PTL DEF Spec

============================================================================
