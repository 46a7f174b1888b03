------------------------- MODULE ScheduleClaim_proofs -------------------------
(***************************************************************************)
(* Proofs about ScheduleClaim, for every cadence, lease, job limit and     *)
(* number of steps.                                                        *)
(***************************************************************************)
EXTENDS ScheduleClaim, TLAPS

Entry == [event : {"none", "claim", "release"}, by : Runners \cup {"nobody"}, age : 0..Oldest]

\* Types: every variable ranges over what TypeOK says.
THEOREM TypeCorrect == Spec => []TypeOK
<1> USE ScheduleAssumption DEF Oldest
<1>1. Init => TypeOK
  BY SMT DEF Init, TypeOK
<1>2. TypeOK /\ [Next]_vars => TypeOK'
  <2> SUFFICES ASSUME TypeOK, [Next]_vars PROVE TypeOK'
    OBVIOUS
  <2>1. CASE UNCHANGED vars
    BY <2>1 DEF TypeOK, vars, clock, runner
  <2>2. CASE Tick
    <3>1. fired' \in 0..(Period - 1)
      BY <2>2 DEF TypeOK, Tick
    <3>2. served' \in BOOLEAN
      BY <2>2 DEF Tick
    <3>3. latest' \in Entry
      BY <2>2 DEF TypeOK, Tick, Older, Entry
    <3>4. since' \in [Runners -> 0..MaxTick] /\ stamp' \in [Runners -> Nat]
      BY <2>2 DEF TypeOK, Tick, Older
    <3> QED
      BY <2>2, <3>1, <3>2, <3>3, <3>4 DEF TypeOK, Tick, Entry
  <2>3. ASSUME NEW r \in Runners, Begin(r) \/ BeginBlind(r)
        PROVE  TypeOK'
    <3>1. ASSUME Begin(r) PROVE TypeOK'
      BY <3>1, 0 \in 0..MaxTick DEF TypeOK, Begin, GoTo, clock
    <3>2. ASSUME BeginBlind(r) PROVE TypeOK'
      BY <3>2, 0 \in 0..MaxTick DEF TypeOK, BeginBlind, GoTo, Fault, clock
    <3> QED
      BY <2>3, <3>1, <3>2
  <2>4. ASSUME NEW r \in Runners, CheckClaim(r) \/ CheckBlind(r)
        PROVE  TypeOK'
    BY <2>4 DEF TypeOK, CheckClaim, CheckBlind, GoTo, Fault, clock
  <2>5. ASSUME NEW r \in Runners, TakeClaim(r) \/ ClaimFails(r)
        PROVE  TypeOK'
    BY <2>5 DEF TypeOK, TakeClaim, ClaimFails, Claimed, Append, GoTo, Fault, clock
  <2>6. ASSUME NEW r \in Runners, StepEnds(r) \/ StepRaises(r)
        PROVE  TypeOK'
    BY <2>6 DEF TypeOK, StepEnds, StepRaises, GoTo, Fault, clock
  <2>7. ASSUME NEW r \in Runners, RecordRun(r) \/ RecordLost(r)
        PROVE  TypeOK'
    <3>1. pc' \in [Runners -> {"off", "check", "claim", "step", "record", "release"}]
      BY <2>7 DEF TypeOK, RecordRun, RecordLost, NextStep, GoTo
    <3>2. step' \in [Runners -> 1..NumSteps]
      BY <2>7 DEF TypeOK, RecordRun, RecordLost, NextStep
    <3>3. served' \in BOOLEAN
      BY <2>7 DEF TypeOK, RecordRun, RecordLost, clock
    <3> QED
      BY <2>7, <3>1, <3>2, <3>3 DEF TypeOK, RecordRun, RecordLost, Fault, clock
  <2>8. ASSUME NEW r \in Runners, Release(r) \/ ReleaseFails(r) \/ Crash(r)
        PROVE  TypeOK'
    BY <2>8 DEF TypeOK, Release, ReleaseFails, Crash, Append, GoTo, Fault, clock
  <2> QED
    BY <2>1, <2>2, <2>3, <2>4, <2>5, <2>6, <2>7, <2>8 DEF Next, Work
<1> QED
  BY <1>1, <1>2, PTL DEF Spec

----------------------------------------------------------------------------
\* The workflow's concurrency group: no two headless ticks run at once.
Serial == \A q, r \in Runners : q = r

\* The claim of a runner that is alone is the newest entry from the moment it
\* lands, and is as old as the runner's tick, which ends before the lease does.
\* Before it lands every entry is older than the tick, so that it will be.
ClaimInv ==
    \A r \in Runners :
        /\ pc[r] \in {"check", "claim"} => since[r] <= latest.age
        /\ Sweeping(r) => /\ latest.event = "claim"
                          /\ latest.by = r
                          /\ latest.age = since[r]

\* A runner between its look at the ledger and its first step is one that
\* found the flow due, or could not look.
DueInv ==
    \A r \in Runners :
        \/ pc[r] \in {"check", "claim"}
        \/ pc[r] = "step" /\ step[r] = 1
        => ~served \/ blind[r]

LEMMA ClaimInvHolds == ASSUME Serial PROVE Spec => []ClaimInv
<1> USE ScheduleAssumption DEF Oldest, Sweeping
<1>1. Init => ClaimInv
  BY DEF Init, ClaimInv
<1>2. TypeOK /\ ClaimInv /\ [Next]_vars => ClaimInv'
  <2> SUFFICES ASSUME TypeOK, ClaimInv, [Next]_vars PROVE ClaimInv'
    OBVIOUS
  <2>1. CASE UNCHANGED vars
    BY <2>1 DEF ClaimInv, vars, runner
  <2>2. CASE Tick
    BY <2>2, SMTT(60) DEF TypeOK, ClaimInv, Tick, Older
  <2>3. ASSUME NEW r \in Runners, Begin(r) \/ BeginBlind(r)
        PROVE  ClaimInv'
    BY <2>3, Serial DEF TypeOK, ClaimInv, Begin, BeginBlind, GoTo, Serial
  <2>4. ASSUME NEW r \in Runners, CheckClaim(r) \/ CheckBlind(r)
        PROVE  ClaimInv'
    BY <2>4, Serial DEF TypeOK, ClaimInv, CheckClaim, CheckBlind, GoTo, Serial
  <2>5. ASSUME NEW r \in Runners, TakeClaim(r) \/ ClaimFails(r)
        PROVE  ClaimInv'
    BY <2>5, Serial DEF TypeOK, ClaimInv, TakeClaim, ClaimFails, Claimed, Append, Newer, GoTo, Serial
  <2>6. ASSUME NEW r \in Runners, StepEnds(r) \/ StepRaises(r)
        PROVE  ClaimInv'
    BY <2>6, Serial DEF TypeOK, ClaimInv, StepEnds, StepRaises, GoTo, Serial
  <2>7. ASSUME NEW r \in Runners, RecordRun(r) \/ RecordLost(r)
        PROVE  ClaimInv'
    BY <2>7, Serial DEF TypeOK, ClaimInv, RecordRun, RecordLost, NextStep, GoTo, Serial
  <2>8. ASSUME NEW r \in Runners, Release(r) \/ ReleaseFails(r) \/ Crash(r)
        PROVE  ClaimInv'
    BY <2>8, Serial DEF TypeOK, ClaimInv, Release, ReleaseFails, Crash, GoTo, Serial
  <2> QED
    BY <2>1, <2>2, <2>3, <2>4, <2>5, <2>6, <2>7, <2>8 DEF Next, Work
<1> QED
  BY <1>1, <1>2, TypeCorrect, PTL DEF Spec

\* While a runner that is alone sweeps, its own claim is the newest entry of
\* the ledger and within its lease.
THEOREM SweepsAreClaimed == ASSUME Serial PROVE Spec => []SweepIsClaimed
<1>1. TypeOK /\ ClaimInv => SweepIsClaimed
  <2> SUFFICES ASSUME TypeOK, ClaimInv, NEW r \in Runners, Sweeping(r)
               PROVE  latest.event = "claim" /\ latest.by = r /\ latest.age < Lease
    BY DEF SweepIsClaimed
  <2>1. latest.event = "claim" /\ latest.by = r /\ latest.age = since[r]
    BY DEF ClaimInv
  <2>2. since[r] \in 0..MaxTick
    BY DEF TypeOK
  <2> QED
    BY <2>1, <2>2, ScheduleAssumption
<1> QED
  BY <1>1, ClaimInvHolds, TypeCorrect, PTL

\* A runner that is alone and can read the ledger starts on a flow only when it
\* has not run since its last firing.
THEOREM SweepsOnlyWhenDue == ASSUME Serial PROVE Spec => []SweepOnlyWhenDue
<1>1. Init => DueInv
  BY DEF Init, DueInv
<1>2. TypeOK /\ DueInv /\ [Next]_vars => DueInv'
  <2> SUFFICES ASSUME TypeOK, DueInv, [Next]_vars PROVE DueInv'
    OBVIOUS
  <2>1. CASE UNCHANGED vars
    BY <2>1 DEF DueInv, vars, clock, runner
  <2>2. CASE Tick
    BY <2>2 DEF TypeOK, DueInv, Tick
  <2>3. ASSUME NEW r \in Runners, Begin(r) \/ BeginBlind(r)
        PROVE  DueInv'
    BY <2>3, Serial DEF TypeOK, DueInv, Begin, BeginBlind, GoTo, Due, clock, Serial
  <2>4. ASSUME NEW r \in Runners, CheckClaim(r) \/ CheckBlind(r)
        PROVE  DueInv'
    BY <2>4, Serial DEF TypeOK, DueInv, CheckClaim, CheckBlind, GoTo, clock, Serial
  <2>5. ASSUME NEW r \in Runners, TakeClaim(r) \/ ClaimFails(r)
        PROVE  DueInv'
    BY <2>5, Serial DEF TypeOK, DueInv, TakeClaim, ClaimFails, GoTo, clock, Serial
  <2>6. ASSUME NEW r \in Runners, StepEnds(r) \/ StepRaises(r)
        PROVE  DueInv'
    BY <2>6, Serial DEF TypeOK, DueInv, StepEnds, StepRaises, GoTo, clock, Serial
  <2>7. ASSUME NEW r \in Runners, RecordRun(r) \/ RecordLost(r)
        PROVE  DueInv'
    BY <2>7, Serial, ScheduleAssumption
    DEF TypeOK, DueInv, RecordRun, RecordLost, NextStep, GoTo, clock, Serial
  <2>8. ASSUME NEW r \in Runners, Release(r) \/ ReleaseFails(r) \/ Crash(r)
        PROVE  DueInv'
    BY <2>8, Serial DEF TypeOK, DueInv, Release, ReleaseFails, Crash, GoTo, clock, Serial
  <2> QED
    BY <2>1, <2>2, <2>3, <2>4, <2>5, <2>6, <2>7, <2>8 DEF Next, Work
<1>3. DueInv => SweepOnlyWhenDue
  BY DEF DueInv, SweepOnlyWhenDue
<1> QED
  BY <1>1, <1>2, <1>3, TypeCorrect, PTL DEF Spec
=============================================================================
