---------------------------- MODULE ScheduleClaim ----------------------------
(***************************************************************************)
(* One scheduled flow: whether it is due, and whose run it is.             *)
(*                                                                         *)
(* Both answers are read from the ledger of MetricsLedger, where every     *)
(* append here is one that landed or one that was refused.  Of the whole   *)
(* log the code only uses two things: when the flow last ran (served says  *)
(* whether that was after its last firing) and the newest claim or         *)
(* release.  Times are ages in ticks of a clock, so that the clock itself  *)
(* needs no bound.                                                         *)
(***************************************************************************)
EXTENDS Integers

CONSTANTS
    Runners,    \* orchestrator processes that may work on schedules
    Period,     \* ticks of the clock between two firings of the cadence
    Lease,      \* SCHEDULE_CLAIM_LEASE_SECONDS
    MaxTick,    \* how long a runner lives: timeout-minutes of the headless job
    NumSteps,   \* the steps of the flow
    MaxFaults   \* bound: how many failed calls and crashes there are

ASSUME ScheduleAssumption ==
    /\ {Period, Lease, NumSteps} \subseteq Nat \ {0}
    /\ {MaxTick, MaxFaults} \subseteq Nat
    /\ MaxTick < Lease

VARIABLES
    fired,      \* the age of the last firing
    served,     \* the newest run record is as young as that, or younger
    latest,     \* the newest claim or release: its event, author and age
    pc,         \* where each runner is with the flow: "off" when nowhere
    since,      \* the age of the time its tick took for now
    step,       \* the step of the flow it is at
    stamp,      \* the age of the run record it is about to append
    blind,      \* history: it could not read the ledger when it looked for due flows
    faults

clock  == <<fired, served>>
runner == <<pc, since, step, stamp, blind>>
vars   == <<clock, latest, runner, faults>>

\* No claim that is older than this can be held in any runner's eyes.
Oldest == Lease + MaxTick

TypeOK ==
    /\ fired \in 0..(Period - 1)
    /\ served \in BOOLEAN
    /\ latest \in [event : {"none", "claim", "release"}, by : Runners \cup {"nobody"}, age : 0..Oldest]
    /\ pc \in [Runners -> {"off", "check", "claim", "step", "record", "release"}]
    /\ since \in [Runners -> 0..MaxTick]
    /\ step \in [Runners -> 1..NumSteps]
    /\ stamp \in [Runners -> Nat]
    /\ blind \in [Runners -> BOOLEAN]
    /\ faults \in 0..MaxFaults

Init ==
    /\ fired \in 0..(Period - 1)
    /\ served \in BOOLEAN
    /\ latest = [event |-> "none", by |-> "nobody", age |-> Oldest]
    /\ pc = [r \in Runners |-> "off"]
    /\ since = [r \in Runners |-> 0]
    /\ step = [r \in Runners |-> 1]
    /\ stamp = [r \in Runners |-> 0]
    /\ blind = [r \in Runners |-> FALSE]
    /\ faults = 0

----------------------------------------------------------------------------
GoTo(r, place) == pc' = [pc EXCEPT ![r] = place]

Fault == faults < MaxFaults /\ faults' = faults + 1

\* Mutant of Newer: of two entries of one time stamp the first one stays.
NewerThanTie(entry) == entry.age < latest.age

\* The newest entry is the one of the latest time stamp; of two with the same
\* stamp, the one further down the log.
Newer(entry) == entry.age <= latest.age

Append(entry) == latest' = IF Newer(entry) THEN entry ELSE latest

\* Mutant of Held: a claim holds until it is released.
HeldForever(r) == latest.event = "claim"

\* A claim is held until it is released or its lease has run out, at the time
\* the runner's tick began.
Held(r) == latest.event = "claim" /\ latest.age - since[r] < Lease

\* Mutant of Due: a flow is due on every tick.
DueAlways == TRUE

\* The flow has not run since its cadence last came round.
Due == ~served

----------------------------------------------------------------------------
\* A tick begins: it takes the time, reads the ledger and finds the flow due.
Begin(r) ==
    /\ pc[r] = "off"
    /\ Due
    /\ GoTo(r, "check")
    /\ since' = [since EXCEPT ![r] = 0]
    /\ blind' = [blind EXCEPT ![r] = FALSE]
    /\ UNCHANGED <<clock, latest, step, stamp, faults>>

\* A ledger that cannot be read counts as an empty one: every flow is due.
BeginBlind(r) ==
    /\ Fault
    /\ pc[r] = "off"
    /\ GoTo(r, "check")
    /\ since' = [since EXCEPT ![r] = 0]
    /\ blind' = [blind EXCEPT ![r] = TRUE]
    /\ UNCHANGED <<clock, latest, step, stamp>>

\* When the tick comes to the flow it reads the ledger again, for a claim.
CheckClaim(r) ==
    /\ pc[r] = "check"
    /\ GoTo(r, IF Held(r) THEN "off" ELSE "claim")
    /\ UNCHANGED <<clock, latest, since, step, stamp, blind, faults>>

\* An empty ledger holds no claim.
CheckBlind(r) ==
    /\ Fault
    /\ pc[r] = "check"
    /\ GoTo(r, "claim")
    /\ UNCHANGED <<clock, latest, since, step, stamp, blind>>

Claimed(r) == Append([event |-> "claim", by |-> r, age |-> since[r]])

\* The claim is stamped with the time at which the tick began.
TakeClaim(r) ==
    /\ pc[r] = "claim"
    /\ Claimed(r)
    /\ GoTo(r, "step")
    /\ step' = [step EXCEPT ![r] = 1]
    /\ UNCHANGED <<clock, since, stamp, blind, faults>>

\* The append is refused, or it landed and the answer did not arrive.
ClaimFails(r) ==
    /\ Fault
    /\ pc[r] = "claim"
    /\ Claimed(r) \/ UNCHANGED latest
    /\ GoTo(r, "off")
    /\ UNCHANGED <<clock, since, step, stamp, blind>>

\* The step of the flow has run, and its run record is stamped.
StepEnds(r) ==
    /\ pc[r] = "step"
    /\ GoTo(r, "record")
    /\ stamp' = [stamp EXCEPT ![r] = 0]
    /\ UNCHANGED <<clock, latest, since, step, blind, faults>>

\* It raised: the flow is over, without a record.
StepRaises(r) ==
    /\ Fault
    /\ pc[r] = "step"
    /\ GoTo(r, "release")
    /\ UNCHANGED <<clock, latest, since, step, stamp, blind>>

NextStep(r) ==
    IF step[r] < NumSteps
    THEN GoTo(r, "step") /\ step' = [step EXCEPT ![r] = @ + 1]
    ELSE GoTo(r, "release") /\ UNCHANGED step

\* A run is a run from the first record of any of its steps on, whether the
\* step failed or not; a record stamped before the last firing does not count.
RecordRun(r) ==
    /\ pc[r] = "record"
    /\ served' = (served \/ stamp[r] <= fired)
    /\ NextStep(r)
    /\ UNCHANGED <<fired, latest, since, stamp, blind, faults>>

\* A record that cannot be appended is only logged.
RecordLost(r) ==
    /\ Fault
    /\ pc[r] = "record"
    /\ NextStep(r)
    /\ UNCHANGED <<clock, latest, since, stamp, blind>>

\* The claim is given back, at the time it is given back.
Release(r) ==
    /\ pc[r] = "release"
    /\ Append([event |-> "release", by |-> r, age |-> 0])
    /\ GoTo(r, "off")
    /\ UNCHANGED <<clock, since, step, stamp, blind, faults>>

ReleaseFails(r) ==
    /\ Fault
    /\ pc[r] = "release"
    /\ GoTo(r, "off")
    /\ UNCHANGED <<clock, latest, since, step, stamp, blind>>

Crash(r) ==
    /\ Fault
    /\ pc[r] # "off"
    /\ GoTo(r, "off")
    /\ UNCHANGED <<clock, latest, since, step, stamp, blind>>

----------------------------------------------------------------------------
Older(age) == age + 1

\* Time passes, as long as every runner may go on living.
Tick ==
    /\ \A r \in Runners : pc[r] # "off" => since[r] < MaxTick
    /\ fired' = (fired + 1) % Period
    /\ served' = (served /\ fired' # 0)
    /\ latest' = [latest EXCEPT !.age = IF @ < Oldest THEN Older(@) ELSE @]
    /\ since' = [r \in Runners |-> IF pc[r] = "off" THEN since[r] ELSE Older(since[r])]
    /\ stamp' = [r \in Runners |-> IF pc[r] = "record" THEN Older(stamp[r]) ELSE stamp[r]]
    /\ UNCHANGED <<pc, step, blind, faults>>

\* What a runner does when nothing fails.
Work(r) ==
    \/ CheckClaim(r) \/ TakeClaim(r)
    \/ StepEnds(r) \/ RecordRun(r)
    \/ Release(r)

Next ==
    \/ Tick
    \/ \E r \in Runners :
          \/ Begin(r) \/ Work(r)
          \/ BeginBlind(r) \/ CheckBlind(r) \/ ClaimFails(r)
          \/ StepRaises(r) \/ RecordLost(r) \/ ReleaseFails(r)
          \/ Crash(r)

Spec == Init /\ [][Next]_vars

\* Time goes on, ticks are started again and again (the workflow's own cron is
\* the backstop), and a runner that is not killed gets to the end of the flow.
Fairness ==
    /\ WF_vars(Tick)
    /\ \A r \in Runners : WF_vars(Begin(r)) /\ WF_vars(Work(r))

FairSpec == Spec /\ Fairness

----------------------------------------------------------------------------
(* Properties *)

Sweeping(r) == pc[r] \in {"step", "record"}

\* While a runner works on the flow, its own claim is the newest entry of the
\* ledger and still within its lease: no other runner that looks takes the
\* flow from under it (SCHEDULE_CLAIM_LEASE_SECONDS: "the runner that took it
\* cannot still be legitimately running").
SweepIsClaimed ==
    \A r \in Runners :
        Sweeping(r) => latest.event = "claim" /\ latest.by = r /\ latest.age < Lease

\* A runner starts on a flow that has run since its last firing only when it
\* could not read the ledger: a firing is swept once.
SweepOnlyWhenDue ==
    \A r \in Runners : pc[r] = "step" /\ step[r] = 1 /\ served => blind[r]

\* A flow that has come due runs in the end: a claim whose runner died, or
\* whose answer got lost, does not wedge the schedule.
FiringServed == ~served ~> served

\* Two runners never work on the flow at once (claim_schedule: "exactly one push
\* lands and the other is rejected -- the rejection IS the mutex failure").
NoTwoSweeps == \A q, r \in Runners : Sweeping(q) /\ Sweeping(r) => q = r
=============================================================================
