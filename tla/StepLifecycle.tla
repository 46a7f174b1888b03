---------------------------- MODULE StepLifecycle ----------------------------
(***************************************************************************)
(* The life of the steps of one flow on one work item.                     *)
(*                                                                         *)
(* The state of the pipeline is the set of labels GitHub keeps on the item:*)
(* a status label per step ({agent}:wip, {agent}:complete, ...) and a gate *)
(* label per gated step.  Orchestrator processes read those labels once,   *)
(* when they wake, and then promote approved steps, take back stale :wip   *)
(* locks, and dispatch the next eligible step, one GitHub call after the   *)
(* other.  The headless process is unique (the workflow's concurrency      *)
(* group); interactive sessions are any number of unserialised processes.  *)
(* People, agents holding a token, crashes, failed calls and the passage of*)
(* time interleave with every call.                                        *)
(***************************************************************************)
EXTENDS Integers, FiniteSets

CONSTANTS
    NumSteps,     \* the steps of the flow are 1..NumSteps, in pipeline order
    Deps,         \* Deps[s]: the steps that step s depends on
    Trigger,      \* Trigger[s]: the steps whose :complete triggers step s
    Gated,        \* steps with human_gate_after and a human_gate_label
    SelfGates,    \* gated steps that decide for themselves (self_gates)
    Headless,     \* the process the workflow's concurrency group admits
    Interactive,  \* the processes people start from chat sessions
    MaxRetries,   \* how often a crashed attempt is repeated (max_retries)
    MaxWall,      \* the wall-clock budget of one attempt, in units of time
    Grace,        \* WIP_RECLAIM_GRACE_SECONDS, in the same units
    MaxActs,      \* bound: how often people and bots touch a label
    MaxFaults,    \* bound: how many crashes and failed calls there are
    MaxRevision   \* bound: how many artefacts a step produces

Steps == 1..NumSteps
Procs == {Headless} \union Interactive

\* Mutant of Lease: the budget of a single attempt.
LeaseOfOneAttempt == MaxWall + Grace

\* How long the :wip of a step can legitimately be held.
Lease == (MaxRetries + 1) * MaxWall + Grace

ASSUME StepsAssumption ==
    /\ NumSteps \in Nat \ {0}
    /\ Deps \in [Steps -> SUBSET Steps]
    /\ Trigger \in [Steps -> SUBSET Steps]
    /\ Gated \subseteq Steps
    /\ SelfGates \subseteq Gated

ASSUME ProcsAssumption == Headless \notin Interactive

ASSUME BoundsAssumption ==
    /\ MaxRetries \in Nat
    /\ MaxWall \in Nat
    /\ Grace \in Nat
    /\ {MaxActs, MaxFaults, MaxRevision} \subseteq Nat

VARIABLES
    labels,       \* labels[s]: the status labels of step s on GitHub
    gateOn,       \* the gated steps whose gate label is on the item
    gateBy,       \* gateBy[s]: who last applied the gate label ("labeled" event)
    age,          \* age[s]: time since the step's last start announcement

    pc,           \* where each process is
    at,           \* the step each process is considering or running
    view,         \* the status labels as the process knows them
    viewGate,     \* the gate labels as the process knows them
    claimed,      \* the item's components are claimed in the process's tick
    result,       \* the outcome the process is about to record
    attempt,      \* how many attempts of its run the process has repeated
    runAge,       \* how long the present attempt has lasted

    revision,     \* history: how many artefacts each step has produced
    approvedRev,  \* history: the revision a person last approved
    owed,         \* history: halted steps no person has acted on since
    announced,    \* history: the announcement of the process's run was posted

    acts, faults  \* how much of the bounds is spent

run     == <<attempt, runAge, announced>>
github  == <<labels, gateOn, gateBy, age>>
process == <<pc, at, view, viewGate, claimed, result, run>>
history == <<revision, approvedRev, owed>>
bounds  == <<acts, faults>>
vars    == <<github, process, history, bounds>>

----------------------------------------------------------------------------
(* Statuses *)

Status == {"requested", "wip", "complete", "review", "blocked", "failed",
           "exhausted", "skipped"}

Halts == {"review", "blocked", "failed", "exhausted"}

\* What the label says when several are present: the first in priority order.
Priority == <<"complete", "failed", "exhausted", "skipped",
              "review", "blocked", "wip", "requested">>

AgentStatus(ls) ==
    IF ls = {} THEN "none"
    ELSE Priority[CHOOSE i \in 1..8 : /\ Priority[i] \in ls
                                      /\ \A j \in 1..(i - 1) : Priority[j] \notin ls]

\* Mutant of MayStart: a terminal or halting status hides a :requested.
MayStartByPriority(ls) == ls = {} \/ AgentStatus(ls) = "requested"

\* Mutant of MayStart: an exhausted step counts as one that never ran.
MayStartExhausted(ls) == ls \subseteq {"exhausted"} \/ "requested" \in ls

\* A step with nothing recorded may start; :requested overrides any record
\* but a :wip that AgentStatus reports.
MayStart(ls) ==
    \/ ls = {}
    \/ "requested" \in ls /\ AgentStatus(ls) # "wip"

\* normalize_skipped_labels: a skipped step counts as complete.
Done(ls) == "complete" \in ls \/ "skipped" \in ls

\* The gates that bind a dependent: a self-gating step decides for itself.
HardGated == Gated \ SelfGates

\* _resolve_applied_status: a gated completion waits in :review, a :review
\* nobody could approve becomes :blocked.
Resolve(s, outcome) ==
    CASE outcome = "complete" /\ s \in HardGated -> "review"
      [] outcome = "review" /\ s \notin Gated    -> "blocked"
      [] OTHER                                   -> outcome

NoLabels == [s \in Steps |-> {}]
Never == -1

----------------------------------------------------------------------------
(* Types *)

Places == {"idle", "promote", "promoting", "promoted", "reclaim", "scan", "acquire",
           "lock", "announce", "running", "release", "clear", "stamp"}

Outcomes == {"complete", "review", "blocked", "failed", "exhausted"}

TypeOK ==
    /\ labels \in [Steps -> SUBSET Status]
    /\ gateOn \subseteq Gated
    /\ gateBy \in [Steps -> {"nobody", "human", "bot"}]
    /\ age \in [Steps -> {Never} \union 0..(Lease + 1)]
    /\ pc \in [Procs -> Places]
    /\ at \in [Procs -> 1..(NumSteps + 1)]
    /\ view \in [Procs -> [Steps -> SUBSET Status]]
    /\ viewGate \in [Procs -> SUBSET Gated]
    /\ claimed \in [Procs -> BOOLEAN]
    /\ result \in [Procs -> Outcomes \union {"none", "reclaimed"}]
    /\ attempt \in [Procs -> 0..MaxRetries]
    /\ runAge \in [Procs -> 0..MaxWall]
    /\ announced \in [Procs -> BOOLEAN]
    /\ revision \in [Steps -> Nat]
    /\ approvedRev \in [Steps -> Nat \union {Never}]
    /\ owed \subseteq Steps
    /\ acts \in 0..MaxActs
    /\ faults \in 0..MaxFaults

Init ==
    /\ labels = NoLabels
    /\ gateOn = {}
    /\ gateBy = [s \in Steps |-> "nobody"]
    /\ age = [s \in Steps |-> Never]
    /\ pc = [p \in Procs |-> "idle"]
    /\ at = [p \in Procs |-> 1]
    /\ view = [p \in Procs |-> NoLabels]
    /\ viewGate = [p \in Procs |-> {}]
    /\ claimed = [p \in Procs |-> FALSE]
    /\ result = [p \in Procs |-> "none"]
    /\ attempt = [p \in Procs |-> 0]
    /\ runAge = [p \in Procs |-> 0]
    /\ announced = [p \in Procs |-> FALSE]
    /\ revision = [s \in Steps |-> 0]
    /\ approvedRev = [s \in Steps |-> Never]
    /\ owed = {}
    /\ acts = 0
    /\ faults = 0

----------------------------------------------------------------------------
(* Moves of a process *)

GoTo(p, place) == pc' = [pc EXCEPT ![p] = place]

MoveOn(p, place, step) ==
    /\ GoTo(p, place)
    /\ at' = [at EXCEPT ![p] = step]

\* No run of the process is in progress.
Rest(p) ==
    /\ attempt' = [attempt EXCEPT ![p] = 0]
    /\ runAge' = [runAge EXCEPT ![p] = 0]
    /\ announced' = [announced EXCEPT ![p] = FALSE]

\* The process ends its pass over the item, or dies: nothing it knew survives.
Leave(p) ==
    /\ MoveOn(p, "idle", 1)
    /\ view' = [view EXCEPT ![p] = NoLabels]
    /\ viewGate' = [viewGate EXCEPT ![p] = {}]
    /\ claimed' = [claimed EXCEPT ![p] = FALSE]
    /\ result' = [result EXCEPT ![p] = "none"]
    /\ Rest(p)

\* One call that changes the labels of step s, mirrored in the local copy.
Relabel(p, s, gone, new) ==
    /\ labels' = [labels EXCEPT ![s] = (@ \ gone) \union new]
    /\ view' = [view EXCEPT ![p][s] = (@ \ gone) \union new]

\* The call failed, or the process was killed before it: the bound is spent.
Fault ==
    /\ faults < MaxFaults
    /\ faults' = faults + 1
    /\ UNCHANGED acts

----------------------------------------------------------------------------
(* Waking up and promoting *)

\* The labels are fetched once; a headless tick counts the components of every
\* item that carries a :wip as claimed.
Wake(p) ==
    /\ pc[p] = "idle"
    /\ MoveOn(p, "promote", 1)
    /\ view' = [view EXCEPT ![p] = labels]
    /\ viewGate' = [viewGate EXCEPT ![p] = gateOn]
    /\ claimed' = [claimed EXCEPT ![p] = /\ p = Headless
                                         /\ \E s \in Steps : "wip" \in labels[s]]
    /\ UNCHANGED <<github, result, run, history, bounds>>

\* Mutant of GateLabelHumanApplied: whoever applied the label.
GateLabelApplied(s) == gateBy[s] # "nobody"

\* The latest "labeled" event of the gate names a person.
GateLabelHumanApplied(s) == gateBy[s] = "human"

GatePresent(p, s) == s \in viewGate[p] /\ GateLabelHumanApplied(s)

Rejected(p, s) ==
    /\ {"review", "requested"} \subseteq view[p][s]
    /\ "complete" \notin view[p][s]
    /\ ~GatePresent(p, s)

\* Mutant of Approved: an interrupted promotion is taken for a finished one.
ApprovedNotComplete(p, s) ==
    "review" \in view[p][s] /\ "complete" \notin view[p][s] /\ GatePresent(p, s)

Approved(p, s) == "review" \in view[p][s] /\ GatePresent(p, s)

\* The gated steps from at[p] on that this pass of promotion touches.
ToPromote(p) == {s \in Gated : s >= at[p] /\ (Rejected(p, s) \/ Approved(p, s))}

IsFirst(s, S) == s \in S /\ \A t \in S : s <= t

\* No gated step is left to promote or reject.
PromotionDone(p) ==
    /\ pc[p] = "promote"
    /\ ToPromote(p) = {}
    /\ MoveOn(p, "reclaim", 1)
    /\ UNCHANGED <<github, view, viewGate, claimed, result, run, history, bounds>>

\* The next gated step this pass has something to do for.
Promoting(p, s) ==
    /\ pc[p] = "promote"
    /\ IsFirst(s, ToPromote(p))

\* The :review comes off a step that is to be run again.
Unreview(p, s) ==
    /\ Relabel(p, s, {"review"}, {})
    /\ MoveOn(p, "promote", s + 1)
    /\ UNCHANGED <<gateOn, gateBy, age, viewGate, claimed, result, run, history>>

\* A person asked for a re-run of a step in :review.
Reject(p, s) ==
    /\ Promoting(p, s)
    /\ Rejected(p, s)
    /\ Unreview(p, s)
    /\ UNCHANGED bounds

\* An approved step: :complete goes on first ...
PromoteAdd(p, s) ==
    /\ Promoting(p, s)
    /\ Approved(p, s)
    /\ Relabel(p, s, {}, {"complete"} \ view[p][s])
    /\ MoveOn(p, "promoting", s)
    /\ UNCHANGED <<gateOn, gateBy, age, viewGate, claimed, result, run, history,
                   bounds>>

\* ... then :review comes off ...
PromoteRemove(p, s) ==
    /\ pc[p] = "promoting"
    /\ s = at[p]
    /\ Relabel(p, s, {"review"}, {})
    /\ IF "requested" \in view[p][s] THEN MoveOn(p, "promoted", s)
                                    ELSE MoveOn(p, "promote", s + 1)
    /\ UNCHANGED <<gateOn, gateBy, age, viewGate, claimed, result, run, history,
                   bounds>>

\* ... and then the :requested the process saw: the approval wins.
PromoteUnrequest(p, s) ==
    /\ pc[p] = "promoted"
    /\ s = at[p]
    /\ Relabel(p, s, {"requested"}, {})
    /\ MoveOn(p, "promote", s + 1)
    /\ UNCHANGED <<gateOn, gateBy, age, viewGate, claimed, result, run, history,
                   bounds>>

\* A call of the promotion fails: logged, and the next step is looked at.
PromotionFails(p) ==
    /\ Fault
    /\ \/ pc[p] \in {"promoting", "promoted"} /\ MoveOn(p, "promote", at[p] + 1)
       \/ \E s \in Gated : Promoting(p, s) /\ MoveOn(p, "promote", s + 1)
    /\ UNCHANGED <<github, view, viewGate, claimed, result, run, history>>

\* The event log cannot be read: the approval counts as none, and a :requested
\* beside it as a rejection. (Alone, the step is passed over: PromotionFails.)
ApprovalUnreadable(p, s) ==
    /\ Fault
    /\ Promoting(p, s)
    /\ "requested" \in view[p][s] /\ "complete" \notin view[p][s]
    /\ Unreview(p, s)

----------------------------------------------------------------------------
(* Taking back a stale :wip *)

\* Mutant of Stale: off by one, the first step is never looked at.
StaleAfterFirst(p) ==
    {s \in Steps : s > at[p] /\ AgentStatus(view[p][s]) = "wip" /\ age[s] > Lease}

\* Only a status that reads as wip, with a readable announcement past its lease.
Stale(p) ==
    {s \in Steps : /\ s >= at[p]
                   /\ AgentStatus(view[p][s]) = "wip"
                   /\ age[s] > Lease}

Reclaim(p, s) ==
    /\ pc[p] = "reclaim"
    /\ IsFirst(s, Stale(p))
    /\ MoveOn(p, "clear", s)
    /\ result' = [result EXCEPT ![p] = "reclaimed"]
    /\ UNCHANGED <<github, view, viewGate, claimed, run, history, bounds>>

ReclaimDone(p) ==
    /\ pc[p] = "reclaim"
    /\ Stale(p) = {}
    /\ MoveOn(p, "scan", 1)
    /\ UNCHANGED <<github, view, viewGate, claimed, result, run, history, bounds>>

----------------------------------------------------------------------------
(* Choosing a step *)

\* Mutant of DependenciesComplete: :requested bypasses the dependencies as well.
DependenciesUnlessRequested(p, s) ==
    "requested" \in view[p][s] \/ \A d \in Deps[s] : Done(view[p][d])

DependenciesComplete(p, s) ==
    \A d \in Deps[s] :
        /\ Done(view[p][d])
        /\ \/ d \notin HardGated
           \/ "skipped" \in view[p][d]
           \/ GatePresent(p, d)

TriggerLabelPresent(p, s) == \A t \in Trigger[s] : Done(view[p][t])

ShouldRun(p, s) ==
    /\ MayStart(view[p][s])
    /\ "requested" \in view[p][s] \/ TriggerLabelPresent(p, s)
    /\ DependenciesComplete(p, s)
    /\ ~claimed[p]

Eligible(p) == {s \in Steps : s >= at[p] /\ ShouldRun(p, s)}

Choose(p, s) ==
    /\ pc[p] = "scan"
    /\ IsFirst(s, Eligible(p))
    /\ MoveOn(p, "acquire", s)
    /\ UNCHANGED <<github, view, viewGate, claimed, result, run, history, bounds>>

\* A read that the eligibility of a step rests on fails: the step is refused.
ChooseFails(p, s) ==
    /\ Fault
    /\ pc[p] = "scan"
    /\ IsFirst(s, Eligible(p))
    /\ MoveOn(p, "scan", s + 1)
    /\ UNCHANGED <<github, view, viewGate, claimed, result, run, history>>

\* Nothing (more) to run.
NothingToRun(p) ==
    /\ pc[p] = "scan"
    /\ Eligible(p) = {}
    /\ Leave(p)
    /\ UNCHANGED <<github, history, bounds>>

----------------------------------------------------------------------------
(* Running a step *)

\* :requested comes off first, so that two statuses never show at once.
AcquireUnrequest(p) ==
    /\ pc[p] = "acquire"
    /\ Relabel(p, at[p], view[p][at[p]] \intersect {"requested"}, {})
    /\ GoTo(p, "lock")
    /\ UNCHANGED <<gateOn, gateBy, age, at, viewGate, claimed, result, run, history, bounds>>

\* :wip goes on, and the item's components are claimed for the tick.
AcquireLock(p) ==
    /\ pc[p] = "lock"
    /\ Relabel(p, at[p], {}, {"wip"})
    /\ claimed' = [claimed EXCEPT ![p] = p = Headless]
    /\ GoTo(p, "announce")
    /\ UNCHANGED <<gateOn, gateBy, age, at, viewGate, result, run, history,
                   bounds>>

\* The opening announcement starts the clock of the lease; the agent starts.
Announce(p) ==
    /\ pc[p] = "announce"
    /\ age' = [age EXCEPT ![at[p]] = 0]
    /\ announced' = [announced EXCEPT ![p] = TRUE]
    /\ GoTo(p, "running")
    /\ UNCHANGED <<labels, gateOn, gateBy, at, view, viewGate, claimed, result,
                   attempt, runAge, history, bounds>>

\* Any of the three calls fails: it is logged, and the run goes on regardless.
AcquireFails(p) ==
    /\ Fault
    /\ \E step \in {<<"acquire", "lock">>, <<"lock", "announce">>,
                    <<"announce", "running">>} :
          pc[p] = step[1] /\ GoTo(p, step[2])
    /\ UNCHANGED <<github, at, view, viewGate, claimed, result, run, history>>

\* An attempt left no valid result; the next one starts on the same :wip.
Retry(p) ==
    /\ pc[p] = "running"
    /\ attempt[p] < MaxRetries
    /\ attempt' = [attempt EXCEPT ![p] = @ + 1]
    /\ runAge' = [runAge EXCEPT ![p] = 0]
    /\ UNCHANGED <<github, pc, at, view, viewGate, claimed, result, announced,
                   history, bounds>>

\* The run returns one of the five outcomes; its artefact is posted.
Return(p, outcome) ==
    /\ pc[p] = "running"
    /\ LET s == at[p] IN
        /\ result' = [result EXCEPT ![p] = Resolve(s, outcome)]
        /\ IF outcome \in {"complete", "review"}
           THEN /\ revision[s] < MaxRevision
                /\ revision' = [revision EXCEPT ![s] = @ + 1]
           ELSE UNCHANGED revision
    /\ GoTo(p, "clear")
    /\ Rest(p)
    /\ UNCHANGED <<github, at, view, viewGate, claimed, approvedRev, owed, bounds>>

\* An upstream limit withdrew the run: no outcome, the lock is to be released.
RateLimited(p) ==
    /\ pc[p] = "running"
    /\ GoTo(p, "release")
    /\ Rest(p)
    /\ UNCHANGED <<github, at, view, viewGate, claimed, result, history, bounds>>

Release(p) ==
    /\ pc[p] = "release"
    /\ labels' = [labels EXCEPT ![at[p]] = @ \ {"wip"}]
    /\ Leave(p)
    /\ UNCHANGED <<gateOn, gateBy, age, history, bounds>>

----------------------------------------------------------------------------
(* Recording an outcome *)

\* Mutant of StatusOf: a reclaim is recorded under a name of its own.
StatusAsIs(r) == r

\* The status a result is recorded as: a reclaim is recorded as a crash is.
StatusOf(r) == IF r = "reclaimed" THEN "failed" ELSE r

Transient == {"wip", "review", "blocked", "requested"}

\* The calls that take the transient statuses off; some of them may fail.
Clear(p, kept) ==
    /\ pc[p] = "clear"
    /\ labels' = [labels EXCEPT ![at[p]] = (@ \ Transient) \union (@ \intersect kept)]
    /\ GoTo(p, "stamp")
    /\ UNCHANGED <<gateOn, gateBy, age, at, view, viewGate, claimed, result, run,
                   history>>

\* Every status that is not terminal comes off ...
ClearStatus(p) == Clear(p, {}) /\ UNCHANGED bounds

ClearFails(p) == Fault /\ \E kept \in SUBSET Transient \ {{}} : Clear(p, kept)

\* The outcome goes on. A halt is owed a person's attention from then on, unless
\* a person's request already stands beside it.
Stamp(p) ==
    /\ pc[p] = "stamp"
    /\ labels' = [labels EXCEPT ![at[p]] = @ \union {StatusOf(result[p])}]
    /\ owed' = owed \union
                 {s \in {at[p]} : /\ StatusOf(result[p]) \in Halts
                                 /\ "requested" \notin labels[s]}

\* ... the outcome goes on, and the pass over the item ends with a halt,
StampHalt(p) ==
    /\ Stamp(p)
    /\ result[p] \in Halts
    /\ Leave(p)
    /\ UNCHANGED <<gateOn, gateBy, age, revision, approvedRev, bounds>>

\* or continues on fresh labels after a completion,
Refresh(p) ==
    /\ result[p] = "complete"
    /\ view' = [view EXCEPT ![p] = labels']
    /\ viewGate' = [viewGate EXCEPT ![p] = gateOn]
    /\ result' = [result EXCEPT ![p] = "none"]
    /\ MoveOn(p, "scan", at[p] + 1)
    /\ UNCHANGED <<claimed, run>>

StampComplete(p) ==
    /\ Stamp(p)
    /\ Refresh(p)
    /\ UNCHANGED <<gateOn, gateBy, age, revision, approvedRev, bounds>>

\* or continues with the next lock to take back.
NextLock(p) ==
    /\ result[p] = "reclaimed"
    /\ view' = [view EXCEPT ![p][at[p]] = (@ \ {"wip"}) \union {"failed"}]
    /\ result' = [result EXCEPT ![p] = "none"]
    /\ MoveOn(p, "reclaim", at[p] + 1)
    /\ UNCHANGED <<viewGate, claimed, run>>

StampReclaimed(p) ==
    /\ Stamp(p)
    /\ NextLock(p)
    /\ UNCHANGED <<gateOn, gateBy, age, revision, approvedRev, bounds>>

\* The label could not be applied. After a run that returned, :wip is put back
\* so that the lease recovers the step; that call may fail as well.
StampFails(p) ==
    /\ Fault
    /\ pc[p] = "stamp"
    /\ \/ /\ result[p] \in {"complete", "review", "blocked", "failed"}
          /\ labels' = [labels EXCEPT ![at[p]] = @ \union {"wip"}]
       \/ UNCHANGED labels
    /\ \/ result[p] \in Halts /\ Leave(p)
       \/ Refresh(p)
       \/ NextLock(p)
    /\ UNCHANGED <<gateOn, gateBy, age, history>>

\* The lock of a withdrawn run could not be released: the failure is swallowed.
ReleaseFails(p) ==
    /\ Fault
    /\ pc[p] = "release"
    /\ Leave(p)
    /\ UNCHANGED <<github, history>>

\* The process is killed: its run dies with it, its labels stay.
Crash(p) ==
    /\ Fault
    /\ pc[p] # "idle"
    /\ Leave(p)
    /\ UNCHANGED <<github, history>>

ProcessStep(p) ==
    \/ Wake(p)
    \/ PromotionDone(p)
    \/ \E s \in Gated : \/ Reject(p, s) \/ PromoteAdd(p, s)
                         \/ PromoteRemove(p, s) \/ PromoteUnrequest(p, s)
    \/ ReclaimDone(p) \/ NothingToRun(p)
    \/ \E s \in Steps : Reclaim(p, s) \/ Choose(p, s)
    \/ AcquireUnrequest(p) \/ AcquireLock(p) \/ Announce(p)
    \/ Retry(p) \/ RateLimited(p) \/ Release(p)
    \/ \E outcome \in Outcomes : Return(p, outcome)
    \/ ClearStatus(p) \/ StampHalt(p) \/ StampComplete(p) \/ StampReclaimed(p)

ProcessFault(p) ==
    \/ PromotionFails(p)
    \/ \E s \in Gated : ApprovalUnreadable(p, s)
    \/ \E s \in Steps : ChooseFails(p, s)
    \/ AcquireFails(p) \/ ReleaseFails(p)
    \/ ClearFails(p) \/ StampFails(p)
    \/ Crash(p)

----------------------------------------------------------------------------
(* People, bots and time *)

Act ==
    /\ acts < MaxActs
    /\ acts' = acts + 1
    /\ UNCHANGED <<faults, process>>

\* A person applies the gate label: the decision is about the revision there is.
Approve(s) ==
    /\ Act
    /\ s \in Gated \ gateOn
    /\ gateOn' = gateOn \union {s}
    /\ gateBy' = [gateBy EXCEPT ![s] = "human"]
    /\ approvedRev' = [approvedRev EXCEPT ![s] = revision[s]]
    /\ UNCHANGED <<labels, age, revision, owed>>

\* A person takes the gate label off again; the "labeled" event stays.
Withdraw(s) ==
    /\ Act
    /\ s \in gateOn
    /\ gateOn' = gateOn \ {s}
    /\ UNCHANGED <<labels, gateBy, age, history>>

\* A running agent applies a gate label with the token it was given.
SelfApprove(p, s) ==
    /\ Act
    /\ pc[p] = "running"
    /\ s \in Gated \ gateOn
    /\ gateOn' = gateOn \union {s}
    /\ gateBy' = [gateBy EXCEPT ![s] = "bot"]
    /\ UNCHANGED <<labels, age, history>>

\* A person asks for a run of the step now.
Request(s) ==
    /\ Act
    /\ "requested" \notin labels[s]
    /\ labels' = [labels EXCEPT ![s] = @ \union {"requested"}]
    /\ owed' = owed \ {s}
    /\ UNCHANGED <<gateOn, gateBy, age, revision, approvedRev>>

\* A person clears a halt: the cause has been dealt with.
ClearHalt(s, halt) ==
    /\ Act
    /\ halt \in Halts \intersect labels[s]
    /\ labels' = [labels EXCEPT ![s] = @ \ {halt}]
    /\ owed' = owed \ {s}
    /\ UNCHANGED <<gateOn, gateBy, age, revision, approvedRev>>

\* A person bypasses the step.
Skip(s) ==
    /\ Act
    /\ "skipped" \notin labels[s]
    /\ labels' = [labels EXCEPT ![s] = @ \union {"skipped"}]
    /\ owed' = owed \ {s}
    /\ UNCHANGED <<gateOn, gateBy, age, revision, approvedRev>>

People ==
    \/ \E s \in Steps : \/ Approve(s) \/ Withdraw(s) \/ Request(s) \/ Skip(s)
                         \/ \E halt \in Halts : ClearHalt(s, halt)
                         \/ \E p \in Procs : SelfApprove(p, s)

\* Time passes while processes sleep, run an agent within its budget, or work
\* on other items of the tick with the labels they fetched.
Tick ==
    /\ \A p \in Procs : \/ pc[p] \in {"idle", "promote"}
                         \/ (pc[p] = "running" /\ runAge[p] < MaxWall)
    /\ age' = [s \in Steps |-> IF age[s] \in 0..Lease THEN age[s] + 1 ELSE age[s]]
    /\ runAge' = [p \in Procs |-> IF pc[p] = "running" THEN runAge[p] + 1 ELSE runAge[p]]
    /\ UNCHANGED <<labels, gateOn, gateBy, pc, at, view, viewGate, claimed, result,
                   attempt, announced, history, bounds>>

Next ==
    \/ \E p \in Procs : ProcessStep(p) \/ ProcessFault(p)
    \/ People
    \/ Tick

Spec == Init /\ [][Next]_vars

\* Every event and the twice-daily cron start a headless tick, a run ends within
\* its budget or is killed, and time never stops for good. Crashes, failed calls,
\* people and interactive sessions are not relied upon.
Fairness == WF_vars(ProcessStep(Headless)) /\ SF_vars(Tick)

FairSpec == Spec /\ Fairness

----------------------------------------------------------------------------
(* Safety *)

\* A run of step s is in progress somewhere.
Live(s) == \E p \in Procs : pc[p] = "running" /\ at[p] = s

\* A process holds step s, from its decision to run it to the recorded outcome.
Busy(s) == \E p \in Procs :
              /\ at[p] = s
              /\ pc[p] \in {"acquire", "lock", "announce", "running", "release",
                            "clear", "stamp"}

\* An approval of step s is being carried out.
Promoted(s) == \E p \in Procs : pc[p] \in {"promoting", "promoted"} /\ at[p] = s

\* A step whose gate binds its dependents is never complete unless a person has
\* applied its gate label: not by its own outcome, not by an agent that applies
\* the label with its token, not through a promotion cut short by a crash.
GateNeedsPerson ==
    \A s \in HardGated : "complete" \in labels[s] => approvedRev[s] # Never

\* No step runs on top of a gate nobody decided: whenever one runs, a person has
\* approved or bypassed every gated step it depends on, even when the run was
\* requested by hand or chosen on labels fetched long ago.
DependentsNeedPerson ==
    \A p \in Procs : pc[p] = "running" =>
        \A d \in Deps[at[p]] \intersect HardGated :
            approvedRev[d] # Never \/ "skipped" \in labels[d]

\* A step that halted (review, blocked, failed, exhausted) does not run again
\* until a person has requested, cleared or bypassed it, although a crash may
\* fall between any two label calls that record, promote or reject it.
HaltNeedsPerson ==
    \A p \in Procs : pc[p] = "running" => at[p] \notin owed

\* A run whose announcement was posted is younger than the lease of its lock at
\* every moment of every attempt, so age alone tells a lost run from a slow one.
LeaseOutlivesRun ==
    \A p \in Procs : pc[p] = "running" /\ announced[p] => age[at[p]] \in 0..Lease

\* No lock is taken back while a run of its step goes on whose announcement was posted,
\* though processes decide on labels they fetched before it began (_reclaim_stale_wip,
\* which reads the announcement when it comes to the lock).
AnnouncedRunsSpared ==
    [][\A p, q \in Procs :
         pc[p] = "reclaim" /\ pc'[p] = "clear" /\ pc[q] = "running" /\ announced[q]
            => at[q] # at'[p]]_vars

----------------------------------------------------------------------------
(* Liveness *)

\* A lock that reads as :wip, that some run announced and that no process holds
\* any more is taken back, or its step has otherwise left :wip.
StrandedWipReclaimed ==
    \A s \in Steps :
        (AgentStatus(labels[s]) = "wip" /\ age[s] # Never /\ ~Busy(s))
            ~> AgentStatus(labels[s]) # "wip"

\* An approval is never left hanging: a step in :review whose gate a person
\* opened leaves :review, unless the gate is withdrawn, however often a
\* promotion is cut short between its two label calls.
PromotionHappens ==
    \A s \in Gated :
        ("review" \in labels[s] /\ s \in gateOn /\ gateBy[s] = "human")
            ~> ("review" \notin labels[s] \/ s \notin gateOn)

\* As long as nothing fails, a request for a step without dependencies that stands
\* while nobody works on the step is carried out, whatever terminal or halting status
\* the step already carries: the step starts, or an approval of it that stands beside
\* the request wins (_should_run, promote_gated_agents).
RequestServed ==
    [](faults = 0) =>
        \A s \in Steps :
            (Deps[s] = {} /\ "requested" \in labels[s] /\ ~Busy(s))
                ~> (Live(s) \/ Promoted(s))

----------------------------------------------------------------------------
(* What the repository says and the code does not do *)

\* "Skip -- another process is already handling this agent on this item": two
\* sessions never run the same step at once.
NoTwoRuns ==
    \A p, q \in Procs :
        p # q /\ pc[p] = "running" /\ pc[q] = "running" => at[p] # at[q]

\* "A gate approves a specific thing, and does not transfer": a dependent starts
\* only on the artefact a person approved (or approved in advance).
ApprovalDoesNotTransfer ==
    \A p \in Procs : pc[p] = "acquire" =>
        \A d \in Deps[at[p]] \intersect HardGated :
            \/ "skipped" \in labels[d]
            \/ approvedRev[d] \in {0, revision[d]}

\* "The orchestrator will pick it up on its next tick": a request only comes off when
\* its step is about to start, or is promoted by an approval beside it.
RequestsAreNotSwept ==
    [][\A s \in Steps : "requested" \in labels[s] /\ "requested" \notin labels'[s] =>
         \E p \in Procs : at[p] = s /\ pc[p] \in {"acquire", "promoted"}]_vars

\* "a stranded :wip is reclaimed ... unconditionally": an announced lock no
\* process holds comes off in the end.
StrandedLockComesOff ==
    \A s \in Steps :
        ("wip" \in labels[s] /\ age[s] # Never /\ ~Busy(s)) ~> "wip" \notin labels[s]

\* "a :wip older than that step's wall-clock budget cannot still be legitimately
\* running": no lock is taken back while a run of the step is in progress.
ReclaimSparesLiveRuns ==
    \A p \in Procs : pc[p] = "clear" /\ result[p] = "reclaimed" => ~Live(at[p])

============================================================================
