------------------------------ MODULE ReviewLoop ------------------------------
(***************************************************************************)
(* The exchange between the coder and the steps that judge its work        *)
(* (standard-delivery and epic-completion): ci-gate, merge-conflict and    *)
(* pr-reviewer run on what the coder pushed, and ci-gate or pr-reviewer    *)
(* send it back until it is approved or the rounds are used up.            *)
(*                                                                         *)
(* One headless process works on one item, tick after tick.  Locks,        *)
(* retries and gates are StepLifecycle's; of the status labels only those  *)
(* a run can end with are here.  What is here is what crosses steps: the   *)
(* counter kept in review-cycle:N labels, the labels the loop clears, and  *)
(* the commit a step's record is about, while people push to the branch,   *)
(* object to the pull request and take labels away at any time.            *)
(***************************************************************************)
EXTENDS ReviewVerdict

CONSTANTS
    MaxCycles,    \* review_loop.max_cycles
    Decisions,    \* the records of adrs.json, in their order
    Overridable,  \* the standards that are adr_overridable
    Reviews,      \* the sets of findings that pr-reviewer may report
    UncountFails, \* whether the removal of the old count is one of the calls that fail
    MaxHead,      \* bound: how many commits there are on the branch
    MaxActs,      \* bound: how many things people do
    MaxFaults     \* bound: how many failed calls and crashes there are

ASSUME LoopAssumption ==
    /\ {MaxCycles, MaxHead} \subseteq Nat \ {0}
    /\ Decisions \in Seq(AdrRecords)
    /\ Overridable \subseteq Standards
    /\ Reviews \subseteq SUBSET Findings
    /\ UncountFails \in BOOLEAN
    /\ {MaxActs, MaxFaults} \subseteq Nat

\* The steps, in the order of the flow.
Order == <<"coder", "ci-gate", "merge-conflict", "pr-reviewer">>
Steps == {Order[i] : i \in 1..Len(Order)}

\* The steps whose record names the head of the pull request (resolve_pr_number).
HasSubject == Steps \ {"ci-gate"}

\* The step whose :complete another one waits for: trigger and dependency.
Before == [s \in Steps \ {"coder"} |->
              CASE s = "ci-gate" -> "coder"
                [] s = "merge-conflict" -> "ci-gate"
                [] s = "pr-reviewer" -> "merge-conflict"]

\* Mutant of AlsoClear: the checks are not run again.
AlsoClearMerge(s) == IF s = "pr-reviewer" THEN <<"merge-conflict">> ELSE <<>>

\* review_loop.also_clear: what has to run again besides the coder.
AlsoClear(s) == IF s = "pr-reviewer" THEN <<"ci-gate", "merge-conflict">> ELSE <<>>

VARIABLES
    head,       \* the head of the pull request: commits are numbered as they come
    label,      \* the status labels of each step
    about,      \* the head the last closing record of each step names: 0 when none
    rounds,     \* the N of the review-cycle:N labels
    pending,    \* the human-review-pending label
    objection,  \* the latest review of a person requests changes
    from,       \* how far the tick has come through the order
    pc,         \* where the process is
    at,         \* the step it runs
    saw,        \* the head that step started from
    pushed,     \* the commit of its own it has pushed: 0 when none
    result,     \* what the run came to, and whether the round is free
    next,       \* the count it is about to write
    todo,       \* the steps whose labels the loop has still to clear

    tested,     \* history: the head ci-gate has passed last
    reviewed,   \* history: the head pr-reviewer has approved last
    excused,    \* history: somebody else pushed or a write failed since ci-gate has
                \* passed the head of the coder's record, with nothing left behind it
    returns,    \* history: how many counted rounds have sent the coder back
    frees,      \* history: how many free ones there were since a counted one or an approval
    acts,
    faults

github  == <<head, label, about, rounds, pending, objection>>
run     == <<at, saw, pushed>>
process == <<from, pc, run, result, next, todo>>
history == <<tested, reviewed, excused, returns, frees>>
vars    == <<github, process, history, acts, faults>>

Statuses == {"complete", "review", "blocked", "failed"}

TypeOK ==
    /\ head \in 1..MaxHead
    /\ label \in [Steps -> SUBSET Statuses]
    /\ about \in [Steps -> 0..MaxHead]
    /\ rounds \subseteq Nat \ {0}
    /\ pending \in BOOLEAN
    /\ objection \in BOOLEAN
    /\ from \in 1..(Len(Order) + 1)
    /\ pc \in {"idle", "uncount", "count", "run", "stamp", "announce", "loop", "clear"}
    /\ at \in Steps
    /\ saw \in 1..MaxHead
    /\ pushed \in 0..MaxHead
    /\ result \in [status : Statuses, free : BOOLEAN]
    /\ next \in Nat
    /\ todo \in Seq(Steps)
    /\ tested \in 0..MaxHead
    /\ reviewed \in 0..MaxHead
    /\ excused \in BOOLEAN
    /\ returns \in Nat
    /\ frees \in Nat
    /\ acts \in 0..MaxActs
    /\ faults \in 0..MaxFaults

\* create-pr is complete, the pull request is open and nothing has run.
Init ==
    /\ head = 1
    /\ label = [s \in Steps |-> {}]
    /\ about = [s \in Steps |-> 0]
    /\ rounds = {}
    /\ pending = FALSE
    /\ objection = FALSE
    /\ from = 1
    /\ pc = "idle"
    /\ at = "coder"
    /\ saw = 1
    /\ pushed = 0
    /\ result = [status |-> "complete", free |-> FALSE]
    /\ next = 0
    /\ todo = <<>>
    /\ tested = 0
    /\ reviewed = 0
    /\ excused = FALSE
    /\ returns = 0
    /\ frees = 0
    /\ acts = 0
    /\ faults = 0

----------------------------------------------------------------------------
Fault == faults < MaxFaults /\ faults' = faults + 1

\* Calls that may fail, with their effect; a failure is logged and passed over.
Tried(effect, otherwise) ==
    \/ effect /\ UNCHANGED faults
    \/ Fault /\ otherwise

\* A :complete, which hides every other status, that is about another head.
Superseded(s) ==
    /\ "complete" \in label[s]
    /\ s \in HasSubject
    /\ about[s] \notin {0, head}

\* Mutant of Eligible: a halt does not keep a step from running again.
EligibleAgain(s) ==
    /\ label[s] \subseteq {"review", "blocked"} \/ Superseded(s)
    /\ s # "coder" => "complete" \in label[Before[s]]

\* Done with a status of its own, a step runs again only if that is superseded.
Eligible(s) ==
    /\ label[s] = {} \/ Superseded(s)
    /\ s # "coder" => "complete" \in label[Before[s]]

\* The count is read from any one of the labels.
Count == IF rounds = {} THEN {0} ELSE rounds

\* Mutant of CapReached: one round more.
CapPassed(count) == count > MaxCycles

\* The loop has no round left for another run of the coder.
CapReached(count) == count + 1 > MaxCycles

\* The next count.  The cap is all that looks at it, so those from MaxCycles up are
\* not told apart: a superseded coder that goes on failing counts for ever.
Following(count) == IF CapReached(count) THEN MaxCycles ELSE count + 1

----------------------------------------------------------------------------
(* Running a step *)

\* A tick goes through the steps in their order, each that may run in its turn.
\* The coder's start counts.
Dispatch ==
    /\ pc = "idle"
    /\ \E i \in from..Len(Order) :
          /\ Eligible(Order[i])
          /\ \A j \in from..(i - 1) : ~Eligible(Order[j])
          /\ from' = i + 1
          /\ at' = Order[i]
          /\ pc' = IF Order[i] = "coder" THEN "uncount" ELSE "run"
    /\ saw' = head
    /\ pushed' = 0
    /\ UNCHANGED <<github, result, next, todo, history, acts, faults>>

\* It ends behind the last of them, or when its launches are used up.
EndTick ==
    /\ pc = "idle"
    /\ from # 1
    /\ from' = 1
    /\ UNCHANGED <<github, pc, at, saw, pushed, result, next, todo, history, acts, faults>>

\* A run that does not end in :complete ends the tick.
Halt == pc' = "idle" /\ from' = 1

\* The old review-cycle:N comes off before the new one goes on.
Uncount ==
    /\ pc = "uncount"
    /\ \E count \in Count :
          /\ next' = Following(count)
          /\ \/ rounds' = rounds \ {count} /\ UNCHANGED faults
             \/ UncountFails /\ Fault /\ UNCHANGED rounds
    /\ pc' = "count"
    /\ UNCHANGED <<head, label, about, pending, objection, from, run, result, todo,
                   history, acts>>

Counted(count) == rounds \cup {count}

CountUp ==
    /\ pc = "count"
    /\ Tried(rounds' = Counted(next), UNCHANGED rounds)
    /\ pc' = "run"
    /\ UNCHANGED <<head, label, about, pending, objection, from, run, result, next, todo,
                   history, acts>>

Returns(status, free) ==
    /\ pc = "run"
    /\ result' = [status |-> status, free |-> free]
    /\ pc' = "stamp"
    /\ UNCHANGED <<label, about, rounds, objection, from, at, saw, next, todo, returns,
                   acts>>

\* A step pushes onto the head it started from, and only if that is the head.
PushOwn == head = saw /\ head < MaxHead /\ head' = head + 1

RunCoder ==
    /\ at = "coder"
    /\ \/ PushOwn /\ pushed' = head' /\ Returns("complete", FALSE)
       \/ head # saw /\ UNCHANGED <<head, pushed>> /\ Returns("failed", FALSE)
       \/ \E status \in {"complete", "blocked"} :
             UNCHANGED <<head, pushed>> /\ Returns(status, FALSE)
    /\ UNCHANGED <<pending, tested, reviewed, excused, frees, faults>>

\* The checks of the head it started from pass, fail, or do not finish.
RunCi ==
    /\ at = "ci-gate"
    /\ \/ /\ Returns("complete", FALSE)
          /\ tested' = saw
          /\ excused' = ~({saw, about["coder"]} = {head} /\ label["merge-conflict"] = {})
       \/ \E status \in {"review", "blocked"} :
             Returns(status, FALSE) /\ UNCHANGED <<tested, excused>>
    /\ UNCHANGED <<head, pending, pushed, reviewed, frees, faults>>

\* The branch is clean, or a person has to see the step's merge: it can push it
\* itself.
RunMerge ==
    /\ at = "merge-conflict"
    /\ \/ PushOwn /\ excused' = TRUE /\ Returns("review", FALSE)
       \/ \E status \in {"complete", "review", "blocked"} :
             UNCHANGED <<head, excused>> /\ Returns(status, FALSE)
    /\ UNCHANGED <<pending, pushed, tested, reviewed, frees, faults>>

Cost(fails) == IF fails THEN 1 ELSE 0

\* Two calls that fail or do not.
Failing(one, other) ==
    /\ faults' = faults + Cost(one) + Cost(other)
    /\ faults' <= MaxFaults

Approved(objected) ==
    \E findings \in Reviews : Approves(findings, objected, Decisions, Overridable)

\* An approval: no finding blocks, nobody is seen to object, and the head is the
\* one the review is about.  Reviews that cannot be fetched count as none.
Approve ==
    /\ at = "pr-reviewer"
    /\ head = saw
    /\ Returns("complete", FALSE)
    /\ \E unseen, kept \in BOOLEAN :
          /\ Failing(unseen, kept)
          /\ Approved(objection /\ ~unseen)
          /\ kept => pending
          /\ pending' = kept
    /\ reviewed' = saw
    /\ frees' = 0
    /\ UNCHANGED <<head, pushed, tested, excused>>

\* The same for a head that is no longer there, or that cannot be fetched: nothing
\* is recorded.
ApproveStale ==
    /\ pc = "run" /\ at = "pr-reviewer"
    /\ \E unseen, unknown \in BOOLEAN :
          /\ Failing(unseen, unknown)
          /\ Approved(objection /\ ~unseen)
          /\ head # saw \/ unknown
    /\ Halt
    /\ UNCHANGED <<github, run, result, next, todo, history, acts>>

\* Findings send the work back; a person's objection alone does so for free,
\* unless human-review-pending says that it already has.
RequestChanges ==
    /\ at = "pr-reviewer"
    /\ \/ \E findings \in Reviews :
             /\ ~Approves(findings, objection, Decisions, Overridable)
             /\ Returns("review",
                   /\ OnlyPeopleObject(findings, objection, Decisions, Overridable)
                   /\ ~pending)
       \/ Returns("blocked", FALSE)
    /\ UNCHANGED <<head, pending, pushed, tested, reviewed, excused, frees, faults>>

\* The step fails, or its budget is used up: as often as it does.
RunFails ==
    /\ Returns("failed", FALSE)
    /\ UNCHANGED <<head, pending, pushed, tested, reviewed, excused, frees, faults>>

\* The result becomes a status of the step; of the others the halts go.
Stamped(s) == (label[s] \ {"review", "blocked"}) \cup {result.status}

\* A failure is not announced.
Stamp ==
    /\ pc = "stamp"
    /\ label' = [label EXCEPT ![at] = Stamped(at)]
    /\ IF result.status = "failed" THEN Halt ELSE pc' = "announce" /\ UNCHANGED from
    /\ UNCHANGED <<head, about, rounds, pending, objection, run, result, next, todo,
                   history, acts, faults>>

\* The closing record names the commit the step pushed, or the head there is now.
Subject == IF pushed # 0 THEN pushed ELSE head

Announce ==
    /\ pc = "announce"
    /\ \/ /\ about' = IF at \in HasSubject THEN [about EXCEPT ![at] = Subject] ELSE about
          /\ UNCHANGED <<excused, faults>>
       \/ Fault /\ excused' = TRUE /\ UNCHANGED about
    /\ CASE result.status = "complete" -> pc' = "idle" /\ UNCHANGED from
         [] result.status = "review" /\ at \in {"ci-gate", "pr-reviewer"} ->
               pc' = "loop" /\ UNCHANGED from
         [] OTHER -> Halt
    /\ UNCHANGED <<head, label, rounds, pending, objection, run, result, next, todo,
                   tested, reviewed, returns, frees, acts>>

----------------------------------------------------------------------------
(* The loop *)

\* Out of rounds: the :review stays, for a person.
Escalate ==
    /\ pc = "loop"
    /\ ~result.free
    /\ \E count \in Count : CapReached(count)
    /\ Halt
    /\ UNCHANGED <<github, run, result, next, todo, history, acts, faults>>

ToClear == <<at, "coder">> \o AlsoClear(at)

\* A counted round takes human-review-pending away, if it can.
StartRound ==
    /\ pc = "loop"
    /\ ~result.free
    /\ \E count \in Count : ~CapReached(count)
    /\ Tried(pending' = FALSE, UNCHANGED pending)
    /\ frees' = 0
    /\ todo' = ToClear
    /\ pc' = "clear"
    /\ UNCHANGED <<head, label, about, rounds, objection, from, run, result, next,
                   tested, reviewed, excused, returns, acts>>

SendBackFree == todo' = ToClear /\ pc' = "clear" /\ frees' = frees + 1 /\ UNCHANGED from

\* Mutant of Guarded: the round is taken though the label is not on.
GuardedLoosely == SendBackFree /\ Tried(pending' = TRUE, UNCHANGED pending)

\* It puts human-review-pending on first, and is given up when it cannot.
Guarded ==
    Tried(pending' = TRUE /\ SendBackFree, UNCHANGED <<pending, todo, frees>> /\ Halt)

StartFreeRound ==
    /\ pc = "loop"
    /\ result.free
    /\ Guarded
    /\ UNCHANGED <<head, label, about, rounds, objection, run, result, next,
                   tested, reviewed, excused, returns, acts>>

\* One after the other, the :review of the judging step, the coder's :complete
\* and that of what has to run again come off; one that does not is passed over.
Clear ==
    /\ pc = "clear"
    /\ todo # <<>>
    /\ LET s    == Head(todo)
           lost == IF s = at THEN "review" ELSE "complete"
       IN \/ /\ label' = [label EXCEPT ![s] = @ \ {lost}]
             /\ returns' = IF s = "coder" /\ lost \in label[s] /\ ~result.free
                           THEN returns + 1 ELSE returns
             /\ UNCHANGED <<excused, faults>>
          \/ Fault /\ excused' = TRUE /\ UNCHANGED <<label, returns>>
    /\ todo' = Tail(todo)
    /\ UNCHANGED <<head, about, rounds, pending, objection, pc, from, run, result, next,
                   tested, reviewed, frees, acts>>

Cleared ==
    /\ pc = "clear"
    /\ todo = <<>>
    /\ Halt
    /\ UNCHANGED <<github, run, result, next, todo, history, acts, faults>>

----------------------------------------------------------------------------
(* What happens to it *)

\* The process dies.  The lock of a step that has no other status is reclaimed,
\* which leaves a :failed and a record about the head; any other lock stays, and
\* a :complete hides it (StepLifecycle).  A loop stays where it is.
Crash ==
    /\ Fault
    /\ pc # "idle"
    /\ Halt
    /\ IF pc \in {"uncount", "count", "run", "stamp"} /\ label[at] = {}
       THEN /\ label' = [label EXCEPT ![at] = {"failed"}]
            /\ about' = IF at \in HasSubject THEN [about EXCEPT ![at] = head] ELSE about
       ELSE UNCHANGED <<label, about>>
    /\ excused' = (excused \/ pc \in {"announce", "clear"})
    /\ todo' = <<>>
    /\ UNCHANGED <<head, rounds, pending, objection, run, result, next, tested, reviewed,
                   returns, frees, acts>>

Act == acts < MaxActs /\ acts' = acts + 1

\* Somebody else pushes to the branch.
PushByHand ==
    /\ Act
    /\ head < MaxHead
    /\ head' = head + 1
    /\ excused' = TRUE
    /\ UNCHANGED <<label, about, rounds, pending, objection, process, tested, reviewed,
                   returns, frees, faults>>

\* A person requests changes, or hands in another review after that, a mere
\* comment too, or has it dismissed.
Object ==
    /\ Act
    /\ objection' = ~objection
    /\ UNCHANGED <<head, label, about, rounds, pending, process, history, faults>>

\* A person has approved the merge: the gate is seen at the start of a tick.
Promote ==
    /\ Act
    /\ pc = "idle" /\ from = 1
    /\ "review" \in label["merge-conflict"]
    /\ label' = [label EXCEPT !["merge-conflict"] = (@ \ {"review"}) \cup {"complete"}]
    /\ UNCHANGED <<head, about, rounds, pending, objection, process, history, faults>>

\* A person takes a halt away.
ClearHalt ==
    /\ Act
    /\ pc = "idle"
    /\ \E s \in Steps : \E status \in label[s] \ {"complete"} :
          label' = [label EXCEPT ![s] = @ \ {status}]
    /\ UNCHANGED <<head, about, rounds, pending, objection, process, history, faults>>

Work ==
    \/ Dispatch \/ EndTick \/ Uncount \/ CountUp
    \/ RunCoder \/ RunCi \/ RunMerge
    \/ Approve \/ ApproveStale \/ RequestChanges
    \/ Stamp \/ Announce
    \/ Escalate \/ StartRound \/ StartFreeRound \/ Clear \/ Cleared

Next ==
    \/ Work \/ RunFails \/ Crash
    \/ PushByHand \/ Object \/ Promote \/ ClearHalt

Spec == Init /\ [][Next]_vars

\* Ticks go on being started (issue events, the cron backstop), and every step is
\* bounded by its budget; nothing is assumed of what people do or judge.
FairSpec == Spec /\ WF_vars(Work)

----------------------------------------------------------------------------
(* Properties *)

\* The cap is a termination guarantee (_handle_review_loop, the counter at
\* dispatch): without failures the coder is sent back at most max_cycles - 1
\* times in counted rounds, however people interfere, and a count lost between
\* the removal of one label and the next one costs one series of rounds more.
LoopIsCapped == returns <= MaxCycles - 1 + faults * MaxCycles

\* No step is to run: the exchange is at an approval, or at a halt that waits for a
\* person.
AtRest == pc = "idle" /\ from = 1 /\ ~\E s \in Steps : Eligible(s)

\* The exchange comes to rest, whatever the steps find and whoever pushes
\* (_handle_review_loop, _should_run), unless a superseded step fails again and
\* again: it keeps its :complete and its old record, so each tick starts it anew.
LoopEnds ==
    \/ <>[]AtRest
    \/ []<>(pc = "stamp" /\ result.status = "failed" /\ "complete" \in label[at])

\* What pr-reviewer reads has passed the checks (also_clear), unless somebody
\* other than the coder moved the branch since or a label or record was lost.
ReviewsTestedHead ==
    pc = "run" /\ at = "pr-reviewer" /\ ~excused => tested = saw

\* A person's request for changes alone is a free round once (statuses.json on
\* human-review-pending: "Guards against repeated free re-invokes (once-only)"):
\* not twice without a counted round or an approval in between, whatever fails.
FreeOnce == frees <= 1

\* A person's request for changes that is open while pr-reviewer runs does not get
\* lost (_apply_outcome_policy, _handle_review_loop): the coder runs again, or it is
\* withdrawn, or one of the two steps carries a halt, for people.  One that comes in when the reviews
\* have been fetched is not seen, and the approval goes through.
ObjectionIsAnswered ==
    [](faults = 0) =>
        (pc = "run" /\ at = "pr-reviewer" /\ objection)
            ~> \/ pc = "run" /\ at = "coder"
               \/ ~objection
               \/ /\ pc = "idle" /\ from = 1
                  /\ (label["coder"] \cup label["pr-reviewer"]) \ {"complete"} # {}

\* statuses.json on review, blocked and failed: "Halt pipeline for this item",
\* until a person removes the label.  No step starts while it, or the step it
\* waits for, carries a halt.
HaltHolds ==
    [][pc = "idle" /\ pc' # "idle" =>
          /\ label[at'] \subseteq {"complete"}
          /\ at' # "coder" => label[Before[at']] = {"complete"}]_vars
=============================================================================
