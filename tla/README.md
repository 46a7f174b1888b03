# TLA+ specifications of the AI Agile pipeline

These modules describe the parts of AI Agile (`src/`) in which several actors
meet or a failure can fall between two steps: the processes that work on items,
the people who label and edit them, the writers of the metrics branch, the steps
that hand work back and forth, the runs that push commits, and the schedules.
Each module is checked with TLC on small instances; every safety and action
property of the runs that pass is also proved with TLAPS for all values of the
constants. Liveness stays with TLC.

`PO` below is `src/pipeline/pipeline_orchestrator.py`, `PRODUCT` is
`src/docs/product/orchestrator/PRODUCT.md`.

## 1. The system

AI Agile drives issues and pull requests through flows of steps (agents and
scripts). Nothing runs permanently. A *tick* is one run of the orchestrator: it
reads the labels of the items from GitHub, decides which steps may run, runs them
one after the other and writes the outcome back as labels, comments, bodies and
commits. GitHub is the only shared state; there is no transaction over two of its
calls.

| Component | State it keeps | Operations | What makes it correct | Module |
|---|---|---|---|---|
| Step lifecycle (PO 4976-5105, 5454-6089, 3839-3873) | a status label per step, a gate label per gated step, announcements | wake, promote, reject, reclaim, decide, lock, run with retries, stamp | no gate or halt is passed without a person; a dead run's lock comes off, a live run's does not; requests are served | `StepLifecycle` |
| Metrics ledger (PO 1678-1818, `append-metrics-record.sh`) | the file `records.jsonl` and a schema on the branch `ai-agile/metrics` | create, fetch, commit, push, retry | append-only; an answer is true; records are doubled only after a lost answer | `MetricsLedger` |
| Schedule claims (PO 1897-2112, 9122-9243) | claim, release and run records in the ledger | due?, claim, run the flow's steps, record, release | one firing is swept once, by one runner; no dead runner wedges the schedule | `ScheduleClaim` |
| Cron, aggregation, reports (PO 1915-2026, `metrics_aggregator.py`, `metrics_report.py`) | aggregate rows in the ledger | match, previous firing, add up a bucket, report | every row is its bucket; none passed over, counted twice only by sweeps that overlap | `Aggregation` |
| Review loop (PO 2371-2575, 6057-6082, 5577-5597, 7380-7590) | `review-cycle:N`, `human-review-pending`, the subject in closing records, the PR head | count, judge, clear, escalate, supersede | the exchange is capped and ends; the reviewer reads what was tested; objections are answered | `ReviewLoop` |
| Review verdict (`review_outcome.py`) | none | findings to verdict | a blocking finding blocks | `ReviewVerdict` |
| Component claims (PO 362-405, 980-1038) | `component:` labels, per-tick memory | claim, unclaim, fresh read, roll back | no process starts a step over related work that it has seen | `Dispatch` |
| Controls (PO 2153-2293, `ai_emergency_stop.yml`) | pause and stop markers (files) | pause, expire, stop at a level | nothing starts while stopped; a pause ends | `Dispatch` |
| Blocking (PO 7947-8033, `blocker.sh`) | `blockedby:`/`blocks:` pairs | clear, gate the entry | ordering holds until a person puts a status on the item; nothing blocked forever | `Dispatch` |
| Commit hand-off and results (PO 5339-5451, 6591-6982, 3041-3148) | worktrees, local and remote branches, result files | prepare, recover, attempt, read, push, salvage, tear down | a step's commits are pushed or recovered, never lost; a result is its own | `StepRun` |
| Item writes (PO 3151-3611, 7839-7944, `todos_patch.py`) | issue bodies, snapshots, labels, raised items | request labels, patch, replace, raise, mark ready | a patch loses no edit it could see, no double issue, nothing left out after a refused body | `ItemWrites` |
| GitHub client (PO 1045-1345) | none | REST calls with retries | at most the effects asked for | `ItemWrites`, partly |
| Children, epics (PO 845-883, `drive-item.sh`) | child issues | select a child, drive | ordering holds | - |
| Merge, docs merge, release scripts | PRs, tags | check and merge, release | nothing merged that was not checked | - |
| Definitions, validators, generators, installation | files | load, validate, render | sequential; left to tests | - |

How they interact: a headless tick (one at a time, because of the workflow's
concurrency group) and any number of interactive sessions (not serialised) run
the same code on the same labels. A tick reads the backlog once and takes up item
after item (`Dispatch`). On an item it first promotes approved steps and reclaims
stale locks, then walks through the steps in the order of `pipeline.json`
(`StepLifecycle`). A step that commits runs in a worktree (`StepRun`); what its
result asks for is done in one fixed order (`ItemWrites`); the end of a judging
step calls the review loop, which clears labels the next tick reads
(`ReviewLoop`). When the items are done, a tick looks at the scheduled flows
(`ScheduleClaim`), whose steps add up the ledger (`Aggregation`). Every record,
claim and row goes to the ledger through the same script (`MetricsLedger`).

What is hard about it: decisions on labels fetched earlier; a state change that is
two or more calls, with a crash or failure between them; label combinations that
no single step produces, because a terminal label stays beside a later one; locks
judged by age; answers that get lost; a counter kept in label names; a PR head
that moves at any time; a body that is read, changed and written back; a worktree
at a fixed place that the next run resets; cadences in local time over buckets in
UTC. `PROJECT.json` lists these hazards with their lines.

## 2. The modules

| Module | What it is |
|---|---|
| `StepLifecycle` | labels, gates, locks and processes of one flow on one item |
| `Dispatch` | which items a tick and the sessions take up: claims, controls, blocks, budget |
| `DurableWork` | what a branch promises: nothing is vouched for that has not landed |
| `StepRun` | the runs of a committing step; implements `DurableWork` |
| `ItemWrites` | what a result asks for, call by call, beside people and other steps |
| `ReviewVerdict` | findings, decisions and objections to a verdict, as operators |
| `ReviewLoop` | the coder and its judges, across steps and ticks; decides by `ReviewVerdict` |
| `AppendLog` | what the ledger promises: a log that only grows, one record at a time |
| `MetricsLedger` | fetch, commit and push by racing writers; implements `AppendLog` |
| `ScheduleClaim` | one scheduled flow over the ledger; an append is one that landed or was refused, which is what `MetricsLedger` establishes |
| `Aggregation` | the three scheduled flows over days and weeks of hours, with cron and the changes of the clocks |
| `..._proofs` | the theorems about the module of that name |
| `MC...` | the values the constants take for TLC |

The modules meet at their interfaces: a lock in `Dispatch` is the `:wip` whose
life is `StepLifecycle`'s; the status `StepRun` records is the one with which
`ItemWrites` begins; the claim of a flow is looked at and appended in `Aggregation`
as it is in `ScheduleClaim`, which has its lease, and an append is one step in
`ScheduleClaim` because `MetricsLedger` has its details.

Operators called "mutant" stand next to the definition they would replace: a
plausible slip in the code that the property named for it in `PROJECT.json`
notices.

### StepLifecycle

`labels[s]` is the set of status labels of step `s`, `gateOn`/`gateBy` the gate
labels and who applied them last (the events `_gate_label_human_applied` reads),
`age[s]` the age of the last start announcement, which is what
`_wip_held_since` reads. A process has a program counter; one action stands for
the code between two GitHub calls, because between calls nothing else can be
seen and at a call everything can change. `view[p]` is the snapshot it decides
on: `Wake` takes it (`_wake`, 8844-9116), the process's own writes update it,
nothing else does. `MayStart` is `_should_run`; `acquire`, `lock`, `announce` are
`_acquire_wip_and_announce`; `clear`/`stamp` are `_apply_terminal_status` and
`_apply_failed`; a promotion adds `:complete` and takes `:review` and a `:requested`
off in a call each. People and agents that hold a token apply and remove labels at
any time; any call may fail, any process may die, each within `MaxFaults`.

Abstracted: names of steps (numbers in pipeline order), texts of comments, flow
filters (classification, excluded labels), children. A step is given by `Deps`,
`Trigger`, `Gated` and `SelfGates`.

### Dispatch

`process_work_item` over the backlog. `status[i][s]` is reduced to what a launch
depends on: none, requested, wip, done (`:complete`, `:skipped`) or halted (`:review`,
`:blocked`, `:failed`, `:exhausted`), because `StepLifecycle` has the rest. People request and skip
(`Instruct`) and take halts off (`ClearHalt`).
`Wake` is `_wake`: one fetch of all items, the claims seeded from the labels
(`ClaimsOf`, 993-1004), the order of the items. `Enter`, `Admit`, `Choose` are the
checks of one item in the code's order: controls, reclaim, blocks, stop level,
budget, claim. `view` and `claims` are what the process read then, and no more: a
tick claims from memory, a session reads the other items fresh (`Looked`).
`Lock`/`LockFails` charge the budget; the announcement is a call of its own
(`Announce`), and only an announced lock is taken back (`Stranded`), so a process
that dies in between, or whose comment fails, leaves one that stays; `RateLimited` gives lock, claim and budget
back and writes the pause marker; `Sweep` is the scheduled flows at the end of a
tick. `pause` has a marker that is past its time because reading and unlinking it
are two steps (2163-2193). A lock whose own announcement failed counts in the
code by an older announcement of its step, if there is one: ages are
`StepLifecycle`'s, and `Stranded` spares steps that run.

Seen on the way: sessions honour a pause and ignore a stop; when `:wip` cannot be
added the step runs unclaimed and uncounted; items are taken newest first, where
PRODUCT:428 has "the item raised earliest goes first"; a `blocks:` label whose
removal fails stays behind for good (PRODUCT:214-218).

### StepRun and DurableWork

A history of the branch is the set of its commits: `B` can be fast-forwarded to
`A` when `B` is a subset of `A`. A clone has the branch (`local`), what it last saw
of the remote (`track`), one worktree place and one scratch directory, both at
fixed paths. A run goes through `_run_agent`: remove and add the worktree, fetch
and `Recover` what is ahead, `Reset` (`worktree add -B`), the attempts of
`_invoke_with_retries`, the result file, `PushStep` with its check for left-over
changes, `Salvage` when a budget was spent, the status, and only after it
`Remove` (8196-8204), which is why a run can begin while the one before is still
tidying up. A hosted clone is thrown away between runs (`Dispose`).

`DurableWork` has the commits there are, those on the remote and those vouched
for by a record. `StepRun` maps `Vouched`, the commits of runs recorded as complete
or for review, to the last.

Seen on the way: with the prompt file missing, no lifecycle script runs and a
result left by an earlier run is read (PRODUCT:1281: "Returning a previous run's result is a failure");
`ResultIsOwn` excuses a scratch that was not emptied. Of the properties only
`SpentIsSalvaged` has to excuse the runs that overlap in tidying up (`crowded`).

### ItemWrites

`_apply_result` after the status, one call at a time in the order of `Order`: label
requests, body, work item, ready for review. A body is a set of prose, per section
the checked entries, and the sections whose block has lost its end: enough to tell
a lost edit. A patch reads, is refused where its block has no end or something
checked would go, writes and reads again to verify, up to `MaxAttempts` times. A
replacement snapshots the body first, once, and then writes whatever its result
holds: `Begin` asks for any checked entries, and nothing compares them with the
body. A write whose target does not resolve is passed over (`Miss`). GitHub has no
conditional write, so `Put` writes over whatever is there. Every call is sent again
up to `MaxRetries` times, and one whose answer was lost may have been carried out.
A step that dies keeps its lock until `Reclaim`; `SendBack` has it done again.

What the properties leave open is what the code leaves open: a patch verifies only
its own fragment, so another's write between its read and its write goes unseen
(PRODUCT:972-976: "retrying if another write landed first"); a replacement drops checked
entries (`buried`); the snapshot of a failed attempt stands for later ones
(PRODUCT:990-997); a refused patch leaves the step complete; a crash after the
status loses the remaining effects for good; labels and reviews are read from one
page of 30. Left out: deferred improvements, which raise an issue in every round, and
replacements that lose a block's end, which only people do here.

### ReviewVerdict and ReviewLoop

`ReviewVerdict` is `review_outcome.py`: which finding blocks, which decision waives
it, and the verdict over findings and objections. `ReviewLoop` is one headless
process, tick after tick, over the four steps coder, ci-gate, merge-conflict and
pr-reviewer. `label[s]` keeps the labels a run can end with, as a set, because a
superseded step keeps its `:complete` while it runs again. `about[s]` is the
subject of the last closing record, `head` the head of the PR, `saw` the head a
step started from, `from` how far the tick has come. `rounds` is the set of `N` in
`review-cycle:N`: removing the old and adding the new label are two calls, and any
of several labels may be read. What a reviewer finds is one of `Reviews`; the
outcome is computed. `_apply_outcome_policy` is `Approve`, `ApproveStale` and
`RequestChanges`; `_handle_review_loop` is `Escalate`, `StartRound`,
`StartFreeRound`, `Clear`, `Cleared`. What merge-conflict does is taken from its
tools and description in `pipeline.json`, and marked external.

### MetricsLedger and AppendLog

A commit is what it holds: the whole file and whether the schema is there. A
push succeeds only onto the commit it was built on (`FastForward`: `git push`
without force), and writes the whole file, so that `LedgerIsAppendOnly` really
depends on that check. `PushUnanswered` is a push that lands while the caller
learns of a failure; `ScriptTimesOut` leaves a push behind that arrives later
(`timeout=300` kills bash, not the git it started). `EnsureCreates`, `PutSchema`
and their failures are `_ensure_metrics_branch`.

### ScheduleClaim

Of the ledger the code uses two facts: the last run of the flow and the newest
claim or release. `Held` is `schedule_claim_is_held` with its comparison of
timestamps; times are ages, so the clock needs no bound. `BeginBlind` and
`CheckBlind` are a ledger that cannot be read, which reads as an empty one
(1866-1873). `Crash` includes the job's time limit (`timeout-minutes: 120`).
`MaxTick < Lease` is an assumption of the module (120 minutes of job, 180 of lease).

### Aggregation

Time is hours of a short day and days of a short week, in UTC; `Local` adds the
distance of the pipeline's zone. `CronMatches` has the fields that matter
(minutes are always 0), with the rule for two restricted day fields;
`Due` is `schedule_is_due` over the firings between the last run and now. A sweep
reads what is due once (`Begin`), looks whether the claim of each flow is free
(`Take`), appends its own later without looking again (`Claim`; `ClaimRefused`
when another push came first), reads the ledger and appends rows (`Read`,
`AppendRows`) or reports (`Report`), and records the run, also of one that failed.
A release is the newest record of the flow, and so frees it also where two have
claimed it. Ticks overlap within `MaxSlow`. `RecordArrives` is the record of a
run, which may come after its bucket is over.

Seen on the way: a late record is never counted; a day without a tick is never
added up; a failed aggregation counts as the flow's run; a catch-up sweep that ends
just after a firing swallows it; an append whose answer was lost doubles its rows;
an hour the clocks skip has no firing; three slow hours pass a short day over. The
ledger holds a record of a run once here: one that is doubled after a lost answer
(`MetricsLedger`) is summed twice (`metrics_aggregator.py:512-517`). The
records of the scheduled steps themselves, which are counted too, and the rows per
agent, which go into the same commit, are left out.

## 3. The runs

| Run | Instance | Shows | States |
|---|---|---|---|
| `gates` | a gated step and its dependent, headless process, 3 acts of people or bots, 1 fault | `GateNeedsPerson`, `DependentsNeedPerson`, `HaltNeedsPerson`, the types | 1.6 million |
| `recovery` | one gated step, 1 retry, budgets of 2 and a grace of 1, 3 acts, 2 faults, fair | `LeaseOutlivesRun`, `RequestServed`, `PromotionHappens`, `StrandedWipReclaimed` | 1.0 million |
| `dispatch` | three items, one without a component and blocked by another; tick and session; budget 1, 1 act, 1 fault, fair | `StartsSpareSeen`, `BudgetHolds`, `ControlsTakeHold`, `BlockedWaits`, `ItemsComeToRest` | 1.1 million |
| `step_run` | two runs in one hosted clone, 1 retry, 1 commit each, somebody else pushing, 1 fault, fair | `CompleteIsDurable`, `NothingLostInSilence`, `SpentIsSalvaged`, `ResultIsOwn`, `WorkIsDurable` (refinement), `RunsEnd` | 1.4 million |
| `item_writes` | a step that patches and one that replaces, whose target may not resolve, a person, 2 attempts, 1 retry, 1 rerun, 2 faults, fair | `OnlyUnseenIsLost`, `OriginalsAreKept`, `RaisedOnce`, `GivesUpLate`, `EffectsFollow` | 3.2 million |
| `review_loop` | the shipped cap of 3, 3 commits, 2 acts, 1 fault, fair | `LoopIsCapped`, `ReviewsTestedHead`, `FreeOnce`, `ObjectionIsAnswered`, `LoopEnds` | 3.4 million |
| `ledger` | 2 writers, 2 records each, 2 retries, 3 faults, symmetric writers | `LedgerIsAppendOnly` (refinement), `AppendedIsRecorded`, `DoublesNeedLostAnswer`, `RejectionNeedsRival` | 2.4 million |
| `schedule` | one runner, flow of 2 steps, 4 faults, fair | `SweepIsClaimed`, `SweepOnlyWhenDue`, `FiringServed` | 68 thousand |
| `aggregation` | days of 5 hours, weeks of 2 days, the clocks change twice, 2 sweepers, 2 runs, 2 slow hours, 1 fault | `RowsAreExact`, `CountedOnce`, `NoBucketPassedOver`, `ReportHasTheWeek` | 10.6 million |

Why the bounds are enough. In `gates` three acts are what approving, withdrawing
and requesting take; in `recovery` two budgets are more than one and the grace.
In `dispatch` the three items are one that is blocked and overlaps everything, its
blocker, and one more. With a budget of one a tick meets its own claim only after a
lock that failed or a step given back; larger budgets are left to the theorems,
which hold for all. In `step_run` the second run
meets what the first left, and a third would meet the same kinds of remains; one
retry is enough for a result of another attempt. In `item_writes` two attempts
and one rival write make a patch lose, verify and try again; two faults lose an
answer and kill the run. In `review_loop` three commits are the coder's first and two of
its rounds, or a push by anyone in place of one; later rounds push nothing. What a
step finds, and that it fails, is never bounded there. Two writers are what a race of pushes needs,
and two records each let a retry meet its own earlier record; three faults put a
lost answer, a late push and a crash into one append. In `schedule` four faults
spoil the claim, the record and the release of a sweep and still leave one for
the next; the cadence of 12 hours stands for the daily and weekly ones. In
`aggregation` 20 hours are two weeks of two days, with a skipped hour in the
first and a repeated one in the second, and runs end in the first and in the last
hour of a day, and in the first hour of the next week.

`CHECK_DEADLOCK FALSE` stands where the instance really stops: writers that have
appended all, a pull request at rest, runs that are over, a clock at its horizon.

Fairness. `StepLifecycle`: steps of the headless process are weakly fair, because
every event and a cron (06 and 18 UTC) start a tick and every run has a budget;
time is strongly fair. `Dispatch`: ticks go on being started, a run that has begun
goes on, a pause expires; nobody has to start a session. `StepRun`: a run goes on,
its agent is killed at the latest when its time is over. `ItemWrites`,
`ReviewLoop`: the orchestrator goes on. `ScheduleClaim`: ticks begin again and
again and a runner that is not killed comes to its end. Nothing is assumed of
people, sessions or what steps find. Lost calls and crashes are not assumed to end;
their number is bounded. `Aggregation` needs none: `NoBucketPassedOver` is about what must be
there by an hour, and the clock waits while a due flow is waiting, except for
`MaxSlow` hours.

### Where the code and its documents differ

Each run below expects a violation, and `PROJECT.json` quotes the line it contradicts.

| Run | Property | What happens |
|---|---|---|
| `two_sweeps` | `NoTwoSweeps` | the append script fetches the tip itself, so both claims land one after the other |
| `halts` | `HaltHolds` | a step superseded by a push halts beside its old `:complete`; the steps behind it start |
| `left_ahead` | `LaterRunsRecover` | a branch left ahead is pushed once, by the next run, and only if the remote has not moved; then it is reset |

### Known divergences without a run

Each definition below stands in its module; add it to the instance named to see
the counterexample.

- `NoTwoRuns` (`StepLifecycle`, one step, the headless process and one session):
  both fetch labels before either applies `:wip` (PO:6030) and both run the step.
  `statuses.json:30`: "Skip -- another process is already handling this agent"; PRODUCT:263.
- `ApprovalDoesNotTransfer` (`StepLifecycle`, `gates`): the gate label of an
  earlier approval promotes a later artefact (PO:5063). PRODUCT:329-331: "A gate
  approves a specific thing, and does not transfer".
- `StrandedLockComesOff` (`StepLifecycle`, `recovery`): `:wip` beside `:complete` is
  never looked at by the reclaim (PO:5914), against the comment at PO:9289-9291.
- `ReclaimSparesLiveRuns` (`StepLifecycle`, one session): between `:wip` and its
  announcement a lock looks as old as the previous run's (PO:5918), against PO:5860-5862. Once announced, a run is spared
  (`AnnouncedRunsSpared`, proved).
- `RequestsAreNotSwept` (`StepLifecycle`, `recovery`, as a property): a request made while
  its step runs comes off with the run's outcome (PO:3852), and nothing runs for it.
  `statuses.json:11`: "The orchestrator will pick it up on its next tick".
  `RequestServed` is about requests that stand while nobody works on the step.
- `BlockedItemsWait` (`Dispatch`, as a property): any status on an item lifts its block
  (PO:7967-7974), so a person's request, or a skip, starts an item whose blocker is open.
  PRODUCT:416-418: "not eligible to start at all". `BlockedWaits` is about items without
  a status.
- `LocksAreTakenBack` (`Dispatch`, as a property): a process that dies between `:wip`
  (PO:6030) and the announcement (PO:6047) leaves a lock without an age, which no
  reclaim touches (PO:5920-5934). PRODUCT:1571-1575: "the orchestrator takes the lock back".
  `ItemsComeToRest` excuses these locks (`Abandoned`).
- `ChecksAreKept` (`ItemWrites`, as a property): mode `replace` writes the body it was
  given and does not look at checked entries (PO:3568-3578). PRODUCT:1020-1021: "never
  removes a checked item". `OnlyUnseenIsLost` is about patches.
- `CountedOnceByAll` (`Aggregation`): two ticks that both find a flow free both claim it,
  both find the bucket without a row and both append one, without any failure, so that
  every run of it is in two rows. PO:2078-2079: "exactly one push lands";
  `metrics_aggregator.py:500`: "idempotent re-run". `CountedOnce` says that it takes two
  sweepers at work at once.
- `OnePerComponent` (`Dispatch`): claims of a tick are as old as its fetch, so a
  session and a tick run in one component. PRODUCT:439-440: "at most one issue per
  component is in flight at a time, headless and interactive combined".
- `StopCoversSweeps` (`Dispatch`, as a property): scheduled flows start under a
  stop, which is not looked at again after the items. PRODUCT:379-381.
- `SessionsDeliver` (`StepRun`, with a session): the result of a person's session on a
  step that commits is recorded as failed, because there is no worktree to push
  from. PRODUCT:1823-1824: "in interactive mode exactly as in headless".

Without a definition of their own:

- A push between the head check of an approval and its closing record makes the
  record name the new head (PO:7205), so the approval is never superseded, although
  PO:7407-7413 say the check is there "to make that window unreachable". In
  `ReviewLoop`: `Approve`, `PushByHand`, `Stamp`, `Announce`.
- `pipeline.json:376`, "Cannot APPROVE when any unresolved human REQUEST_CHANGES
  reviews exist on the PR": reviews that cannot be fetched count as none, and a
  comment after the request lifts it (PO:2578-2610).
- `ReviewLoop` with `UncountFails = TRUE` has no cap: once the removal of an old
  `review-cycle:N` has failed (PO:6067) there are two such labels, the cap check may
  read the small one every time and the counter move the large one.
- A push by hand or by merge-conflict supersedes the coder but never ci-gate,
  which resolves no PR: what the coder then pushes is reviewed untested.
  `ReviewsTestedHead` excuses this. Compare PRODUCT:286-288 on "a mixture of two
  different artefacts".
- A free round consumes a count all the same, since the counter moves when the
  coder starts; and it can be had again after each counted round.
- A step may run without its lock when adding `:wip` fails (PO:6038).
- A superseded step that fails or exhausts its budget keeps its `:complete`, posts no
  closing record and so stays superseded: every tick starts it again (PO:5586-5595,
  7641-7674), although `:failed` is put beside it. `LoopEnds` leaves out exactly the
  behaviours in which that goes on for ever.
- A body write whose target does not resolve is passed over with a warning, and the step
  is complete (PO:3560-3566): `EffectsFollow` counts it as settled.
- An unreadable ledger is an empty one: every flow due, nothing claimed (PO:1866-1873).
- A pause marker that has expired is unlinked after it was read; one written in
  between goes with it (PO:2187). `ControlsTakeHold` counts such a pause as set.

## 4. What is proved

All theorems hold for every value of the constants that the modules' assumptions
admit: any number of steps, items, runs, writers, sections, retries and faults.
TLC evaluates the assumptions in the runs above. `TypeCorrect` is proved for the
eight modules with state; TLC checks a type invariant in `gates` only. Each
invariant was checked with TLC before it was proved.

**Gates** (`GatesNeedPersons`, `DependentsNeedPersons`). `GateNeedsPerson` is not
inductive: a promotion decides on a snapshot and writes two calls later.
`GateInv` adds that a person approved, at some time, every step whose gate label
counts as a person's and every hard-gated step that some process's view shows
`:complete`; and that a run never ends in `complete` at a hard-gated step, which
goes to its gate instead. `DependentsInv` says that the step a process has chosen,
until its run is over, has the gates it depends on decided, and that a bypass a
process remembers still stands. Both rest on the lemma `DecisionsLast`: no action
takes a decision back from the history.

**Leases** (`LeasesOutliveRuns`, `AnnouncedRunsAreSpared`). `LeaseInv` bounds the age of an announced run by
its attempt: `attempt * MaxWall + runAge`; the lemma `Budgets` is the arithmetic
that this fits into `(MaxRetries + 1) * MaxWall + Grace`. The second follows: only
`Reclaim` takes a process from its reclaim to clearing a lock (`OnlyReclaims`), and
it asks for an announcement older than the lease. It needs a second process to say
anything, so no run lists it: TLC passes it with one step, the headless process, a
session and one retry, and refutes it there with `LeaseOfOneAttempt` for `Lease`.

**Halts** (`HaltsNeedPersons`), under the hypothesis `Alone` (no session runs beside
the tick; a session that fetched its labels before the halt does start the step
again). `HaltInv` relates three copies of a status: what is owed a person's
attention still carries a halt, or the `:complete` that an approval put beside it,
and no request, both on the item and in what the process knows. The one exception
is why the invariant follows the locks: after a failed call of a reclaim the
process may still see an old request, and then it is the claim counted for that
lock that keeps the step from starting. `WipIsBare` says that a status that reads
as `wip` stands beside no halt.

**Dispatch** (`BudgetAlwaysHolds`, `StartsAlwaysSpareSeen`), for a backlog that is
not empty. The budget: what is charged is at most the count, and the count is below
the bound wherever a step can be locked. Sparing: the claims of a tick cover every
item it saw (`Covered`), and what it runs overlaps no other item it saw or started
(`Spared`), so that a roll-back never frees a claim another item still needs.

Waiting (`BlockedAlwaysWaits`, whatever fails, for items nobody has put a status on). A process decides on the view it
fetched, which may be old in every respect; `HeldInv` says that for a pair of item
and blocker that nobody has undone it is not old in the two that count: every
process that has the item still before it knows of the blocker or will look, sees
no status on the item, and so bars its entry.

Controls (`ControlsAlwaysTakeHold`). The markers are looked at between items, so a
tick that has an item in hand may still start a step of it after one is set.
`ControlInv` counts such a start as owed before it happens (`Exposed`): there is
room for it in what was set and what failed to lock. What keeps a second one from
happening under the same marker is the claim that the first one takes, and after a
lock that failed nothing is claimed, which is why the bound has that second term.

**Step runs** (`CompleteIsAlwaysDurable`, `NothingIsLostInSilence`,
`ResultIsAlwaysOwn`, `RunsImplementDurableWork`). The invariant has a part for each
thing a run relies on: runs begin in turn; what a clone saw of the remote is on
the remote; a commit is on the remote, in its clone or in one of the two
histories; the worktree at the fixed place belongs to the run that added it; a
run about to be recorded as done has pushed all; the result read is its own. The
refinement follows: initial states map, and every step is `Work`, `Vouch` or a
stutter.

Salvage (`SpentIsAlwaysSalvaged`). `KeptInv`: a run that had its clone to itself
when it began still has its worktree at every place where it works, because the
next one begins only when its lock is off. `BudgetInv`: a run is about to be
recorded as exhausted only once it has been through `Salvage`, which is where
`SpentInv` starts; the lemmas after it show that nothing later takes a commit off
the remote, and that no salvage moves the count of a run that is over.

Recovery (`EarlierIsAlwaysRecovered`): this much of `LaterRunsRecover` holds. A run
gets its worktree by the step that resets the branch (`WorkByReset`), and runs of one
clone begin in turn, so what earlier ones made is then accounted for by
`NothingLostInSilence` and no longer in the clone alone; nothing later takes it off the
remote or out of the two histories (`GoneGrows`). TLC passes `EarlierRunsRecovered` in
the instance of `step_run`, and refutes it there with `ToRecoverIfTracked` for
`ToRecover`; the run does not list it beside `NothingLostInSilence`.

**Item writes** (`RaisedOnceAlways`, `NoCheckedEntryIsLost`: of patches only,
`OriginalsAreAlwaysKept`, `GivenUpLate`). `CountedInv` counts, over where a step is
in `Order`, the work items it may still raise against the statuses recorded for
it. `PatchInv`: a patch about to be written holds every checked entry of the body
it read, so that what is gone was checked behind its back or left out by a new body. `KeepInv`: a replacement about to be written has a snapshot of the prose,
or that prose came in since. `LateInv`: the attempt is at most one more than the
rivals and faults so far.

**Review** (`CriticalAlwaysBlocks`, `ImprovementsPass`, `FewerFindingsPass`,
`ProposalsChangeNothing`, `FreeRoundsAreGuarded`, `LoopCapped`). The first four are
about the operators of `ReviewVerdict`: the second says that improvements added to any
findings change neither the verdict nor whether people alone object; the fourth
goes through what the index of accepted records becomes when one is appended. `LoopCapped`, under the hypothesis `~UncountFails`, relates the
rounds so far to the counter label and the faults at every place the loop can be in.

The reviewer reads what was tested (`ReviewedHeadIsTested`, also with
`UncountFails`). The labels are three promises in a row, each made by another
step in another run and taken back label by label; `TestedInv` says that each
`:complete` rests on the one before it: merge-conflict's on ci-gate's (`Chain`),
ci-gate's on the head being the tested one and the one in the coder's record
(`Backed`), and merge-conflict's record names the head (`Merged`). `UnderWay` says
which of them hold at each place of a running step. While `_handle_review_loop`
clears, the chain is broken, and `Clearing` says instead that what is still on
is still to come off. All of it is given up with `excused`, except that ci-gate
starts with no status of its own, which is what lets it make the chain good again.

**Ledger** (`LedgerImplementsLog`, `AnswersAreTrue`, `RejectionsHaveRivals`,
`DoublesAreUnheard`). Initial states map to initial
states, and every step is an append or leaves the log alone; `LandAppends` is the
case of a push, `BranchInv` (no branch, no records) that of the first one. A
record whose writer was told it landed is there, and `RecordedStays` keeps it.
`RivalInv`: a commit whose base has gone has one rival more than it has rejections.
`DoubleInv` counts for each writer the copies in the file, the push that may still
arrive behind its back and the append it is at, together against what it began and
the answers it did not hear; `PlacesAppend` says what an append does to the copies.

**Schedule** (`SweepsAreClaimed`, `SweepsOnlyWhenDue`), under the hypothesis
`Serial` (there is one runner: the workflow's concurrency group) and the module's
`MaxTick < Lease`. `ClaimInv`: the claim of a runner that works is the newest entry
and exactly as old as its tick; before the claim lands, no entry is younger than
the tick. `DueInv`: between looking at the ledger and starting the flow nobody
else records a run. Without `Serial` the first is refuted by `two_sweeps`.

**Aggregation** (`RowsAreAlwaysExact`, `CountedAtMostOnce`, `NoBucketMissed`,
`ReportFindsTheWeek`), for every cadence, every
distance of local time to UTC and any number of overlapping ticks. `InBucketIs` is
the division that says the test on the two ends of a bucket is membership in it;
planned rows are exact because records of ended runs do not change. The claim of a
flow does not exclude: it is looked at and appended in two steps. `AloneInv` says that
of two sweepers at work on a flow both are known to be (`raced`), `FreshInv` that a row
has an equal in the ledger, or about to be in it, only if both are of such sweepers.

The last two need the cadences to suit the days and weeks of UTC, whatever these
and the zone are: `SumsKeepUp` says that every bucket but the first has a firing of
its flow, and that a tick as slow as `MaxSlow` still ends in the bucket it was
called in; `ReportKeepsUp` that the report is at least two hours behind the sum of
its week. They are hypotheses, because the code checks neither when it loads
`pipeline.json`; `MCAggregation` assumes them of the shipped cadences, and TLC
evaluates that. A zone whose clock goes from 0:59 to 2:00 would not meet the first
for the daily sum at 1:00. `SweptInv` then follows a firing through a tick: while
nothing fails, a firing that no run has answered is no older than ticks were slow
(`UnservedInv`), so what a tick takes up fired in the present bucket (`PromptInv`);
a planned row is of that bucket (`PlannedNow`), and once the run is recorded the
row is there or there was nothing to add up (`RecordedNow`, `RanNow`), which stays
so when the bucket is over (`PastDone`).

**Only model-checked**: liveness (`FiringServed`, `LoopEnds`, `ObjectionIsAnswered`,
`ItemsComeToRest`, `RunsEnd`, `EffectsFollow`, `RequestServed`, `PromotionHappens`,
`StrandedWipReclaimed`), because fairness and `ENABLED` are outside the prover's
reach. Every invariant and action property that a passing run checks is a theorem;
the instance of the run meets the hypothesis where the theorem has one.

## 5. Not modelled, and what is left

- Children and epics (`unit: sub_item`, `find_child_items`, `drive-item.sh`): the
  choice of a child and conditions on children; drive-item is a loop around ticks.
- Flow routing and the definition (`pipeline.json`, `validate.py`, entitlements):
  fixed when the file is loaded; the modules take it as constants.
- Merge and release scripts: calls of `gh` in sequence, without state of their own.
- Metrics rendering, taxonomy and standards validators, document generators,
  installation and label migration: sequential functions of files, run once, with
  no state that two actors share.

Next, in this order: children in `Dispatch` with the empty list that a failed read
gives; a composition of `ItemWrites` with the reclaim of `StepLifecycle`, so that the two
agree on when a dead run's step is done again.
