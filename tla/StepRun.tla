-------------------------------- MODULE StepRun --------------------------------
(***************************************************************************)
(* The runs of one step that commits (git_ops.commit_after) on one item:   *)
(* from the worktree over the attempts and the result file to the push and *)
(* the status that is recorded.                                            *)
(*                                                                         *)
(* A run has a clone of the repository, in which the worktree of the       *)
(* branch has one fixed place (_run_worktree_path) and the step one fixed  *)
(* scratch directory (_scratch_path).  A history of the branch is the set  *)
(* of its commits: B can be fast-forwarded to A when B \subseteq A.        *)
(* Eligibility, locks and their leases are StepLifecycle's.                *)
(***************************************************************************)
EXTENDS Integers, FiniteSets

CONSTANTS
    NumRuns,     \* the runs are numbered in the order in which they are dispatched
    Sessions,    \* those in which a person does the step (--interactive-result)
    Clones,
    Clone,       \* Clone[r]: where r runs
    Hosted,      \* the clones that are thrown away after a run
    MaxRetries,  \* max_retries of the step
    MaxCommits,  \* bound: the commits of an author, a salvage not counted
    MaxFaults    \* bound: failed calls, crashes, missing files

Runs == 1..NumRuns

\* Whoever else pushes to the branch: people, other steps.
Other == 0
Authors == Runs \cup {Other}

ASSUME StepRunAssumption ==
    /\ NumRuns \in Nat
    /\ Sessions \subseteq Runs
    /\ Clone \in [Runs -> Clones]
    /\ Hosted \subseteq Clones
    /\ {MaxRetries, MaxCommits, MaxFaults} \subseteq Nat

VARIABLES
    remote,    \* the branch on the remote
    local,     \* local[c]: the branch in clone c, which its worktree has checked out
    track,     \* track[c]: origin/branch as c last saw it
    tree,      \* tree[c]: the run that added the worktree there, or Other when there is none
    dirty,     \* the clones whose worktree has uncommitted changes
    scratch,   \* scratch[c]: the result file of the step there

    pc,        \* where a run is
    attempt,   \* attempt[r]: counted from 0
    got,       \* got[r]: the result it read, if it was valid
    over,      \* over[r]: the attempt ended at its turn or wall-clock budget
    final,     \* final[r]: the status it is about to record
    outcome,   \* outcome[r]: the status recorded

    count,     \* count[w]: how many commits author w has made
    refused,   \* history: commits whose push was refused or failed
    gone,      \* history: commits that went with a hosted clone
    crowded,   \* history: the runs that began while one before them was still tidying up
    dropped,   \* history: the runs whose uncommitted changes were thrown away
    unclean,   \* history: the runs whose current attempt did not begin with a clean scratch
    faults

clone   == <<local, track, tree, dirty>>
run     == <<pc, attempt, got, over, final, outcome>>
history == <<refused, gone, crowded, dropped, unclean>>
vars    == <<remote, clone, scratch, run, count, history, faults>>

CommitsOf(w, n) == {<<w, k>> : k \in 1..n}
AllCommits == UNION {CommitsOf(w, MaxCommits + 1) : w \in Authors}
Made == UNION {CommitsOf(w, count[w]) : w \in Authors}

\* What the file says; "none" stands for a file that is missing or not as asked for.
Valid == {"complete", "review", "blocked"}
Says == {"none"} \cup Valid
Results == [by : Authors, at : 0..MaxRetries, says : Says]
NoResult == [by |-> Other, at |-> 0, says |-> "none"]

Outcomes == {"none", "complete", "review", "blocked", "failed", "exhausted", "limited"}
Delivered == {"complete", "review"}

TypeOK ==
    /\ remote \subseteq AllCommits
    /\ local \in [Clones -> SUBSET AllCommits]
    /\ track \in [Clones -> SUBSET AllCommits]
    /\ tree \in [Clones -> Authors]
    /\ dirty \subseteq {c \in Clones : tree[c] # Other}
    /\ scratch \in [Clones -> Results]
    /\ pc \in [Runs -> {"off", "fetch", "recover", "reset", "before", "agent", "read", "after",
                        "push", "salvage", "stamp", "remove", "done", "dead"}]
    /\ attempt \in [Runs -> 0..MaxRetries]
    /\ got \in [Runs -> Results]
    /\ over \in [Runs -> BOOLEAN]
    /\ final \in [Runs -> Outcomes]
    /\ outcome \in [Runs -> Outcomes]
    /\ count \in [Authors -> 0..(MaxCommits + 1)]
    /\ refused \subseteq AllCommits
    /\ gone \subseteq AllCommits
    /\ crowded \subseteq Runs
    /\ dropped \subseteq Runs
    /\ unclean \subseteq Runs
    /\ faults \in 0..MaxFaults

Init ==
    /\ remote = {}
    /\ local = [c \in Clones |-> {}]
    /\ track = [c \in Clones |-> {}]
    /\ tree = [c \in Clones |-> Other]
    /\ dirty = {}
    /\ scratch = [c \in Clones |-> NoResult]
    /\ pc = [r \in Runs |-> "off"]
    /\ attempt = [r \in Runs |-> 0]
    /\ got = [r \in Runs |-> NoResult]
    /\ over = [r \in Runs |-> FALSE]
    /\ final = [r \in Runs |-> "none"]
    /\ outcome = [r \in Runs |-> "none"]
    /\ count = [w \in Authors |-> 0]
    /\ refused = {}
    /\ gone = {}
    /\ crowded = {}
    /\ dropped = {}
    /\ unclean = {}
    /\ faults = 0

Fault == faults < MaxFaults /\ faults' = faults + 1

Live(r) == pc[r] \notin {"off", "done", "dead"}
OthersIn(r) == {q \in Runs \ {r} : Clone[q] = Clone[r] /\ Live(q)}

Goto(r, where) == pc' = [pc EXCEPT ![r] = where]

\* The status is settled: it is recorded next.
Settle(r, status) == Goto(r, "stamp") /\ final' = [final EXCEPT ![r] = status]

----------------------------------------------------------------------------
(* The worktree *)

\* The lock of a run is on until its status is recorded; its worktree is removed later.
Locked(r) == Live(r) /\ pc[r] # "remove"

\* A run is dispatched when the ones before it have given back the lock.
Start(r) ==
    /\ pc[r] = "off"
    /\ \A q \in Runs : q < r => pc[q] # "off" /\ ~Locked(q)
    /\ Goto(r, IF r \in Sessions THEN "before" ELSE "fetch")
    /\ crowded' = IF OthersIn(r) = {} THEN crowded ELSE crowded \cup {r}
    /\ UNCHANGED <<remote, clone, scratch, attempt, got, over, final, outcome, count,
                   refused, gone, dropped, unclean, faults>>

\* The worktree is removed, whoever works in it.
RemoveTree(c) ==
    /\ tree' = [tree EXCEPT ![c] = Other]
    /\ dirty' = dirty \ {c}
    /\ dropped' = IF c \in dirty THEN dropped \cup {tree[c]} ELSE dropped

\* What is found at the place is debris and removed; the branch is fetched.
FetchBranch(r) ==
    /\ pc[r] = "fetch"
    /\ RemoveTree(Clone[r])
    /\ \/ /\ Goto(r, "recover")
          /\ track' = [track EXCEPT ![Clone[r]] = remote]
          /\ UNCHANGED <<final, faults>>
       \/ Settle(r, "failed") /\ Fault /\ UNCHANGED track
    /\ UNCHANGED <<remote, local, scratch, attempt, got, over, outcome, count, refused, gone,
                   crowded, unclean>>

\* What the clone has and, as far as it knows, the remote has not.
Ahead(c) == local[c] \ track[c]

\* Mutant of FastForward: the push is forced.
Forced(c) == TRUE

FastForward(c) == remote \subseteq local[c]

\* A push lands, or is refused, or fails, or lands and its answer is lost.
Pushed(c) ==
    /\ FastForward(c)
    /\ remote' = local[c]
    /\ track' = [track EXCEPT ![c] = local[c]]
    /\ UNCHANGED refused

PushLands(c) == Pushed(c) /\ UNCHANGED faults

PushFails(c) ==
    /\ UNCHANGED track
    /\ \/ /\ IF FastForward(c) THEN Fault ELSE UNCHANGED faults
          /\ refused' = refused \cup Ahead(c)
          /\ UNCHANGED remote
       \/ /\ FastForward(c)
          /\ Fault
          /\ remote' = local[c]
          /\ UNCHANGED refused

\* Mutant of ToRecover: a branch that had never been pushed is not looked at.
ToRecoverIfTracked(c) == IF track[c] = {} THEN {} ELSE Ahead(c)

ToRecover(c) == Ahead(c)

\* Commits that an earlier run left ahead of the remote are pushed, if they can be.
Recover(r) ==
    LET c == Clone[r]
    IN /\ pc[r] = "recover"
       /\ Goto(r, "reset")
       /\ IF ToRecover(c) = {}
          THEN UNCHANGED <<remote, track, refused, faults>>
          ELSE PushLands(c) \/ PushFails(c)
       /\ UNCHANGED <<local, tree, dirty, scratch, attempt, got, over, final, outcome, count,
                      gone, crowded, dropped, unclean>>

\* git worktree add -B: the branch is set to what the remote is known to have.
Reset(r) ==
    LET c == Clone[r]
    IN /\ pc[r] = "reset"
       /\ \/ /\ tree[c] = Other
             /\ Goto(r, "before")
             /\ local' = [local EXCEPT ![c] = track[c]]
             /\ tree' = [tree EXCEPT ![c] = r]
             /\ UNCHANGED <<final, faults>>
          \/ /\ IF tree[c] # Other THEN UNCHANGED faults ELSE Fault
             /\ Settle(r, "failed")
             /\ UNCHANGED <<local, tree>>
       /\ UNCHANGED <<remote, track, dirty, scratch, attempt, got, over, outcome, count, history>>

----------------------------------------------------------------------------
(* The attempts *)

\* Mutant of Cleaned: the directory is made, what is in it stays.
Kept(c) == scratch[c]

\* What agent_lifecycle.before leaves of the result file: the directory is removed.
Cleaned(c) == NoResult

\* An attempt begins: the scratch directory is emptied ...
Setup(r) ==
    /\ pc[r] = "before"
    /\ Goto(r, "agent")
    /\ scratch' = [scratch EXCEPT ![Clone[r]] = Cleaned(Clone[r])]
    /\ unclean' = unclean \ {r}
    /\ UNCHANGED <<remote, clone, attempt, got, over, final, outcome, count, refused, gone,
                   crowded, dropped, faults>>

\* ... or that fails, which is passed over, or the run ends before the agent starts:
\* with the prompt file missing nothing is cleaned, without a usable CLI it is.
SetupFails(r) ==
    /\ pc[r] = "before"
    /\ Fault
    /\ over' = [over EXCEPT ![r] = FALSE]
    /\ \/ Goto(r, "agent") /\ unclean' = unclean \cup {r} /\ UNCHANGED scratch
       \/ Goto(r, "read") /\ unclean' = unclean \cup {r} /\ UNCHANGED scratch
       \/ Goto(r, "read") /\ unclean' = unclean \ {r}
          /\ scratch' = [scratch EXCEPT ![Clone[r]] = Cleaned(Clone[r])]
    /\ UNCHANGED <<remote, clone, attempt, got, final, outcome, count, refused, gone, crowded, dropped>>

\* The agent edits files, if its worktree is still there ...
Edit(r) ==
    /\ pc[r] = "agent"
    /\ r \notin Sessions
    /\ tree[Clone[r]] # Other /\ Clone[r] \notin dirty
    /\ dirty' = dirty \cup {Clone[r]}
    /\ UNCHANGED <<remote, local, track, tree, scratch, run, count, history, faults>>

\* ... and commits what it has edited.
Commit(r) ==
    /\ pc[r] = "agent"
    /\ r \notin Sessions
    /\ Clone[r] \in dirty
    /\ count[r] < MaxCommits
    /\ count' = [count EXCEPT ![r] = @ + 1]
    /\ local' = [local EXCEPT ![Clone[r]] = @ \cup {<<r, count[r] + 1>>}]
    /\ dirty' = dirty \ {Clone[r]}
    /\ UNCHANGED <<remote, track, tree, scratch, run, history, faults>>

\* It writes its result.
WriteResult(r) ==
    /\ pc[r] = "agent"
    /\ \E says \in Valid :
          scratch' = [scratch EXCEPT ![Clone[r]] = [by |-> r, at |-> attempt[r], says |-> says]]
    /\ UNCHANGED <<remote, clone, run, count, history, faults>>

\* It ends by itself, or at its turns, or is killed at max_wall_seconds.
Return(r) ==
    /\ pc[r] = "agent"
    /\ \E spent \in BOOLEAN :
          /\ r \in Sessions => ~spent
          /\ over' = [over EXCEPT ![r] = spent]
    /\ Goto(r, "read")
    /\ UNCHANGED <<remote, clone, scratch, attempt, got, final, outcome, count, history, faults>>

\* It meets the rate limit: nothing is recorded, the step is eligible again.
RateLimited(r) ==
    /\ pc[r] = "agent"
    /\ r \notin Sessions
    /\ Goto(r, "after")
    /\ final' = [final EXCEPT ![r] = "limited"]
    /\ UNCHANGED <<remote, clone, scratch, attempt, got, over, outcome, count, history, faults>>

\* Mutant of NextAttempt: the attempts are not counted.
SameAttempt(n) == n

NextAttempt(n) == n + 1

RetriesLeft(r) == attempt[r] < MaxRetries

\* Nothing valid and the budget not spent: once more, in the same worktree.
Retry(r) ==
    /\ pc[r] = "read"
    /\ r \notin Sessions
    /\ scratch[Clone[r]] = NoResult
    /\ ~over[r]
    /\ RetriesLeft(r)
    /\ attempt' = [attempt EXCEPT ![r] = NextAttempt(@)]
    /\ Goto(r, "before")
    /\ UNCHANGED <<remote, clone, scratch, got, over, final, outcome, count, history, faults>>

Accept(r) ==
    /\ pc[r] = "read"
    /\ \/ r \in Sessions
       \/ scratch[Clone[r]] # NoResult
       \/ over[r]
       \/ ~RetriesLeft(r)
    /\ got' = [got EXCEPT ![r] = scratch[Clone[r]]]
    /\ Goto(r, "after")
    /\ UNCHANGED <<remote, clone, scratch, attempt, over, final, outcome, count, history, faults>>

\* Where _apply_result goes from here: a result counts whatever the budget.
AfterResult(r) ==
    IF final[r] = "limited" THEN "remove"
    ELSE CASE got[r].says \in Delivered     -> "push"
           [] got[r] = NoResult /\ over[r]  -> "salvage"
           [] OTHER                         -> "stamp"

\* The scratch directory is removed (agent_lifecycle.after), or that fails.  The
\* artefact is posted; a review that left nothing to be read becomes a failure, whose
\* commits are pushed all the same.
After(r) ==
    /\ pc[r] = "after"
    /\ Goto(r, AfterResult(r))
    /\ \/ scratch' = [scratch EXCEPT ![Clone[r]] = NoResult] /\ UNCHANGED faults
       \/ Fault /\ UNCHANGED scratch
    /\ final' \in {[final EXCEPT ![r] = status] :
                      status \in CASE final[r] = "limited"    -> {"limited"}
                                   [] got[r].says = "review"  -> {"review", "failed"}
                                   [] got[r] = NoResult       -> {"failed"}
                                   [] OTHER                   -> {got[r].says}}
    /\ UNCHANGED <<remote, clone, attempt, got, over, outcome, count, history>>

----------------------------------------------------------------------------
(* The push *)

\* Mutant of LeftOver: with no commit to push nothing else is looked at.
LeftOverBesideCommits(c) == c \in dirty /\ Ahead(c) # {}

\* Changes that would be thrown away with the worktree.
LeftOver(c) == c \in dirty

\* Nothing to push.  Without a worktree there is nothing to push from.
PushNothing(r) ==
    LET c == Clone[r]
    IN /\ pc[r] = "push"
       /\ r \in Sessions \/ tree[c] = Other \/ Ahead(c) = {}
       /\ Settle(r, IF r \in Sessions \/ tree[c] = Other \/ LeftOver(c) THEN "failed" ELSE final[r])
       /\ UNCHANGED <<remote, clone, scratch, attempt, got, over, outcome, count, history, faults>>

\* The commits are pushed; what was left beside them, or put at the root of the
\* repository, makes it a failure with its commits pushed.
PushStep(r) ==
    LET c == Clone[r]
    IN /\ pc[r] = "push"
       /\ r \notin Sessions /\ tree[c] # Other /\ Ahead(c) # {}
       /\ \/ /\ PushLands(c)
             /\ \E stray \in BOOLEAN :
                   Settle(r, IF stray \/ LeftOver(c) THEN "failed" ELSE final[r])
          \/ PushFails(c) /\ Settle(r, "failed")
       /\ UNCHANGED <<local, tree, dirty, scratch, attempt, got, over, outcome, count, gone,
                      crowded, dropped, unclean>>

\* What _push_step_branch cannot read it does not push.
PushUnread(r) ==
    /\ pc[r] = "push"
    /\ Fault
    /\ Settle(r, "failed")
    /\ UNCHANGED <<remote, clone, scratch, attempt, got, over, outcome, count, history>>

\* A run that spent its budget: what it left uncommitted is committed ...
SalvageCommit(r) ==
    LET c == Clone[r]
    IN /\ pc[r] = "salvage"
       /\ c \in dirty
       /\ count[r] <= MaxCommits
       /\ count' = [count EXCEPT ![r] = @ + 1]
       /\ local' = [local EXCEPT ![c] = @ \cup {<<r, count[r] + 1>>}]
       /\ dirty' = dirty \ {c}
       /\ UNCHANGED <<remote, track, tree, scratch, run, history, faults>>

\* Mutant of Salvageable: only a worktree with uncommitted changes is looked at.
SalvageableIfDirty(c) == c \in dirty /\ Ahead(c) # {}

Salvageable(c) == tree[c] # Other /\ Ahead(c) # {}

\* ... unless that fails, and pushed with the commits there are, if it can be.
\* Those are pushed also where the commit has failed.
Salvage(r) ==
    LET c == Clone[r]
    IN /\ pc[r] = "salvage"
       /\ Settle(r, "exhausted")
       /\ \/ /\ c \notin dirty
             /\ IF Salvageable(c)
                THEN PushLands(c) \/ PushFails(c)
                ELSE UNCHANGED <<remote, track, refused, faults>>
          \/ c \in dirty /\ Salvageable(c) /\ Pushed(c) /\ Fault
          \/ Fault /\ UNCHANGED <<remote, track, refused>>
       /\ UNCHANGED <<local, tree, dirty, scratch, attempt, got, over, outcome, count, gone,
                      crowded, dropped, unclean>>

----------------------------------------------------------------------------
(* The end of a run *)

\* The status is recorded.
Stamp(r) ==
    /\ pc[r] = "stamp"
    /\ outcome' = [outcome EXCEPT ![r] = final[r]]
    /\ Goto(r, "remove")
    /\ UNCHANGED <<remote, clone, scratch, attempt, got, over, final, count, history, faults>>

\* What a run knew is gone with it.
Forget(r) ==
    /\ attempt' = [attempt EXCEPT ![r] = 0]
    /\ got' = [got EXCEPT ![r] = NoResult]
    /\ over' = [over EXCEPT ![r] = FALSE]
    /\ final' = [final EXCEPT ![r] = "none"]
    /\ unclean' = unclean \ {r}
    /\ UNCHANGED outcome

\* The worktree is removed, by the run that has one (its path is not empty).
Remove(r) ==
    /\ pc[r] = "remove"
    /\ Goto(r, "done")
    /\ Forget(r)
    /\ IF r \in Sessions
       THEN UNCHANGED <<tree, dirty, dropped>>
       ELSE RemoveTree(Clone[r])
    /\ UNCHANGED <<remote, local, track, scratch, count, refused, gone, crowded, faults>>

\* The process dies, with the agent it has started.
Crash(r) ==
    /\ Fault
    /\ Live(r)
    /\ Goto(r, "dead")
    /\ Forget(r)
    /\ UNCHANGED <<remote, clone, scratch, count, refused, gone, crowded, dropped>>

\* A hosted runner is gone when its runs are.
Dispose(c) ==
    /\ c \in Hosted
    /\ \A r \in Runs : Clone[r] = c => ~Live(r)
    /\ local[c] # {} \/ tree[c] # Other \/ scratch[c] # NoResult
    /\ gone' = gone \cup local[c]
    /\ local' = [local EXCEPT ![c] = {}]
    /\ track' = [track EXCEPT ![c] = {}]
    /\ RemoveTree(c)
    /\ scratch' = [scratch EXCEPT ![c] = NoResult]
    /\ UNCHANGED <<remote, run, count, refused, crowded, unclean, faults>>

\* Somebody else pushes.
OthersPush ==
    /\ count[Other] < MaxCommits
    /\ count' = [count EXCEPT ![Other] = @ + 1]
    /\ remote' = remote \cup {<<Other, count[Other] + 1>>}
    /\ UNCHANGED <<clone, scratch, run, history, faults>>

Prepare(r) == Start(r) \/ FetchBranch(r) \/ Recover(r) \/ Reset(r)
Try(r) == Setup(r) \/ SetupFails(r) \/ Return(r) \/ RateLimited(r) \/ Retry(r) \/ Accept(r) \/ After(r)
Finish(r) ==
    \/ PushNothing(r) \/ PushStep(r) \/ PushUnread(r)
    \/ SalvageCommit(r) \/ Salvage(r) \/ Stamp(r) \/ Remove(r)

Next ==
    \/ \E r \in Runs :
          Prepare(r) \/ Try(r) \/ Edit(r) \/ Commit(r) \/ WriteResult(r) \/ Finish(r) \/ Crash(r)
    \/ \E c \in Clones : Dispose(c)
    \/ OthersPush

Spec == Init /\ [][Next]_vars

\* A run goes on; its agent is killed at the latest when its time is over.
Fairness == WF_vars(\E r \in Runs : (Live(r) /\ Prepare(r)) \/ Try(r) \/ Finish(r))

FairSpec == Spec /\ Fairness

----------------------------------------------------------------------------
(* Properties *)

\* PRODUCT.md, "What lands in git": a run recorded as complete, or for review, has its
\* commits on the remote and left no change behind (_push_step_branch), also when a run
\* before it was still removing the worktree, which is at the same place.
CompleteIsDurable ==
    \A r \in Runs : outcome[r] \in Delivered =>
        CommitsOf(r, count[r]) \subseteq remote /\ r \notin dropped

\* A commit is on the remote or in a clone, whoever died in between
\* (_recover_unpushed_commits, _salvage_exhausted_worktree), unless a push of it was
\* refused or failed, or its clone was a hosted one.
NothingLostInSilence ==
    \A r \in Runs :
        CommitsOf(r, count[r]) \subseteq remote \cup local[Clone[r]] \cup refused \cup gone

\* Once a later run of a clone has its worktree, nothing that an earlier one made is
\* only there (_recover_unpushed_commits, before the branch is reset): it is on the
\* remote, unless a push of it was refused or failed, or an earlier clone was a hosted one.
EarlierRunsRecovered ==
    \A r \in Runs \ Sessions : pc[r] \in {"before", "agent", "read", "after", "push", "salvage"} =>
        \A q \in Runs : q < r /\ Clone[q] = Clone[r] =>
            CommitsOf(q, count[q]) \subseteq remote \cup refused \cup gone

\* A run whose budget was spent has delivered what it had, changes not committed
\* included (_salvage_exhausted_worktree), but for a failure in doing so, and unless the
\* run before it took its worktree away.
SpentIsSalvaged ==
    faults = 0 => \A r \in Runs \ crowded : outcome[r] = "exhausted" =>
        CommitsOf(r, count[r]) \subseteq remote \cup refused /\ r \notin dropped

\* "A re-run does the work again": the result recorded is that of the last attempt of
\* the run itself (agent_lifecycle.before, _read_step_result), unless its scratch
\* directory was not emptied.
ResultIsOwn ==
    \A r \in Runs : got[r].says \in Valid =>
        \/ got[r].by = r /\ got[r].at = attempt[r]
        \/ r \in unclean

\* The records never say more than the remote holds, and the remote only grows.
Vouched == UNION {CommitsOf(r, count[r]) : r \in {q \in Runs : outcome[q] \in Delivered}}

Work == INSTANCE DurableWork WITH made <- Made, durable <- remote, vouched <- Vouched

WorkIsDurable == Work!Spec

\* A run that has begun comes to its end, however often it is tried (max_retries,
\* max_wall_seconds): again and again none is under way.
RunsEnd == []<>(\A r \in Runs : ~Live(r))

\* PRODUCT.md, "What lands in git": a branch left ahead of its remote is pushed by a
\* later tick.  A later run in the same clone has recovered what an earlier one left.
LaterRunsRecover ==
    \A r \in Runs : pc[r] = "before" /\ r \notin Sessions =>
        \A q \in Runs \ {r} : Clone[q] = Clone[r] /\ ~Live(q) =>
            CommitsOf(q, count[q]) \subseteq remote

\* PRODUCT.md, "Headless and interactive": the orchestrator performs every commit "in
\* interactive mode exactly as in headless".
SessionsDeliver ==
    \A r \in Sessions : outcome[r] = "failed" => got[r].says \notin Delivered \/ faults > 0
===============================================================================
