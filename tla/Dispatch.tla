------------------------------- MODULE Dispatch -------------------------------
(***************************************************************************)
(* Which items an orchestrator process takes up, and in what order:        *)
(* process_work_item over the whole backlog, for one headless tick and     *)
(* the sessions people start beside it, each on one item.                  *)
(*                                                                         *)
(* Four things keep a process from starting a step: the markers of the     *)
(* working copy (.pipeline-pause, .pipeline-stop), the blockedby: labels   *)
(* of an item that has not started, the component: labels of the items in  *)
(* flight, and the launch budget of a tick.  Locks, retries, gates and     *)
(* the other statuses are StepLifecycle's: here a step waits, is asked     *)
(* for, runs, is done (:complete or :skipped) or halted (:review,          *)
(* :blocked, :failed, :exhausted), and a step is ready when the one before *)
(* is done.                                                                *)
(***************************************************************************)
EXTENDS Integers, FiniteSets

CONSTANTS
    Items,        \* the open issues
    Turn,         \* Turn[i]: the place of i in the evaluation order
    Components,   \* Components[i]: its component: labels, {} when untagged
    NumSteps,     \* the steps of the flow
    StopOn,       \* StopOn[s]: stop_on_level of step s
    SweepStopOn,  \* stop_on_level of the step of a scheduled flow
    Ticks,        \* the processes that are headless, one after another
    Sessions,     \* the interactive ones
    Target,       \* Target[p]: the item session p was started on
    BlockedBy,    \* BlockedBy[i]: the issues item i waits for at first
    Through,      \* Through[i]: how many steps of it are complete at first
    Asked,        \* bound: the items of which people ask for steps, or skip them
    MaxLaunches,  \* MAX_LAUNCHES_PER_TICK
    MaxActs,      \* bound: how many things people do and how often the rate limit is met
    MaxFaults     \* bound: how many failed calls and crashes there are

Steps == 1..NumSteps
Procs == Ticks \cup Sessions

ASSUME DispatchAssumption ==
    /\ IsFiniteSet(Items)
    /\ Turn \in [Items -> Nat]
    /\ \A i, j \in Items : Turn[i] = Turn[j] => i = j
    /\ NumSteps \in Nat
    /\ \A i \in Items : Components[i] \subseteq UNION {Components[j] : j \in Items}
    /\ StopOn \in [Steps -> 1..3]
    /\ SweepStopOn \in 1..3
    /\ Ticks \cap Sessions = {}
    /\ Target \in [Sessions -> Items]
    /\ BlockedBy \in [Items -> SUBSET Items]
    /\ Through \in [Items -> 0..NumSteps]
    /\ \A i \in Items : BlockedBy[i] # {} => Through[i] = 0
    /\ Asked \subseteq Items
    /\ {MaxLaunches, MaxActs, MaxFaults} \subseteq Nat

VARIABLES
    status,     \* status[i][s]: the label of step s on item i
    announced,  \* the pairs of item and step with an announcement: comments stay
    open,       \* the issues that are open
    blockedby,  \* blockedby[i]: the issues its blockedby: labels name
    blocks,     \* blocks[n]: the issues the blocks: labels of n name
    pause,      \* the pause marker: absent, in force or past its time
    stop,       \* the level of the stop marker: 0 when there is none

    pc,         \* where a process is
    queue,      \* the items it has still to look at
    item,       \* the one it is looking at
    at,         \* the step of it
    view,       \* the statuses it last read or wrote
    barred,     \* the blockedby: labels it last read
    claims,     \* its ComponentClaims: the labels held, whether everything is
    count,      \* tick_launch_count
    level,      \* the stop level it read for this item

    seen,       \* history: the items it saw in flight, or started and did not give back
    charged,    \* history: the steps it started with a lock, less those the rate limit met
    unlocked,   \* history: the steps a tick started without a lock
    raised,     \* history: how often a pause or a stop was set since it woke
    late,       \* history: its starts while one was in force
    held,       \* history: the pairs of item and blocker that nobody has undone
    acts,
    faults

github  == <<status, announced, open, blockedby, blocks>>
markers == <<pause, stop>>
place   == <<pc, queue, item, at>>
read    == <<view, barred, level>>
own     == <<claims, count>>
history == <<seen, charged, unlocked, raised, late, held>>
vars    == <<github, markers, place, read, own, history, acts, faults>>

Status == {"none", "requested", "wip", "done", "halted"}
AllComponents == UNION {Components[i] : i \in Items}
NothingClaimed == [labels |-> {}, all |-> FALSE]

TypeOK ==
    /\ status \in [Items -> [Steps -> Status]]
    /\ announced \subseteq Items \X Steps
    /\ open \subseteq Items
    /\ blockedby \in [Items -> SUBSET Items]
    /\ blocks \in [Items -> SUBSET Items]
    /\ pause \in {"none", "set", "expired"}
    /\ stop \in 0..3
    /\ pc \in [Procs -> {"off", "waking", "next", "unlink", "admit", "steps", "lock",
                         "announce", "run", "sweep"}]
    /\ queue \in [Procs -> SUBSET Items]
    /\ item \in [Procs -> Items]
    /\ at \in [Procs -> 1..(NumSteps + 1)]
    /\ view \in [Procs -> [Items -> [Steps -> Status]]]
    /\ barred \in [Procs -> [Items -> SUBSET Items]]
    /\ claims \in [Procs -> [labels : SUBSET AllComponents, all : BOOLEAN]]
    /\ count \in [Procs -> Nat]
    /\ level \in [Procs -> 0..3]
    /\ seen \in [Procs -> SUBSET Items]
    /\ charged \in [Procs -> Int]
    /\ unlocked \in [Procs -> Nat]
    /\ raised \in [Procs -> Nat]
    /\ late \in [Procs -> Nat]
    /\ held \subseteq Items \X Items
    /\ acts \in 0..MaxActs
    /\ faults \in 0..MaxFaults

Unseen == [i \in Items |-> [s \in Steps |-> "none"]]
AnItem == CHOOSE i \in Items : TRUE

Init ==
    /\ status = [i \in Items |-> [s \in Steps |-> IF s <= Through[i] THEN "done" ELSE "none"]]
    /\ announced = {}
    /\ open = Items
    /\ blockedby = BlockedBy
    /\ blocks = [n \in Items |-> {i \in Items : n \in BlockedBy[i]}]
    /\ pause = "none"
    /\ stop = 0
    /\ pc = [p \in Procs |-> "off"]
    /\ queue = [p \in Procs |-> {}]
    /\ item = [p \in Procs |-> AnItem]
    /\ at = [p \in Procs |-> 1]
    /\ view = [p \in Procs |-> Unseen]
    /\ barred = [p \in Procs |-> [i \in Items |-> {}]]
    /\ claims = [p \in Procs |-> NothingClaimed]
    /\ count = [p \in Procs |-> 0]
    /\ level = [p \in Procs |-> 0]
    /\ seen = [p \in Procs |-> {}]
    /\ charged = [p \in Procs |-> 0]
    /\ unlocked = [p \in Procs |-> 0]
    /\ raised = [p \in Procs |-> 0]
    /\ late = [p \in Procs |-> 0]
    /\ held = {pair \in Items \X Items : pair[2] \in BlockedBy[pair[1]]}
    /\ acts = 0
    /\ faults = 0

----------------------------------------------------------------------------
(* Component claims *)

Fault == faults < MaxFaults /\ faults' = faults + 1

\* Some step of the item carries :wip.
InFlight(labels, i) == \E s \in Steps : labels[i][s] = "wip"

\* Mutant of CanClaim: an untagged item only looks whether another one is untagged.
CanClaimUntagged(held_, names) ==
    ~held_.all /\ names \cap held_.labels = {}

\* All of what the item names or nothing; an untagged item names everything.
CanClaim(held_, names) ==
    /\ ~held_.all
    /\ IF names = {} THEN held_.labels = {} ELSE names \cap held_.labels = {}

Claim(held_, names) ==
    IF names = {} THEN [held_ EXCEPT !.all = TRUE] ELSE [held_ EXCEPT !.labels = @ \cup names]

Unclaim(held_, names) ==
    IF names = {} THEN [held_ EXCEPT !.all = FALSE] ELSE [held_ EXCEPT !.labels = @ \ names]

\* The claims of a set of items in flight.
ClaimsOf(S) ==
    [labels |-> UNION {Components[i] : i \in S},
     all    |-> \E i \in S : Components[i] = {}]

\* Two items, or an item and itself, that must not be in flight together.
Overlap(i, j) ==
    Components[i] = {} \/ Components[j] = {} \/ Components[i] \cap Components[j] # {}

----------------------------------------------------------------------------
(* Waking *)

\* What a run knows is gone with it.
Forget(p) ==
    /\ queue' = [queue EXCEPT ![p] = {}]
    /\ item' = [item EXCEPT ![p] = AnItem]
    /\ at' = [at EXCEPT ![p] = 1]
    /\ view' = [view EXCEPT ![p] = Unseen]
    /\ barred' = [barred EXCEPT ![p] = [i \in Items |-> {}]]
    /\ level' = [level EXCEPT ![p] = 0]
    /\ claims' = [claims EXCEPT ![p] = NothingClaimed]
    /\ count' = [count EXCEPT ![p] = 0]
    /\ seen' = [seen EXCEPT ![p] = {}]
    /\ charged' = [charged EXCEPT ![p] = 0]
    /\ unlocked' = [unlocked EXCEPT ![p] = 0]
    /\ raised' = [raised EXCEPT ![p] = 0]
    /\ late' = [late EXCEPT ![p] = 0]
    /\ UNCHANGED held

\* The items and labels are fetched and the claims seeded from them, unless a
\* full stop keeps a headless process from waking.
Fetch(p) ==
    LET mine == IF p \in Ticks THEN open ELSE {Target[p]}
        busy == {i \in mine : InFlight(status, i)}
    IN /\ p \in Ticks => stop < 3
       /\ pc' = [pc EXCEPT ![p] = "next"]
       /\ queue' = [queue EXCEPT ![p] = mine]
       /\ view' = [view EXCEPT ![p] = [i \in Items |-> IF i \in mine THEN status[i] ELSE Unseen[i]]]
       /\ barred' = [barred EXCEPT ![p] = [i \in Items |-> IF i \in mine THEN blockedby[i] ELSE {}]]
       /\ claims' = [claims EXCEPT ![p] = ClaimsOf(busy)]
       /\ seen' = [seen EXCEPT ![p] = IF p \in Ticks THEN busy ELSE {}]
       /\ UNCHANGED <<item, at, level, count, charged, unlocked, raised, late, held>>

\* Mutant of UnderBudget: one too many.
UpToBudget(p) == count[p] <= MaxLaunches

UnderBudget(p) == count[p] < MaxLaunches

\* A marker in force ends the run before it begins.
Wake(p) ==
    /\ pc[p] = "off"
    /\ pause = "none"
    /\ Fetch(p)
    /\ UNCHANGED <<github, markers, acts, faults>>

\* A marker past its time has been read, and is taken away in a second step.
WakeExpired(p) ==
    /\ pc[p] = "off"
    /\ pause = "expired"
    /\ pc' = [pc EXCEPT ![p] = "waking"]
    /\ UNCHANGED <<github, markers, queue, item, at, read, own, history, acts, faults>>

\* Whatever marker is there now: another process may have written a new one.
WakeUnlink(p) ==
    /\ pc[p] = "waking"
    /\ pause' = "none"
    /\ IF p \in Ticks /\ stop = 3
       THEN pc' = [pc EXCEPT ![p] = "off"] /\ UNCHANGED <<queue, item, at, read, own, history>>
       ELSE Fetch(p)
    /\ UNCHANGED <<github, stop, acts, faults>>

----------------------------------------------------------------------------
(* One item after the other *)

\* On to the next item: what the process knew of this one is not used again.
Leave(p) ==
    /\ pc' = [pc EXCEPT ![p] = "next"]
    /\ item' = [item EXCEPT ![p] = AnItem]
    /\ at' = [at EXCEPT ![p] = 1]
    /\ view' = [view EXCEPT ![p][item[p]] = Unseen[item[p]]]
    /\ barred' = [barred EXCEPT ![p][item[p]] = {}]
    /\ level' = [level EXCEPT ![p] = 0]

IsNext(p, i) == i \in queue[p] /\ \A j \in queue[p] : Turn[i] <= Turn[j]

Running(i, s) == \E p \in Procs : pc[p] = "run" /\ item[p] = i /\ at[p] = s

\* The lock of a run that is over: its lease is StepLifecycle's.
Outlived(p, i, s) == view[p][i][s] = "wip" /\ status[i][s] = "wip" /\ ~Running(i, s)

\* Mutant of Stranded: only the first step is looked at.
StrandedAtEntry(p, i) == {s \in Steps : s = 1 /\ Outlived(p, i, s) /\ <<i, s>> \in announced}

\* The locks that are taken back.  Without an announcement a lock has no age, and is
\* not touched; which run the announcement is of is not asked.
Stranded(p, i) == {s \in Steps : Outlived(p, i, s) /\ <<i, s>> \in announced}

Halted(labels, i, S) == [labels EXCEPT ![i] = [s \in Steps |-> IF s \in S THEN "halted" ELSE @[s]]]

\* The item is entered: what is stranded on it is reclaimed.
Enter(p, i) ==
    /\ status' = Halted(status, i, Stranded(p, i))
    /\ view' = [view EXCEPT ![p] = Halted(@, i, Stranded(p, i))]
    /\ pc' = [pc EXCEPT ![p] = "admit"]
    /\ queue' = [queue EXCEPT ![p] = @ \ {i}]
    /\ item' = [item EXCEPT ![p] = i]
    /\ UNCHANGED <<announced, open, blockedby, blocks, stop, at, barred, level, own, history, acts, faults>>

Take(p, i) ==
    /\ pc[p] = "next"
    /\ IsNext(p, i)
    /\ UnderBudget(p)
    /\ pause = "none"
    /\ Enter(p, i)
    /\ UNCHANGED pause

TakeExpired(p, i) ==
    /\ pc[p] = "next"
    /\ IsNext(p, i)
    /\ UnderBudget(p)
    /\ pause = "expired"
    /\ pc' = [pc EXCEPT ![p] = "unlink"]
    /\ UNCHANGED <<github, markers, queue, item, at, read, own, history, acts, faults>>

TakeUnlink(p, i) ==
    /\ pc[p] = "unlink"
    /\ IsNext(p, i)
    /\ Enter(p, i)
    /\ pause' = "none"

\* A pause is looked for before every item.
PassOver(p, i) ==
    /\ pc[p] = "next"
    /\ IsNext(p, i)
    /\ UnderBudget(p)
    /\ pause = "set"
    /\ queue' = [queue EXCEPT ![p] = @ \ {i}]
    /\ UNCHANGED <<github, markers, pc, item, at, read, own, history, acts, faults>>

\* An item is not held up once a step of it has a status, a request or a skip too.
Started(p) == \E s \in Steps : view[p][item[p]][s] # "none"

\* Mutant of StillBlocked: an issue whose state cannot be read does not block.
StillBlockedIfRead(n, unread) == n \in open \ unread

\* An issue that is open, or whose state cannot be read, blocks.
StillBlocked(n, unread) == n \in open \/ n \in unread

\* blockedby: and blocks: come off where the blocking issue is closed, each in a
\* call of its own; then an item that has not started waits for the rest.
Admit(p) ==
    LET i    == item[p]
        shut == barred[p][i] \ open
    IN /\ pc[p] = "admit"
       /\ \E unread \in SUBSET barred[p][i], gone \in SUBSET shut, cleared \in SUBSET shut :
             /\ IF unread = {} /\ gone = shut /\ cleared = shut THEN UNCHANGED faults ELSE Fault
             /\ blockedby' = [blockedby EXCEPT ![i] = @ \ gone]
             /\ blocks' = [n \in Items |-> IF n \in cleared THEN blocks[n] \ {i} ELSE blocks[n]]
             /\ IF ~Started(p) /\ \E n \in barred[p][i] \ gone : StillBlocked(n, unread)
                THEN Leave(p)
                ELSE /\ pc' = [pc EXCEPT ![p] = "steps"]
                     /\ barred' = [barred EXCEPT ![p][i] = {}]
                     /\ level' = [level EXCEPT ![p] = IF p \in Ticks THEN stop ELSE 0]
                     /\ UNCHANGED <<item, at, view>>
       /\ UNCHANGED <<status, announced, open, markers, queue, own, history, acts>>

----------------------------------------------------------------------------
(* One step after the other *)

\* Mutant of Ready: the stop level is not asked for.
ReadyAtAnyLevel(p, s) ==
    /\ view[p][item[p]][s] \in {"none", "requested"}
    /\ s > 1 => view[p][item[p]][s - 1] = "done"

\* Ready by its labels, and not covered by the stop level of this item's pass.
Ready(p, s) ==
    /\ view[p][item[p]][s] \in {"none", "requested"}
    /\ s > 1 => view[p][item[p]][s - 1] = "done"
    /\ level[p] < StopOn[s]

IsNextStep(p, s) == s >= at[p] /\ Ready(p, s) /\ \A r \in at[p]..(s - 1) : ~Ready(p, r)

\* A session reads the labels of all other items again; a tick has its own claims.
Busy(p) == {j \in open \ {item[p]} : InFlight(status, j)}
Claims(p) == IF p \in Ticks THEN claims[p] ELSE ClaimsOf(Busy(p))

Looked(p) == seen' = [seen EXCEPT ![p] = IF p \in Ticks THEN @ ELSE Busy(p)]

\* The step is to be started ...
Choose(p, s) ==
    /\ pc[p] = "steps"
    /\ IsNextStep(p, s)
    /\ CanClaim(Claims(p), Components[item[p]])
    /\ UnderBudget(p)
    /\ pc' = [pc EXCEPT ![p] = "lock"]
    /\ at' = [at EXCEPT ![p] = s]
    /\ Looked(p)
    /\ UNCHANGED <<github, markers, queue, item, read, own, charged, unlocked,
                   raised, late, held, acts, faults>>

\* ... or cannot claim what it needs, or the labels cannot be read ...
Refuse(p, s) ==
    /\ pc[p] = "steps"
    /\ IsNextStep(p, s)
    /\ \/ ~CanClaim(Claims(p), Components[item[p]]) /\ UNCHANGED faults
       \/ p \in Sessions /\ Fault
    /\ at' = [at EXCEPT ![p] = s + 1]
    /\ UNCHANGED <<github, markers, pc, queue, item, read, own, history, acts>>

\* ... or no step of the item is left to start, or none may be.
LeaveItem(p) ==
    /\ pc[p] = "steps"
    /\ \A s \in Steps : IsNextStep(p, s) =>
          CanClaim(Claims(p), Components[item[p]]) /\ ~UnderBudget(p)
    /\ Leave(p)
    /\ UNCHANGED <<github, markers, queue, own, history, acts, faults>>

\* A marker that a headless process would not start step s under, had it looked now.
InForce(s) == pause = "set" \/ stop >= StopOn[s]

Launch(p) ==
    /\ pc[p] = "lock"
    /\ pc' = [pc EXCEPT ![p] = "announce"]
    /\ late' = [late EXCEPT ![p] = IF p \in Ticks /\ InForce(at[p]) THEN @ + 1 ELSE @]
    /\ UNCHANGED <<announced, open, blockedby, blocks, markers, queue, item, at, barred, level,
                   raised, held, acts>>

Labelled(labels, i, s, new) == [labels EXCEPT ![i] = [@ EXCEPT ![s] = new]]

\* A label is taken off where it is on.
Without(labels, i, s, old) ==
    Labelled(labels, i, s, IF labels[i][s] = old THEN "none" ELSE labels[i][s])

\* A request comes off, the :wip goes on, and with it the claim and the count ...
Lock(p) ==
    LET i == item[p]  s == at[p]
    IN /\ Launch(p)
       /\ status' = Labelled(status, i, s, "wip")
       /\ view' = [view EXCEPT ![p] = Labelled(@, i, s, "wip")]
       /\ claims' = [claims EXCEPT ![p] = Claim(@, Components[i])]
       /\ count' = [count EXCEPT ![p] = @ + 1]
       /\ seen' = [seen EXCEPT ![p] = @ \cup {i}]
       /\ charged' = [charged EXCEPT ![p] = @ + 1]
       /\ UNCHANGED <<unlocked, faults>>

\* ... or it does not, and the step runs all the same, unclaimed and uncounted.
LockFails(p) ==
    LET i == item[p]  s == at[p]
    IN /\ Fault
       /\ Launch(p)
       /\ status' = IF view[p][i][s] = "requested"
                    THEN Without(status, i, s, "requested") ELSE status
       /\ view' = [view EXCEPT ![p] = Without(@, i, s, "requested")]
       /\ unlocked' = [unlocked EXCEPT ![p] = IF p \in Ticks THEN @ + 1 ELSE @]
       /\ UNCHANGED <<own, seen, charged>>

\* The start is announced, in a call of its own.
Announce(p) ==
    /\ pc[p] = "announce"
    /\ \/ announced' = announced \cup {<<item[p], at[p]>>} /\ UNCHANGED faults
       \/ Fault /\ UNCHANGED announced
    /\ pc' = [pc EXCEPT ![p] = "run"]
    /\ UNCHANGED <<status, open, blockedby, blocks, markers, queue, item, at, read, own,
                   history, acts>>

\* The step ends; the labels of the item are read again.
Complete(p) ==
    LET i == item[p]
    IN /\ pc[p] = "run"
       /\ status' = Labelled(status, i, at[p], "done")
       /\ view' = [view EXCEPT ![p][i] = status'[i]]
       /\ pc' = [pc EXCEPT ![p] = "steps"]
       /\ at' = [at EXCEPT ![p] = @ + 1]
       /\ UNCHANGED <<announced, open, blockedby, blocks, markers, queue, item, barred, level,
                      own, history, acts, faults>>

\* A step that fails, or ends in review, ends the pass over its item.
Halt(p) ==
    /\ pc[p] = "run"
    /\ status' = Labelled(status, item[p], at[p], "halted")
    /\ Leave(p)
    /\ UNCHANGED <<announced, open, blockedby, blocks, markers, queue, own, history, acts, faults>>

Act == acts < MaxActs /\ acts' = acts + 1

Raised == raised' = [p \in Procs |-> IF p \in Ticks /\ pc[p] # "off" THEN raised[p] + 1 ELSE 0]

OneLess(n) == IF n > 0 THEN n - 1 ELSE 0

\* The rate limit: everything pauses, and lock, claim and count are given back,
\* the lock in a call whose failure is passed over.
RateLimited(p) ==
    LET i == item[p]
    IN /\ pc[p] = "run"
       /\ Act
       /\ pause' = "set"
       /\ Raised
       /\ \/ /\ status' = Without(status, i, at[p], "wip")
             /\ UNCHANGED faults
          \/ Fault /\ UNCHANGED status
       /\ claims' = [claims EXCEPT ![p] = Unclaim(@, Components[i])]
       /\ count' = [count EXCEPT ![p] = OneLess(@)]
       /\ charged' = [charged EXCEPT ![p] = @ - 1]
       /\ seen' = [seen EXCEPT ![p] = @ \ {i}]
       /\ Leave(p)
       /\ UNCHANGED <<announced, open, blockedby, blocks, stop, queue, unlocked, late, held>>

----------------------------------------------------------------------------
(* The end of a run *)

ItemsDone(p) == pc[p] = "next" /\ (queue[p] = {} \/ ~UnderBudget(p))

\* A tick turns to the scheduled flows, whose claims are ScheduleClaim's: no
\* marker is looked at again.
Sweep(p) ==
    /\ ItemsDone(p)
    /\ p \in Ticks
    /\ pc' = [pc EXCEPT ![p] = "sweep"]
    /\ UNCHANGED <<github, markers, queue, item, at, read, own, history, acts, faults>>

End(p) ==
    /\ ItemsDone(p) \/ pc[p] = "sweep"
    /\ pc' = [pc EXCEPT ![p] = "off"]
    /\ Forget(p)
    /\ UNCHANGED <<github, markers, acts, faults>>

\* A process dies: its locks stay.
Crash(p) ==
    /\ Fault
    /\ pc[p] # "off"
    /\ pc' = [pc EXCEPT ![p] = "off"]
    /\ Forget(p)
    /\ UNCHANGED <<github, markers, acts>>

----------------------------------------------------------------------------
(* What happens around them *)

\* Time passes: a pause is over.
PauseExpires ==
    /\ pause = "set"
    /\ pause' = "expired"
    /\ UNCHANGED <<github, stop, place, read, own, history, acts, faults>>

\* A person closes an issue, or opens it again.
CloseOrReopen(n) ==
    /\ Act
    /\ open' = (open \ {n}) \cup ({n} \ open)
    /\ held' = {pair \in held : pair[2] # n}
    /\ UNCHANGED <<status, announced, blockedby, blocks, markers, place, read, own, seen, charged, unlocked, raised, late, faults>>

\* A person takes a blockedby: label away.
Unblock(i, n) ==
    /\ Act
    /\ n \in blockedby[i]
    /\ blockedby' = [blockedby EXCEPT ![i] = @ \ {n}]
    /\ held' = held \ {<<i, n>>}
    /\ UNCHANGED <<status, announced, open, blocks, markers, place, read, own, seen, charged, unlocked, raised, late, faults>>

\* An operator stops the pipeline at some level; --clear-stop takes the marker away.
SetStop ==
    /\ Act
    /\ \E to \in (0..3) \ {stop} : stop' = to
    /\ IF stop' > stop THEN Raised ELSE UNCHANGED raised
    /\ UNCHANGED <<github, pause, place, read, own, seen, charged, unlocked, late,
                   held, faults>>

\* --clear-pause.  It needs no bound: only the rate limit puts a pause there.
ClearPause ==
    /\ pause # "none"
    /\ pause' = "none"
    /\ UNCHANGED <<github, stop, place, read, own, history, acts, faults>>

\* A person asks for a step of an item, or skips it.
Instruct(i, s) ==
    /\ Act
    /\ i \in Asked
    /\ status[i][s] = "none"
    /\ \E new \in {"requested", "done"} : status' = Labelled(status, i, s, new)
    /\ held' = {pair \in held : pair[1] # i}
    /\ UNCHANGED <<announced, open, blockedby, blocks, markers, place, read, own, seen, charged,
                   unlocked, raised, late, faults>>

\* A person takes a halt away, so that the step may run again, or approves what it is
\* about, or skips it.
ClearHalt(i, s) ==
    /\ Act
    /\ status[i][s] = "halted"
    /\ \E new \in {"none", "done"} : status' = Labelled(status, i, s, new)
    /\ UNCHANGED <<announced, open, blockedby, blocks, markers, place, read, own, history, faults>>

People ==
    \/ \E n \in Items : CloseOrReopen(n)
    \/ \E i, n \in Items : Unblock(i, n)
    \/ SetStop
    \/ ClearPause
    \/ \E i \in Items, s \in Steps : Instruct(i, s) \/ ClearHalt(i, s)

\* What a process does once it is awake, a run of a step included.
Work(p) ==
    \/ WakeUnlink(p)
    \/ \E i \in Items : Take(p, i) \/ TakeExpired(p, i) \/ TakeUnlink(p, i) \/ PassOver(p, i)
    \/ Admit(p)
    \/ \E s \in Steps : Choose(p, s) \/ Refuse(p, s)
    \/ LeaveItem(p)
    \/ Lock(p) \/ LockFails(p) \/ Announce(p)
    \/ Complete(p) \/ Halt(p) \/ RateLimited(p)
    \/ Sweep(p) \/ End(p)

Next ==
    \/ \E p \in Procs : Wake(p) \/ WakeExpired(p) \/ Work(p) \/ Crash(p)
    \/ PauseExpires
    \/ People

Spec == Init /\ [][Next]_vars

\* Ticks go on being started, a run that has begun goes on and ends (max_wall_seconds),
\* and time passes.  Nobody has to start a session.
Fairness ==
    /\ \A p \in Procs : WF_vars(Work(p))
    /\ \A p \in Ticks : WF_vars(Wake(p) \/ WakeExpired(p))
    /\ WF_vars(PauseExpires)

FairSpec == Spec /\ Fairness

----------------------------------------------------------------------------
(* Properties *)

\* A step is started only on an item that overlaps nothing its process saw in
\* flight, or started and did not give back (ComponentClaims, _seed_component_claims,
\* _fresh_component_claims, the roll-back in process_work_item): what is left are the
\* starts nobody could see.
StartsSpareSeen ==
    \A p \in Procs : pc[p] = "lock" => \A j \in seen[p] : ~Overlap(item[p], j)

\* The budget of a run (_should_run, _do_work): no more starts than it allows, but
\* for those whose lock could not be set, which nobody counts, and those that met
\* the rate limit, which are given back.
BudgetHolds ==
    \A p \in Procs : charged[p] <= MaxLaunches

\* A stop or a pause lets at most the step through that was already being chosen
\* (_check_controls and is_pipeline_stopped once per item): every time one is set,
\* each tick starts at most one more step under it, and one for each lock that failed.
ControlsTakeHold ==
    \A p \in Ticks : late[p] <= raised[p] + unlocked[p]

\* blockedby: an item no step of which has got a status waits while an issue that it has
\* been waiting for since then is open (_clear_satisfied_blocks,
\* _is_blocked_from_starting), whatever fails.  A person's request or skip is a status,
\* and ends the wait (_work_item_has_started).
BlockedWaits ==
    \A pair \in held :
        /\ \A s \in Steps : status[pair[1]][s] = "none"
        /\ \A p \in Procs : pc[p] \in {"steps", "lock", "announce", "run"} => item[p] # pair[1]

\* Everything is done, or something waits for a person.
Rested(i) ==
    \/ \A s \in Steps : status[i][s] = "done"
    \/ \E s \in Steps : status[i][s] = "halted"

\* A lock that no process holds and whose start was never announced.
Abandoned(i) ==
    \E s \in Steps :
        /\ status[i][s] = "wip" /\ <<i, s>> \notin announced
        /\ ~\E p \in Procs : pc[p] \in {"announce", "run"} /\ item[p] = i /\ at[p] = s

\* An item that nothing keeps back any more comes to rest: locks that a crash or a lost
\* call left behind keep nobody waiting for good (_reclaim_stale_wip), but for those
\* without an announcement, which a person has to take off.
ItemsComeToRest ==
    \A i \in Items :
        <>[](/\ stop = 0 /\ i \in open /\ blockedby[i] \cap open = {}
             /\ \A j \in open : Overlap(i, j) => ~Abandoned(j))
            => []<>Rested(i)

\* PRODUCT.md, "Ordering, dependency, and concurrency": "An issue carrying `blockedby:
\* {N}` while `N` is still open is not eligible to start at all."
BlockedItemsWait ==
    [][\A p \in Procs :
          LET i == item[p]
          IN  pc[p] = "steps" /\ pc'[p] = "lock" /\ blockedby[i] \cap open # {}
                => \E s \in Steps : status[i][s] \in {"wip", "done", "halted"}]_vars

\* PRODUCT.md, of a step that just stops existing: "a `:wip` older than that step's
\* wall-clock budget cannot still be legitimately running, so the orchestrator takes the
\* lock back".
LocksAreTakenBack ==
    \A i \in Items :
        <>[](stop = 0 /\ i \in open /\ blockedby[i] \cap open = {}) => []<>Rested(i)

\* PRODUCT.md, "A component label lets unrelated work run at once": "at most one issue
\* per component is in flight at a time, headless and interactive combined".
OnePerComponent ==
    \A p, q \in Procs :
        pc[p] = "run" /\ pc[q] = "run" /\ Overlap(item[p], item[q]) => item[p] = item[q]

\* PRODUCT.md, "The emergency stop": the orchestrator checks for the marker before
\* invoking any step, and blocks every step whose level it covers.
StopCoversSweeps ==
    [][\A p \in Ticks : pc[p] # "sweep" /\ pc'[p] = "sweep" => stop < SweepStopOn]_vars
===============================================================================
