------------------------------ MODULE Aggregation ------------------------------
(***************************************************************************)
(* The scheduled flows that add up the ledger: once a day the records of   *)
(* the day before, once a week those of the week before, and two hours     *)
(* later the report of it.                                                 *)
(*                                                                         *)
(* Time is counted in hours of a short day and days of a short week, in    *)
(* UTC.  Cadences are cron expressions read in the local time of the       *)
(* pipeline, whose distance to UTC changes twice; the buckets that are     *)
(* added up are days and weeks of UTC.  When a claim outlives its holder   *)
(* is ScheduleClaim's subject, and how a record reaches the ledger is      *)
(* MetricsLedger's: here a record of a run is in the ledger once.          *)
(***************************************************************************)
EXTENDS Integers, Sequences, FiniteSets

CONSTANTS
    Runs,       \* the runs of steps that the ledger is about
    Ends,       \* bound: the hours at which they may end
    Sweepers,   \* the orchestrator processes
    Hours,      \* of a day
    Days,       \* of a week
    Horizon,    \* bound: how far the clock goes
    Offset,     \* Offset[t]: local time is t + Offset[t]
    Star,       \* the field * of a cron expression
    Cron,       \* Cron[f]: the hours, days of the month and of the week of flow f
    MaxSlow,    \* bound: the hours that go by while a tick is at its flows
    MaxFaults   \* bound: lost answers, failed reads and appends, crashes, idle hours

FlowNames == {"week", "day", "report"}

\* Their order in pipeline.json, which is the order of a tick.
Rank == [week |-> 1, day |-> 2, report |-> 3]

Periods == {"week", "day"}

Time == 0..Horizon
Never == -1

ASSUME AggregationAssumption ==
    /\ {Hours, Days} \subseteq Nat \ {0}
    /\ {Horizon, MaxSlow, MaxFaults} \subseteq Nat
    /\ Offset \in [Time -> Int]
    /\ Ends \subseteq Time
    /\ DOMAIN Cron = FlowNames

VARIABLES
    now,
    ended,     \* ended[r]: the timestamp_end of the run
    raw,       \* the runs whose record is in the ledger
    rows,      \* the aggregate rows in the ledger
    last,      \* last[f]: the newest run record of flow f, by the firings up to it

    pc,        \* where a sweeper is
    todo,      \* todo[s]: the flows that were due when it began, still to be looked at
    plan,      \* plan[s]: the rows it is about to append
    stamp,     \* stamp[s]: the timestamp_end of the run record it is about to append, likewise
    held,      \* the flows whose newest bookkeeping record is a claim

    raced,     \* history: the sweepers that have not been alone at work on their flow
    crossed,   \* history: the rows that such sweepers appended, by place
    inTime,    \* inTime[r]: history: the periods whose bucket was not over when its record came
    slow,
    faults

ledger  == <<raw, rows, crossed, last>>
claim   == <<held, raced>>
sweep   == <<pc, todo, plan, stamp, claim>>
vars    == <<now, ended, ledger, sweep, inTime, slow, faults>>

----------------------------------------------------------------------------
(* Cadences *)

Local(t) == t + Offset[t]
HourOf(t) == Local(t) % Hours
DayOf(t)  == Local(t) \div Hours

FieldMatches(field, v) == field = Star \/ v \in field

\* With both day fields restricted, either will do.
DayMatches(e, t) ==
    IF e.dom # Star /\ e.dow # Star
    THEN DayOf(t) \in e.dom \/ DayOf(t) % Days \in e.dow
    ELSE FieldMatches(e.dom, DayOf(t)) /\ FieldMatches(e.dow, DayOf(t) % Days)

CronMatches(e, t) == FieldMatches(e.hour, HourOf(t)) /\ DayMatches(e, t)

\* The firings of each flow, in UTC: an hour that the clocks leave out has
\* none, one that they go through twice has two.
Firings == [f \in FlowNames |-> {t \in Time : CronMatches(Cron[f], t)}]

\* mutant: a cadence has come round when its day has
RoundsByDay ==
    [f \in FlowNames |->
        [t \in Time |-> 1 + Cardinality({u \in Firings[f] : u \div Hours <= t \div Hours})]]

\* A time tells a flow no more than how many firings it is not before: 1 and
\* up, so that 0 stands for a flow that never ran.
Rounds ==
    [f \in FlowNames |-> [t \in Time |-> 1 + Cardinality({u \in Firings[f] : u <= t})]]

\* mutant: the flow runs when it has missed one
DueAfterMiss(f, ran, t) == ran + 1 < Rounds[f][t]

\* A flow that never ran is due, and one whose cadence came round since.
Due(f, ran, t) == ran < Rounds[f][t]

----------------------------------------------------------------------------
(* Buckets *)

Length(p) == IF p = "week" THEN Days * Hours ELSE Hours

\* The bucket that a sweep at t adds up: the last one that is over.
BucketStart(p, t) == (t \div Length(p) - 1) * Length(p)

\* The bucket of a time, counted from the beginning.
Bucket(p, t) == (t \div Length(p)) * Length(p)

BucketEnd(p, start) == start + Length(p) - 1

InBucket(p, start, t) == start <= t /\ t <= BucketEnd(p, start)

\* mutant: the flow looks only for what it has just done itself
AlreadyAggregatedNever(p, start) == FALSE

AlreadyAggregated(p, start) ==
    \E i \in DOMAIN rows : rows[i].period = p /\ rows[i].start = start

\* mutant: rows of a shorter period are records too
OldRowsCounted(p, start) ==
    {<<rows[i].period, rows[i].start>> :
        i \in {k \in DOMAIN rows : InBucket(p, start, BucketEnd(rows[k].period, rows[k].start))}}

\* Aggregate rows are left out of every sum.
OldRows(p, start) == {}

\* What is added up: the records of the bucket that have arrived.
Counted(p, start) == {r \in raw : InBucket(p, start, ended[r])} \cup OldRows(p, start)

\* compute_blended_record: every figure of the row is a sum over the records
\* counted; "saw" is history.
Row(p, start) == [period |-> p, start |-> start, counts |-> Counted(p, start), saw |-> raw]

\* compute_period_aggregates: no row, or one (its breakdown by agent left out).
Aggregates(p, t) ==
    LET start == BucketStart(p, t)
    IN  IF AlreadyAggregated(p, start) \/ Counted(p, start) = {} THEN <<>>
        ELSE <<Row(p, start)>>

\* read_aggregate_records: the buckets that a report can draw.
Drawn(p) == {rows[i].start : i \in {k \in DOMAIN rows : rows[k].period = p}}

----------------------------------------------------------------------------
TypeOK ==
    /\ now \in Time
    /\ ended \in [Runs -> {Never} \cup Ends]
    /\ raw \subseteq {r \in Runs : ended[r] # Never}
    /\ \A i \in DOMAIN rows :
        /\ rows[i].period \in Periods
        /\ rows[i].start \in Time
        /\ rows[i].saw \subseteq raw
        /\ rows[i].counts # {}
    /\ last \in [FlowNames -> 0..Horizon + 2]
    /\ pc \in [Sweepers -> {"off", "choose", "claim", "read", "append", "record"}]
    /\ todo \in [Sweepers -> SUBSET FlowNames]
    /\ \A s \in Sweepers : Len(plan[s]) <= 1
    /\ stamp \in [Sweepers -> 0..Horizon + 2]
    /\ held \subseteq FlowNames
    /\ raced \subseteq Sweepers
    /\ crossed \subseteq DOMAIN rows
    /\ inTime \in [Runs -> SUBSET Periods]
    /\ slow \in 0..MaxSlow
    /\ faults \in 0..MaxFaults

Init ==
    /\ now = 0
    /\ ended = [r \in Runs |-> Never]
    /\ raw = {}
    /\ rows = <<>>
    /\ last = [f \in FlowNames |-> 0]
    /\ pc = [s \in Sweepers |-> "off"]
    /\ todo = [s \in Sweepers |-> {}]
    /\ plan = [s \in Sweepers |-> <<>>]
    /\ stamp = [s \in Sweepers |-> 0]
    /\ held = {}
    /\ raced = {}
    /\ crossed = {}
    /\ inTime = [r \in Runs |-> {}]
    /\ slow = 0
    /\ faults = 0

Fault == faults < MaxFaults /\ faults' = faults + 1

Goto(s, where) == pc' = [pc EXCEPT ![s] = where]

FirstOf(flows) == CHOOSE f \in flows : \A g \in flows : Rank[f] <= Rank[g]

\* The flow a sweeper is at: the first of those left.
Flow(s) == FirstOf(todo[s])

Off(s) == pc[s] = "off"

----------------------------------------------------------------------------
(* The world *)

DueNow == {f \in FlowNames : Due(f, last[f], now)}

Idle == \A s \in Sweepers : Off(s)

\* An hour passes.  That it passes over a tick happens MaxSlow times; that a
\* flow is due, and nobody looks at it all the hour, is a fault.
Tick ==
    /\ now < Horizon
    /\ now' = now + 1
    /\ IF Idle THEN UNCHANGED slow ELSE slow < MaxSlow /\ slow' = slow + 1
    /\ IF Idle /\ DueNow # {} THEN Fault ELSE UNCHANGED faults
    /\ UNCHANGED <<ended, ledger, sweep, inTime>>

\* A step of some item ends; its record is appended then or later.
RunEnds(r) ==
    /\ ended[r] = Never
    /\ now \in Ends
    /\ ended' = [ended EXCEPT ![r] = now]
    /\ UNCHANGED <<now, ledger, sweep, inTime, slow, faults>>

RecordArrives(r) ==
    /\ ended[r] # Never
    /\ r \notin raw
    /\ raw' = raw \cup {r}
    /\ inTime' = [inTime EXCEPT ![r] = {p \in Periods : now < Bucket(p, ended[r]) + Length(p)}]
    /\ UNCHANGED <<now, ended, rows, crossed, last, sweep, slow, faults>>

----------------------------------------------------------------------------
(* A tick of the orchestrator *)

\* The newest record of the flow is a claim: not a release, nor one too old.
Held(f) == f \in held

\* At work on its flow, with a claim of its own on the ledger.
Working(s) == pc[s] \in {"read", "append", "record"}

\* It takes the time and reads the ledger, once for all its flows.
Begin(s) ==
    /\ Off(s)
    /\ DueNow # {}
    /\ Goto(s, "choose")
    /\ todo' = [todo EXCEPT ![s] = DueNow]
    /\ UNCHANGED <<now, ended, ledger, plan, stamp, claim, inTime, slow, faults>>

\* The tick is over, or goes on with the flows left.
Resume(s, left) ==
    /\ Goto(s, IF left = {} THEN "off" ELSE "choose")
    /\ todo' = [todo EXCEPT ![s] = left]
    /\ plan' = [plan EXCEPT ![s] = <<>>]
    /\ stamp' = [stamp EXCEPT ![s] = 0]
    /\ raced' = raced \ {s}

Onward(s) == Resume(s, todo[s] \ {Flow(s)})

\* The release is the newest record of the flow, whoever else has claimed it.
GiveBack(s) == held' = IF Working(s) THEN held \ {Flow(s)} ELSE held

\* The claim of the flow is held.
Skip(s) ==
    /\ pc[s] = "choose"
    /\ Held(Flow(s))
    /\ Onward(s)
    /\ UNCHANGED <<now, ended, ledger, held, inTime, slow, faults>>

\* The records say that it is free.  The claim is appended later, onto whatever
\* the tip is by then.
Take(s) ==
    /\ pc[s] = "choose"
    /\ ~Held(Flow(s))
    /\ Goto(s, "claim")
    /\ UNCHANGED <<now, ended, ledger, todo, plan, stamp, claim, inTime, slow, faults>>

\* The others that are at work on the flow that s is about to claim.
Rivals(s) == {t \in Sweepers \ {s} : Working(t) /\ Flow(t) = Flow(s)}

Claim(s) ==
    /\ pc[s] = "claim"
    /\ Goto(s, "read")
    /\ held' = held \cup {Flow(s)}
    /\ raced' = IF Rivals(s) = {} THEN raced ELSE raced \cup Rivals(s) \cup {s}
    /\ UNCHANGED <<now, ended, ledger, todo, plan, stamp, inTime, slow, faults>>

\* It is not retried when something else was pushed first, or it cannot be made.
ClaimRefused(s) ==
    /\ pc[s] = "claim"
    /\ Onward(s)
    /\ UNCHANGED <<now, ended, ledger, held, inTime, slow, faults>>

\* The step of the flow is over; its run is recorded next.
StepEnds(s) ==
    /\ Goto(s, "record")
    /\ stamp' = [stamp EXCEPT ![s] = Rounds[Flow(s)][now]]
    /\ plan' = [plan EXCEPT ![s] = <<>>]
    /\ UNCHANGED <<todo, claim>>

\* metrics_aggregator reads the ledger, for the bucket of its own time.
Read(s) ==
    /\ pc[s] = "read"
    /\ Flow(s) # "report"
    /\ LET new == Aggregates(Flow(s), now)
       IN  IF new = <<>> THEN StepEnds(s)
           ELSE /\ Goto(s, "append")
                /\ plan' = [plan EXCEPT ![s] = new]
                /\ UNCHANGED <<todo, stamp, claim>>
    /\ UNCHANGED <<now, ended, ledger, inTime, slow, faults>>

\* metrics_report draws the rows that are there; it changes none.
Report(s) ==
    /\ pc[s] = "read"
    /\ Flow(s) = "report"
    /\ StepEnds(s)
    /\ UNCHANGED <<now, ended, ledger, inTime, slow, faults>>

\* A fetch that fails ends the step, which counts as a run all the same.
ReadFails(s) ==
    /\ pc[s] = "read"
    /\ Fault
    /\ StepEnds(s)
    /\ UNCHANGED <<now, ended, ledger, inTime, slow>>

\* All rows of the bucket in one commit.  It is not looked again whether the
\* bucket has been added up in the meantime.
AppendRows(s) ==
    /\ pc[s] = "append"
    /\ rows' = rows \o plan[s]
    /\ crossed' = IF s \in raced THEN crossed \cup {Len(rows')} ELSE crossed
    /\ StepEnds(s)
    /\ UNCHANGED <<now, ended, raw, last, inTime, slow, faults>>

\* The append is refused for good; or it landed, the answer was lost, and it
\* is made once more.
AppendFails(s) ==
    /\ pc[s] = "append"
    /\ Fault
    /\ \/ UNCHANGED rows /\ StepEnds(s)
       \/ rows' = rows \o plan[s] /\ UNCHANGED sweep
    /\ UNCHANGED <<now, ended, raw, crossed, last, inTime, slow>>

\* The run record, of which the newest tells when the flow ran; the claim is
\* given back.
Record(s) ==
    /\ pc[s] = "record"
    /\ last' = [last EXCEPT ![Flow(s)] = IF stamp[s] > @ THEN stamp[s] ELSE @]
    /\ Onward(s)
    /\ GiveBack(s)
    /\ UNCHANGED <<now, ended, raw, rows, crossed, inTime, slow, faults>>

\* A run record that cannot be appended is only logged.
RecordFails(s) ==
    /\ pc[s] = "record"
    /\ Fault
    /\ Onward(s)
    /\ GiveBack(s)
    /\ UNCHANGED <<now, ended, ledger, inTime, slow>>

\* Its claim runs out before the clock says anything new.
Crash(s) ==
    /\ ~Off(s)
    /\ Fault
    /\ Resume(s, {})
    /\ GiveBack(s)
    /\ UNCHANGED <<now, ended, ledger, inTime, slow>>

Sweeps(s) ==
    \/ Begin(s) \/ Skip(s) \/ Take(s) \/ Claim(s) \/ ClaimRefused(s)
    \/ Read(s) \/ Report(s) \/ AppendRows(s) \/ Record(s)

Fails(s) == ReadFails(s) \/ AppendFails(s) \/ RecordFails(s) \/ Crash(s)

Next ==
    \/ Tick
    \/ \E r \in Runs : RunEnds(r) \/ RecordArrives(r)
    \/ \E s \in Sweepers : Sweeps(s) \/ Fails(s)

Spec == Init /\ [][Next]_vars

----------------------------------------------------------------------------
(* What the cadences have to be for the sums to keep up *)

\* A tick that a firing of f calls for, or the first one, ends in the same bucket
\* of p, however slow.
StaysInBucket(f, p) ==
    \A t \in Firings[f] \cup {0} : t + MaxSlow < Bucket(p, t) + Length(p)

\* Every bucket but the first has a firing in it.
FiresInEvery(p) ==
    \A start \in {t \in Time : t % Length(p) = 0} :
        start > 0 /\ start + Length(p) <= Horizon
            => \E t \in Firings[p] : Bucket(p, t) = start

\* The report is two hours behind the sum of the same week.
ReportFollows ==
    \A t \in Firings["report"] :
        \E u \in Firings["week"] : Bucket("week", u) = Bucket("week", t) /\ u + 2 <= t

SumsKeepUp == \A p \in Periods : StaysInBucket(p, p) /\ FiresInEvery(p)

ReportKeepsUp == StaysInBucket("report", "week") /\ ReportFollows

----------------------------------------------------------------------------
(* Properties *)

\* A row adds up the runs that ended in its day or week and whose records were
\* there when it was made: all of them, and nothing else (no claim, no row of
\* another period), down to the last moment of the bucket.
RowsAreExact ==
    \A i \in DOMAIN rows :
        rows[i].counts = {r \in rows[i].saw : Bucket(rows[i].period, ended[r]) = rows[i].start}

\* A run is in two rows of a period only where two sweeps were at work on the
\* flow at once, and made these rows.  A flow swept again when the clocks go back,
\* or after a race that is over, adds up no bucket that has its row, unless an
\* append was answered wrongly.
CountedOnce ==
    faults = 0 =>
        \A i, j \in DOMAIN rows :
            i # j /\ rows[i].period = rows[j].period /\ rows[i].counts \cap rows[j].counts # {}
            => {i, j} \subseteq crossed

\* What is said of the two together, that the claim has one holder
\* (claim_schedule: "exactly one push lands") and that a run over a bucket that
\* has its row is a no-op (compute_period_aggregates): without it two ticks, both of
\* which have found the flow free, count a run twice.
CountedOnceByAll ==
    faults = 0 =>
        \A i, j \in DOMAIN rows :
            i # j /\ rows[i].period = rows[j].period => rows[i].counts \cap rows[j].counts = {}

\* The records of the bucket that were in the ledger when it was over.
InTime(p, start) == {r \in raw : Bucket(p, ended[r]) = start /\ p \in inTime[r]}

\* While no due flow is left waiting and nothing fails, no bucket is passed
\* over: when the one after it is over, its row is in the ledger.  The cadence
\* is in local time and the buckets are in UTC, so this takes a firing in every
\* day of UTC, also where the clocks change.
NoBucketPassedOver ==
    faults = 0 =>
        \A p \in Periods : \A start \in {t \in Time : t % Length(p) = 0} :
            now >= start + 2 * Length(p) /\ InTime(p, start) # {} => start \in Drawn(p)

LastWeek == Bucket("week", now) - Length("week")

\* The report, two hours after the weekly sum, finds the row of the week before,
\* unless two ticks have outlasted the hour.
ReportHasTheWeek ==
    [][\A s \in Sweepers :
         pc[s] = "read" /\ Flow(s) = "report" /\ pc'[s] = "record" /\ faults' = 0 /\ slow < 2
         /\ InTime("week", LastWeek) # {}
         => LastWeek \in Drawn("week")]_vars
===============================================================================
