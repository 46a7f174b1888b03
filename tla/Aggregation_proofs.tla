-------------------------- MODULE Aggregation_proofs ---------------------------
(***************************************************************************)
(* Proofs about Aggregation, for any cadences, any distance of the local   *)
(* time to UTC, days and weeks of any length, any runs and any number of   *)
(* processes, slow ticks and failures.                                     *)
(***************************************************************************)
EXTENDS Aggregation, FiniteSetTheorems, SequenceTheorems, TLAPS

(* Buckets *)

LEMMA Numbers ==
    /\ Hours \in Nat \ {0} /\ Days \in Nat \ {0}
    /\ Horizon \in Nat /\ MaxSlow \in Nat /\ MaxFaults \in Nat
    /\ Ends \subseteq Time /\ Time \subseteq Nat
BY AggregationAssumption DEF Time

LEMMA OneMore ==
    /\ \A m \in Nat : \A n \in 0..m : n \in Nat /\ n <= m /\ (n < m => n + 1 \in 0..m /\ n + 1 # 0)
    /\ \A m \in Nat : 0 \in 0..m
OBVIOUS

LEMMA LengthIs ==
    ASSUME NEW p \in Periods
    PROVE  Length(p) \in Nat \ {0}
<1>1. \A d, h \in Nat \ {0} : d * h \in Nat \ {0}
  OBVIOUS
<1> QED
  BY <1>1, Numbers DEF Length

LEMMA DivIs ==
    ASSUME NEW t \in Nat, NEW n \in Nat \ {0}
    PROVE  t \div n \in Nat /\ (t \div n) * n <= t /\ t < (t \div n) * n + n
OBVIOUS

\* A time lies in one multiple of a length.
LEMMA OneMultiple ==
    ASSUME NEW t \in Nat, NEW n \in Nat \ {0}, NEW j \in Int, NEW k \in Int,
           j * n <= t, t < j * n + n, k * n <= t, t < k * n + n
    PROVE  j = k
<1>1. CASE j < k
  <2>1. (k - j - 1) * n >= 0
    BY <1>1
  <2>2. k * n >= j * n + n
    BY <2>1
  <2> QED
    BY <2>2
<1>2. CASE k < j
  <2>1. (j - k - 1) * n >= 0
    BY <1>2
  <2>2. j * n >= k * n + n
    BY <2>1
  <2> QED
    BY <2>2
<1> QED
  BY <1>1, <1>2

\* _in_bucket, for the bucket of a sweep: the times whose own bucket it is.
LEMMA InBucketIs ==
    ASSUME NEW p \in Periods, NEW t \in Time, NEW e \in Time
    PROVE  InBucket(p, BucketStart(p, t), e) <=> Bucket(p, e) = BucketStart(p, t)
<1> DEFINE n == Length(p)
           k == t \div n - 1
           j == e \div n
<1>1. n \in Nat \ {0} /\ t \in Nat /\ e \in Nat
  BY LengthIs, Numbers
<1> HIDE DEF n
<1>2. t \div n \in Nat /\ j \in Nat /\ j * n <= e /\ e < j * n + n
  BY <1>1, DivIs
<1> HIDE DEF j
<1>3. k \in Int
  BY <1>2
<1> HIDE DEF k
<1>4. BucketStart(p, t) = k * n /\ Bucket(p, e) = j * n
  BY DEF BucketStart, Bucket, n, k, j
<1>5. InBucket(p, BucketStart(p, t), e) <=> k * n <= e /\ e <= k * n + n - 1
  BY <1>4 DEF InBucket, BucketEnd, n
<1>6. k * n \in Int /\ j * n \in Int
  BY <1>1, <1>2, <1>3
<1>7. InBucket(p, BucketStart(p, t), e) <=> k * n <= e /\ e < k * n + n
  BY <1>1, <1>5, <1>6
<1>8. CASE k * n <= e /\ e < k * n + n
  BY <1>1, <1>2, <1>3, <1>4, <1>7, <1>8, OneMultiple
<1>9. CASE k * n = j * n
  BY <1>2, <1>4, <1>7, <1>9
<1> QED
  BY <1>4, <1>7, <1>8, <1>9

\* A bucket with a time in it begins at a time.
LEMMA StartIsTime ==
    ASSUME NEW p \in Periods, NEW e \in Time
    PROVE  Bucket(p, e) \in Time
<1> DEFINE n == Length(p)
           j == e \div n
<1>1. n \in Nat \ {0} /\ e \in Nat /\ e <= Horizon
  BY LengthIs, Numbers DEF Time
<1> HIDE DEF n
<1>2. j \in Nat /\ j * n <= e
  BY <1>1, DivIs
<1>3. Bucket(p, e) = j * n
  BY DEF Bucket, n
<1> HIDE DEF j
<1>4. j * n \in Nat
  BY <1>1, <1>2
<1>5. \A a, b, c \in Nat : a <= b /\ b <= c => a \in 0..c
  OBVIOUS
<1> QED
  BY <1>1, <1>2, <1>3, <1>4, <1>5, Numbers DEF Time

\* A time tells no more than how many firings there have been.
LEMMA RoundsBound ==
    ASSUME NEW f \in FlowNames, NEW t \in Time
    PROVE  Rounds[f][t] \in 0..Horizon + 2
<1> DEFINE past == {u \in Firings[f] : u <= t}
<1>1. past \subseteq 0..Horizon
  BY DEF Firings, Time
<1>2. IsFiniteSet(0..Horizon) /\ Cardinality(0..Horizon) = Horizon + 1
  <2>1. 0 <= Horizon
    BY Numbers
  <2> QED
    BY <2>1, Numbers, FS_Interval
<1>3. Cardinality(past) <= Cardinality(0..Horizon) /\ IsFiniteSet(past)
  BY <1>1, <1>2, FS_Subset
<1>4. Cardinality(past) \in Nat /\ Cardinality(past) <= Horizon + 1
  BY <1>2, <1>3, FS_CardinalityType
<1>5. Rounds[f][t] = 1 + Cardinality(past)
  BY DEF Rounds
<1> HIDE DEF past
<1>6. \A c, h \in Nat : c <= h + 1 => 1 + c \in 0..h + 2
  OBVIOUS
<1> QED
  BY <1>4, <1>5, <1>6, Numbers

----------------------------------------------------------------------------
(* Types *)

RowSet == [period : Periods, start : Time, counts : SUBSET Runs, saw : SUBSET Runs]

Places == {"off", "choose", "claim", "read", "append", "record"}

\* What a row says of the records that it saw.
Exact(row) ==
    /\ row.counts # {}
    /\ row.saw \subseteq raw
    /\ row.counts = {r \in row.saw : Bucket(row.period, ended[r]) = row.start}

WorldTypes ==
    /\ now \in Time
    /\ ended \in [Runs -> {Never} \cup Ends]
    /\ raw \subseteq {r \in Runs : ended[r] # Never}
    /\ inTime \in [Runs -> SUBSET Periods]
    /\ slow \in 0..MaxSlow
    /\ faults \in 0..MaxFaults

SweepTypes ==
    /\ rows \in Seq(RowSet)
    /\ last \in [FlowNames -> 0..Horizon + 2]
    /\ pc \in [Sweepers -> Places]
    /\ todo \in [Sweepers -> SUBSET FlowNames]
    /\ plan \in [Sweepers -> Seq(RowSet)]
    /\ stamp \in [Sweepers -> 0..Horizon + 2]
    /\ held \subseteq FlowNames
    /\ raced \subseteq Sweepers

RowsInv == \A i \in DOMAIN rows : Exact(rows[i])

\* A sweeper that is about to append has one row, of the period of its flow.
PlanInv ==
    \A s \in Sweepers :
        /\ pc[s] = "append" =>
              /\ Flow(s) \in Periods
              /\ plan[s] = <<plan[s][1]>> /\ plan[s][1] \in RowSet
              /\ plan[s][1].period = Flow(s) /\ Exact(plan[s][1])
        /\ pc[s] # "append" => plan[s] = <<>>
        /\ pc[s] # "off" => todo[s] # {}

\* Two sweepers that are at work on a flow know of no claim that is theirs alone.
AloneInv ==
    \A s, t \in Sweepers : s # t /\ Working(s) /\ Working(t) /\ Flow(s) = Flow(t) => s \in raced

\* While nothing fails, a bucket is in one row, or about to be, but for those that
\* sweepers make while they are not alone.
FreshInv ==
    faults = 0 =>
        /\ \A i, j \in DOMAIN rows :
              i # j /\ rows[i].period = rows[j].period /\ rows[i].start = rows[j].start => i \in crossed
        /\ \A s \in Sweepers : \A i \in DOMAIN rows :
              pc[s] = "append" /\ rows[i].period = Flow(s) /\ rows[i].start = plan[s][1].start
              => s \in raced /\ i \in crossed

CrossedInv == crossed \subseteq DOMAIN rows

Inv == WorldTypes /\ SweepTypes /\ RowsInv /\ PlanInv /\ AloneInv /\ FreshInv /\ CrossedInv

\* The flows in their order: some flow comes first of those that are left.
LEMMA FirstIsOne ==
    ASSUME NEW flows \in SUBSET FlowNames, flows # {}
    PROVE  FirstOf(flows) \in flows
<1>1. \E f \in flows : \A g \in flows : Rank[f] <= Rank[g]
  <2>1. Rank["week"] = 1 /\ Rank["day"] = 2 /\ Rank["report"] = 3
    BY DEF Rank
  <2>2. CASE "week" \in flows
    BY <2>1, <2>2 DEF FlowNames
  <2>3. CASE "week" \notin flows /\ "day" \in flows
    BY <2>1, <2>3 DEF FlowNames
  <2>4. CASE flows = {"report"}
    BY <2>1, <2>4
  <2> QED
    BY <2>2, <2>3, <2>4 DEF FlowNames
<1> QED
  BY <1>1 DEF FirstOf

LEMMA FlowIsOne ==
    ASSUME SweepTypes, PlanInv, NEW s \in Sweepers, pc[s] # "off"
    PROVE  Flow(s) \in todo[s] /\ Flow(s) \in FlowNames
BY FirstIsOne DEF SweepTypes, PlanInv, Flow

\* One row more.
LEMMA Appended ==
    ASSUME NEW old \in Seq(RowSet), NEW row \in RowSet
    PROVE  /\ old \o <<row>> \in Seq(RowSet)
           /\ DOMAIN old = 1..Len(old) /\ Len(old) \in Nat
           /\ DOMAIN (old \o <<row>>) = 1..(Len(old) + 1)
           /\ \A i \in 1..Len(old) : (old \o <<row>>)[i] = old[i]
           /\ (old \o <<row>>)[Len(old) + 1] = row
<1>1. <<row>> \in Seq(RowSet) /\ Len(<<row>>) = 1 /\ <<row>>[1] = row
  OBVIOUS
<1>2. old \o <<row>> \in Seq(RowSet) /\ Len(old \o <<row>>) = Len(old) + 1
      /\ \A i \in 1..(Len(old) + 1) : (old \o <<row>>)[i] = IF i <= Len(old) THEN old[i] ELSE <<row>>[i - Len(old)]
  BY <1>1, ConcatProperties
<1>3. Len(old) \in Nat /\ DOMAIN old = 1..Len(old)
  BY LenProperties
<1>4. DOMAIN (old \o <<row>>) = 1..(Len(old) + 1)
  BY <1>2, LenProperties
<1>5. \A i \in 1..Len(old) : (old \o <<row>>)[i] = old[i]
  BY <1>2, <1>3
<1>6. (old \o <<row>>)[Len(old) + 1] = row
  BY <1>1, <1>2, <1>3
<1> QED
  BY <1>2, <1>3, <1>4, <1>5, <1>6

\* The row that a sweep makes of what it reads.
LEMMA Aggregated ==
    ASSUME WorldTypes, SweepTypes, NEW p \in Periods, Aggregates(p, now) # <<>>
    PROVE  /\ Aggregates(p, now) = <<Row(p, BucketStart(p, now))>>
           /\ Row(p, BucketStart(p, now)) \in RowSet
           /\ Row(p, BucketStart(p, now)).period = p
           /\ Row(p, BucketStart(p, now)).start = BucketStart(p, now)
           /\ Exact(Row(p, BucketStart(p, now)))
           /\ ~AlreadyAggregated(p, BucketStart(p, now))
<1> DEFINE start == BucketStart(p, now)
<1>1. /\ Aggregates(p, now) = <<Row(p, start)>>
      /\ ~AlreadyAggregated(p, start) /\ Counted(p, start) # {}
  BY DEF Aggregates
<1>2. \A r \in raw : r \in Runs /\ ended[r] \in Time
  BY Numbers DEF WorldTypes
<1>3. Counted(p, start) = {r \in raw : InBucket(p, start, ended[r])}
  BY DEF Counted, OldRows
<1>4. Counted(p, start) = {r \in raw : Bucket(p, ended[r]) = start}
  BY <1>2, <1>3, InBucketIs DEF WorldTypes
<1>5. start \in Time
  BY <1>1, <1>2, <1>4, StartIsTime
<1>6. /\ Row(p, start).period = p /\ Row(p, start).start = start
      /\ Row(p, start).counts = Counted(p, start) /\ Row(p, start).saw = raw
  BY DEF Row
<1>7. Row(p, start) \in RowSet
  <2>1. Counted(p, start) \in SUBSET Runs /\ raw \in SUBSET Runs
    BY <1>2, <1>4
  <2> HIDE DEF start
  <2> QED
    BY <1>5, <2>1 DEF Row, RowSet
<1>8. Exact(Row(p, start))
  BY <1>1, <1>4, <1>6 DEF Exact
<1> QED
  BY <1>1, <1>6, <1>7, <1>8

----------------------------------------------------------------------------
(* Steps *)

LEMMA OthersKeep ==
    ASSUME SweepTypes, NEW s \in Sweepers, Sweeps(s) \/ Fails(s), NEW t \in Sweepers \ {s}
    PROVE  pc'[t] = pc[t] /\ todo'[t] = todo[t] /\ plan'[t] = plan[t] /\ (t \in raced => t \in raced')
BY DEF SweepTypes, Sweeps, Fails, Begin, Skip, Take, Claim, ClaimRefused, Read, Report, AppendRows, Record, ReadFails, AppendFails,
       RecordFails, Crash, Goto, Onward, Resume, StepEnds, sweep, claim

\* Where a step takes its sweeper.
Leaves(s) == pc'[s] \in {"off", "choose"} /\ plan'[s] = <<>> /\ (pc'[s] = "choose" => todo'[s] # {})

Finishes(s) == pc'[s] = "record" /\ plan'[s] = <<>> /\ todo'[s] = todo[s] /\ Working(s) /\ raced' = raced

Plans(s) ==
    /\ pc[s] = "read" /\ pc'[s] = "append" /\ todo'[s] = todo[s] /\ Flow(s) # "report"
    /\ Aggregates(Flow(s), now) # <<>> /\ plan'[s] = Aggregates(Flow(s), now)
    /\ UNCHANGED <<rows, crossed, raw, ended, raced>>

Looks(s) ==
    /\ pc[s] = "choose" /\ pc'[s] = "claim" /\ plan'[s] = plan[s] /\ todo'[s] = todo[s]
    /\ UNCHANGED <<rows, crossed>>

Claims(s) ==
    /\ pc[s] = "claim" /\ pc'[s] = "read" /\ plan'[s] = plan[s] /\ todo'[s] = todo[s]
    /\ raced' = IF Rivals(s) = {} THEN raced ELSE raced \cup Rivals(s) \cup {s}
    /\ UNCHANGED <<rows, crossed>>

Lands(s) ==
    /\ Finishes(s) /\ pc[s] = "append" /\ rows' = rows \o plan[s]
    /\ crossed' = IF s \in raced THEN crossed \cup {Len(rows')} ELSE crossed

LEMMA SweepWays ==
    ASSUME SweepTypes, PlanInv, NEW s \in Sweepers, Sweeps(s) \/ Fails(s)
    PROVE  \/ Leaves(s) /\ UNCHANGED <<rows, crossed>>
           \/ Finishes(s) /\ UNCHANGED <<rows, crossed>>
           \/ Lands(s)
           \/ Plans(s)
           \/ Looks(s)
           \/ Claims(s)
           \/ pc[s] = "append" /\ rows' = rows \o plan[s] /\ UNCHANGED <<sweep, crossed>> /\ Fault
<1> USE DEF SweepTypes
<1>1. CASE Begin(s)
  BY <1>1 DEF Begin, Off, Goto, PlanInv, ledger, Leaves
<1>2. CASE Skip(s) \/ Record(s) \/ RecordFails(s) \/ ClaimRefused(s)
  BY <1>2 DEF Skip, Record, RecordFails, ClaimRefused, Onward, Resume, Goto, ledger, Leaves
<1>3. CASE Crash(s)
  BY <1>3 DEF Crash, Resume, Goto, ledger, Leaves
<1>4. CASE Take(s) \/ Claim(s)
  BY <1>4 DEF Take, Claim, Goto, ledger, Looks, Claims
<1>5. CASE Read(s)
  BY <1>5 DEF Read, StepEnds, Goto, ledger, claim, Finishes, Plans, Working
<1>6. CASE Report(s) \/ ReadFails(s)
  BY <1>6 DEF Report, ReadFails, StepEnds, Goto, ledger, claim, Finishes, Working
<1>7. CASE AppendRows(s)
  BY <1>7 DEF AppendRows, StepEnds, Goto, claim, Finishes, Working, Lands
<1>8. CASE AppendFails(s)
  BY <1>8 DEF AppendFails, StepEnds, Goto, claim, Finishes, Working
<1> QED
  BY <1>1, <1>2, <1>3, <1>4, <1>5, <1>6, <1>7, <1>8 DEF Sweeps, Fails

\* What a step leaves alone.
LEMMA SweepsLeave ==
    ASSUME NEW s \in Sweepers, Sweeps(s) \/ Fails(s)
    PROVE  UNCHANGED <<now, ended, raw, inTime, slow>> /\ (faults' = faults \/ Fault)
BY DEF Sweeps, Fails, Begin, Skip, Take, Claim, ClaimRefused, Read, Report, AppendRows, Record, ReadFails, AppendFails,
       RecordFails, Crash, ledger

LEMMA WorldLeaves ==
    ASSUME Tick \/ \E r \in Runs : RunEnds(r) \/ RecordArrives(r)
    PROVE  UNCHANGED <<rows, crossed, last, sweep>> /\ (faults' = faults \/ Fault)
BY DEF Tick, RunEnds, RecordArrives, ledger

\* A row stays exact: records come, and none of those it saw changes.
ExactThen(row) ==
    /\ row.counts # {}
    /\ row.saw \subseteq raw'
    /\ row.counts = {r \in row.saw : Bucket(row.period, ended'[r]) = row.start}

LEMMA ExactStays ==
    ASSUME WorldTypes, [Next]_vars, NEW row, Exact(row)
    PROVE  ExactThen(row)
<1>1. raw \subseteq raw' /\ \A r \in raw : ended'[r] = ended[r]
  <2>1. ASSUME NEW s \in Sweepers, Sweeps(s) \/ Fails(s) PROVE raw \subseteq raw' /\ \A r \in raw : ended'[r] = ended[r]
    BY <2>1, SweepsLeave
  <2>2. CASE Tick \/ UNCHANGED vars
    BY <2>2 DEF Tick, vars, ledger
  <2>3. ASSUME NEW r \in Runs, RecordArrives(r) PROVE raw \subseteq raw' /\ \A q \in raw : ended'[q] = ended[q]
    BY <2>3 DEF RecordArrives
  <2>4. ASSUME NEW r \in Runs, RunEnds(r) PROVE raw \subseteq raw' /\ \A q \in raw : ended'[q] = ended[q]
    <3>1. r \notin raw
      BY <2>4 DEF RunEnds, WorldTypes
    <3> QED
      BY <2>4, <3>1 DEF RunEnds, WorldTypes, ledger
  <2> QED
    BY <2>1, <2>2, <2>3, <2>4 DEF Next
<1> QED
  BY <1>1 DEF Exact, ExactThen

LEMMA WorldStep == ASSUME WorldTypes, [Next]_vars PROVE WorldTypes'
<1>1. ASSUME Fault PROVE faults' \in 0..MaxFaults
  BY <1>1, OneMore, Numbers DEF Fault, WorldTypes
<1>2. ASSUME NEW s \in Sweepers, Sweeps(s) \/ Fails(s) PROVE WorldTypes'
  BY <1>1, <1>2, SweepsLeave DEF WorldTypes
<1>3. CASE Tick
  <2>1. now' \in Time
    BY <1>3, OneMore, Numbers DEF Tick, WorldTypes, Time
  <2>2. slow' \in 0..MaxSlow
    BY <1>3, OneMore, Numbers DEF Tick, WorldTypes
  <2>3. faults' \in 0..MaxFaults
    BY <1>1, <1>3 DEF Tick, WorldTypes
  <2> QED
    BY <1>3, <2>1, <2>2, <2>3 DEF Tick, WorldTypes, ledger
<1>4. ASSUME NEW r \in Runs, RunEnds(r) PROVE WorldTypes'
  <2>1. ended' \in [Runs -> {Never} \cup Ends] /\ \A q \in Runs \ {r} : ended'[q] = ended[q]
    BY <1>4 DEF RunEnds, WorldTypes
  <2>2. r \notin raw
    BY <1>4 DEF RunEnds, WorldTypes
  <2> QED
    BY <1>4, <2>1, <2>2 DEF RunEnds, WorldTypes, ledger
<1>5. ASSUME NEW r \in Runs, RecordArrives(r) PROVE WorldTypes'
  <2>1. inTime' \in [Runs -> SUBSET Periods]
    BY <1>5 DEF RecordArrives, WorldTypes
  <2> QED
    BY <1>5, <2>1 DEF RecordArrives, WorldTypes
<1>6. CASE UNCHANGED vars
  BY <1>6 DEF vars, ledger, WorldTypes
<1> QED
  BY <1>2, <1>3, <1>4, <1>5, <1>6 DEF Next

LEMMA RowsTyped ==
    ASSUME SweepTypes, PlanInv, NEW s \in Sweepers, pc[s] = "append"
    PROVE  rows \o plan[s] \in Seq(RowSet)
BY Appended DEF SweepTypes, PlanInv

LEMMA SweepTypesStep == ASSUME WorldTypes, SweepTypes, PlanInv, [Next]_vars PROVE SweepTypes'
<1>1. ASSUME NEW s \in Sweepers, Sweeps(s) \/ Fails(s) PROVE SweepTypes'
  <2>1. rows' \in Seq(RowSet)
    BY <1>1, SweepWays, RowsTyped DEF SweepTypes, Plans, Looks, Claims, Lands
  <2>2. pc' \in [Sweepers -> Places] /\ todo' \in [Sweepers -> SUBSET FlowNames]
    BY <1>1 DEF SweepTypes, Places, Sweeps, Fails, Begin, DueNow, Skip, Take, Claim, ClaimRefused, Read, Report, AppendRows, Record,
                ReadFails, AppendFails, RecordFails, Crash, Goto, Onward, Resume, StepEnds, sweep
  <2>3. plan' \in [Sweepers -> Seq(RowSet)]
    <3>1. Read(s) => Aggregates(Flow(s), now) \in Seq(RowSet)
      <4>1. Read(s) => Flow(s) \in Periods
        BY FlowIsOne DEF Read, FlowNames, Periods
      <4>2. \A row \in RowSet : <<row>> \in Seq(RowSet)
        OBVIOUS
      <4>3. \A p \in Periods : Aggregates(p, now) # <<>> => Aggregates(p, now) \in Seq(RowSet)
        BY <4>2, Aggregated
      <4>4. <<>> \in Seq(RowSet)
        OBVIOUS
      <4>5. \A p \in Periods : Aggregates(p, now) \in Seq(RowSet)
        BY <4>3, <4>4
      <4> QED
        BY <4>1, <4>5
    <3>2. <<>> \in Seq(RowSet)
      OBVIOUS
    <3> QED
      BY <1>1, <3>1, <3>2 DEF SweepTypes, Sweeps, Fails, Begin, Skip, Take, Claim, ClaimRefused, Read, Report, AppendRows, Record,
                ReadFails, AppendFails, RecordFails, Crash, Onward, Resume, StepEnds, sweep
  <2>4. stamp' \in [Sweepers -> 0..Horizon + 2] /\ last' \in [FlowNames -> 0..Horizon + 2]
    <3>1. pc[s] # "off" => Rounds[Flow(s)][now] \in 0..Horizon + 2
      BY FlowIsOne, RoundsBound DEF WorldTypes
    <3>2. 0 \in 0..Horizon + 2
      BY Numbers
    <3>3. CASE Begin(s) \/ Take(s) \/ Claim(s)
      BY <3>3 DEF Begin, Take, Claim, ledger, SweepTypes
    <3>4. CASE Skip(s) \/ ClaimRefused(s) \/ RecordFails(s) \/ Crash(s)
      BY <3>2, <3>4 DEF Skip, ClaimRefused, RecordFails, Crash, Onward, Resume, ledger, SweepTypes
    <3>5. CASE Record(s)
      BY <3>2, <3>5 DEF Record, Onward, Resume, SweepTypes
    <3>6. CASE StepEnds(s) /\ pc[s] # "off" /\ last' = last
      BY <3>1, <3>6 DEF StepEnds, SweepTypes
    <3>7. CASE UNCHANGED <<stamp, last>>
      BY <3>7 DEF SweepTypes
    <3> QED
      BY <1>1, <3>3, <3>4, <3>5, <3>6, <3>7
         DEF Sweeps, Fails, Read, Report, ReadFails, AppendRows, AppendFails, ledger, sweep
  <2>5. held' \subseteq FlowNames /\ raced' \subseteq Sweepers
    <3>1. pc[s] # "off" => Flow(s) \in FlowNames
      BY FlowIsOne
    <3>2. Rivals(s) \subseteq Sweepers
      BY DEF Rivals
    <3> QED
      BY <1>1, <3>1, <3>2 DEF SweepTypes, Sweeps, Fails, Begin, Skip, Take, Claim, ClaimRefused, Read, Report,
                AppendRows, Record, ReadFails, AppendFails, RecordFails, Crash, Onward, Resume, StepEnds, GiveBack,
                sweep, claim
  <2> QED
    BY <2>1, <2>2, <2>3, <2>4, <2>5 DEF SweepTypes
<1>2. CASE UNCHANGED <<rows, last, sweep>>
  BY <1>2 DEF sweep, claim, SweepTypes
<1> QED
  BY <1>1, <1>2, WorldLeaves DEF Next, vars, ledger

LEMMA AloneStep == ASSUME SweepTypes, PlanInv, AloneInv, [Next]_vars PROVE AloneInv'
<1>1. ASSUME NEW s \in Sweepers, Sweeps(s) \/ Fails(s) PROVE AloneInv'
  <2>1. \A t \in Sweepers \ {s} :
          (Working(t)' <=> Working(t)) /\ Flow(t)' = Flow(t) /\ (t \in raced => t \in raced')
    BY <1>1, OthersKeep DEF Working, Flow
  <2>2. CASE ~Working(s)'
    BY <2>1, <2>2 DEF AloneInv
  <2>3. CASE Claims(s)
    <3>1. Flow(s)' = Flow(s)
      BY <2>3 DEF Claims, Flow
    <3>2. ASSUME NEW t \in Sweepers \ {s}, Working(t), Flow(t) = Flow(s)
          PROVE  s \in raced' /\ t \in raced'
      BY <2>3, <3>2 DEF Claims, Rivals
    <3> QED
      BY <2>1, <3>1, <3>2 DEF AloneInv
  <2>4. CASE Working(s) /\ Flow(s)' = Flow(s) /\ raced' = raced
    BY <2>1, <2>4 DEF AloneInv
  <2>5. Working(s)' => Claims(s) \/ (Working(s) /\ Flow(s)' = Flow(s) /\ raced' = raced)
    BY <1>1, SweepWays DEF Leaves, Finishes, Plans, Looks, Lands, Working, Flow, sweep, claim
  <2> QED
    BY <2>2, <2>3, <2>4, <2>5
<1>2. CASE UNCHANGED sweep
  BY <1>2 DEF sweep, claim, AloneInv, Working, Flow
<1> QED
  BY <1>1, <1>2, WorldLeaves DEF Next, vars

\* What PlanInv says of one sweeper.
Planned(s) ==
    /\ pc[s] = "append" =>
          /\ Flow(s) \in Periods
          /\ plan[s] = <<plan[s][1]>> /\ plan[s][1] \in RowSet
          /\ plan[s][1].period = Flow(s) /\ Exact(plan[s][1])
    /\ pc[s] # "append" => plan[s] = <<>>
    /\ pc[s] # "off" => todo[s] # {}

LEMMA PlanStep == ASSUME WorldTypes, SweepTypes, PlanInv, [Next]_vars PROVE PlanInv'
<1>1. ASSUME NEW s \in Sweepers, pc'[s] = pc[s], todo'[s] = todo[s], plan'[s] = plan[s]
      PROVE  Planned(s)'
  <2>1. Planned(s)
    BY DEF PlanInv, Planned
  <2>2. Flow(s)' = Flow(s)
    BY <1>1 DEF Flow
  <2>3. Exact(plan[s][1]) => ExactThen(plan[s][1])
    BY ExactStays
  <2> QED
    BY <1>1, <2>1, <2>2, <2>3 DEF Planned, Exact, ExactThen
<1>2. ASSUME NEW s \in Sweepers, Sweeps(s) \/ Fails(s) PROVE Planned(s)'
  <2>1. CASE Leaves(s)
    BY <2>1 DEF Leaves, Planned
  <2>2. CASE Finishes(s)
    BY <2>2 DEF Finishes, Planned, PlanInv, Working
  <2>3. CASE Plans(s)
    <3>1. Flow(s) \in Periods
      BY <2>3, FlowIsOne DEF Plans, FlowNames, Periods
    <3> DEFINE row == Row(Flow(s), BucketStart(Flow(s), now))
    <3>2. plan'[s] = <<row>> /\ row \in RowSet /\ row.period = Flow(s) /\ Exact(row)
      BY <2>3, <3>1, Aggregated DEF Plans
    <3>3. ExactThen(row)
      BY <3>2, ExactStays
    <3> HIDE DEF row
    <3>4. plan'[s][1] = row
      BY <3>2
    <3>5. Flow(s)' = Flow(s) /\ todo'[s] # {} /\ pc'[s] = "append"
      BY <2>3 DEF Plans, Flow, PlanInv
    <3> QED
      BY <3>1, <3>2, <3>3, <3>4, <3>5 DEF Planned, Exact, ExactThen
  <2>4. CASE Looks(s) \/ Claims(s)
    BY <2>4 DEF Looks, Claims, Planned, PlanInv
  <2>5. CASE UNCHANGED sweep
    BY <1>1, <2>5 DEF sweep
  <2> QED
    BY <1>2, <2>1, <2>2, <2>3, <2>4, <2>5, SweepWays DEF Lands
<1>3. ASSUME NEW s \in Sweepers, Sweeps(s) \/ Fails(s), NEW t \in Sweepers PROVE Planned(t)'
  BY <1>1, <1>2, <1>3, OthersKeep
<1>4. ASSUME UNCHANGED sweep, NEW t \in Sweepers PROVE Planned(t)'
  BY <1>1, <1>4 DEF sweep
<1>5. \A t \in Sweepers : Planned(t)'
  BY <1>3, <1>4, WorldLeaves DEF Next, vars
<1> QED
  BY <1>5 DEF PlanInv, Planned

LEMMA RowsStep == ASSUME WorldTypes, SweepTypes, PlanInv, RowsInv, [Next]_vars PROVE RowsInv'
<1>1. \A i \in DOMAIN rows : ExactThen(rows[i])
  BY ExactStays DEF RowsInv
<1>2. CASE rows' = rows
  BY <1>1, <1>2 DEF RowsInv, Exact, ExactThen
<1>3. ASSUME NEW s \in Sweepers, pc[s] = "append", rows' = rows \o plan[s] PROVE RowsInv'
  <2> DEFINE row == plan[s][1]
  <2>1. plan[s] = <<row>> /\ row \in RowSet /\ ExactThen(row)
    BY <1>3, ExactStays DEF PlanInv
  <2> HIDE DEF row
  <2>2. /\ DOMAIN rows = 1..Len(rows) /\ Len(rows) \in Nat
        /\ DOMAIN rows' = 1..(Len(rows) + 1)
        /\ \A i \in 1..Len(rows) : rows'[i] = rows[i]
        /\ rows'[Len(rows) + 1] = row
    BY <1>3, <2>1, Appended DEF SweepTypes
  <2>3. \A n \in Nat : \A i \in 1..(n + 1) : i \in 1..n \/ i = n + 1
    OBVIOUS
  <2>4. \A i \in DOMAIN rows' : ExactThen(rows'[i])
    BY <1>1, <2>1, <2>2, <2>3
  <2> QED
    BY <2>4 DEF RowsInv, Exact, ExactThen
<1>4. ASSUME NEW s \in Sweepers, Sweeps(s) \/ Fails(s) PROVE RowsInv'
  BY <1>2, <1>3, <1>4, SweepWays DEF Plans, Looks, Claims, Lands
<1> QED
  BY <1>2, <1>4, WorldLeaves DEF Next, vars, ledger

\* The two parts of FreshInv.
RowsApart ==
    \A i, j \in DOMAIN rows :
        i # j /\ rows[i].period = rows[j].period /\ rows[i].start = rows[j].start => i \in crossed

Apart(s) ==
    \A i \in DOMAIN rows :
        pc[s] = "append" /\ rows[i].period = Flow(s) /\ rows[i].start = plan[s][1].start
        => s \in raced /\ i \in crossed

LEMMA FreshKept ==
    ASSUME FreshInv, faults = 0, UNCHANGED <<rows, crossed>>, NEW s \in Sweepers, s \in raced => s \in raced',
           pc'[s] = "append" => pc[s] = "append" /\ todo'[s] = todo[s] /\ plan'[s] = plan[s]
    PROVE  Apart(s)'
BY DEF FreshInv, Apart, Flow

\* A row lands beside one of the same bucket only if both are of sweepers that are
\* not alone.
LEMMA FreshAppended ==
    ASSUME SweepTypes, PlanInv, AloneInv, FreshInv, CrossedInv, faults = 0, NEW s \in Sweepers, Lands(s),
           \A t \in Sweepers \ {s} :
               pc'[t] = pc[t] /\ todo'[t] = todo[t] /\ plan'[t] = plan[t] /\ (t \in raced => t \in raced')
    PROVE  RowsApart' /\ \A t \in Sweepers : Apart(t)'
<1> DEFINE row == plan[s][1]
           new == Len(rows) + 1
<1>1. plan[s] = <<row>> /\ row \in RowSet /\ row.period = Flow(s)
  BY DEF PlanInv, Lands
<1>2. \A i \in DOMAIN rows :
        rows[i].period = row.period /\ rows[i].start = row.start => s \in raced /\ i \in crossed
  BY <1>1 DEF FreshInv, Lands
<1> HIDE DEF row
<1>3. /\ DOMAIN rows = 1..Len(rows) /\ Len(rows) \in Nat
      /\ DOMAIN rows' = 1..new
      /\ \A i \in 1..Len(rows) : rows'[i] = rows[i]
      /\ rows'[new] = row
      /\ rows' \in Seq(RowSet)
  BY <1>1, Appended DEF SweepTypes, Lands
<1>4. \A n \in Nat : \A i \in 1..(n + 1) : i \in 1..n \/ i = n + 1
  OBVIOUS
<1>5. \A i \in DOMAIN rows' : (i \in DOMAIN rows /\ rows'[i] = rows[i]) \/ (i = new /\ rows'[i] = row)
  BY <1>3, <1>4
<1>6. Len(rows') = new
  <2>1. DOMAIN rows' = 1..Len(rows') /\ Len(rows') \in Nat
    BY <1>3, LenProperties
  <2>2. \A m, n \in Nat : 1..m = 1..n => m = n
    <3> SUFFICES ASSUME NEW m \in Nat, NEW n \in Nat, 1..m = 1..n PROVE m = n
      OBVIOUS
    <3>1. m \in 1..m \/ m = 0
      OBVIOUS
    <3>2. n \in 1..n \/ n = 0
      OBVIOUS
    <3> QED
      BY <3>1, <3>2
  <2> QED
    BY <1>3, <2>1, <2>2
<1>7. crossed' = IF s \in raced THEN crossed \cup {new} ELSE crossed
  BY <1>6 DEF Lands
<1>8. crossed \subseteq crossed' /\ (s \in raced => new \in crossed')
  BY <1>7
<1> HIDE DEF new
<1>9. RowsApart'
  <2> SUFFICES ASSUME NEW i \in DOMAIN rows', NEW j \in DOMAIN rows', i # j,
                      rows'[i].period = rows'[j].period, rows'[i].start = rows'[j].start
               PROVE  i \in crossed'
    BY DEF RowsApart
  <2>1. CASE i \in DOMAIN rows /\ rows'[i] = rows[i] /\ j \in DOMAIN rows /\ rows'[j] = rows[j]
    BY <1>8, <2>1 DEF FreshInv
  <2>2. CASE i \in DOMAIN rows /\ rows'[i] = rows[i] /\ rows'[j] = row
    BY <1>2, <1>8, <2>2
  <2>3. CASE i = new /\ rows'[i] = row /\ j \in DOMAIN rows /\ rows'[j] = rows[j]
    BY <1>2, <1>8, <2>3
  <2> QED
    BY <1>5, <2>1, <2>2, <2>3
<1>10. ASSUME NEW t \in Sweepers \ {s}, NEW i \in DOMAIN rows',
              pc'[t] = "append", rows'[i].period = Flow(t)', rows'[i].start = plan'[t][1].start
       PROVE  t \in raced' /\ i \in crossed'
  <2>1. Flow(t)' = Flow(t)
    BY DEF Flow
  <2>2. CASE i \in DOMAIN rows /\ rows'[i] = rows[i]
    BY <1>8, <1>10, <2>1, <2>2 DEF FreshInv
  <2>3. CASE i = new /\ rows'[i] = row
    <3>1. Working(t) /\ Working(s) /\ Flow(t) = Flow(s)
      BY <1>1, <1>10, <2>1, <2>3 DEF Working, Lands
    <3> QED
      BY <1>8, <2>3, <3>1 DEF AloneInv
  <2> QED
    BY <1>5, <2>2, <2>3
<1>11. Apart(s)'
  BY DEF Apart, Lands, Finishes
<1>12. \A t \in Sweepers \ {s} : Apart(t)'
  BY <1>10 DEF Apart
<1> QED
  BY <1>9, <1>11, <1>12

LEMMA FreshPlanned ==
    ASSUME WorldTypes, SweepTypes, PlanInv, NEW s \in Sweepers, Plans(s)
    PROVE  Apart(s)'
<1> DEFINE start == BucketStart(Flow(s), now)
           row == Row(Flow(s), start)
<1>1. Flow(s) \in Periods
  BY FlowIsOne DEF Plans, FlowNames, Periods
<1>2. plan'[s] = <<row>> /\ row.start = start /\ ~AlreadyAggregated(Flow(s), start)
  BY <1>1, Aggregated DEF Plans
<1> HIDE DEF row
<1>3. plan'[s][1] = row
  BY <1>2
<1>4. \A i \in DOMAIN rows : rows[i].period = Flow(s) => rows[i].start # start
  BY <1>2 DEF AlreadyAggregated
<1> HIDE DEF start
<1>5. Flow(s)' = Flow(s) /\ rows' = rows
  BY DEF Plans, Flow
<1> QED
  BY <1>2, <1>3, <1>4, <1>5 DEF Apart

LEMMA CrossedStep == ASSUME SweepTypes, PlanInv, CrossedInv, [Next]_vars PROVE CrossedInv'
<1>1. CASE UNCHANGED <<rows, crossed>>
  BY <1>1 DEF CrossedInv
<1>2. ASSUME NEW s \in Sweepers, pc[s] = "append", rows' = rows \o plan[s]
      PROVE  DOMAIN rows \subseteq DOMAIN rows' /\ Len(rows') \in DOMAIN rows'
  <2>1. PICK row \in RowSet : plan[s] = <<row>>
    BY <1>2 DEF PlanInv
  <2>2. rows' \in Seq(RowSet) /\ DOMAIN rows = 1..Len(rows) /\ DOMAIN rows' = 1..(Len(rows) + 1) /\ Len(rows) \in Nat
    BY <1>2, <2>1, Appended DEF SweepTypes
  <2>3. DOMAIN rows' = 1..Len(rows') /\ Len(rows') \in Nat
    BY <2>2, LenProperties
  <2>4. Len(rows) + 1 \in 1..(Len(rows) + 1)
    BY <2>2
  <2> QED
    BY <2>2, <2>3, <2>4
<1>3. ASSUME NEW s \in Sweepers, Sweeps(s) \/ Fails(s) PROVE CrossedInv'
  <2>1. CASE Lands(s)
    BY <1>2, <2>1 DEF Lands, CrossedInv
  <2>2. CASE pc[s] = "append" /\ rows' = rows \o plan[s] /\ crossed' = crossed
    BY <1>2, <2>2 DEF CrossedInv
  <2> QED
    BY <1>1, <1>3, <2>1, <2>2, SweepWays DEF Plans, Looks, Claims
<1> QED
  BY <1>1, <1>3, WorldLeaves DEF Next, vars, ledger

LEMMA FreshStep ==
    ASSUME WorldTypes, SweepTypes, PlanInv, AloneInv, FreshInv, CrossedInv, [Next]_vars PROVE FreshInv'
<1> SUFFICES ASSUME faults' = 0 PROVE RowsApart' /\ \A s \in Sweepers : Apart(s)'
  BY DEF FreshInv, RowsApart, Apart
<1>1. ~Fault
  BY Numbers, OneMore DEF Fault, WorldTypes
<1>2. faults = 0
  BY <1>1, WorldLeaves, SweepsLeave DEF Next, vars
<1>3. RowsApart /\ \A s \in Sweepers : Apart(s)
  BY <1>2 DEF FreshInv, RowsApart, Apart
<1>4. CASE UNCHANGED <<rows, crossed, sweep>>
  BY <1>2, <1>3, <1>4, FreshKept DEF RowsApart, sweep, claim
<1>5. ASSUME NEW s \in Sweepers, Sweeps(s) \/ Fails(s) PROVE RowsApart' /\ \A t \in Sweepers : Apart(t)'
  <2>1. \A t \in Sweepers \ {s} :
          pc'[t] = pc[t] /\ todo'[t] = todo[t] /\ plan'[t] = plan[t] /\ (t \in raced => t \in raced')
    BY <1>5, OthersKeep
  <2>2. CASE Lands(s)
    BY <1>2, <2>1, <2>2, FreshAppended
  <2>3. CASE UNCHANGED <<rows, crossed>>
    <3>1. RowsApart'
      BY <1>3, <2>3 DEF RowsApart
    <3>2. \A t \in Sweepers \ {s} : Apart(t)'
      BY <1>2, <2>1, <2>3, FreshKept
    <3>3. Apart(s)'
      <4>1. CASE Plans(s)
        BY <4>1, FreshPlanned
      <4>2. CASE pc'[s] # "append"
        BY <4>2 DEF Apart
      <4>3. CASE UNCHANGED sweep
        BY <1>2, <2>3, <4>3, FreshKept DEF sweep, claim
      <4> QED
        BY <1>5, <4>1, <4>2, <4>3, SweepWays DEF Leaves, Finishes, Lands, Looks, Claims
    <3> QED
      BY <3>1, <3>2, <3>3
  <2> QED
    BY <1>1, <1>5, <2>2, <2>3, SweepWays DEF Plans, Looks, Claims
<1> QED
  BY <1>4, <1>5, WorldLeaves DEF Next, vars, ledger

\* The inductive invariant holds: rows and plans are exact, and a bucket is in one
\* row but where a flow has been in two hands (_run_scheduled_flows, compute_period_aggregates).
THEOREM Holds == Spec => []Inv
<1>1. Init => Inv
  <2> SUFFICES ASSUME Init PROVE Inv
    OBVIOUS
  <2> USE DEF Init
  <2>1. 0 \in 0..MaxSlow /\ 0 \in 0..MaxFaults /\ 0 \in Time /\ 0 \in 0..Horizon + 2
    BY Numbers DEF Time
  <2>2. WorldTypes
    BY <2>1 DEF WorldTypes
  <2>3. <<>> \in Seq(RowSet) /\ DOMAIN rows = {}
    OBVIOUS
  <2>4. SweepTypes
    BY <2>1, <2>3 DEF SweepTypes, Places
  <2>5. RowsInv /\ PlanInv /\ AloneInv /\ FreshInv /\ CrossedInv
    BY <2>3 DEF RowsInv, PlanInv, AloneInv, FreshInv, CrossedInv, Working
  <2> QED
    BY <2>2, <2>4, <2>5 DEF Inv
<1>2. Inv /\ [Next]_vars => Inv'
  BY WorldStep, SweepTypesStep, RowsStep, PlanStep, AloneStep, FreshStep, CrossedStep DEF Inv
<1> QED
  BY <1>1, <1>2, PTL DEF Spec

\* Every variable keeps its type, a row is never empty, and a sweeper has at
\* most one to append.
THEOREM TypeCorrect == Spec => []TypeOK
<1>1. Inv => TypeOK
  <2> SUFFICES ASSUME Inv PROVE TypeOK
    OBVIOUS
  <2>1. \A i \in DOMAIN rows : rows[i] \in RowSet
    BY DEF Inv, SweepTypes
  <2>2. \A i \in DOMAIN rows :
          /\ rows[i].period \in Periods /\ rows[i].start \in Time
          /\ rows[i].saw \subseteq raw /\ rows[i].counts # {}
    BY <2>1 DEF Inv, RowsInv, Exact, RowSet
  <2>3. \A s \in Sweepers : Len(plan[s]) <= 1
    <3>1. \A row : Len(<<row>>) <= 1
      OBVIOUS
    <3>2. Len(<<>>) <= 1
      OBVIOUS
    <3> QED
      BY <3>1, <3>2 DEF Inv, PlanInv
  <2> QED
    BY <2>2, <2>3 DEF Inv, WorldTypes, SweepTypes, CrossedInv, Places, TypeOK
<1> QED
  BY <1>1, Holds, PTL

\* A row adds up the runs of its day or week that had been recorded, all of
\* them and nothing else, whatever the cadence and the clocks.
THEOREM RowsAreAlwaysExact == Spec => []RowsAreExact
<1>1. Inv => RowsAreExact
  BY DEF Inv, RowsInv, Exact, RowsAreExact
<1> QED
  BY <1>1, Holds, PTL

\* While no append is answered wrongly, two rows that count the same run are of
\* sweepers that have been at work on the flow at once, both (claim_schedule,
\* already_aggregated): for any number of processes, after any races before.
THEOREM CountedAtMostOnce == Spec => []CountedOnce
<1>1. Inv => CountedOnce
  <2> SUFFICES ASSUME Inv, faults = 0, NEW i \in DOMAIN rows, NEW j \in DOMAIN rows,
                      i # j, rows[i].period = rows[j].period, rows[i].counts \cap rows[j].counts # {}
               PROVE  i \in crossed /\ j \in crossed
    BY DEF CountedOnce
  <2>1. rows[i].start = rows[j].start
    BY DEF Inv, RowsInv, Exact
  <2> QED
    BY <2>1 DEF Inv, FreshInv
<1> QED
  BY <1>1, Holds, PTL

----------------------------------------------------------------------------
(* Firings *)

LEMMA Zero == 0 \in Time
BY Numbers DEF Time

LEMMA FiringIsTime == ASSUME NEW f \in FlowNames PROVE Firings[f] \subseteq Time
BY DEF Firings

\* The firings are counted as they come.
LEMMA RoundsGrow ==
    ASSUME NEW f \in FlowNames, NEW u \in Time, NEW t \in Time, u <= t
    PROVE  /\ Rounds[f][u] \in Nat /\ Rounds[f][t] \in Nat
           /\ Rounds[f][u] <= Rounds[f][t]
           /\ u < t /\ t \in Firings[f] => Rounds[f][u] < Rounds[f][t]
<1> DEFINE past(x) == {v \in Firings[f] : v <= x}
<1>1. \A x \in Time : past(x) \subseteq 0..Horizon
  BY FiringIsTime DEF Time
<1>2. IsFiniteSet(0..Horizon)
  BY Numbers, FS_Interval
<1>3. \A x \in Time : IsFiniteSet(past(x)) /\ Cardinality(past(x)) \in Nat
  BY <1>1, <1>2, FS_Subset, FS_CardinalityType
<1>4. past(u) \subseteq past(t)
  <2>1. \A v \in Time : v <= u => v <= t
    BY Numbers
  <2> QED
    BY <2>1, FiringIsTime
<1>5. Cardinality(past(u)) <= Cardinality(past(t))
      /\ (Cardinality(past(t)) = Cardinality(past(u)) => past(t) = past(u))
  BY <1>3, <1>4, FS_Subset
<1>6. u < t /\ t \in Firings[f] => t \in past(t) /\ t \notin past(u)
  BY Numbers
<1>7. \A x \in Time : Rounds[f][x] = 1 + Cardinality(past(x))
  BY DEF Rounds
<1> HIDE DEF past
<1>8. u < t /\ t \in Firings[f] => Cardinality(past(u)) < Cardinality(past(t))
  BY <1>3, <1>5, <1>6
<1> QED
  BY <1>3, <1>5, <1>7, <1>8

\* Between two firings nothing is counted.
LEMMA RoundsStay ==
    ASSUME NEW f \in FlowNames, NEW t \in Time, t + 1 \in Time, t + 1 \notin Firings[f]
    PROVE  Rounds[f][t + 1] = Rounds[f][t]
<1>1. {v \in Firings[f] : v <= t + 1} = {v \in Firings[f] : v <= t}
  <2>1. \A v \in Time : v <= t + 1 /\ v # t + 1 => v <= t
    BY Numbers
  <2>2. \A v \in Time : v <= t => v <= t + 1
    BY Numbers
  <2> QED
    BY <2>1, <2>2, FiringIsTime
<1> QED
  BY <1>1 DEF Rounds

\* The bucket of a time is around it, and the one a sweep adds up is the one before.
LEMMA BucketIs ==
    ASSUME NEW p \in Periods, NEW t \in Time
    PROVE  /\ Length(p) \in Nat \ {0} /\ Bucket(p, t) \in Nat
           /\ Bucket(p, t) <= t /\ t < Bucket(p, t) + Length(p)
           /\ BucketStart(p, t) = Bucket(p, t) - Length(p)
<1> DEFINE n == Length(p)
           k == t \div n
<1>1. n \in Nat \ {0} /\ t \in Nat
  BY LengthIs, Numbers
<1> HIDE DEF n
<1>2. k \in Nat /\ k * n <= t /\ t < k * n + n
  BY <1>1, DivIs
<1>3. Bucket(p, t) = k * n /\ BucketStart(p, t) = (k - 1) * n
  BY DEF Bucket, BucketStart, n
<1> HIDE DEF k
<1>4. k * n \in Nat /\ (k - 1) * n = k * n - n
  BY <1>1, <1>2
<1> QED
  BY <1>1, <1>2, <1>3, <1>4 DEF n

\* A time around which a bucket of another time is, is in that bucket.
LEMMA SameBucket ==
    ASSUME NEW p \in Periods, NEW t \in Time, NEW v \in Time,
           Bucket(p, t) <= v, v < Bucket(p, t) + Length(p)
    PROVE  Bucket(p, v) = Bucket(p, t)
<1> DEFINE n == Length(p)
           k == t \div n
           j == v \div n
<1>1. n \in Nat \ {0} /\ t \in Nat /\ v \in Nat
  BY LengthIs, Numbers
<1> HIDE DEF n
<1>2. k \in Int /\ j \in Int /\ j * n <= v /\ v < j * n + n
  BY <1>1, DivIs
<1>3. Bucket(p, t) = k * n /\ Bucket(p, v) = j * n
  BY DEF Bucket, n
<1>4. k * n <= v /\ v < k * n + n
  BY <1>3 DEF n
<1> HIDE DEF k, j
<1>5. j = k
  BY <1>1, <1>2, <1>4, OneMultiple
<1> QED
  BY <1>3, <1>5

\* The hour before a bucket is two lengths old lies in the next one.
LEMMA LastHour ==
    ASSUME NEW p \in Periods, NEW start \in Time, start % Length(p) = 0, NEW t \in Time,
           t < start + 2 * Length(p), t + 1 >= start + 2 * Length(p)
    PROVE  /\ Bucket(p, t) = start + Length(p)
           /\ (start + Length(p)) % Length(p) = 0
           /\ start + Length(p) > 0
           /\ start + Length(p) + Length(p) = t + 1
<1> DEFINE n == Length(p)
           k == start \div n
           j == t \div n
<1>1. n \in Nat \ {0} /\ t \in Nat /\ start \in Nat
  BY LengthIs, Numbers
<1> HIDE DEF n
<1>2. k \in Nat /\ k * n <= start /\ start < k * n + n /\ j \in Nat /\ j * n <= t /\ t < j * n + n
  BY <1>1, DivIs
<1>3. start = k * n
  <2>1. start % n = 0
    BY DEF n
  <2>2. \A a \in Nat : \A b \in Nat \ {0} : a % b = 0 => a = b * (a \div b)
    OBVIOUS
  <2>3. start = n * (start \div n)
    BY <1>1, <2>1, <2>2
  <2> QED
    BY <1>1, <1>2, <2>3
<1>4. Bucket(p, t) = j * n
  BY DEF Bucket, n
<1> HIDE DEF k, j
<1>5. (k + 1) * n = k * n + n /\ k * n \in Nat
  BY <1>1, <1>2
<1>6. t + 1 = start + n + n
  BY <1>1 DEF n
<1>7. (k + 1) * n <= t /\ t < (k + 1) * n + n
  BY <1>1, <1>3, <1>5, <1>6
<1>8. j = k + 1
  BY <1>1, <1>2, <1>7, OneMultiple
<1>9. (start + n) % n = 0
  <2> DEFINE a == start + n
             q == a \div n
  <2>1. a \in Nat
    BY <1>1
  <2>2. (k + 1) * n <= a /\ a < (k + 1) * n + n /\ a = (k + 1) * n
    BY <1>1, <1>3, <1>5
  <2> HIDE DEF a
  <2>3. q \in Nat /\ q * n <= a /\ a < q * n + n
    BY <1>1, <2>1, DivIs
  <2>4. a % n = a - q * n
    <3>1. \A x \in Nat : \A y \in Nat \ {0} : x % y = x - (x \div y) * y
      OBVIOUS
    <3> QED
      BY <1>1, <2>1, <3>1
  <2> HIDE DEF q
  <2>5. q = k + 1
    BY <1>1, <1>2, <2>1, <2>2, <2>3, OneMultiple
  <2>6. a % n = 0
    BY <1>1, <1>5, <2>1, <2>2, <2>4, <2>5
  <2> QED
    BY <2>6 DEF a
<1>10. start + n > 0
  BY <1>1
<1>11. Bucket(p, t) = start + n
  BY <1>3, <1>4, <1>5, <1>8
<1> QED
  BY <1>6, <1>9, <1>10, <1>11 DEF n

----------------------------------------------------------------------------
(* No bucket is passed over *)

Done(p, start) == InTime(p, start) # {} => start \in Drawn(p)

\* The bucket that a sweep adds up now.
Current(p) == BucketStart(p, now)

\* Only a tick has flows to look at, and no stamp is ahead of the clock.
StampInv ==
    /\ \A s \in Sweepers : pc[s] = "off" => todo[s] = {}
    /\ \A f \in FlowNames : last[f] <= Rounds[f][now]
    /\ \A s \in Sweepers : pc[s] = "record" => stamp[s] <= Rounds[Flow(s)][now]

\* A firing that no run has answered is as old as ticks were slow, at most.
UnservedInv ==
    \A f \in FlowNames : \A t \in Firings[f] \cup {0} :
        t <= now /\ last[f] < Rounds[f][t] => now <= t + slow

\* Likewise, a flow that is due or that a tick has still to look at fired so recently.
Wanted(f) == Due(f, last[f], now) \/ \E s \in Sweepers : f \in todo[s]

Recent(f) == \E t \in Firings[f] \cup {0} : t <= now /\ now <= t + slow

PromptInv == \A f \in FlowNames : Wanted(f) => Recent(f)

\* A row that is about to be appended is of the current bucket, a run that is about
\* to be recorded has seen to it, and so has one recorded since a firing in it.
PlannedNow == \A s \in Sweepers : pc[s] = "append" => plan[s][1].start = Current(Flow(s))

RecordedNow ==
    \A s \in Sweepers :
        pc[s] = "record" /\ Flow(s) \in Periods => Done(Flow(s), Current(Flow(s)))

RanNow ==
    \A p \in Periods : \A t \in Firings[p] :
        t <= now /\ Bucket(p, t) = Bucket(p, now) /\ Rounds[p][t] <= last[p]
            => Done(p, Current(p))

PastDone ==
    \A p \in Periods : \A start \in {t \in Time : t % Length(p) = 0} :
        now >= start + 2 * Length(p) => Done(p, start)

PacedInv == UnservedInv /\ PromptInv

DoneInv == PlannedNow /\ RecordedNow /\ RanNow /\ PastDone

SweptInv == StampInv /\ (faults = 0 => PacedInv /\ DoneInv)

\* What a step does to a sweeper's flows and its stamp, and to the newest run records.
LEMMA StampWays ==
    ASSUME WorldTypes, SweepTypes, PlanInv, StampInv, NEW s \in Sweepers, Sweeps(s) \/ Fails(s)
    PROVE  /\ \A t \in Sweepers \ {s} : stamp'[t] = stamp[t]
           /\ pc'[s] = "record" => stamp'[s] = Rounds[Flow(s)][now] /\ todo'[s] = todo[s] /\ pc[s] # "off"
           /\ pc'[s] = "off" => todo'[s] = {}
           /\ todo'[s] \subseteq todo[s] \/ todo'[s] = DueNow
           /\ \A f \in FlowNames :
                 \/ last'[f] = last[f]
                 \/ /\ pc[s] = "record" /\ f = Flow(s)
                    /\ last'[f] = stamp[s] /\ stamp[s] > last[f]
<1> USE DEF SweepTypes
<1>1. CASE Begin(s) \/ Take(s) \/ Claim(s)
  BY <1>1 DEF Begin, Take, Claim, Goto, ledger
<1>2. CASE Skip(s) \/ ClaimRefused(s) \/ RecordFails(s)
  BY <1>2 DEF Skip, ClaimRefused, RecordFails, Onward, Resume, Goto, ledger
<1>3. CASE Record(s)
  BY <1>3 DEF Record, Onward, Resume, Goto
<1>4. CASE Crash(s)
  BY <1>4 DEF Crash, Resume, Goto, ledger
<1>5. CASE StepEnds(s) /\ last' = last /\ pc[s] # "off"
  BY <1>5 DEF StepEnds, Goto
<1>6. CASE Goto(s, "append") /\ UNCHANGED <<todo, stamp, last>>
  BY <1>6 DEF Goto
<1>7. CASE UNCHANGED <<sweep, last>> /\ pc[s] = "append"
  BY <1>7 DEF sweep
<1> QED
  BY <1>1, <1>2, <1>3, <1>4, <1>5, <1>6, <1>7
     DEF Sweeps, Fails, Read, Report, ReadFails, AppendRows, AppendFails, ledger

LEMMA StampStep ==
    ASSUME WorldTypes, WorldTypes', SweepTypes, SweepTypes', PlanInv, StampInv, [Next]_vars
    PROVE  StampInv'
<1> DEFINE OffHas(s) == pc[s] = "off" => todo[s] = {}
           Behind(s) == pc[s] = "record" => stamp[s] <= Rounds[Flow(s)][now]
<1>1. ASSUME NEW s \in Sweepers, Sweeps(s) \/ Fails(s) PROVE StampInv'
  <2>1. now' = now
    BY <1>1, SweepsLeave
  <2>2. \A t \in Sweepers \ {s} : pc'[t] = pc[t] /\ todo'[t] = todo[t] /\ stamp'[t] = stamp[t]
    BY <1>1, OthersKeep, StampWays
  <2>3. \A t \in Sweepers \ {s} : OffHas(t)' /\ Behind(t)'
    BY <2>1, <2>2 DEF StampInv, Flow
  <2>4. OffHas(s)' /\ Behind(s)'
    <3>1. pc'[s] = "record" => stamp'[s] = Rounds[Flow(s)][now] /\ Flow(s)' = Flow(s) /\ pc[s] # "off"
      BY <1>1, StampWays DEF Flow
    <3>2. pc'[s] = "record" => stamp'[s] \in Nat
      BY Numbers, OneMore DEF SweepTypes
    <3> QED
      BY <1>1, <2>1, <3>1, <3>2, StampWays
  <2>5. \A f \in FlowNames : last'[f] <= Rounds[f][now]
    BY <1>1, StampWays DEF StampInv
  <2> QED
    BY <2>1, <2>3, <2>4, <2>5 DEF StampInv
<1>2. CASE Tick
  <2>1. now' = now + 1 /\ now \in Time /\ now' \in Time /\ UNCHANGED <<last, pc, todo, stamp>>
    BY <1>2 DEF Tick, ledger, sweep, WorldTypes
  <2>2. \A f \in FlowNames : \A n \in Nat : n <= Rounds[f][now] => n <= Rounds[f][now']
    <3>1. now <= now'
      BY <2>1, Numbers
    <3>2. \A f \in FlowNames :
             Rounds[f][now] \in Nat /\ Rounds[f][now'] \in Nat /\ Rounds[f][now] <= Rounds[f][now']
      BY <2>1, <3>1, RoundsGrow
    <3> QED
      BY <3>2
  <2>3. /\ \A f \in FlowNames : last[f] \in Nat
        /\ \A s \in Sweepers : stamp[s] \in Nat
        /\ \A s \in Sweepers : pc[s] = "record" => Flow(s) \in FlowNames
    BY FlowIsOne, Numbers, OneMore DEF SweepTypes
  <2>4. \A s \in Sweepers : Flow(s)' = Flow(s)
    BY <2>1 DEF Flow
  <2> QED
    BY <2>1, <2>2, <2>3, <2>4 DEF StampInv
<1>3. CASE UNCHANGED <<now, last, sweep>>
  BY <1>3 DEF StampInv, sweep, Flow
<1> QED
  BY <1>1, <1>2, <1>3, WorldLeaves DEF Next, vars, ledger, RunEnds, RecordArrives

LEMMA NoFault ==
    ASSUME WorldTypes, [Next]_vars, faults' = 0
    PROVE  faults = 0 /\ ~Fault /\ \A s \in Sweepers : ~Fails(s)
<1>1. ~Fault
  BY Numbers, OneMore DEF Fault, WorldTypes
<1>2. \A s \in Sweepers : Fails(s) => Fault
  BY DEF Fails, ReadFails, AppendFails, RecordFails, Crash
<1> QED
  BY <1>1, <1>2, WorldLeaves, SweepsLeave DEF Next, vars

\* An hour that nothing due is left alone in passes over a tick.
LEMMA SlowTick ==
    ASSUME WorldTypes, StampInv, Tick, ~Fault, NEW f \in FlowNames, Wanted(f)
    PROVE  slow' = slow + 1 /\ slow' <= MaxSlow
<1>1. ~Idle
  <2> SUFFICES ASSUME Idle PROVE FALSE
    OBVIOUS
  <2>1. \A s \in Sweepers : todo[s] = {}
    BY DEF Idle, Off, StampInv
  <2>2. f \in DueNow
    BY <2>1 DEF Wanted, DueNow
  <2> QED
    BY <2>2 DEF Tick
<1>2. slow < MaxSlow /\ slow' = slow + 1
  BY <1>1 DEF Tick
<1>3. slow \in Nat
  BY Numbers, OneMore DEF WorldTypes
<1> QED
  BY <1>2, <1>3, Numbers

LEMMA JustNow == \A t, more \in Nat : t <= t /\ t <= t + more
OBVIOUS

LEMMA PacedStep ==
    ASSUME WorldTypes, WorldTypes', SweepTypes, PlanInv, StampInv, PacedInv,
           [Next]_vars, faults' = 0
    PROVE  PacedInv'
<1>0. \A f \in FlowNames : Firings[f] \cup {0} \subseteq Time
  BY FiringIsTime, Zero
<1>4. ~Fault /\ \A s \in Sweepers : ~Fails(s)
  BY NoFault
<1>1. CASE Tick
  <2>1. now' = now + 1 /\ now \in Time /\ now' \in Time /\ UNCHANGED <<last, todo>>
    BY <1>1 DEF Tick, ledger, sweep, WorldTypes
  <2>2. slow \in Nat /\ slow' \in Nat /\ Time \subseteq Nat /\ now' \in Nat
    BY Numbers, OneMore DEF WorldTypes
  <2>3. ASSUME NEW f \in FlowNames, NEW t \in Firings[f] \cup {0}, t <= now', last[f] < Rounds[f][t]
        PROVE  now' <= t + slow'
    <3>1. t \in Time /\ t \in Nat
      BY <1>0, <2>2
    <3>2. CASE t <= now
      <4>1. now <= t + slow
        BY <2>3, <3>2 DEF PacedInv, UnservedInv
      <4>2. Due(f, last[f], now)
        <5>1. Rounds[f][t] \in Nat /\ Rounds[f][now] \in Nat /\ Rounds[f][t] <= Rounds[f][now]
          BY <2>1, <3>1, <3>2, RoundsGrow
        <5>2. last[f] \in Nat
          BY Numbers, OneMore DEF SweepTypes
        <5> QED
          BY <2>3, <5>1, <5>2 DEF Due
      <4>3. slow' = slow + 1
        BY <1>1, <1>4, <4>2, SlowTick DEF Wanted
      <4> QED
        BY <2>1, <2>2, <3>1, <4>1, <4>3
    <3>3. CASE t = now'
      BY <2>2, <3>3, JustNow
    <3>4. t <= now \/ t = now'
      BY <2>1, <2>2, <2>3, <3>1
    <3> QED
      BY <3>2, <3>3, <3>4
  <2>4. ASSUME NEW f \in FlowNames, Wanted(f)' PROVE Recent(f)'
    <3>1. CASE Wanted(f)
      <4>1. PICK t \in Firings[f] \cup {0} : t <= now /\ now <= t + slow
        BY <3>1 DEF PacedInv, PromptInv, Recent
      <4>2. slow' = slow + 1
        BY <1>1, <1>4, <3>1, SlowTick
      <4>3. t \in Nat
        BY <1>0, <2>2
      <4>4. t <= now' /\ now' <= t + slow'
        BY <2>1, <2>2, <4>1, <4>2, <4>3
      <4> QED
        BY <4>4 DEF Recent
    <3>2. CASE ~Wanted(f)
      <4>1. ~Due(f, last[f], now) /\ Due(f, last[f], now')
        BY <2>1, <2>4, <3>2 DEF Wanted
      <4>2. now' \in Firings[f]
        BY <2>1, <4>1, RoundsStay DEF Due
      <4>3. now' <= now' /\ now' <= now' + slow'
        BY <2>2, JustNow
      <4> QED
        BY <4>2, <4>3 DEF Recent
    <3> QED
      BY <3>1, <3>2
  <2> QED
    BY <2>1, <2>3, <2>4 DEF PacedInv, UnservedInv, PromptInv
<1>2. ASSUME NEW s \in Sweepers, Sweeps(s) PROVE PacedInv'
  <2>1. now' = now /\ slow' = slow
    BY <1>2, SweepsLeave
  <2>2. \A f \in FlowNames : \A n \in Nat : last'[f] < n => last[f] < n
    <3>1. \A f \in FlowNames : last[f] \in Nat
      BY Numbers, OneMore DEF SweepTypes
    <3>2. \A t \in Sweepers : stamp[t] \in Nat
      BY Numbers, OneMore DEF SweepTypes
    <3>3. \A f \in FlowNames : last'[f] = last[f] \/ (last'[f] = stamp[s] /\ stamp[s] > last[f])
      BY <1>2, StampWays
    <3> QED
      BY <3>1, <3>2, <3>3
  <2>3. \A f \in FlowNames : \A t \in Firings[f] \cup {0} : Rounds[f][t] \in Nat
    <3>1. \A f \in FlowNames : \A t \in Time : t <= t
      BY Numbers
    <3> QED
      BY <1>0, <3>1, RoundsGrow
  <2>4. UnservedInv'
    BY <2>1, <2>2, <2>3 DEF PacedInv, UnservedInv
  <2>5. ASSUME NEW f \in FlowNames, Wanted(f)' PROVE Wanted(f)
    <3>1. CASE Due(f, last'[f], now')
      <4>1. now \in Time /\ Rounds[f][now] \in Nat
        <5>1. now \in Time /\ now <= now
          BY Numbers DEF WorldTypes
        <5> QED
          BY <5>1, RoundsGrow
      <4> QED
        BY <2>1, <2>2, <3>1, <4>1 DEF Due, Wanted
    <3>2. CASE \E t \in Sweepers : f \in todo'[t]
      <4>1. PICK t \in Sweepers : f \in todo'[t]
        BY <3>2
      <4>2. CASE t = s
        BY <1>2, <4>1, <4>2, StampWays DEF DueNow, Wanted
      <4>3. CASE t # s
        BY <1>2, <4>1, <4>3, OthersKeep DEF Wanted
      <4> QED
        BY <4>2, <4>3
    <3> QED
      BY <2>5, <3>1, <3>2 DEF Wanted
  <2>6. PromptInv'
    BY <2>1, <2>5 DEF PacedInv, PromptInv, Recent
  <2> QED
    BY <2>4, <2>6 DEF PacedInv
<1>3. CASE UNCHANGED <<now, last, sweep, slow>>
  <2>1. UNCHANGED <<now, last, todo, slow>>
    BY <1>3 DEF sweep
  <2> QED
    BY <2>1 DEF PacedInv, UnservedInv, PromptInv, Wanted, Recent
<1> QED
  BY <1>1, <1>2, <1>3, <1>4 DEF Next, vars, ledger, RunEnds, RecordArrives

----------------------------------------------------------------------------

\* What was done stays done: a record that comes after the bucket is not in time.
LEMMA DoneStays ==
    ASSUME WorldTypes, SweepTypes, PlanInv, [Next]_vars,
           NEW p \in Periods, NEW start \in Int, start + Length(p) <= now, Done(p, start)
    PROVE  Done(p, start)'
<1>1. InTime(p, start)' \subseteq InTime(p, start)
  <2>1. ASSUME NEW r \in Runs, RecordArrives(r) PROVE InTime(p, start)' \subseteq InTime(p, start)
    <3>1. now \in Nat /\ Length(p) \in Nat
      BY LengthIs, Numbers DEF WorldTypes
    <3>2. Bucket(p, ended[r]) = start => p \notin inTime'[r]
      BY <2>1, <3>1 DEF RecordArrives, WorldTypes
    <3>3. \A q \in raw : q # r /\ inTime'[q] = inTime[q]
      BY <2>1 DEF RecordArrives, WorldTypes
    <3>4. raw' = raw \cup {r} /\ ended' = ended
      BY <2>1 DEF RecordArrives
    <3> QED
      BY <3>2, <3>3, <3>4 DEF InTime
  <2>2. ASSUME NEW r \in Runs, RunEnds(r) PROVE InTime(p, start)' \subseteq InTime(p, start)
    <3>1. r \notin raw
      BY <2>2 DEF RunEnds, WorldTypes
    <3>2. raw' = raw /\ inTime' = inTime /\ \A q \in raw : ended'[q] = ended[q]
      BY <2>2, <3>1 DEF RunEnds, ledger, WorldTypes
    <3> QED
      BY <3>2 DEF InTime
  <2>3. CASE UNCHANGED <<raw, ended, inTime>>
    BY <2>3 DEF InTime
  <2> QED
    BY <2>1, <2>2, <2>3, SweepsLeave DEF Next, Tick, vars, ledger
<1>2. Drawn(p) \subseteq Drawn(p)'
  <2>1. CASE rows' = rows
    BY <2>1 DEF Drawn
  <2>2. ASSUME NEW s \in Sweepers, pc[s] = "append", rows' = rows \o plan[s]
        PROVE  Drawn(p) \subseteq Drawn(p)'
    <3>1. PICK row \in RowSet : plan[s] = <<row>>
      BY <2>2 DEF PlanInv
    <3>2. \A i \in DOMAIN rows : i \in DOMAIN rows' /\ rows'[i] = rows[i]
      <4>1. /\ DOMAIN rows = 1..Len(rows) /\ Len(rows) \in Nat
            /\ DOMAIN rows' = 1..(Len(rows) + 1)
            /\ \A i \in 1..Len(rows) : rows'[i] = rows[i]
        BY <2>2, <3>1, Appended DEF SweepTypes
      <4>2. \A n \in Nat : \A i \in 1..n : i \in 1..(n + 1)
        OBVIOUS
      <4> QED
        BY <4>1, <4>2
    <3> QED
      BY <3>2 DEF Drawn
  <2> QED
    BY <2>1, <2>2, SweepWays, WorldLeaves DEF Next, vars, ledger, Plans, Looks, Claims, Lands
<1> QED
  BY <1>1, <1>2 DEF Done

LEMMA CurrentIsOver ==
    ASSUME WorldTypes, NEW p \in Periods
    PROVE  Current(p) \in Int /\ Current(p) + Length(p) <= now
<1>1. now \in Time /\ now \in Nat
  BY Numbers DEF WorldTypes
<1>2. /\ Length(p) \in Nat \ {0} /\ Bucket(p, now) \in Nat /\ Bucket(p, now) <= now
      /\ Current(p) = Bucket(p, now) - Length(p)
  BY <1>1, BucketIs DEF Current
<1> QED
  BY <1>1, <1>2

\* Where the cadence stays in the bucket, an hour that passes over a tick that has
\* the flow to look at, or while the flow is due, does not end the bucket.
LEMMA TickStays ==
    ASSUME WorldTypes, WorldTypes', StampInv, PacedInv, Tick, ~Fault,
           NEW f \in FlowNames, NEW p \in Periods, StaysInBucket(f, p), Wanted(f)
    PROVE  Bucket(p, now') = Bucket(p, now) /\ Current(p)' = Current(p)
<1>1. now' = now + 1 /\ now \in Time /\ now' \in Time /\ now \in Nat
  BY Numbers DEF Tick, WorldTypes
<1>2. PICK t \in Firings[f] \cup {0} : t <= now /\ now <= t + slow
  BY DEF PacedInv, PromptInv, Recent
<1>3. t \in Time /\ t \in Nat
  BY FiringIsTime, Zero, Numbers
<1>4. slow' = slow + 1 /\ slow' <= MaxSlow /\ slow \in Nat
  BY SlowTick, Numbers, OneMore DEF WorldTypes
<1>5. t + MaxSlow < Bucket(p, t) + Length(p) /\ Bucket(p, t) <= t
      /\ Bucket(p, t) \in Nat /\ Length(p) \in Nat
  BY <1>3, BucketIs DEF StaysInBucket
<1>6. /\ Bucket(p, t) <= now /\ now < Bucket(p, t) + Length(p)
      /\ Bucket(p, t) <= now' /\ now' < Bucket(p, t) + Length(p)
  BY <1>1, <1>2, <1>3, <1>4, <1>5, Numbers
<1>7. Bucket(p, now) = Bucket(p, t) /\ Bucket(p, now') = Bucket(p, t)
  BY <1>1, <1>3, <1>6, SameBucket
<1>8. Current(p) = Bucket(p, now) - Length(p) /\ Current(p)' = Bucket(p, now') - Length(p)
  BY <1>1, BucketIs DEF Current
<1> QED
  BY <1>7, <1>8

\* A sweep that has no row to append finds the bucket done.
LEMMA NothingToAdd ==
    ASSUME WorldTypes, NEW p \in Periods, Aggregates(p, now) = <<>>
    PROVE  Done(p, Current(p))
<1> DEFINE start == BucketStart(p, now)
<1>1. AlreadyAggregated(p, start) \/ Counted(p, start) = {}
  <2>1. \A row : <<row>> # <<>>
    OBVIOUS
  <2> QED
    BY <2>1 DEF Aggregates
<1>2. AlreadyAggregated(p, start) => start \in Drawn(p)
  BY DEF AlreadyAggregated, Drawn
<1>3. InTime(p, start) \subseteq Counted(p, start)
  <2>1. \A r \in raw : ended[r] \in Time
    BY Numbers DEF WorldTypes
  <2>2. \A r \in InTime(p, start) : r \in raw /\ InBucket(p, start, ended[r])
    BY <2>1, InBucketIs DEF InTime, WorldTypes
  <2> QED
    BY <2>2 DEF Counted
<1> QED
  BY <1>1, <1>2, <1>3 DEF Done, Current

\* The row that is appended is drawn from then on.
LEMMA NowDrawn ==
    ASSUME SweepTypes, PlanInv, NEW s \in Sweepers, NEW p \in Periods, p = Flow(s),
           pc[s] = "append", rows' = rows \o plan[s]
    PROVE  plan[s][1].start \in Drawn(p)'
<1> DEFINE row == plan[s][1]
<1>1. plan[s] = <<row>> /\ row \in RowSet /\ row.period = p
  BY DEF PlanInv
<1> HIDE DEF row
<1>2. DOMAIN rows' = 1..(Len(rows) + 1) /\ rows'[Len(rows) + 1] = row /\ Len(rows) \in Nat
  BY <1>1, Appended DEF SweepTypes
<1>3. \A n \in Nat : n + 1 \in 1..(n + 1)
  OBVIOUS
<1>4. row.start \in {rows'[i].start : i \in {k \in DOMAIN rows' : rows'[k].period = p}}
  BY <1>1, <1>2, <1>3
<1> QED
  BY <1>4 DEF Drawn, row

\* What a sweeper has done, for the current bucket.
LEMMA SweepDone ==
    ASSUME WorldTypes, SweepTypes, PlanInv, StampInv, DoneInv, [Next]_vars, faults' = 0,
           NEW s \in Sweepers, Sweeps(s)
    PROVE  DoneInv'
<1>1. now' = now /\ \A p \in Periods : Current(p)' = Current(p)
  BY SweepsLeave DEF Current
<1>2. \A t \in Sweepers \ {s} :
         pc'[t] = pc[t] /\ todo'[t] = todo[t] /\ plan'[t] = plan[t] /\ Flow(t)' = Flow(t)
  BY OthersKeep DEF Flow
<1>3. \A p \in Periods : Done(p, Current(p)) => Done(p, Current(p))'
  <2>1. ASSUME NEW p \in Periods, Done(p, Current(p)) PROVE Done(p, Current(p))'
    <3> DEFINE start == Current(p)
    <3>1. start \in Int /\ start + Length(p) <= now /\ Done(p, start)
      BY <2>1, CurrentIsOver
    <3>2. start' = start
      BY <1>1
    <3> HIDE DEF start
    <3>3. Done(p, start)'
      BY <3>1, <3>2, DoneStays DEF Done, InTime, Drawn
    <3> QED
      BY <3>3 DEF start
  <2> QED
    BY <2>1
<1>4. PlannedNow'
  <2>1. ASSUME pc'[s] = "append" PROVE plan'[s][1].start = Current(Flow(s))'
    <3>1. ~Fails(s)
      BY NoFault
    <3>2. Plans(s)
      <4>1. ~Fault
        BY NoFault
      <4> QED
        BY <2>1, <4>1, SweepWays DEF Leaves, Finishes, Lands, Looks, Claims
    <3>3. Flow(s) \in Periods /\ Flow(s)' = Flow(s)
      BY <3>2, FlowIsOne DEF Plans, FlowNames, Periods, Flow
    <3> DEFINE row == Row(Flow(s), BucketStart(Flow(s), now))
    <3>4. plan'[s] = <<row>> /\ row.start = BucketStart(Flow(s), now)
      BY <3>2, <3>3, Aggregated DEF Plans
    <3> HIDE DEF row
    <3>5. plan'[s][1] = row
      BY <3>4
    <3> QED
      BY <1>1, <3>3, <3>4, <3>5 DEF Current
  <2>2. ASSUME NEW t \in Sweepers \ {s}, pc'[t] = "append" PROVE plan'[t][1].start = Current(Flow(t))'
    <3>1. Flow(t) \in Periods /\ plan[t][1].start = Current(Flow(t))
      BY <1>2, <2>2 DEF PlanInv, DoneInv, PlannedNow
    <3> QED
      BY <1>1, <1>2, <3>1 DEF Current
  <2> QED
    BY <2>1, <2>2 DEF PlannedNow
<1>5. RecordedNow'
  <2>1. ASSUME pc'[s] = "record", Flow(s)' \in Periods PROVE Done(Flow(s), Current(Flow(s)))'
    <3>1. Flow(s)' = Flow(s)
      BY <2>1, StampWays DEF Flow
    <3>2. CASE Read(s)
      <4>1. Aggregates(Flow(s), now) = <<>>
        BY <2>1, <3>2 DEF Read, Goto, SweepTypes
      <4>2. Done(Flow(s), Current(Flow(s)))
        BY <2>1, <3>1, <4>1, NothingToAdd
      <4> DEFINE p == Flow(s)
      <4>3. p \in Periods /\ p' = p /\ Done(p, Current(p))
        BY <2>1, <3>1, <4>2
      <4> HIDE DEF p
      <4>4. Done(p, Current(p))'
        BY <1>3, <4>3
      <4> QED
        BY <4>4 DEF p
    <3>3. CASE AppendRows(s)
      <4>1. PICK p \in Periods : p = Flow(s)
        BY <2>1, <3>1
      <4>2. plan[s][1].start = Current(p) /\ Current(p)' = Current(p)
        BY <1>1, <3>3, <4>1 DEF AppendRows, DoneInv, PlannedNow
      <4>3. plan[s][1].start \in Drawn(p)'
        BY <3>3, <4>1, NowDrawn DEF AppendRows
      <4>4. Done(p, Current(p))'
        BY <4>2, <4>3 DEF Done
      <4> QED
        BY <3>1, <4>1, <4>4
    <3>4. ~Begin(s) /\ ~Skip(s) /\ ~Take(s) /\ ~Claim(s) /\ ~ClaimRefused(s) /\ ~Report(s) /\ ~Record(s)
      BY <2>1, <3>1 DEF Begin, Skip, Take, Claim, ClaimRefused, Report, Record, Onward, Resume, Goto, SweepTypes, Periods
    <3> QED
      BY <3>2, <3>3, <3>4 DEF Sweeps
  <2>2. ASSUME NEW t \in Sweepers \ {s}, pc'[t] = "record", Flow(t)' \in Periods
        PROVE  Done(Flow(t), Current(Flow(t)))'
    <3> DEFINE p == Flow(t)
    <3>1. p' = p /\ p \in Periods /\ Done(p, Current(p))
      BY <1>2, <2>2 DEF DoneInv, RecordedNow
    <3> HIDE DEF p
    <3>2. Done(p, Current(p))'
      BY <1>3, <3>1
    <3> QED
      BY <3>2 DEF p
  <2> QED
    BY <2>1, <2>2 DEF RecordedNow
<1>6. RanNow'
  <2> SUFFICES ASSUME NEW p \in Periods, NEW t \in Firings[p],
                      t <= now, Bucket(p, t) = Bucket(p, now), Rounds[p][t] <= last'[p]
               PROVE  Done(p, Current(p))'
    BY <1>1 DEF RanNow
  <2>1. p \in FlowNames
    BY DEF Periods, FlowNames
  <2>2. CASE last'[p] = last[p]
    <3>1. Done(p, Current(p))
      BY <2>2 DEF DoneInv, RanNow
    <3> QED
      BY <1>3, <3>1
  <2>3. CASE pc[s] = "record" /\ p = Flow(s)
    <3>1. Done(p, Current(p))
      BY <2>3 DEF DoneInv, RecordedNow
    <3> QED
      BY <1>3, <3>1
  <2> QED
    BY <2>1, <2>2, <2>3, StampWays
<1>7. PastDone'
  <2> SUFFICES ASSUME NEW p \in Periods, NEW start \in {t \in Time : t % Length(p) = 0},
                      now >= start + 2 * Length(p)
               PROVE  Done(p, start)'
    BY <1>1 DEF PastDone
  <2>1. Done(p, start)
    BY DEF DoneInv, PastDone
  <2>2. start \in Int /\ start + Length(p) <= now
    BY LengthIs, Numbers DEF WorldTypes
  <2> QED
    BY <2>1, <2>2, DoneStays
<1> QED
  BY <1>4, <1>5, <1>6, <1>7 DEF DoneInv

\* An hour goes by: where it ends a bucket, a firing in it has been answered.
LEMMA TickDone ==
    ASSUME SumsKeepUp, WorldTypes, WorldTypes', SweepTypes, PlanInv, StampInv, PacedInv, DoneInv,
           Tick, ~Fault
    PROVE  DoneInv'
<1>1. /\ now' = now + 1 /\ now \in Time /\ now' \in Time /\ now \in Nat /\ now' \in Nat
      /\ UNCHANGED <<last, pc, todo, plan>>
  BY Numbers DEF Tick, ledger, sweep, WorldTypes
<1>2. Periods \subseteq FlowNames /\ \A p \in Periods : StaysInBucket(p, p) /\ FiresInEvery(p)
  BY DEF Periods, FlowNames, SumsKeepUp
<1>3. \A s \in Sweepers : Flow(s)' = Flow(s)
  BY <1>1 DEF Flow
<1>4. \A f \in FlowNames : last[f] \in Nat
  BY Numbers, OneMore DEF SweepTypes
<1>5. ASSUME NEW p \in Periods, Wanted(p)
      PROVE  Bucket(p, now') = Bucket(p, now) /\ Current(p)' = Current(p)
  BY <1>2, <1>5, TickStays
<1>6. ASSUME NEW p \in Periods, NEW start \in Int, start + Length(p) <= now, Done(p, start)
      PROVE  Done(p, start)'
  BY <1>6, DoneStays DEF Next
<1>7. ASSUME NEW s \in Sweepers, pc[s] # "off", Flow(s) \in Periods PROVE Wanted(Flow(s))
  BY <1>7, FlowIsOne DEF Wanted
<1>8. PlannedNow'
  <2>1. ASSUME NEW s \in Sweepers, pc[s] = "append" PROVE plan[s][1].start = Current(Flow(s))'
    <3>1. PICK p \in Periods : p = Flow(s)
      BY <2>1 DEF PlanInv
    <3>2. plan[s][1].start = Current(p) /\ Wanted(p)
      BY <1>7, <2>1, <3>1 DEF DoneInv, PlannedNow
    <3> QED
      BY <1>3, <1>5, <3>1, <3>2
  <2> QED
    BY <1>1, <2>1 DEF PlannedNow
<1>9. RecordedNow'
  <2>1. ASSUME NEW s \in Sweepers, pc[s] = "record", NEW p \in Periods, p = Flow(s)
        PROVE  Done(p, Current(p))'
    <3>1. PICK start \in Int : start = Current(p) /\ start + Length(p) <= now
      BY CurrentIsOver
    <3>2. Done(p, start) /\ Current(p)' = start
      BY <1>5, <1>7, <2>1, <3>1 DEF DoneInv, RecordedNow
    <3>3. Done(p, start)'
      BY <1>6, <3>1, <3>2
    <3> QED
      BY <3>2, <3>3 DEF Done
  <2> QED
    BY <1>1, <1>3, <2>1 DEF RecordedNow
<1>10. RanNow'
  <2> SUFFICES ASSUME NEW p \in Periods, NEW t \in Firings[p],
                      t <= now', Bucket(p, t) = Bucket(p, now'), Rounds[p][t] <= last[p]
               PROVE  Done(p, Current(p))'
    BY <1>1 DEF RanNow
  <2>1. t \in Time /\ t \in Nat /\ p \in FlowNames
    BY <1>2, FiringIsTime, Numbers
  <2>2. t <= now
    <3> SUFFICES ASSUME t = now' PROVE FALSE
      BY <1>1, <2>1
    <3>1. now < t
      BY <1>1
    <3>2. now <= t
      BY <1>1, <2>1, <3>1
    <3>3. Rounds[p][now] < Rounds[p][t] /\ Rounds[p][now] \in Nat /\ Rounds[p][t] \in Nat
      BY <1>1, <2>1, <3>1, <3>2, RoundsGrow
    <3>4. last[p] <= Rounds[p][now]
      BY <2>1 DEF StampInv
    <3> QED
      BY <1>4, <2>1, <3>3, <3>4
  <2>3. /\ Length(p) \in Nat /\ Bucket(p, t) \in Nat /\ Bucket(p, t) <= t
        /\ now' < Bucket(p, now') + Length(p)
    BY <1>1, <2>1, BucketIs
  <2>4. Bucket(p, t) <= now /\ now < Bucket(p, t) + Length(p)
    BY <1>1, <2>1, <2>2, <2>3
  <2>5. Bucket(p, now) = Bucket(p, t)
    BY <1>1, <2>1, <2>4, SameBucket
  <2>6. Done(p, Current(p))
    BY <2>2, <2>5 DEF DoneInv, RanNow
  <2>7. Current(p)' = Current(p)
    <3>1. Current(p) = Bucket(p, now) - Length(p) /\ Current(p)' = Bucket(p, now') - Length(p)
      BY <1>1, BucketIs DEF Current
    <3> QED
      BY <2>5, <3>1
  <2>8. PICK start \in Int : start = Current(p) /\ start + Length(p) <= now
    BY CurrentIsOver
  <2>9. Done(p, start)'
    BY <1>6, <2>6, <2>8
  <2> QED
    BY <2>7, <2>8, <2>9 DEF Done
<1>11. PastDone'
  <2> SUFFICES ASSUME NEW p \in Periods, NEW start \in {t \in Time : t % Length(p) = 0},
                      now' >= start + 2 * Length(p)
               PROVE  Done(p, start)'
    BY DEF PastDone
  <2>1. start \in Time /\ start \in Nat /\ start % Length(p) = 0 /\ Length(p) \in Nat \ {0}
        /\ p \in FlowNames
    BY <1>2, LengthIs, Numbers
  <2>2. CASE now >= start + 2 * Length(p)
    <3>1. start + Length(p) <= now
      BY <1>1, <2>1, <2>2
    <3>2. Done(p, start)
      BY <2>2 DEF DoneInv, PastDone
    <3> QED
      BY <1>6, <2>1, <3>1, <3>2
  <2>3. CASE now < start + 2 * Length(p)
    <3> DEFINE b == start + Length(p)
    <3>1. Bucket(p, now) = b /\ b % Length(p) = 0 /\ b > 0 /\ b + Length(p) = now'
      <4>1. now + 1 >= start + 2 * Length(p)
        BY <1>1
      <4> QED
        BY <1>1, <2>1, <2>3, <4>1, LastHour
    <3>2. b \in Time /\ b + Length(p) <= Horizon /\ b <= now
      <4>1. now' \in 0..Horizon
        BY <1>1 DEF Time
      <4> QED
        BY <1>1, <2>1, <3>1, <4>1, Numbers DEF Time
    <3>3. PICK t \in Firings[p] : Bucket(p, t) = b
      BY <1>2, <3>1, <3>2 DEF FiresInEvery
    <3>4. t \in Time /\ t \in Nat /\ t < b + Length(p)
      BY <2>1, <3>3, FiringIsTime, BucketIs, Numbers
    <3>5. t <= now
      BY <1>1, <3>1, <3>4
    <3>6. Rounds[p][t] <= last[p]
      <4> SUFFICES ASSUME ~(Rounds[p][t] <= last[p]) PROVE FALSE
        OBVIOUS
      <4>1. Rounds[p][t] \in Nat /\ Rounds[p][now] \in Nat /\ Rounds[p][t] <= Rounds[p][now]
        BY <1>1, <2>1, <3>4, <3>5, RoundsGrow
      <4>2. Wanted(p)
        BY <1>4, <2>1, <4>1 DEF Wanted, Due
      <4>3. Bucket(p, now') = b
        BY <1>5, <3>1, <4>2
      <4>4. now' < Bucket(p, now') + Length(p)
        BY <1>1, BucketIs
      <4> QED
        BY <1>1, <3>1, <4>3, <4>4
    <3>7. Done(p, Current(p))
      BY <3>1, <3>3, <3>5, <3>6 DEF DoneInv, RanNow
    <3>8. Current(p) = start /\ start + Length(p) <= now
      <4>1. Current(p) = Bucket(p, now) - Length(p)
        BY <1>1, BucketIs DEF Current
      <4> QED
        BY <2>1, <3>1, <3>2, <4>1
    <3> QED
      BY <1>6, <2>1, <3>7, <3>8
  <2> QED
    BY <1>1, <2>1, <2>2, <2>3
<1> QED
  BY <1>8, <1>9, <1>10, <1>11 DEF DoneInv

\* Runs that end and records that come change nothing of it.
LEMMA ArrivalDone ==
    ASSUME WorldTypes, SweepTypes, PlanInv, DoneInv, [Next]_vars, UNCHANGED <<now, last, sweep>>
    PROVE  DoneInv'
<1>1. UNCHANGED <<now, last, pc, todo, plan>> /\ \A s \in Sweepers : Flow(s)' = Flow(s)
  BY DEF sweep, Flow
<1>2. ASSUME NEW p \in Periods, Done(p, Current(p)) PROVE Done(p, Current(p))'
  <2>1. PICK start \in Int : start = Current(p) /\ start + Length(p) <= now
    BY CurrentIsOver
  <2>2. Done(p, start)'
    BY <1>2, <2>1, DoneStays
  <2>3. Current(p)' = start
    BY <1>1, <2>1 DEF Current
  <2> QED
    BY <2>2, <2>3 DEF Done
<1>3. PlannedNow'
  BY <1>1 DEF DoneInv, PlannedNow, Current
<1>4. RecordedNow'
  <2>1. ASSUME NEW s \in Sweepers, pc[s] = "record", NEW p \in Periods, p = Flow(s)
        PROVE  Done(p, Current(p))'
    BY <1>2, <2>1 DEF DoneInv, RecordedNow
  <2> QED
    BY <1>1, <2>1 DEF RecordedNow
<1>5. RanNow'
  BY <1>1, <1>2 DEF DoneInv, RanNow
<1>6. PastDone'
  <2> SUFFICES ASSUME NEW p \in Periods, NEW start \in {t \in Time : t % Length(p) = 0},
                      now >= start + 2 * Length(p)
               PROVE  Done(p, start)'
    BY <1>1 DEF PastDone
  <2>1. Done(p, start)
    BY DEF DoneInv, PastDone
  <2>2. start \in Int /\ start + Length(p) <= now
    BY LengthIs, Numbers DEF WorldTypes
  <2> QED
    BY <2>1, <2>2, DoneStays
<1> QED
  BY <1>3, <1>4, <1>5, <1>6 DEF DoneInv

LEMMA SweptStep ==
    ASSUME SumsKeepUp, Inv, Inv', SweptInv, [Next]_vars
    PROVE  SweptInv'
<1> USE DEF Inv
<1>1. StampInv'
  BY StampStep DEF SweptInv
<1>2. ASSUME faults' = 0 PROVE PacedInv' /\ DoneInv'
  <2>1. faults = 0 /\ ~Fault /\ \A s \in Sweepers : ~Fails(s)
    BY <1>2, NoFault
  <2>2. StampInv /\ PacedInv /\ DoneInv
    BY <2>1 DEF SweptInv
  <2>3. PacedInv'
    BY <1>2, <2>2, PacedStep
  <2>4. DoneInv'
    <3>1. CASE Tick
      BY <2>1, <2>2, <3>1, TickDone
    <3>2. ASSUME NEW s \in Sweepers, Sweeps(s) PROVE DoneInv'
      BY <1>2, <2>2, <3>2, SweepDone
    <3>3. CASE UNCHANGED <<now, last, sweep>>
      BY <2>2, <3>3, ArrivalDone
    <3> QED
      BY <2>1, <3>1, <3>2, <3>3 DEF Next, vars, ledger, RunEnds, RecordArrives
  <2> QED
    BY <2>3, <2>4
<1> QED
  BY <1>1, <1>2 DEF SweptInv

LEMMA SweptInit == ASSUME Init PROVE SweptInv
<1>1. /\ \A f \in FlowNames : Rounds[f][0] \in Nat
      /\ \A f \in FlowNames : last[f] = 0
      /\ now = 0 /\ slow = 0 /\ raw = {}
      /\ \A s \in Sweepers : pc[s] = "off" /\ todo[s] = {}
  <2>1. 0 <= 0
    OBVIOUS
  <2>2. \A f \in FlowNames : Rounds[f][0] \in Nat
    BY <2>1, Zero, RoundsGrow
  <2> QED
    BY <2>2 DEF Init
<1>2. StampInv
  BY <1>1 DEF StampInv
<1>3. UnservedInv
  <2>1. ASSUME NEW f \in FlowNames, NEW t \in Firings[f] \cup {0} PROVE t \in Nat
    BY FiringIsTime, Zero, Numbers
  <2>2. \A t \in Nat : 0 <= t + 0
    OBVIOUS
  <2> QED
    BY <1>1, <2>1, <2>2 DEF UnservedInv
<1>4. PromptInv
  BY <1>1 DEF PromptInv, Recent
<1>5. DoneInv
  <2>1. \A p, start : Done(p, start)
    BY <1>1 DEF Done, InTime
  <2> QED
    BY <1>1, <2>1 DEF DoneInv, PlannedNow, RecordedNow, RanNow, PastDone
<1> QED
  BY <1>2, <1>3, <1>4, <1>5 DEF SweptInv, PacedInv

\* Where the cadences keep up with the buckets, and while nothing fails, every day
\* and every week gets its row before the next one is over, if it had a record by
\* its end: however ticks overlap, however slow they are within the bound, and
\* wherever the clocks change (is_due, _run_scheduled_flows, bucket_for).
THEOREM NoBucketMissed == ASSUME SumsKeepUp PROVE Spec => []NoBucketPassedOver
<1>1. Init => SweptInv
  BY SweptInit
<1>2. Inv /\ Inv' /\ SweptInv /\ [Next]_vars => SweptInv'
  BY SweptStep
<1>3. SweptInv => NoBucketPassedOver
  BY DEF SweptInv, DoneInv, PastDone, Done, NoBucketPassedOver
<1> QED
  BY <1>1, <1>2, <1>3, Holds, PTL DEF Spec

\* The report finds the row of the week before: its firing is two hours behind the
\* one of the sum, which cannot have waited so long while ticks have taken less.
THEOREM ReportFindsTheWeek ==
    ASSUME SumsKeepUp, ReportKeepsUp
    PROVE  Spec => ReportHasTheWeek
<1> DEFINE Finds ==
        \A s \in Sweepers :
            pc[s] = "read" /\ Flow(s) = "report" /\ pc'[s] = "record" /\ faults' = 0 /\ slow < 2
            /\ InTime("week", LastWeek) # {}
            => LastWeek \in Drawn("week")
<1>1. Inv /\ SweptInv /\ [Next]_vars => Finds
  <2> SUFFICES ASSUME Inv, SweptInv, [Next]_vars, NEW s \in Sweepers,
                      pc[s] = "read", Flow(s) = "report", faults' = 0, slow < 2,
                      InTime("week", LastWeek) # {}
               PROVE  LastWeek \in Drawn("week")
    OBVIOUS
  <2>1. StampInv /\ PacedInv /\ DoneInv
    BY NoFault DEF Inv, SweptInv
  <2>2. /\ "week" \in Periods /\ "week" \in FlowNames /\ "report" \in FlowNames
        /\ now \in Time /\ now \in Nat /\ slow \in Nat /\ slow <= MaxSlow /\ slow <= 1
        /\ last["week"] \in Nat
    BY Numbers, OneMore DEF Inv, WorldTypes, SweepTypes, Periods, FlowNames
  <2>3. Wanted("report")
    BY FlowIsOne DEF Inv, Wanted
  <2>4. PICK t \in Firings["report"] \cup {0} : t <= now /\ now <= t + slow
    BY <2>1, <2>2, <2>3 DEF PacedInv, PromptInv, Recent
  <2>5. t \in Time /\ t \in Nat
    BY <2>2, FiringIsTime, Zero, Numbers
  <2>6. LastWeek = Current("week")
    BY <2>2, BucketIs DEF LastWeek, Current
  <2>7. Bucket("week", now) = Bucket("week", t)
    <3>1. t + MaxSlow < Bucket("week", t) + Length("week")
      BY DEF ReportKeepsUp, StaysInBucket
    <3>2. /\ Bucket("week", t) \in Nat /\ Bucket("week", t) <= t
          /\ Length("week") \in Nat
      BY <2>2, <2>5, BucketIs
    <3>3. Bucket("week", t) <= now /\ now < Bucket("week", t) + Length("week")
      BY <2>2, <2>4, <2>5, <3>1, <3>2, Numbers
    <3> QED
      BY <2>2, <2>5, <3>3, SameBucket
  <2>8. CASE t \in Firings["report"]
    <3>1. PICK u \in Firings["week"] : Bucket("week", u) = Bucket("week", t) /\ u + 2 <= t
      BY <2>8 DEF ReportKeepsUp, ReportFollows
    <3>2. u \in Time /\ u \in Nat
      BY <2>2, FiringIsTime, Numbers
    <3>3. u <= now /\ ~(now <= u + slow)
      BY <2>2, <2>4, <2>5, <3>1, <3>2
    <3>4. ~(last["week"] < Rounds["week"][u])
      BY <2>1, <2>2, <3>3 DEF PacedInv, UnservedInv
    <3>5. Rounds["week"][u] <= last["week"]
      <4>1. u <= u
        BY <3>2
      <4>2. Rounds["week"][u] \in Nat
        BY <2>2, <3>2, <4>1, RoundsGrow
      <4> QED
        BY <2>2, <3>4, <4>2
    <3>6. Done("week", Current("week"))
      BY <2>1, <2>2, <2>7, <3>1, <3>3, <3>5 DEF DoneInv, RanNow
    <3> QED
      BY <2>6, <3>6 DEF Done
  <2>9. CASE t = 0
    <3>1. Bucket("week", 0) = 0
      <4>1. Bucket("week", 0) <= 0 /\ Bucket("week", 0) \in Nat
        BY <2>2, Zero, BucketIs
      <4> QED
        BY <4>1
    <3>2. Length("week") \in Nat \ {0} /\ LastWeek = 0 - Length("week")
      BY <2>2, <2>7, <2>9, <3>1, LengthIs DEF LastWeek
    <3>3. \A r \in raw : Bucket("week", ended[r]) \in Nat
      <4>1. \A r \in raw : ended[r] \in Time
        BY Numbers DEF Inv, WorldTypes
      <4> QED
        BY <2>2, <4>1, BucketIs
    <3>4. InTime("week", LastWeek) = {}
      <4>1. LastWeek \notin Nat
        BY <3>2
      <4> QED
        BY <3>3, <4>1 DEF InTime
    <3> QED
      BY <3>4
  <2> QED
    BY <2>4, <2>8, <2>9
<1>2. Inv /\ SweptInv /\ [Next]_vars => [Finds]_vars
  BY <1>1
<1>3. Spec => []SweptInv
  <2>1. Init => SweptInv
    BY SweptInit
  <2>2. Inv /\ Inv' /\ SweptInv /\ [Next]_vars => SweptInv'
    BY SweptStep
  <2> QED
    BY <2>1, <2>2, Holds, PTL DEF Spec
<1> QED
  BY <1>2, <1>3, Holds, PTL DEF Spec, ReportHasTheWeek
=============================================================================
