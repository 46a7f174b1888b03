-------------------------- MODULE ReviewLoop_proofs --------------------------
(***************************************************************************)
(* Proofs about ReviewLoop and the verdict it decides by, for every cap,   *)
(* every set of standards and decisions, and any number of commits, acts   *)
(* and failures.                                                           *)
(***************************************************************************)
EXTENDS ReviewLoop, TLAPS

LEMMA ElementOfSeq ==
    ASSUME NEW S, NEW seq \in Seq(S), NEW i \in DOMAIN seq
    PROVE  seq[i] \in S
OBVIOUS

(* The verdict *)

\* A critical defect blocks, however unsure the reviewer is of it, unless it cites
\* a decision; no decision waives a standard that cannot be overridden
\* (finding_blocks, adr_exception_index).
THEOREM CriticalAlwaysBlocks ==
    ASSUME NEW findings \in SUBSET Findings, NEW f \in findings,
           f.severity = "Critical",
           f.adr = NoRef \/ f.standard \notin Overridable,
           NEW objected \in BOOLEAN
    PROVE  ~Approves(findings, objected, Decisions, Overridable)
<1>1. f.category # "improvement"
  BY DEF Findings
<1>2. ~Waived(f, Decisions, Overridable)
  <2> SUFFICES ASSUME NEW i \in DOMAIN Decisions,
                      Decisions[i].id = f.adr,
                      f.standard \in Granted(Decisions[i], Overridable)
               PROVE  FALSE
    BY DEF Waived
  <2>1. f.standard \in Overridable
    BY DEF Granted
  <2>2. Decisions[i] \in AdrRecords
    BY LoopAssumption, ElementOfSeq
  <2>3. Decisions[i].id \in Adrs
    BY <2>2 DEF AdrRecords
  <2> QED
    BY <2>1, <2>3, RefAssumption
<1>3. Blocks(f, Decisions, Overridable)
  BY <1>1, <1>2 DEF Blocks
<1> QED
  BY <1>3 DEF Approves, Clean

\* Improvements weigh nothing (finding_blocks, derive_review_verdict): with any of
\* them added to what a review found, the verdict is the same, and so is whether it
\* is people alone who keep the pull request back.
THEOREM ImprovementsPass ==
    ASSUME NEW findings, NEW improvements \in SUBSET Findings, NEW objected,
           \A f \in improvements : f.category = "improvement"
    PROVE  /\ Approves(findings \cup improvements, objected, Decisions, Overridable)
                <=> Approves(findings, objected, Decisions, Overridable)
           /\ OnlyPeopleObject(findings \cup improvements, objected, Decisions, Overridable)
                <=> OnlyPeopleObject(findings, objected, Decisions, Overridable)
<1>1. \A f \in improvements : ~Blocks(f, Decisions, Overridable)
  BY DEF Blocks
<1>2. Clean(findings \cup improvements, Decisions, Overridable)
        <=> Clean(findings, Decisions, Overridable)
  BY <1>1 DEF Clean
<1> QED
  BY <1>2 DEF Approves, OnlyPeopleObject

\* Fewer findings never turn an approval into a block: the verdict has no way to weigh
\* one finding against another (derive_review_verdict).
THEOREM FewerFindingsPass ==
    ASSUME NEW more, NEW fewer \in SUBSET more, NEW objected,
           Approves(more, objected, Decisions, Overridable)
    PROVE  Approves(fewer, objected, Decisions, Overridable)
BY DEF Approves, Clean

\* A record that is not accepted changes no verdict, even where it has the id of an
\* accepted one and comes after it: a proposal neither waives a finding nor takes
\* back what an earlier record has waived (adr_exception_index).
THEOREM ProposalsChangeNothing ==
    ASSUME NEW record \in AdrRecords, record.status # "accepted",
           NEW findings, NEW objected
    PROVE  Approves(findings, objected, Append(Decisions, record), Overridable)
             <=> Approves(findings, objected, Decisions, Overridable)
<1> DEFINE after == Append(Decisions, record)
<1>1. Decisions \in Seq(AdrRecords)
  BY LoopAssumption
<1>2. /\ Len(Decisions) \in Nat
      /\ DOMAIN Decisions = 1..Len(Decisions)
      /\ DOMAIN after = 1..(Len(Decisions) + 1)
      /\ \A i \in DOMAIN Decisions : after[i] = Decisions[i]
      /\ after[Len(Decisions) + 1] = record
  BY <1>1
<1>3. Granted(record, Overridable) = {}
  BY DEF Granted
<1>4. ASSUME NEW f PROVE Waived(f, after, Overridable) <=> Waived(f, Decisions, Overridable)
  <2>1. ASSUME Waived(f, after, Overridable) PROVE Waived(f, Decisions, Overridable)
    <3>1. PICK i \in DOMAIN after :
             /\ after[i].id = f.adr
             /\ f.standard \in Granted(after[i], Overridable)
             /\ \A j \in DOMAIN after :
                   j > i /\ after[j].id = f.adr => Granted(after[j], Overridable) = {}
      BY <2>1 DEF Waived
    <3>2. i \in DOMAIN Decisions
      BY <1>2, <1>3, <3>1
    <3>3. \A j \in DOMAIN Decisions : j \in DOMAIN after
      BY <1>2
    <3> QED
      BY <1>2, <3>1, <3>2, <3>3 DEF Waived
  <2>2. ASSUME Waived(f, Decisions, Overridable) PROVE Waived(f, after, Overridable)
    <3>1. PICK i \in DOMAIN Decisions :
             /\ Decisions[i].id = f.adr
             /\ f.standard \in Granted(Decisions[i], Overridable)
             /\ \A j \in DOMAIN Decisions :
                   j > i /\ Decisions[j].id = f.adr
                     => Granted(Decisions[j], Overridable) = {}
      BY <2>2 DEF Waived
    <3>2. i \in DOMAIN after /\ after[i] = Decisions[i]
      BY <1>2
    <3>3. ASSUME NEW j \in DOMAIN after, j > i, after[j].id = f.adr
          PROVE  Granted(after[j], Overridable) = {}
      <4>1. CASE j = Len(Decisions) + 1
        BY <1>2, <1>3, <4>1
      <4>2. CASE j # Len(Decisions) + 1
        <5>1. j \in DOMAIN Decisions
          BY <1>2, <4>2
        <5> QED
          BY <1>2, <3>1, <3>3, <5>1
      <4> QED
        BY <4>1, <4>2
    <3> HIDE DEF after
    <3> QED
      BY <3>1, <3>2, <3>3 DEF Waived
  <2> QED
    BY <2>1, <2>2
<1> HIDE DEF after
<1>5. \A f : Blocks(f, after, Overridable) <=> Blocks(f, Decisions, Overridable)
  BY <1>4 DEF Blocks
<1>6. Approves(findings, objected, after, Overridable)
        <=> Approves(findings, objected, Decisions, Overridable)
  BY <1>5 DEF Approves, Clean
<1> QED
  BY <1>6 DEF after

----------------------------------------------------------------------------
(* Types *)

LEMMA Bounds ==
    /\ MaxCycles \in Nat \ {0} /\ MaxHead \in Nat \ {0}
    /\ MaxActs \in Nat /\ MaxFaults \in Nat
BY LoopAssumption

LEMMA StepNames == Steps = {"coder", "ci-gate", "merge-conflict", "pr-reviewer"}
<1>1. Len(Order) = 4
  BY DEF Order
<1>2. 1..4 = {1, 2, 3, 4}
  OBVIOUS
<1> QED
  BY <1>1, <1>2 DEF Steps, Order

LEMMA OrderTypes == Len(Order) = 4 /\ \A i \in 1..4 : Order[i] \in Steps
BY DEF Order, Steps

\* What a failing call does to the number of failures.
LEMMA FaultTypes ==
    ASSUME faults \in 0..MaxFaults, Fault
    PROVE  faults' \in 0..MaxFaults /\ faults' = faults + 1
BY Bounds DEF Fault

LEMMA FailingTypes ==
    ASSUME faults \in 0..MaxFaults, NEW a \in BOOLEAN, NEW b \in BOOLEAN, Failing(a, b)
    PROVE  faults' \in 0..MaxFaults /\ faults' >= faults
BY Bounds DEF Failing, Cost

\* What is about to be written is a count.
NextCounts == pc = "count" => next # 0

LEMMA OnlyUncount ==
    ASSUME [Next]_vars, ~Uncount
    PROVE  pc' = "count" => UNCHANGED <<pc, next>>
BY DEF Next, Work, vars, process, Dispatch, EndTick, CountUp, RunCoder, RunCi, RunMerge,
       Approve, ApproveStale, RequestChanges, RunFails, Returns, Stamp, Announce, Halt,
       Escalate, StartRound, StartFreeRound, Guarded, SendBackFree, Tried, Clear, Cleared,
       Crash, PushByHand, Object, Promote, ClearHalt

LEMMA ToClearTypes == ASSUME at \in Steps PROVE ToClear \in Seq(Steps)
<1>1. <<at, "coder">> \in Seq(Steps)
  BY StepNames
<1>2. AlsoClear(at) \in Seq(Steps)
  <2>1. <<"ci-gate", "merge-conflict">> \in Seq(Steps) /\ <<>> \in Seq(Steps)
    BY StepNames
  <2> QED
    BY <2>1, Zenon DEF AlsoClear
<1>3. \A S : \A one, other \in Seq(S) : one \o other \in Seq(S)
  OBVIOUS
<1> QED
  BY <1>1, <1>2, <1>3 DEF ToClear

LEMMA ReturnsTypes ==
    ASSUME NEW status \in Statuses, NEW free \in BOOLEAN, Returns(status, free)
    PROVE  result' \in [status : Statuses, free : BOOLEAN] /\ pc' = "stamp"
BY DEF Returns

LEMMA TypeRuns ==
    ASSUME TypeOK,
           \/ RunCoder \/ RunCi \/ RunMerge \/ Approve \/ ApproveStale
           \/ RequestChanges \/ RunFails
    PROVE  TypeOK'
<1> USE Bounds
<1>1. CASE RunCoder
  <2>1. head' \in 1..MaxHead /\ pushed' \in 0..MaxHead
    <3>1. CASE PushOwn /\ pushed' = head'
      BY <3>1 DEF TypeOK, PushOwn
    <3>2. CASE UNCHANGED <<head, pushed>>
      BY <3>2 DEF TypeOK
    <3> QED
      BY <1>1, <3>1, <3>2 DEF RunCoder
  <2>2. PICK status \in Statuses : Returns(status, FALSE)
    BY <1>1 DEF RunCoder, Statuses
  <2> QED
    BY <1>1, <2>1, <2>2, ReturnsTypes DEF TypeOK, RunCoder, Returns
<1>2. CASE RunCi
  <2>1. tested' \in 0..MaxHead
    BY <1>2 DEF TypeOK, RunCi, Returns
  <2>2. excused' \in BOOLEAN
    <3>1. CASE excused' = ~({saw, about["coder"]} = {head} /\ label["merge-conflict"] = {})
      BY <3>1, Zenon
    <3>2. CASE UNCHANGED excused
      BY <3>2 DEF TypeOK
    <3> QED
      BY <1>2, <3>1, <3>2 DEF RunCi
  <2>3. PICK status \in Statuses : Returns(status, FALSE)
    BY <1>2 DEF RunCi, Statuses
  <2> QED
    BY <1>2, <2>1, <2>2, <2>3, ReturnsTypes DEF TypeOK, RunCi, Returns
<1>3. CASE RunMerge
  <2>1. head' \in 1..MaxHead /\ excused' \in BOOLEAN
    <3>1. CASE PushOwn /\ excused' = TRUE
      BY <3>1 DEF TypeOK, PushOwn
    <3>2. CASE UNCHANGED <<head, excused>>
      BY <3>2 DEF TypeOK
    <3> QED
      BY <1>3, <3>1, <3>2 DEF RunMerge
  <2>2. PICK status \in Statuses : Returns(status, FALSE)
    BY <1>3 DEF RunMerge, Statuses
  <2> QED
    BY <1>3, <2>1, <2>2, ReturnsTypes DEF TypeOK, RunMerge, Returns
<1>4. CASE Approve
  <2>1. faults' \in 0..MaxFaults /\ pending' \in BOOLEAN
    BY <1>4, FailingTypes DEF TypeOK, Approve
  <2> QED
    BY <1>4, <2>1 DEF TypeOK, Approve, Returns, Statuses
<1>5. CASE ApproveStale
  <2>1. faults' \in 0..MaxFaults
    BY <1>5, FailingTypes DEF TypeOK, ApproveStale
  <2> QED
    BY <1>5, <2>1 DEF TypeOK, ApproveStale, Halt, github, run, history
<1>6. CASE RequestChanges
  <2>1. PICK status \in Statuses, free \in BOOLEAN : Returns(status, free)
    <3>1. ASSUME NEW findings \in Reviews
          PROVE  (/\ OnlyPeopleObject(findings, objection, Decisions, Overridable)
                  /\ ~pending) \in BOOLEAN
      BY Zenon
    <3>2. "review" \in Statuses /\ "blocked" \in Statuses
      BY DEF Statuses
    <3> QED
      BY <1>6, <3>1, <3>2, Zenon DEF RequestChanges
  <2> QED
    BY <1>6, <2>1, ReturnsTypes DEF TypeOK, RequestChanges, Returns
<1>7. CASE RunFails
  BY <1>7 DEF TypeOK, RunFails, Returns, Statuses
<1> QED
  BY <1>1, <1>2, <1>3, <1>4, <1>5, <1>6, <1>7

LEMMA TypeLoop ==
    ASSUME TypeOK, NextCounts,
           \/ Dispatch \/ EndTick \/ Uncount \/ CountUp \/ Stamp \/ Announce
           \/ Escalate \/ StartRound \/ StartFreeRound \/ Clear \/ Cleared
    PROVE  TypeOK'
<1> USE Bounds
<1>1. CASE Dispatch
  <2>1. from' \in 1..(Len(Order) + 1) /\ at' \in Steps
    BY <1>1, OrderTypes DEF TypeOK, Dispatch
  <2> QED
    BY <1>1, <2>1 DEF TypeOK, Dispatch, github, history
<1>2. CASE EndTick
  BY <1>2, OrderTypes DEF TypeOK, EndTick, github, history
<1>3. CASE Uncount
  <2>1. PICK count \in Count : next' = Following(count)
                                /\ (rounds' = rounds \ {count} \/ UNCHANGED rounds)
    BY <1>3 DEF Uncount
  <2>2. count \in Nat
    BY <2>1 DEF TypeOK, Count
  <2>3. next' \in Nat /\ rounds' \subseteq Nat \ {0}
    <3>1. next' \in Nat
      BY <2>1, <2>2, Bounds DEF Following
    <3>2. rounds' \subseteq rounds
      BY <2>1
    <3> QED
      BY <3>1, <3>2, Zenon DEF TypeOK
  <2>4. faults' \in 0..MaxFaults
    BY <1>3, FaultTypes DEF TypeOK, Uncount
  <2> QED
    BY <1>3, <2>3, <2>4 DEF TypeOK, Uncount, run, history
<1>4. CASE CountUp
  <2>1. faults' \in 0..MaxFaults
    BY <1>4, FaultTypes DEF TypeOK, CountUp, Tried
  <2> QED
    BY <1>4, <2>1 DEF TypeOK, NextCounts, CountUp, Tried, Counted, run, history
<1>5. CASE Stamp
  <2>1. label' \in [Steps -> SUBSET Statuses]
    BY <1>5 DEF TypeOK, Stamp, Stamped
  <2> QED
    BY <1>5, <2>1, OrderTypes DEF TypeOK, Stamp, Halt, run, history
<1>6. CASE Announce
  <2>1. about' \in [Steps -> 0..MaxHead]
    <3>1. Subject \in 0..MaxHead
      BY DEF TypeOK, Subject
    <3>2. CASE about' = [about EXCEPT ![at] = Subject]
      BY <3>1, <3>2 DEF TypeOK
    <3>3. CASE UNCHANGED about
      BY <3>3 DEF TypeOK
    <3> QED
      BY <1>6, <3>2, <3>3 DEF Announce
  <2>2. pc' \in {"idle", "loop"} /\ from' \in 1..(Len(Order) + 1)
    <3>1. CASE result.status = "complete"
      BY <1>6, <3>1 DEF TypeOK, Announce
    <3>2. CASE result.status = "review" /\ at \in {"ci-gate", "pr-reviewer"}
      BY <1>6, <3>2 DEF TypeOK, Announce
    <3>3. CASE /\ result.status # "complete"
               /\ ~(result.status = "review" /\ at \in {"ci-gate", "pr-reviewer"})
      BY <1>6, <3>3, OrderTypes DEF Announce, Halt
    <3> QED
      BY <3>1, <3>2, <3>3
  <2>3. faults' \in 0..MaxFaults /\ excused' \in BOOLEAN
    BY <1>6, FaultTypes DEF TypeOK, Announce
  <2> QED
    BY <1>6, <2>1, <2>2, <2>3 DEF TypeOK, Announce, run
<1>7. CASE Escalate \/ Cleared
  <2>1. Halt /\ UNCHANGED <<github, run, result, next, todo, history, acts, faults>>
    BY <1>7 DEF Escalate, Cleared
  <2> QED
    BY <2>1, OrderTypes DEF TypeOK, Halt, github, run, history
<1>8. CASE StartRound
  <2>1. todo' \in Seq(Steps)
    BY <1>8, ToClearTypes DEF TypeOK, StartRound
  <2>2. faults' \in 0..MaxFaults /\ pending' \in BOOLEAN
    BY <1>8, FaultTypes DEF TypeOK, StartRound, Tried
  <2> QED
    BY <1>8, <2>1, <2>2 DEF TypeOK, StartRound, run
<1>9. CASE StartFreeRound
  <2>1. CASE pending' = TRUE /\ SendBackFree /\ UNCHANGED faults
    BY <1>9, <2>1, ToClearTypes DEF TypeOK, StartFreeRound, SendBackFree, run
  <2>2. CASE Fault /\ UNCHANGED <<pending, todo, frees>> /\ Halt
    BY <1>9, <2>2, FaultTypes, OrderTypes DEF TypeOK, StartFreeRound, Halt, run
  <2> QED
    BY <1>9, <2>1, <2>2 DEF StartFreeRound, Guarded, Tried
<1>10. CASE Clear
  <2>1. todo' \in Seq(Steps)
    BY <1>10 DEF TypeOK, Clear
  <2>2. label' \in [Steps -> SUBSET Statuses]
    <3>1. PICK lost : \/ label' = [label EXCEPT ![Head(todo)] = @ \ {lost}]
                      \/ UNCHANGED label
      BY <1>10 DEF Clear
    <3> QED
      BY <3>1 DEF TypeOK
  <2>3. returns' \in Nat
    BY <1>10 DEF TypeOK, Clear
  <2>4. faults' \in 0..MaxFaults /\ excused' \in BOOLEAN
    BY <1>10, FaultTypes DEF TypeOK, Clear
  <2> QED
    BY <1>10, <2>1, <2>2, <2>3, <2>4 DEF TypeOK, Clear, run
<1> QED
  BY <1>1, <1>2, <1>3, <1>4, <1>5, <1>6, <1>7, <1>8, <1>9, <1>10

LEMMA TypeOthers ==
    ASSUME TypeOK,
           Crash \/ PushByHand \/ Object \/ Promote \/ ClearHalt
    PROVE  TypeOK'
<1> USE Bounds
<1>1. CASE Crash
  <2>1. label' \in [Steps -> SUBSET Statuses] /\ about' \in [Steps -> 0..MaxHead]
    BY <1>1 DEF TypeOK, Crash, Statuses
  <2>2. faults' \in 0..MaxFaults
    BY <1>1, FaultTypes DEF TypeOK, Crash
  <2>3. excused' \in BOOLEAN
    BY <1>1, Zenon DEF TypeOK, Crash
  <2>4. pc' = "idle" /\ from' \in 1..(Len(Order) + 1)
    BY <1>1, OrderTypes DEF Crash, Halt
  <2>5. todo' \in Seq(Steps)
    BY <1>1 DEF Crash
  <2> QED
    BY <1>1, <2>1, <2>2, <2>3, <2>4, <2>5 DEF TypeOK, Crash, run
<1>2. CASE PushByHand
  BY <1>2 DEF TypeOK, PushByHand, Act, process, run
<1>3. CASE Object
  BY <1>3 DEF TypeOK, Object, Act, process, run, history
<1>4. CASE Promote
  <2>1. label' \in [Steps -> SUBSET Statuses]
    BY <1>4 DEF TypeOK, Promote, Statuses
  <2> QED
    BY <1>4, <2>1 DEF TypeOK, Promote, Act, process, run, history
<1>5. CASE ClearHalt
  <2>1. label' \in [Steps -> SUBSET Statuses]
    BY <1>5 DEF TypeOK, ClearHalt
  <2> QED
    BY <1>5, <2>1 DEF TypeOK, ClearHalt, Act, process, run, history
<1> QED
  BY <1>1, <1>2, <1>3, <1>4, <1>5

\* Types: every variable ranges over what TypeOK says.
THEOREM TypeCorrect == Spec => []TypeOK
<1>1. Init => TypeOK
  <2> SUFFICES ASSUME Init PROVE TypeOK
    OBVIOUS
  <2>1. label \in [Steps -> SUBSET Statuses] /\ about \in [Steps -> 0..MaxHead]
    BY Bounds DEF Init
  <2>2. result \in [status : Statuses, free : BOOLEAN]
    BY DEF Init, Statuses
  <2>3. at \in Steps /\ todo \in Seq(Steps)
    BY StepNames DEF Init
  <2>4. from \in 1..(Len(Order) + 1) /\ next \in Nat /\ rounds \subseteq Nat \ {0}
    BY OrderTypes DEF Init
  <2>5. /\ {head, saw} \subseteq 1..MaxHead /\ {pushed, tested, reviewed} \subseteq 0..MaxHead
        /\ acts \in 0..MaxActs /\ faults \in 0..MaxFaults
        /\ returns \in Nat /\ frees \in Nat
    BY Bounds DEF Init
  <2> QED
    BY <2>1, <2>2, <2>3, <2>4, <2>5 DEF Init, TypeOK
<1>2. TypeOK /\ NextCounts /\ [Next]_vars => TypeOK'
  <2> SUFFICES ASSUME TypeOK, NextCounts, [Next]_vars PROVE TypeOK'
    OBVIOUS
  <2>1. CASE UNCHANGED vars
    BY <2>1 DEF TypeOK, vars, github, process, run, history
  <2> QED
    BY <2>1, TypeRuns, TypeLoop, TypeOthers DEF Next, Work
<1>3. Init => NextCounts
  BY DEF Init, NextCounts
<1>4. TypeOK /\ NextCounts /\ [Next]_vars => NextCounts'
  <2> SUFFICES ASSUME TypeOK, NextCounts, [Next]_vars PROVE NextCounts'
    OBVIOUS
  <2>1. CASE Uncount
    <3>1. PICK count \in Count : next' = Following(count)
      BY <2>1 DEF Uncount
    <3> QED
      BY <3>1, Bounds DEF TypeOK, NextCounts, Count, Following
  <2>2. CASE ~Uncount
    <3>1. pc' = "count" => UNCHANGED <<pc, next>>
      BY <2>2, OnlyUncount
    <3> QED
      BY <3>1 DEF NextCounts
  <2> QED
    BY <2>1, <2>2
<1> QED
  BY <1>1, <1>2, <1>3, <1>4, PTL DEF Spec

----------------------------------------------------------------------------
(* Free rounds *)

\* While the last free round counts human-review-pending is on, and a round that
\* is about to be free was found without it.
FreeInv ==
    /\ frees \in {0, 1}
    /\ frees = 1 => pending
    /\ pc \in {"stamp", "announce", "loop"} /\ result.free => ~pending

\* A person's request for changes alone is a free round once: not twice without a
\* counted round or an approval in between, whatever fails (_handle_review_loop,
\* "guard not set; abort free re-invoke to preserve once-only semantics").
THEOREM FreeRoundsAreGuarded == Spec => []FreeOnce
<1>1. Init => FreeInv
  BY DEF Init, FreeInv
<1>2. TypeOK /\ FreeInv /\ [Next]_vars => FreeInv'
  <2> SUFFICES ASSUME TypeOK, FreeInv, [Next]_vars PROVE FreeInv'
    OBVIOUS
  <2>1. CASE RunCoder \/ RunCi \/ RunMerge \/ RunFails
    <3>1. result'.free = FALSE /\ UNCHANGED <<pending, frees>>
      BY <2>1 DEF RunCoder, RunCi, RunMerge, RunFails, Returns
    <3> QED
      BY <3>1 DEF FreeInv
  <2>2. CASE Approve
    BY <2>2 DEF FreeInv, Approve, Returns
  <2>3. CASE RequestChanges
    <3>1. UNCHANGED <<pending, frees>>
      BY <2>3 DEF RequestChanges
    <3>2. result'.free => ~pending
      BY <2>3 DEF RequestChanges, Returns
    <3> QED
      BY <3>1, <3>2 DEF FreeInv
  <2>4. CASE StartRound
    BY <2>4 DEF FreeInv, StartRound, Tried
  <2>5. CASE StartFreeRound
    <3>1. CASE pending' = TRUE /\ SendBackFree
      BY <2>5, <3>1 DEF TypeOK, FreeInv, StartFreeRound, SendBackFree
    <3>2. CASE UNCHANGED <<pending, todo, frees>> /\ Halt
      BY <2>5, <3>2 DEF FreeInv, StartFreeRound, Halt
    <3> QED
      BY <2>5, <3>1, <3>2 DEF StartFreeRound, Guarded, Tried
  <2>6. CASE Stamp \/ Announce
    BY <2>6 DEF FreeInv, Stamp, Announce, Halt, history
  <2>7. CASE Dispatch \/ EndTick \/ Uncount \/ CountUp
    BY <2>7 DEF FreeInv, Dispatch, EndTick, Uncount, CountUp, github, history
  <2>8. CASE ApproveStale \/ Escalate \/ Clear \/ Cleared \/ Crash
    BY <2>8 DEF FreeInv, ApproveStale, Escalate, Clear, Cleared, Crash, Halt, github, history
  <2>9. CASE PushByHand \/ Object \/ Promote \/ ClearHalt \/ UNCHANGED vars
    BY <2>9 DEF FreeInv, PushByHand, Object, Promote, ClearHalt, vars, github, process, history
  <2> QED
    BY <2>1, <2>2, <2>3, <2>4, <2>5, <2>6, <2>7, <2>8, <2>9 DEF Next, Work
<1>3. FreeInv => FreeOnce
  BY DEF FreeInv, FreeOnce
<1> QED
  BY <1>1, <1>2, <1>3, TypeCorrect, PTL DEF Spec

----------------------------------------------------------------------------
(* The cap *)

\* What the failures excuse: each may lose the count, which starts again at none.
Excused == faults * MaxCycles

\* The count as it stands: while its label is being changed, the one to write.
CountNow == IF pc = "count" THEN {next} ELSE Count

\* The coder has run, or runs, since it was sent back last: its start has counted.
Started ==
    \/ "complete" \in label["coder"]
    \/ pc = "count"
    \/ at = "coder" /\ pc \in {"run", "stamp"}

WellPlaced ==
    /\ pc \in {"uncount", "count"} => at = "coder"
    /\ pc \in {"loop", "clear"} => at \in {"ci-gate", "pr-reviewer"}

OneCount ==
    /\ \A a, b \in rounds : a = b
    /\ pc = "count" => rounds = {}

\* The coder is sent back at most once per start, and only under the cap.
Capped ==
    /\ returns <= MaxCycles - 1 + Excused
    /\ \A count \in CountNow :
          /\ returns <= count + Excused
          /\ Started => returns <= count - 1 + Excused
          /\ pc = "clear" /\ ~result.free => count <= MaxCycles - 1

CapInv == WellPlaced /\ OneCount /\ Capped

LEMMA Difference == \A a, b \in Nat : b >= a => b - a \in Nat /\ b = a + (b - a)
OBVIOUS

\* A bound that is relaxed still holds.
LEMMA Relaxed ==
    \A r, c, x, y \in Nat :
        y >= x => /\ r <= c + x => r <= c + y
                  /\ r <= c - 1 + x => r <= c - 1 + y
OBVIOUS

LEMMA ExcusedGrows ==
    ASSUME TypeOK, faults' \in 0..MaxFaults
    PROVE  /\ Excused \in Nat /\ Excused' \in Nat
           /\ faults' >= faults => Excused' >= Excused
           /\ faults' = faults + 1 => Excused' = Excused + MaxCycles
<1>1. faults \in Nat /\ faults' \in Nat /\ MaxCycles \in Nat
  BY Bounds DEF TypeOK
<1>2. \A f, m \in Nat : f * m \in Nat /\ (f + 1) * m = f * m + m
  OBVIOUS
<1>3. \A f, more, m \in Nat : (f + more) * m = f * m + more * m
  OBVIOUS
<1>4. ASSUME faults' >= faults PROVE Excused' >= Excused
  <2>1. faults' - faults \in Nat /\ faults' = faults + (faults' - faults)
    BY <1>1, <1>4, Difference
  <2>2. Excused' = Excused + (faults' - faults) * MaxCycles
    BY <1>1, <1>3, <2>1 DEF Excused
  <2>3. (faults' - faults) * MaxCycles \in Nat /\ Excused \in Nat
    BY <1>1, <1>2, <2>1 DEF Excused
  <2> QED
    BY <2>2, <2>3
<1>5. Excused \in Nat /\ Excused' \in Nat
  BY <1>1, <1>2 DEF Excused
<1>6. faults' = faults + 1 => Excused' = Excused + MaxCycles
  BY <1>1, <1>2 DEF Excused
<1> QED
  BY <1>4, <1>5, <1>6

LEMMA CountTypes == ASSUME TypeOK PROVE Count \subseteq Nat /\ CountNow \subseteq Nat
BY DEF TypeOK, Count, CountNow

\* Steps that touch neither the count nor the coder's :complete.
LEMMA CapKept ==
    ASSUME TypeOK, TypeOK', CapInv, faults' >= faults,
           UNCHANGED <<rounds, returns>>,
           pc # "count", pc' # "count",
           Started' => Started,
           pc' = "clear" /\ ~result'.free => pc = "clear" /\ UNCHANGED result
    PROVE  Capped'
<1>1. Excused \in Nat /\ Excused' \in Nat /\ Excused' >= Excused
  BY ExcusedGrows DEF TypeOK
<1>2. CountNow' = CountNow /\ CountNow \subseteq Nat
  BY CountTypes DEF CountNow, Count
<1>3. returns \in Nat /\ MaxCycles \in Nat
  BY Bounds DEF TypeOK
<1>4. returns' <= MaxCycles - 1 + Excused'
  <2>1. returns <= MaxCycles - 1 + Excused
    BY DEF CapInv, Capped
  <2> QED
    BY <1>1, <1>3, <2>1, Relaxed
<1>5. ASSUME NEW count \in CountNow'
      PROVE  /\ returns' <= count + Excused'
             /\ Started' => returns' <= count - 1 + Excused'
             /\ pc' = "clear" /\ ~result'.free => count <= MaxCycles - 1
  <2>1. count \in CountNow /\ count \in Nat
    BY <1>2, <1>5
  <2>2. /\ returns <= count + Excused
        /\ Started => returns <= count - 1 + Excused
        /\ pc = "clear" /\ ~result.free => count <= MaxCycles - 1
    BY <2>1 DEF CapInv, Capped
  <2>3. pc' = "clear" /\ ~result'.free => count <= MaxCycles - 1
    BY <2>2
  <2> QED
    BY <1>1, <1>3, <2>1, <2>2, <2>3, Relaxed
<1> QED
  BY <1>4, <1>5 DEF Capped

\* A failure that leaves no count excuses a whole series.
LEMMA CapLost ==
    ASSUME TypeOK, TypeOK', CapInv, faults' = faults + 1,
           UNCHANGED <<rounds, returns>>,
           pc = "count", pc' \notin {"count", "clear"}
    PROVE  Capped'
<1>1. Excused \in Nat /\ Excused' = Excused + MaxCycles
  BY ExcusedGrows DEF TypeOK
<1>2. CountNow' = {0}
  BY DEF CapInv, OneCount, CountNow, Count
<1>3. returns \in Nat /\ MaxCycles \in Nat \ {0}
  BY Bounds DEF TypeOK
<1> QED
  BY <1>1, <1>2, <1>3 DEF CapInv, Capped

LEMMA PlacedStep == ASSUME TypeOK, WellPlaced, [Next]_vars PROVE WellPlaced'
<1>1. CASE Dispatch
  BY <1>1 DEF WellPlaced, Dispatch
<1>2. CASE RunCoder \/ RunCi \/ RunMerge \/ Approve \/ RequestChanges \/ RunFails
  <2>1. pc' = "stamp"
    BY <1>2 DEF RunCoder, RunCi, RunMerge, Approve, RequestChanges, RunFails, Returns
  <2> QED
    BY <2>1 DEF WellPlaced
<1>3. CASE EndTick \/ ApproveStale \/ Escalate \/ Cleared \/ Crash
  <2>1. pc' = "idle"
    BY <1>3 DEF EndTick, ApproveStale, Escalate, Cleared, Crash, Halt
  <2> QED
    BY <2>1 DEF WellPlaced
<1>4. CASE Uncount \/ CountUp \/ Stamp
  BY <1>4 DEF WellPlaced, Uncount, CountUp, Stamp, Halt, run
<1>5. CASE Announce
  <2>1. UNCHANGED at /\ pc' \notin {"uncount", "count", "clear"}
    <3>1. CASE result.status = "complete"
      BY <1>5, <3>1 DEF Announce, run
    <3>2. CASE result.status # "complete"
      BY <1>5, <3>2 DEF Announce, Halt, run
    <3> QED
      BY <3>1, <3>2
  <2>2. pc' = "loop" => at \in {"ci-gate", "pr-reviewer"}
    <3>1. CASE result.status = "review" /\ at \in {"ci-gate", "pr-reviewer"}
      BY <3>1
    <3>2. CASE ~(result.status = "review" /\ at \in {"ci-gate", "pr-reviewer"})
      BY <1>5, <3>2 DEF Announce, Halt
    <3> QED
      BY <3>1, <3>2
  <2> QED
    BY <2>1, <2>2 DEF WellPlaced
<1>6. CASE StartRound \/ StartFreeRound \/ Clear
  <2>1. UNCHANGED at /\ at \in {"ci-gate", "pr-reviewer"}
    BY <1>6 DEF WellPlaced, StartRound, StartFreeRound, Clear, run
  <2>2. pc' \in {"clear", "idle"}
    BY <1>6 DEF StartRound, StartFreeRound, Guarded, Tried, SendBackFree, Halt, Clear
  <2> QED
    BY <2>1, <2>2 DEF WellPlaced
<1>7. CASE PushByHand \/ Object \/ Promote \/ ClearHalt \/ UNCHANGED vars
  BY <1>7 DEF WellPlaced, PushByHand, Object, Promote, ClearHalt, vars, process, run
<1> QED
  BY <1>1, <1>2, <1>3, <1>4, <1>5, <1>6, <1>7 DEF Next, Work

LEMMA RoundsKept ==
    ASSUME TypeOK, [Next]_vars, ~Uncount, ~CountUp
    PROVE  UNCHANGED rounds /\ (pc' = "count" => pc = "count")
<1>1. UNCHANGED rounds
  BY DEF Next, Work, vars, github, Dispatch, EndTick, RunCoder, RunCi, RunMerge, Approve,
         ApproveStale, RequestChanges, RunFails, Returns, Stamp, Announce, Escalate,
         StartRound, StartFreeRound, Clear, Cleared, Crash, PushByHand, Object, Promote,
         ClearHalt
<1> QED
  BY <1>1, OnlyUncount

LEMMA OneCountStep ==
    ASSUME ~UncountFails, TypeOK, OneCount, [Next]_vars
    PROVE  OneCount'
<1>1. CASE Uncount
  <2>1. PICK count \in Count : rounds' = rounds \ {count}
    BY <1>1 DEF Uncount
  <2>2. rounds' = {}
    BY <2>1 DEF OneCount, Count
  <2> QED
    BY <2>2 DEF OneCount
<1>2. CASE CountUp
  BY <1>2 DEF OneCount, CountUp, Tried, Counted
<1>3. CASE ~Uncount /\ ~CountUp
  BY <1>3, RoundsKept DEF OneCount
<1> QED
  BY <1>1, <1>2, <1>3

LEMMA CapRuns ==
    ASSUME TypeOK, TypeOK', CapInv,
           \/ RunCoder \/ RunCi \/ RunMerge \/ Approve \/ ApproveStale
           \/ RequestChanges \/ RunFails
    PROVE  Capped'
<1>1. faults' >= faults
  <2>1. CASE RunCoder \/ RunCi \/ RunMerge \/ RequestChanges
    <3>1. UNCHANGED faults
      BY <2>1 DEF RunCoder, RunCi, RunMerge, RequestChanges
    <3> QED
      BY <3>1 DEF TypeOK
  <2>2. CASE Approve \/ ApproveStale
    BY <2>2, FailingTypes DEF TypeOK, Approve, ApproveStale
  <2>3. CASE RunFails
    BY <2>3 DEF TypeOK, RunFails
  <2> QED
    BY <2>1, <2>2, <2>3
<1>2. CASE ApproveStale
  <2>1. UNCHANGED <<rounds, returns, label, at>> /\ pc = "run" /\ pc' = "idle"
    BY <1>2 DEF ApproveStale, Halt, github, run, history
  <2> QED
    BY <1>1, <2>1, CapKept DEF Started
<1>3. CASE ~ApproveStale
  <2>1. UNCHANGED <<rounds, returns, label, at>> /\ pc = "run" /\ pc' = "stamp"
    BY <1>3 DEF RunCoder, RunCi, RunMerge, Approve, RequestChanges, RunFails, Returns
  <2> QED
    BY <1>1, <2>1, CapKept DEF Started
<1> QED
  BY <1>2, <1>3

LEMMA CapCounting ==
    ASSUME ~UncountFails, TypeOK, TypeOK', CapInv, Uncount \/ CountUp
    PROVE  Capped'
<1>0. returns \in Nat /\ MaxCycles \in Nat \ {0} /\ Excused \in Nat
  BY Bounds, ExcusedGrows DEF TypeOK
<1>1. CASE Uncount
  <2>1. PICK count \in Count : next' = Following(count)
    BY <1>1 DEF Uncount
  <2>2. UNCHANGED <<faults, returns>> /\ pc = "uncount" /\ pc' = "count"
    BY <1>1 DEF Uncount, history
  <2>3. count \in Nat /\ returns <= count + Excused /\ returns <= MaxCycles - 1 + Excused
    BY <2>1, <2>2, CountTypes DEF CapInv, Capped, CountNow
  <2>4. CountNow' = {Following(count)} /\ Excused' = Excused
    BY <2>1, <2>2 DEF CountNow, Excused
  <2>5. /\ returns' <= Following(count) + Excused
        /\ returns' <= Following(count) - 1 + Excused
    BY <1>0, <2>2, <2>3 DEF Following, CapReached
  <2> QED
    BY <2>2, <2>3, <2>4, <2>5 DEF Capped
<1>2. CASE CountUp
  <2>1. UNCHANGED <<returns, next>> /\ pc = "count" /\ pc' = "run"
    BY <1>2 DEF CountUp, history
  <2>2. CASE rounds' = Counted(next) /\ UNCHANGED faults
    <3>1. CountNow' = {next} /\ CountNow = {next} /\ Excused' = Excused /\ next \in Nat
      BY <2>1, <2>2 DEF TypeOK, CapInv, OneCount, CountNow, Count, Counted, Excused
    <3>2. /\ returns <= MaxCycles - 1 + Excused
          /\ returns <= next + Excused /\ returns <= next - 1 + Excused
      BY <2>1, <3>1 DEF CapInv, Capped, Started
    <3> QED
      BY <2>1, <3>1, <3>2 DEF Capped
  <2>3. CASE Fault /\ UNCHANGED rounds
    <3>1. faults' = faults + 1
      BY <2>3 DEF Fault
    <3> QED
      BY <2>1, <2>3, <3>1, CapLost
  <2> QED
    BY <1>2, <2>2, <2>3 DEF CountUp, Tried
<1> QED
  BY <1>1, <1>2

LEMMA CapSteps ==
    ASSUME TypeOK, TypeOK', CapInv,
           \/ Dispatch \/ EndTick \/ Stamp \/ Announce \/ Escalate \/ StartFreeRound \/ Cleared
    PROVE  Capped'
<1>1. faults' >= faults
  <2>1. UNCHANGED faults \/ Fault
    BY DEF Dispatch, EndTick, Stamp, Announce, Escalate, StartFreeRound, Guarded, Tried, Cleared
  <2> QED
    BY <2>1 DEF TypeOK, Fault
<1>2. UNCHANGED <<rounds, returns>> /\ pc # "count"
  BY DEF Dispatch, EndTick, Stamp, Announce, Escalate, StartFreeRound, Cleared, github, history
<1>3. pc' # "count"
  <2>1. [Next]_vars /\ ~Uncount
    BY <1>2 DEF Next, Work, Dispatch, EndTick, Stamp, Announce, Escalate, StartFreeRound,
                Cleared, Uncount
  <2> QED
    BY <1>2, <2>1, OnlyUncount
<1>4. Started' => Started
  <2>1. CASE Dispatch
    BY <2>1 DEF Dispatch, github, Started
  <2>2. CASE Stamp
    <3>1. "complete" \in label'["coder"] => "complete" \in label["coder"] \/ at = "coder"
      <4>1. label' = [label EXCEPT ![at] = Stamped(at)]
        BY <2>2 DEF Stamp
      <4>2. at # "coder" => label'["coder"] = label["coder"]
        BY <4>1, StepNames DEF TypeOK
      <4> QED
        BY <4>2
    <3> QED
      BY <2>2, <3>1, <1>3 DEF Stamp, Halt, Started
  <2>3. CASE EndTick \/ Announce \/ Escalate \/ StartFreeRound \/ Cleared
    <3>1. UNCHANGED label
      BY <2>3 DEF EndTick, Announce, Escalate, StartFreeRound, Cleared, github
    <3>2. pc' \in {"idle", "loop", "clear"}
      <4>1. CASE Announce
        <5>1. CASE result.status = "complete"
          BY <4>1, <5>1 DEF Announce
        <5>2. CASE result.status # "complete"
          BY <4>1, <5>2 DEF Announce, Halt
        <5> QED
          BY <5>1, <5>2
      <4>2. CASE EndTick \/ Escalate \/ StartFreeRound \/ Cleared
        BY <4>2 DEF EndTick, Escalate, StartFreeRound, Guarded, Tried, SendBackFree, Cleared,
                    Halt
      <4> QED
        BY <2>3, <4>1, <4>2
    <3> QED
      BY <3>1, <3>2 DEF Started
  <2> QED
    BY <2>1, <2>2, <2>3
<1>5. pc' = "clear" /\ ~result'.free => pc = "clear" /\ UNCHANGED result
  <2>1. CASE Announce
    <3>1. pc' # "clear"
      <4>1. CASE result.status = "complete"
        BY <2>1, <4>1 DEF Announce
      <4>2. CASE result.status # "complete"
        BY <2>1, <4>2 DEF Announce, Halt
      <4> QED
        BY <4>1, <4>2
    <3> QED
      BY <3>1
  <2>2. CASE ~Announce
    BY <2>2 DEF Dispatch, EndTick, Stamp, Escalate, StartFreeRound, Guarded, Tried,
                SendBackFree, Cleared, Halt
  <2> QED
    BY <2>1, <2>2
<1> QED
  BY <1>1, <1>2, <1>3, <1>4, <1>5, CapKept

LEMMA CapRound ==
    ASSUME TypeOK, TypeOK', CapInv, StartRound
    PROVE  Capped'
<1>1. UNCHANGED <<rounds, returns, label, result>> /\ pc = "loop" /\ pc' = "clear"
  BY DEF StartRound
<1>2. faults' >= faults
  <2>1. UNCHANGED faults \/ Fault
    BY DEF StartRound, Tried
  <2> QED
    BY <2>1 DEF TypeOK, Fault
<1>3. Excused \in Nat /\ Excused' \in Nat /\ Excused' >= Excused
  BY <1>2, ExcusedGrows DEF TypeOK
<1>4. CountNow' = Count /\ CountNow = Count /\ Count \subseteq Nat
  BY <1>1, CountTypes DEF CountNow, Count
<1>5. Started' => Started
  BY <1>1 DEF Started
<1>6. returns \in Nat /\ MaxCycles \in Nat \ {0}
  BY Bounds DEF TypeOK
<1>7. \A count \in Count : count + 1 <= MaxCycles
  <2>1. PICK count \in Count : ~CapReached(count)
    BY DEF StartRound
  <2>2. \A other \in Count : other = count
    BY <2>1 DEF CapInv, OneCount, Count
  <2>3. count \in Nat /\ ~(count + 1 > MaxCycles)
    BY <1>4, <2>1 DEF CapReached
  <2>4. count + 1 <= MaxCycles
    BY <1>6, <2>3
  <2> QED
    BY <2>2, <2>4
<1>8. returns' <= MaxCycles - 1 + Excused'
  <2>1. returns <= MaxCycles - 1 + Excused
    BY DEF CapInv, Capped
  <2> QED
    BY <1>1, <1>3, <1>6, <2>1, Relaxed
<1>9. ASSUME NEW count \in CountNow'
      PROVE  /\ returns' <= count + Excused'
             /\ Started' => returns' <= count - 1 + Excused'
             /\ count <= MaxCycles - 1
  <2>1. count \in CountNow /\ count \in Nat /\ count + 1 <= MaxCycles
    BY <1>4, <1>7, <1>9
  <2>2. returns <= count + Excused /\ (Started => returns <= count - 1 + Excused)
    BY <2>1 DEF CapInv, Capped
  <2>3. count <= MaxCycles - 1
    BY <1>6, <2>1
  <2> QED
    BY <1>1, <1>3, <1>5, <1>6, <2>1, <2>2, <2>3, Relaxed
<1> QED
  BY <1>8, <1>9 DEF Capped

\* The step that sends the coder back: it has started, and under the cap.
LEMMA CapClear ==
    ASSUME TypeOK, TypeOK', CapInv, Clear
    PROVE  Capped'
<1> DEFINE s    == Head(todo)
           lost == IF s = at THEN "review" ELSE "complete"
<1>1. UNCHANGED <<rounds, result, pc, at>> /\ pc = "clear" /\ at # "coder"
  BY DEF Clear, CapInv, WellPlaced, run
<1>2. faults' >= faults
  <2>1. UNCHANGED faults \/ Fault
    BY DEF Clear
  <2> QED
    BY <2>1 DEF TypeOK, Fault
<1>3. Started <=> "complete" \in label["coder"]
  BY <1>1 DEF Started
<1>4. Started' <=> "complete" \in label'["coder"]
  BY <1>1 DEF Started
<1>5. CASE UNCHANGED <<label, returns>>
  BY <1>1, <1>2, <1>5, CapKept DEF Started
<1>6. CASE /\ label' = [label EXCEPT ![s] = @ \ {lost}]
           /\ ~(s = "coder" /\ lost \in label[s] /\ ~result.free)
           /\ UNCHANGED returns
  <2>1. "complete" \in label'["coder"] => "complete" \in label["coder"]
    <3>1. label'["coder"] \subseteq label["coder"]
      BY <1>6, StepNames DEF TypeOK
    <3> QED
      BY <3>1
  <2> QED
    BY <1>1, <1>2, <1>3, <1>4, <1>6, <2>1, CapKept
<1>7. CASE /\ label' = [label EXCEPT ![s] = @ \ {lost}]
           /\ s = "coder" /\ lost \in label[s] /\ ~result.free
           /\ returns' = returns + 1
           /\ UNCHANGED faults
  <2>1. lost = "complete" /\ Started /\ ~Started'
    <3>1. lost = "complete"
      BY <1>1, <1>7
    <3>2. label'["coder"] = label["coder"] \ {"complete"}
      BY <1>7, <3>1, StepNames DEF TypeOK
    <3> QED
      BY <1>3, <1>4, <1>7, <3>1, <3>2
  <2>2. CountNow' = CountNow /\ CountNow \subseteq Nat /\ CountNow # {} /\ Excused' = Excused
    BY <1>1, <1>7, CountTypes DEF CountNow, Count, Excused
  <2>3. \A count \in CountNow :
           returns <= count - 1 + Excused /\ count <= MaxCycles - 1
    BY <1>1, <1>7, <2>1 DEF CapInv, Capped
  <2>4. returns \in Nat /\ MaxCycles \in Nat /\ Excused \in Nat
    BY Bounds, ExcusedGrows DEF TypeOK
  <2>5. \A count \in CountNow : returns + 1 <= count + Excused
    BY <2>2, <2>3, <2>4
  <2>6. returns + 1 <= MaxCycles - 1 + Excused
    <3>1. PICK count \in CountNow : TRUE
      BY <2>2
    <3>2. count \in Nat /\ count <= MaxCycles - 1 /\ returns + 1 <= count + Excused
      BY <2>2, <2>3, <2>5, <3>1
    <3> QED
      BY <2>4, <3>2
  <2>7. \A count \in CountNow' :
           returns' <= count + Excused' /\ count <= MaxCycles - 1
    BY <1>7, <2>2, <2>3, <2>5
  <2> QED
    BY <1>7, <2>1, <2>2, <2>6, <2>7 DEF Capped
<1> QED
  BY <1>5, <1>6, <1>7, Zenon DEF Clear

LEMMA CapCrash ==
    ASSUME TypeOK, TypeOK', CapInv, Crash
    PROVE  Capped'
<1>1. faults' = faults + 1 /\ UNCHANGED <<rounds, returns>> /\ pc' = "idle"
  BY DEF Crash, Fault, Halt
<1>2. faults' >= faults
  BY <1>1 DEF TypeOK
<1>3. "complete" \in label'["coder"] => "complete" \in label["coder"]
  <2>1. CASE label' = [label EXCEPT ![at] = {"failed"}]
    BY <2>1, StepNames DEF TypeOK
  <2>2. CASE UNCHANGED label
    BY <2>2
  <2> QED
    BY <2>1, <2>2 DEF Crash
<1>4. CASE pc = "count"
  BY <1>1, <1>4, CapLost
<1>5. CASE pc # "count"
  BY <1>1, <1>2, <1>3, <1>5, CapKept DEF Started
<1> QED
  BY <1>4, <1>5

LEMMA CapPeople ==
    ASSUME TypeOK, TypeOK', CapInv,
           PushByHand \/ Object \/ Promote \/ ClearHalt \/ UNCHANGED vars
    PROVE  Capped'
<1>1. UNCHANGED <<rounds, returns, pc, next, result, at, faults>>
  BY DEF PushByHand, Object, Promote, ClearHalt, vars, github, process, run, history
<1>2. "complete" \in label'["coder"] => "complete" \in label["coder"]
  <2>1. CASE PushByHand \/ Object \/ UNCHANGED vars
    BY <2>1 DEF PushByHand, Object, vars, github
  <2>2. CASE Promote
    BY <2>2, StepNames DEF TypeOK, Promote
  <2>3. CASE ClearHalt
    BY <2>3, StepNames DEF TypeOK, ClearHalt
  <2> QED
    BY <2>1, <2>2, <2>3
<1>3. Started' => Started
  BY <1>1, <1>2 DEF Started
<1>4. CountNow' = CountNow /\ Excused' = Excused
  BY <1>1 DEF CountNow, Count, Excused
<1> QED
  BY <1>1, <1>3, <1>4 DEF CapInv, Capped

\* The cap is a termination guarantee: as long as the old count can be taken off,
\* the coder is sent back at most max_cycles - 1 times in counted rounds, and each
\* failure or crash costs one series of rounds more at the most
\* (_handle_review_loop, the counter at dispatch).
THEOREM LoopCapped == ASSUME ~UncountFails PROVE Spec => []LoopIsCapped
<1>1. Init => CapInv
  <2> SUFFICES ASSUME Init PROVE CapInv
    OBVIOUS
  <2>1. CountNow = {0} /\ Excused = 0 /\ ~Started /\ returns = 0
    <3>1. label["coder"] = {}
      BY StepNames DEF Init
    <3> QED
      <4>1. \A m \in Nat : 0 * m = 0
        OBVIOUS
      <4>2. Excused = 0
        BY <4>1, Bounds DEF Init, Excused
      <4>3. CountNow = {0} /\ ~Started /\ returns = 0
        BY <3>1 DEF Init, CountNow, Count, Started
      <4> QED
        BY <4>2, <4>3
  <2>2. Capped
    BY <2>1, Bounds DEF Init, Capped
  <2> QED
    BY <2>2 DEF Init, CapInv, WellPlaced, OneCount
<1>2. TypeOK /\ TypeOK' /\ CapInv /\ [Next]_vars => CapInv'
  <2> SUFFICES ASSUME TypeOK, TypeOK', CapInv, [Next]_vars PROVE CapInv'
    OBVIOUS
  <2>1. WellPlaced' /\ OneCount'
    BY PlacedStep, OneCountStep DEF CapInv
  <2>2. Capped'
    BY CapRuns, CapCounting, CapSteps, CapRound, CapClear, CapCrash, CapPeople DEF Next, Work
  <2> QED
    BY <2>1, <2>2 DEF CapInv
<1>3. CapInv => LoopIsCapped
  BY DEF CapInv, Capped, Excused, LoopIsCapped
<1> QED
  BY <1>1, <1>2, <1>3, TypeCorrect, PTL DEF Spec

----------------------------------------------------------------------------
(* What the reviewer reads *)

Passed == "complete" \in label["ci-gate"]

Judged == label["merge-conflict"] \cap {"complete", "review"} # {}

\* The checks have passed the head, and it is the one the coder's record names.
Backed ==
    /\ tested = head /\ about["coder"] = head
    /\ "complete" \in label["coder"]

\* The steps whose labels the loop has still to clear.
Left == {todo[i] : i \in DOMAIN todo}

\* ci-gate starts with no status of its own, behind the coder's :complete.
CiStarts ==
    pc = "run" /\ at = "ci-gate" =>
        label["ci-gate"] = {} /\ "complete" \in label["coder"]

\* Only the coder's record can name a commit of the step's own.
OwnPush == at # "coder" => pushed = 0

\* Each :complete rests on the one before it, except while they are cleared.
Chain == pc # "clear" => (Passed => Backed) /\ (Judged => Passed)

\* What merge-conflict said is about the head.
Merged ==
    /\ ~({"complete", "review"} \subseteq label["merge-conflict"])
    /\ Judged => about["merge-conflict"] = head \/ (at = "merge-conflict" /\ pc = "announce")

\* A step runs where the chain lets it: the coder only when the checks have no
\* :complete, the judging steps only behind it.
CoderRuns == at = "coder" => ~Passed

CiRuns ==
    at = "ci-gate" =>
        /\ pc = "stamp" /\ result.status = "complete" => Backed
        /\ pc = "loop" => result.status = "review"
        /\ Passed => pc \in {"announce", "loop"} /\ result.status = "complete"

MergeRuns == at = "merge-conflict" => Passed /\ (Judged => pc = "announce")

ReviewerRuns ==
    at = "pr-reviewer" =>
        Passed /\ "complete" \in label["merge-conflict"] /\ saw = head

UnderWay ==
    pc \notin {"idle", "clear"} => CoderRuns /\ CiRuns /\ MergeRuns /\ ReviewerRuns

\* While the loop clears, what is still on is still to come off.
Clearing ==
    pc = "clear" =>
        /\ Passed => at = "pr-reviewer" /\ "ci-gate" \in Left
        /\ Judged => "merge-conflict" \in Left
        /\ "review" \notin label["merge-conflict"]

Sound == Chain /\ Merged /\ UnderWay /\ Clearing

TestedInv ==
    /\ CiStarts
    /\ OwnPush
    /\ ~excused => Sound

\* Typing and places, which every step keeps (TypeCorrect, PlacedStep).
Placed == TypeOK /\ TypeOK' /\ WellPlaced /\ WellPlaced' /\ TestedInv

LEMMA Distinct ==
    /\ {"coder", "ci-gate", "merge-conflict", "pr-reviewer"} = Steps
    /\ HasSubject = {"coder", "merge-conflict", "pr-reviewer"}
    /\ Before["ci-gate"] = "coder"
    /\ Before["merge-conflict"] = "ci-gate"
    /\ Before["pr-reviewer"] = "merge-conflict"
BY StepNames DEF HasSubject, Before

\* Steps that change neither a label, a record nor the head.
LEMMA ChainKept ==
    ASSUME Placed,
           UNCHANGED <<head, label, about, tested, at, saw, pushed>>,
           pc' \in {"idle", pc} \/ (pc = "uncount" /\ pc' = "count")
              \/ (pc = "count" /\ pc' = "run") \/ (pc = "run" /\ pc' = "stamp" /\ at # "ci-gate"),
           pc \in {"announce", "clear"} => UNCHANGED <<pc, todo>>,
           UNCHANGED result \/ pc' = "idle" \/ at # "ci-gate",
           excused' \/ UNCHANGED excused
    PROVE  TestedInv'
<1>1. Passed' = Passed /\ Judged' = Judged /\ Backed' = Backed
  BY DEF Passed, Judged, Backed
<1>2. CiStarts' /\ OwnPush'
  BY DEF Placed, WellPlaced, TestedInv, CiStarts, OwnPush
<1>3. ASSUME ~excused' PROVE Sound'
  <2>1. Sound
    BY <1>3, Zenon DEF Placed, TypeOK, TestedInv
  <2>2. Chain' /\ Clearing'
    <3>1. CASE pc = "clear"
      BY <1>1, <2>1, <3>1 DEF Sound, Chain, Clearing, Left
    <3>2. CASE pc # "clear"
      BY <1>1, <2>1, <3>2 DEF Sound, Chain, Clearing
    <3> QED
      BY <3>1, <3>2
  <2>3. Merged'
    BY <1>1, <2>1 DEF Sound, Merged
  <2>4. UnderWay'
    BY <1>1, <2>1 DEF Sound, UnderWay, CoderRuns, CiRuns, MergeRuns, ReviewerRuns, Placed, WellPlaced
  <2> QED
    BY <2>2, <2>3, <2>4 DEF Sound
<1> QED
  BY <1>2, <1>3 DEF TestedInv

\* A step starts in its turn.
LEMMA TestedDispatch == ASSUME Placed, Dispatch PROVE TestedInv'
<1>1. /\ pc = "idle" /\ at' \in Steps /\ Eligible(at') /\ saw' = head /\ pushed' = 0
      /\ pc' = (IF at' = "coder" THEN "uncount" ELSE "run")
      /\ UNCHANGED <<head, label, about, tested, excused>>
  BY OrderTypes DEF Placed, TypeOK, Dispatch, github, history
<1>2. Passed' = Passed /\ Judged' = Judged /\ Backed' = Backed
  BY <1>1 DEF Passed, Judged, Backed
<1>3. /\ at' = "ci-gate" => label["ci-gate"] = {} /\ "complete" \in label["coder"]
      /\ at' = "merge-conflict" => Passed
      /\ at' = "pr-reviewer" => "complete" \in label["merge-conflict"]
  BY <1>1, Distinct DEF Eligible, Superseded, Passed
<1>4. CiStarts' /\ OwnPush'
  BY <1>1, <1>3 DEF CiStarts, OwnPush
<1>5. ASSUME ~excused' PROVE Sound'
  <2>1. Chain /\ Merged
    BY <1>1, <1>5 DEF Placed, TestedInv, Sound
  <2>2. Chain' /\ Merged' /\ Clearing'
    BY <1>1, <1>2, <2>1 DEF Chain, Merged, Clearing
  <2>3. CoderRuns'
    <3>1. ASSUME at' = "coder", Passed PROVE FALSE
      BY <1>1, <2>1, <3>1 DEF Chain, Backed, Eligible, Superseded
    <3> QED
      BY <1>2, <3>1 DEF CoderRuns
  <2>4. CiRuns'
    BY <1>1, <1>2, <1>3, Distinct DEF CiRuns, Passed
  <2>5. MergeRuns'
    <3>1. ASSUME at' = "merge-conflict", Judged PROVE FALSE
      BY <1>1, <2>1, <3>1 DEF Merged, Judged, Eligible, Superseded
    <3> QED
      BY <1>2, <1>3, <3>1 DEF MergeRuns
  <2>6. ReviewerRuns'
    BY <1>1, <1>2, <1>3, <2>1 DEF Chain, Judged, ReviewerRuns
  <2> QED
    BY <2>2, <2>3, <2>4, <2>5, <2>6 DEF Sound, UnderWay
<1> QED
  BY <1>4, <1>5 DEF TestedInv

\* The coder may move the head, for nothing has passed the checks then.
LEMMA TestedCoder == ASSUME Placed, RunCoder PROVE TestedInv'
<1>1. /\ at = "coder" /\ at' = at /\ pc = "run" /\ pc' = "stamp"
      /\ UNCHANGED <<label, about, excused>>
  BY DEF RunCoder, Returns
<1>2. Passed' = Passed /\ Judged' = Judged
  BY <1>1 DEF Passed, Judged
<1>3. CiStarts' /\ OwnPush'
  BY <1>1 DEF CiStarts, OwnPush
<1>4. ASSUME ~excused' PROVE Sound'
  <2>1. ~Passed /\ ~Judged /\ Merged
    BY <1>1, <1>4 DEF Placed, TestedInv, Sound, Chain, UnderWay, CoderRuns
  <2>2. Chain' /\ Merged' /\ Clearing'
    BY <1>1, <1>2, <2>1 DEF Chain, Merged, Clearing
  <2>3. UnderWay'
    BY <1>1, <1>2, <2>1 DEF UnderWay, CoderRuns, CiRuns, MergeRuns, ReviewerRuns
  <2> QED
    BY <2>2, <2>3 DEF Sound
<1> QED
  BY <1>3, <1>4 DEF TestedInv

\* ci-gate passes the head of the coder's record, or somebody is excused.
LEMMA TestedCi == ASSUME Placed, RunCi PROVE TestedInv'
<1>1. /\ at = "ci-gate" /\ at' = at /\ pc = "run" /\ pc' = "stamp"
      /\ UNCHANGED <<head, label, about, pushed>>
  BY DEF RunCi, Returns
<1>2. ~Passed /\ Passed' = Passed /\ Judged' = Judged /\ "complete" \in label["coder"]
  BY <1>1 DEF Placed, TestedInv, CiStarts, Passed, Judged
<1>3. CiStarts' /\ OwnPush'
  BY <1>1 DEF Placed, TestedInv, CiStarts, OwnPush
<1>4. CASE /\ result'.status = "complete" /\ tested' = saw
           /\ excused' = ~({saw, about["coder"]} = {head} /\ label["merge-conflict"] = {})
  <2>1. ASSUME ~excused' PROVE Sound'
    <3>1. saw = head /\ about["coder"] = head /\ label["merge-conflict"] = {}
      <4>1. {saw, about["coder"]} = {head} /\ label["merge-conflict"] = {}
        BY <1>4, <2>1, Zenon
      <4> QED
        BY <4>1
    <3>2. Backed' /\ ~Judged
      BY <1>1, <1>2, <1>4, <3>1 DEF Backed, Judged
    <3>3. Chain' /\ Merged' /\ Clearing'
      BY <1>1, <1>2, <3>1, <3>2 DEF Chain, Merged, Clearing
    <3>4. UnderWay'
      BY <1>1, <1>2, <3>2 DEF UnderWay, CoderRuns, CiRuns, MergeRuns, ReviewerRuns
    <3> QED
      BY <3>3, <3>4 DEF Sound
  <2> QED
    BY <1>3, <2>1 DEF TestedInv
<1>5. CASE result'.status # "complete" /\ UNCHANGED <<tested, excused>>
  <2>1. ASSUME ~excused' PROVE Sound'
    <3>1. ~Judged /\ Merged
      BY <1>1, <1>2, <1>5, <2>1 DEF Placed, TestedInv, Sound, Chain
    <3>2. Chain' /\ Merged' /\ Clearing'
      BY <1>1, <1>2, <3>1 DEF Chain, Merged, Clearing
    <3>3. UnderWay'
      BY <1>1, <1>2, <1>5 DEF UnderWay, CoderRuns, CiRuns, MergeRuns, ReviewerRuns
    <3> QED
      BY <3>2, <3>3 DEF Sound
  <2> QED
    BY <1>3, <2>1 DEF TestedInv
<1>6. \/ /\ result'.status = "complete" /\ tested' = saw
         /\ excused' = ~({saw, about["coder"]} = {head} /\ label["merge-conflict"] = {})
      \/ result'.status # "complete" /\ UNCHANGED <<tested, excused>>
  <2>1. \A status : Returns(status, FALSE) => result'.status = status
    BY DEF Returns
  <2> QED
    BY <2>1, Zenon DEF RunCi
<1> QED
  BY <1>4, <1>5, <1>6

\* The other runs leave the chain alone; a merge that is pushed is excused.
LEMMA TestedRuns ==
    ASSUME Placed,
           RunMerge \/ Approve \/ ApproveStale \/ RequestChanges \/ (RunFails /\ at # "ci-gate")
    PROVE  TestedInv'
<1>1. CASE RunMerge /\ ~UNCHANGED head
  <2>1. excused' /\ at = "merge-conflict" /\ at' = at /\ pc' = "stamp" /\ UNCHANGED pushed
    BY <1>1 DEF RunMerge, Returns
  <2>2. pushed' = 0
    BY <2>1 DEF Placed, TestedInv, OwnPush
  <2> QED
    BY <2>1, <2>2 DEF TestedInv, CiStarts, OwnPush
<1>2. CASE ApproveStale
  <2>1. /\ UNCHANGED <<head, label, about, tested, at, saw, pushed, excused>>
        /\ pc = "run" /\ pc' = "idle"
    BY <1>2 DEF ApproveStale, Halt, github, run, history
  <2> QED
    BY <2>1, ChainKept
<1>3. CASE ~ApproveStale /\ ~(RunMerge /\ ~UNCHANGED head)
  <2>1. /\ UNCHANGED <<head, label, about, tested, at, saw, pushed>>
        /\ pc = "run" /\ pc' = "stamp" /\ at # "ci-gate"
    BY <1>3 DEF RunMerge, Approve, RequestChanges, RunFails, Returns
  <2>2. excused' \/ UNCHANGED excused
    BY <1>3 DEF RunMerge, Approve, RequestChanges, RunFails
  <2> QED
    BY <2>1, <2>2, ChainKept
<1> QED
  BY <1>1, <1>2, <1>3

LEMMA TestedCiFails == ASSUME Placed, RunFails, at = "ci-gate" PROVE TestedInv'
<1>1. /\ at' = at /\ pc = "run" /\ pc' = "stamp" /\ result'.status = "failed"
      /\ UNCHANGED <<head, label, about, pushed, tested, excused>>
  BY DEF RunFails, Returns
<1>2. ~Passed /\ Passed' = Passed /\ Judged' = Judged
  BY <1>1 DEF Placed, TestedInv, CiStarts, Passed, Judged
<1>3. CiStarts' /\ OwnPush'
  BY <1>1 DEF Placed, TestedInv, CiStarts, OwnPush
<1>4. ASSUME ~excused' PROVE Sound'
  <2>1. ~Judged /\ Merged
    BY <1>1, <1>2, <1>4 DEF Placed, TestedInv, Sound, Chain
  <2>2. Chain' /\ Merged' /\ Clearing'
    BY <1>1, <1>2, <2>1 DEF Chain, Merged, Clearing
  <2>3. UnderWay'
    BY <1>1, <1>2 DEF UnderWay, CoderRuns, CiRuns, MergeRuns, ReviewerRuns
  <2> QED
    BY <2>2, <2>3 DEF Sound
<1> QED
  BY <1>3, <1>4 DEF TestedInv

\* The status of a run goes onto its own labels.
LEMMA TestedStamp == ASSUME Placed, Stamp PROVE TestedInv'
<1>1. /\ pc = "stamp" /\ pc' \in {"idle", "announce"} /\ at \in Steps /\ label \in [Steps -> SUBSET Statuses]
      /\ pc' = "announce" => result.status # "failed"
      /\ UNCHANGED <<head, about, tested, excused, at, saw, pushed, result>>
      /\ label' = [label EXCEPT ![at] = Stamped(at)]
  BY DEF Placed, TypeOK, Stamp, Halt, run, history
<1>2. CiStarts' /\ OwnPush'
  BY <1>1 DEF Placed, TestedInv, CiStarts, OwnPush
<1>3. ASSUME NEW s \in Steps, s # at PROVE label'[s] = label[s]
  BY <1>1, <1>3
<1>4. label'[at] = (label[at] \ {"review", "blocked"}) \cup {result.status}
  BY <1>1 DEF Stamped
<1>5. ASSUME ~excused' PROVE Sound'
  <2>1. Sound
    BY <1>1, <1>5 DEF Placed, TestedInv
  <2>2. CASE at = "coder"
    <3>1. ~Passed /\ ~Passed' /\ Judged' = Judged
      BY <1>1, <1>3, <2>1, <2>2, Distinct DEF Sound, UnderWay, CoderRuns, Passed, Judged
    <3>2. ~Judged
      BY <1>1, <2>1, <3>1 DEF Sound, Chain
    <3>3. Chain' /\ Clearing' /\ UnderWay'
      BY <1>1, <2>2, <3>1, <3>2
         DEF Chain, Clearing, UnderWay, CoderRuns, CiRuns, MergeRuns, ReviewerRuns
    <3>4. Merged'
      BY <1>3, <2>1, <2>2, <3>1, <3>2, Distinct DEF Sound, Merged
    <3> QED
      BY <3>3, <3>4 DEF Sound
  <2>3. CASE at = "ci-gate"
    <3>1. ~Passed /\ (result.status = "complete" => Backed)
      BY <1>1, <2>1, <2>3 DEF Sound, UnderWay, CiRuns
    <3>2. ~Judged /\ Judged' = Judged
      BY <1>1, <1>3, <2>1, <2>3, <3>1, Distinct DEF Sound, Chain, Judged
    <3>3. Passed' => result.status = "complete" /\ Backed'
      BY <1>1, <1>3, <1>4, <2>3, <3>1, Distinct DEF Passed, Backed
    <3>4. Chain' /\ Clearing'
      BY <1>1, <3>2, <3>3 DEF Chain, Clearing
    <3>5. UnderWay'
      BY <1>1, <2>3, <3>3 DEF UnderWay, CoderRuns, CiRuns, MergeRuns, ReviewerRuns
    <3>6. Merged'
      BY <1>3, <2>1, <2>3, <3>2, Distinct DEF Sound, Merged
    <3> QED
      BY <3>4, <3>5, <3>6 DEF Sound
  <2>4. CASE at = "merge-conflict"
    <3>1. Passed /\ Backed /\ ~Judged
      BY <1>1, <2>1, <2>4 DEF Sound, Chain, UnderWay, MergeRuns
    <3>2. Passed' /\ Backed'
      BY <1>1, <1>3, <2>4, <3>1, Distinct DEF Passed, Backed
    <3>3. Judged' => pc' = "announce"
      BY <1>1, <1>4, <2>4, <3>1 DEF Judged, Stamp
    <3>4. Chain' /\ Clearing'
      BY <1>1, <3>2 DEF Chain, Clearing
    <3>5. UnderWay'
      BY <1>1, <2>4, <3>2, <3>3 DEF UnderWay, CoderRuns, CiRuns, MergeRuns, ReviewerRuns
    <3>6. Merged'
      BY <1>1, <1>4, <2>4, <3>1, <3>3 DEF Merged, Judged
    <3> QED
      BY <3>4, <3>5, <3>6 DEF Sound
  <2>5. CASE at = "pr-reviewer"
    <3>1. Passed' = Passed /\ Judged' = Judged /\ Backed' = Backed
      BY <1>1, <1>3, <2>5, Distinct DEF Passed, Judged, Backed
    <3>2. label'["merge-conflict"] = label["merge-conflict"]
      BY <1>3, <2>5, Distinct
    <3>3. Chain' /\ Merged' /\ Clearing'
      BY <1>1, <2>1, <2>5, <3>1, <3>2 DEF Sound, Chain, Merged, Clearing
    <3>4. UnderWay'
      BY <1>1, <2>1, <2>5, <3>1, <3>2
         DEF Sound, UnderWay, CoderRuns, CiRuns, MergeRuns, ReviewerRuns
    <3> QED
      BY <3>3, <3>4 DEF Sound
  <2> QED
    BY <1>1, <2>2, <2>3, <2>4, <2>5, Distinct
<1> QED
  BY <1>2, <1>5 DEF TestedInv

\* A record that is lost is excused; one that is written names the head, except
\* where the coder has just pushed.
LEMMA TestedAnnounce == ASSUME Placed, Announce PROVE TestedInv'
<1>1. /\ pc = "announce" /\ at \in Steps /\ about \in [Steps -> 0..MaxHead]
      /\ UNCHANGED <<head, label, tested, at, saw, pushed, result>>
  BY DEF Placed, TypeOK, Announce, run
<1>2. /\ pc' \in {"idle", "loop"}
      /\ pc' = "loop" => result.status = "review"
  <2>1. CASE result.status = "complete"
    BY <2>1 DEF Announce
  <2>2. CASE result.status = "review" /\ at \in {"ci-gate", "pr-reviewer"}
    BY <2>2 DEF Announce
  <2>3. CASE /\ result.status # "complete"
             /\ ~(result.status = "review" /\ at \in {"ci-gate", "pr-reviewer"})
    BY <2>3 DEF Announce, Halt
  <2> QED
    BY <2>1, <2>2, <2>3
<1>3. CiStarts' /\ OwnPush'
  BY <1>1, <1>2 DEF Placed, TestedInv, CiStarts, OwnPush
<1>4. ASSUME ~excused' PROVE Sound'
  <2>1. /\ about' = IF at \in HasSubject THEN [about EXCEPT ![at] = Subject] ELSE about
        /\ UNCHANGED excused
    BY <1>4 DEF Announce
  <2>2. Sound
    BY <1>4, <2>1 DEF Placed, TestedInv
  <2>3. Passed' = Passed /\ Judged' = Judged
    BY <1>1 DEF Passed, Judged
  <2>4. \A s \in Steps : s # at => about'[s] = about[s]
    BY <1>1, <2>1
  <2>5. at # "coder" => Backed' = Backed
    BY <1>1, <2>4, Distinct DEF Backed
  <2>6. Chain'
    BY <1>1, <2>2, <2>3, <2>5 DEF Sound, Chain, UnderWay, CoderRuns
  <2>7. Judged => about'["merge-conflict"] = head
    <3>1. CASE at = "merge-conflict"
      <4>1. Subject = head
        BY <3>1 DEF Placed, TestedInv, OwnPush, Subject
      <4> QED
        BY <1>1, <2>1, <3>1, <4>1, Distinct
    <3>2. CASE at # "merge-conflict"
      BY <2>2, <2>4, <3>2, Distinct DEF Sound, Merged
    <3> QED
      BY <3>1, <3>2
  <2>8. Merged' /\ Clearing'
    BY <1>1, <1>2, <2>2, <2>3, <2>7 DEF Sound, Merged, Clearing
  <2>9. UnderWay'
    <3>1. ASSUME pc' = "loop" PROVE at # "merge-conflict"
      BY <1>1, <3>1 DEF Placed, WellPlaced
    <3> QED
      BY <1>1, <1>2, <2>2, <2>3, <3>1
         DEF Sound, UnderWay, CoderRuns, CiRuns, MergeRuns, ReviewerRuns
  <2> QED
    BY <2>6, <2>8, <2>9 DEF Sound
<1> QED
  BY <1>3, <1>4 DEF TestedInv

\* A round that starts has both checks still to clear, or none that counts.
LEMMA TestedRound ==
    ASSUME Placed, StartRound \/ StartFreeRound
    PROVE  TestedInv'
<1>1. UNCHANGED <<head, label, about, tested, excused, at, saw, pushed, result>> /\ pc = "loop"
  BY DEF StartRound, StartFreeRound, run
<1>2. CASE pc' = "clear" /\ todo' = ToClear
  <2>1. CiStarts' /\ OwnPush'
    BY <1>1, <1>2 DEF Placed, TestedInv, CiStarts, OwnPush
  <2>2. ASSUME ~excused' PROVE Sound'
    <3>1. Sound /\ at \in {"ci-gate", "pr-reviewer"}
      BY <1>1, <2>2 DEF Placed, WellPlaced, TestedInv
    <3>2. Passed' = Passed /\ Judged' = Judged
      BY <1>1 DEF Passed, Judged
    <3>3. CASE at = "ci-gate"
      <4>1. ~Passed /\ ~Judged
        BY <1>1, <3>1, <3>3 DEF Sound, Chain, UnderWay, CiRuns
      <4>2. "review" \notin label["merge-conflict"]
        BY <4>1 DEF Judged
      <4> QED
        BY <1>1, <1>2, <3>1, <3>2, <4>1, <4>2 DEF Sound, Chain, Merged, UnderWay, Clearing
    <3>4. CASE at = "pr-reviewer"
      <4>1. ToClear = <<at, "coder">> \o <<"ci-gate", "merge-conflict">>
        BY <3>4 DEF ToClear, AlsoClear
      <4>2. "ci-gate" \in Left' /\ "merge-conflict" \in Left'
        <5>1. /\ {3, 4} \subseteq DOMAIN ToClear
              /\ ToClear[3] = "ci-gate" /\ ToClear[4] = "merge-conflict"
          BY <4>1
        <5> QED
          BY <1>2, <5>1 DEF Left
      <4>3. "review" \notin label["merge-conflict"]
        BY <1>1, <3>1, <3>4 DEF Sound, Merged, UnderWay, ReviewerRuns
      <4> QED
        BY <1>1, <1>2, <3>1, <3>2, <3>4, <4>2, <4>3
           DEF Sound, Chain, Merged, UnderWay, Clearing
    <3> QED
      BY <3>1, <3>3, <3>4
  <2> QED
    BY <2>1, <2>2 DEF TestedInv
<1>3. CASE pc' = "idle"
  BY <1>1, <1>3, ChainKept
<1> QED
  BY <1>2, <1>3 DEF StartRound, StartFreeRound, Guarded, Tried, SendBackFree, Halt

\* One label after the other comes off, or somebody is excused.
LEMMA TestedClear == ASSUME Placed, Clear PROVE TestedInv'
<1> DEFINE s    == Head(todo)
           lost == IF s = at THEN "review" ELSE "complete"
<1>1. /\ pc = "clear" /\ pc' = "clear" /\ todo # <<>> /\ todo \in Seq(Steps) /\ todo' = Tail(todo)
      /\ at \in {"ci-gate", "pr-reviewer"} /\ label \in [Steps -> SUBSET Statuses]
      /\ UNCHANGED <<head, about, tested, at, saw, pushed, result>>
  BY DEF Placed, TypeOK, WellPlaced, Clear, run
<1>2. CiStarts' /\ OwnPush'
  BY <1>1 DEF Placed, TestedInv, CiStarts, OwnPush
<1>3. ASSUME ~excused' PROVE Sound'
  <2>1. UNCHANGED excused /\ label' = [label EXCEPT ![s] = @ \ {lost}]
    BY <1>3 DEF Clear
  <2>2. Sound
    BY <1>3, <2>1 DEF Placed, TestedInv
  <2>3. s \in Steps /\ Left \subseteq {s} \cup Left'
    <3>1. \A i \in DOMAIN todo : i = 1 \/ (i - 1 \in DOMAIN Tail(todo) /\ Tail(todo)[i - 1] = todo[i])
      BY <1>1
    <3>2. s \in Steps /\ s = todo[1]
      BY <1>1
    <3> QED
      BY <1>1, <3>1, <3>2 DEF Left
  <2>4. /\ label'[s] = label[s] \ {lost}
        /\ \A other \in Steps : other # s => label'[other] = label[other]
    BY <1>1, <2>1, <2>3
  <2>5. Passed' => Passed /\ at = "pr-reviewer" /\ "ci-gate" \in Left'
    <3>1. label'["ci-gate"] \subseteq label["ci-gate"]
      BY <2>4, Distinct
    <3>2. ASSUME Passed' PROVE Passed /\ at = "pr-reviewer" /\ "ci-gate" \in Left
      BY <1>1, <2>2, <3>1, <3>2 DEF Passed, Sound, Clearing
    <3>3. ASSUME Passed', s = "ci-gate" PROVE FALSE
      BY <2>4, <3>2, <3>3 DEF Passed
    <3> QED
      BY <2>3, <3>2, <3>3
  <2>6. label'["merge-conflict"] \subseteq label["merge-conflict"]
    BY <2>4, Distinct
  <2>7. "review" \notin label'["merge-conflict"] /\ (Judged' => Judged)
    BY <1>1, <2>2, <2>6 DEF Sound, Clearing, Judged
  <2>8. Judged' => "merge-conflict" \in Left'
    <3>1. ASSUME Judged', s = "merge-conflict" PROVE FALSE
      BY <1>1, <2>4, <2>7, <3>1 DEF Judged
    <3> QED
      BY <1>1, <2>2, <2>3, <2>7, <3>1 DEF Sound, Clearing
  <2>9. Merged'
    BY <1>1, <2>2, <2>6, <2>7 DEF Sound, Merged
  <2> QED
    BY <1>1, <2>5, <2>7, <2>8, <2>9 DEF Sound, Chain, UnderWay, Clearing
<1> QED
  BY <1>2, <1>3 DEF TestedInv

LEMMA TestedCleared == ASSUME Placed, Cleared PROVE TestedInv'
<1>1. /\ pc = "clear" /\ todo = <<>> /\ pc' = "idle"
      /\ UNCHANGED <<head, label, about, tested, at, saw, pushed, excused>>
  BY DEF Cleared, Halt, github, run, history
<1>2. Passed' = Passed /\ Judged' = Judged /\ Left = {}
  BY <1>1 DEF Passed, Judged, Left
<1>3. CiStarts' /\ OwnPush'
  BY <1>1 DEF Placed, TestedInv, CiStarts, OwnPush
<1>4. ASSUME ~excused' PROVE Sound'
  <2>1. Sound
    BY <1>1, <1>4 DEF Placed, TestedInv
  <2>2. ~Passed /\ ~Judged
    BY <1>1, <1>2, <2>1 DEF Sound, Clearing
  <2> QED
    BY <1>1, <1>2, <2>1, <2>2 DEF Sound, Chain, Merged, UnderWay, Clearing
<1> QED
  BY <1>3, <1>4 DEF TestedInv

\* A step that dies is reclaimed as failed: nothing was on, and the record that is
\* written names the head.
LEMMA TestedCrash == ASSUME Placed, Crash PROVE TestedInv'
<1>1. /\ pc # "idle" /\ pc' = "idle" /\ at \in Steps
      /\ label \in [Steps -> SUBSET Statuses] /\ about \in [Steps -> 0..MaxHead]
      /\ UNCHANGED <<head, tested, at, saw, pushed, result>>
  BY DEF Placed, TypeOK, Crash, Halt, run
<1>2. CiStarts' /\ OwnPush'
  BY <1>1 DEF Placed, TestedInv, CiStarts, OwnPush
<1>3. ASSUME ~excused' PROVE Sound'
  <2>1. ~excused /\ pc \notin {"announce", "clear"}
    BY <1>3, Zenon DEF Placed, TypeOK, Crash
  <2>2. Sound
    BY <2>1 DEF Placed, TestedInv
  <2>3. Chain /\ Merged /\ CoderRuns
    BY <1>1, <2>1, <2>2 DEF Sound, UnderWay
  <2>4. CASE UNCHANGED <<label, about>>
    <3>1. Passed' = Passed /\ Judged' = Judged /\ Backed' = Backed
      BY <1>1, <2>4 DEF Passed, Judged, Backed
    <3> QED
      BY <1>1, <2>1, <2>3, <2>4, <3>1 DEF Sound, Chain, Merged, UnderWay, Clearing
  <2>5. CASE /\ label[at] = {} /\ label' = [label EXCEPT ![at] = {"failed"}]
             /\ about' = IF at \in HasSubject THEN [about EXCEPT ![at] = head] ELSE about
    <3>1. /\ label'[at] = {"failed"}
          /\ \A s \in Steps : s # at => label'[s] = label[s] /\ about'[s] = about[s]
      BY <1>1, <2>5
    <3>2. /\ Passed' => Passed /\ at # "ci-gate"
          /\ Judged' => Judged /\ at # "merge-conflict"
      BY <3>1, Distinct DEF Passed, Judged
    <3>3. Passed' => Backed'
      <4>1. ASSUME Passed' PROVE Backed /\ at # "coder"
        BY <2>1, <2>3, <3>2, <4>1 DEF Chain, CoderRuns
      <4> QED
        BY <1>1, <3>1, <4>1, Distinct DEF Backed
    <3>4. Judged' => Passed'
      <4>1. ASSUME Judged' PROVE Passed /\ at # "ci-gate"
        <5>1. Passed
          BY <2>1, <2>3, <3>2, <4>1 DEF Chain
        <5> QED
          BY <2>5, <5>1 DEF Passed
      <4> QED
        BY <3>1, <4>1, Distinct DEF Passed
    <3>5. Merged'
      <4>1. ~({"complete", "review"} \subseteq label'["merge-conflict"])
        BY <2>3, <3>1, Distinct DEF Merged
      <4>2. Judged' => about'["merge-conflict"] = head
        BY <1>1, <2>3, <3>1, <3>2, Distinct DEF Merged
      <4> QED
        BY <1>1, <4>1, <4>2 DEF Merged
    <3> QED
      BY <1>1, <3>3, <3>4, <3>5 DEF Sound, Chain, UnderWay, Clearing
  <2> QED
    BY <2>4, <2>5 DEF Crash
<1> QED
  BY <1>2, <1>3 DEF TestedInv

\* People take halts away between the steps, and a push of theirs is excused.
LEMMA TestedPeople == ASSUME Placed, Promote \/ ClearHalt PROVE TestedInv'
<1>1. /\ pc = "idle" /\ pc' = "idle" /\ label \in [Steps -> SUBSET Statuses]
      /\ UNCHANGED <<head, about, tested, excused, at, saw, pushed>>
  BY DEF Placed, TypeOK, Promote, ClearHalt, process, run, history
<1>2. CiStarts' /\ OwnPush'
  BY <1>1 DEF Placed, TestedInv, CiStarts, OwnPush
<1>3. /\ "complete" \in label["coder"] => "complete" \in label'["coder"]
      /\ Passed' = Passed
      /\ Judged' => Judged
      /\ ~({"complete", "review"} \subseteq label["merge-conflict"])
           => ~({"complete", "review"} \subseteq label'["merge-conflict"])
  <2>1. CASE Promote
    <3>1. /\ "review" \in label["merge-conflict"]
          /\ label'["merge-conflict"] = (label["merge-conflict"] \ {"review"}) \cup {"complete"}
          /\ label'["coder"] = label["coder"] /\ label'["ci-gate"] = label["ci-gate"]
      BY <1>1, <2>1, Distinct DEF Promote
    <3> QED
      BY <3>1 DEF Passed, Judged
  <2>2. CASE ClearHalt
    <3>1. \E s \in Steps : \E status :
             status # "complete" /\ label' = [label EXCEPT ![s] = @ \ {status}]
      BY <2>2 DEF ClearHalt
    <3>2. \A step \in Steps :
             /\ label'[step] \subseteq label[step]
             /\ "complete" \in label[step] => "complete" \in label'[step]
      BY <1>1, <3>1
    <3> QED
      BY <3>2, Distinct DEF Passed, Judged
  <2> QED
    BY <2>1, <2>2
<1>4. ASSUME ~excused' PROVE Sound'
  <2>1. Chain /\ Merged
    BY <1>1, <1>4 DEF Placed, TestedInv, Sound
  <2>2. Chain' /\ Merged'
    BY <1>1, <1>3, <2>1 DEF Chain, Merged, Backed
  <2> QED
    BY <1>1, <2>2 DEF Sound, UnderWay, Clearing
<1> QED
  BY <1>2, <1>4 DEF TestedInv

LEMMA TestedPush == ASSUME Placed, PushByHand PROVE TestedInv'
<1>1. excused' /\ UNCHANGED <<label, at, pc, pushed>>
  BY DEF PushByHand, process, run
<1> QED
  BY <1>1 DEF Placed, TestedInv, CiStarts, OwnPush

LEMMA TestedStep ==
    ASSUME Placed, [Next]_vars
    PROVE  TestedInv'
<1>1. CASE Object \/ EndTick \/ Escalate \/ UNCHANGED vars
  <2>1. /\ UNCHANGED <<head, label, about, tested, at, saw, pushed, excused, result>>
        /\ pc' \in {"idle", pc} /\ (pc \in {"announce", "clear"} => UNCHANGED <<pc, todo>>)
    BY <1>1 DEF Object, EndTick, Escalate, Halt, vars, github, process, run, history
  <2> QED
    BY <2>1, ChainKept
<1>2. CASE Uncount \/ CountUp
  <2>1. UNCHANGED <<head, label, about, tested, at, saw, pushed, excused, result>>
    BY <1>2 DEF Uncount, CountUp, run, history
  <2>2. (pc = "uncount" /\ pc' = "count") \/ (pc = "count" /\ pc' = "run")
    BY <1>2 DEF Uncount, CountUp
  <2> QED
    BY <2>1, <2>2, ChainKept
<1> QED
  BY <1>1, <1>2, TestedDispatch, TestedCoder, TestedCi, TestedRuns, TestedCiFails, TestedStamp,
     TestedAnnounce, TestedRound, TestedClear, TestedCleared, TestedCrash, TestedPeople,
     TestedPush DEF Next, Work

\* What pr-reviewer reads has passed the checks, however often the work is sent
\* back, steps fail or die and halts are taken away, unless somebody other than the
\* coder has moved the branch, or a label or record was lost, since the checks
\* passed the head of the coder's record (also_clear, _should_run, the head a
\* record names).
THEOREM ReviewedHeadIsTested == Spec => []ReviewsTestedHead
<1>1. Init => TestedInv /\ WellPlaced
  <2> SUFFICES ASSUME Init PROVE TestedInv /\ WellPlaced
    OBVIOUS
  <2>1. pc = "idle" /\ at = "coder" /\ \A s \in Steps : label[s] = {}
    BY DEF Init
  <2>2. ~Passed /\ ~Judged /\ "complete" \notin label["merge-conflict"]
    BY <2>1, Distinct DEF Passed, Judged
  <2> QED
    BY <2>1, <2>2 DEF TestedInv, WellPlaced, CiStarts, OwnPush, Sound, Chain, Merged, UnderWay,
                      Clearing
<1>2. TypeOK /\ WellPlaced /\ [Next]_vars => WellPlaced'
  BY PlacedStep
<1>3. TypeOK /\ TypeOK' /\ WellPlaced /\ WellPlaced' /\ TestedInv /\ [Next]_vars => TestedInv'
  BY TestedStep DEF Placed
<1>4. TestedInv => ReviewsTestedHead
  BY DEF TestedInv, Sound, Chain, UnderWay, ReviewerRuns, Backed, ReviewsTestedHead
<1> QED
  BY <1>1, <1>2, <1>3, <1>4, TypeCorrect, PTL DEF Spec
=============================================================================
