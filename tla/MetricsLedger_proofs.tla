------------------------ MODULE MetricsLedger_proofs ------------------------
(***************************************************************************)
(* Proofs about MetricsLedger, for any writers, retries, records and       *)
(* faults: the branch implements AppendLog, an answer says what the branch *)
(* holds, a push from a fetched tip is only rejected for a rival, and a    *)
(* record is only doubled when an answer got lost.                         *)
(***************************************************************************)
EXTENDS MetricsLedger, FiniteSetTheorems, TLAPS

Busy(w) == pc[w] # "idle"

\* The inductive form of the type invariant: a writer at work has a record.
TypeInv ==
    /\ TypeOK
    /\ \A w \in Writers : Busy(w) => wrote[w] \in 1..MaxAppends

\* A branch that is not there holds no record.
BranchInv == ~exists => log = <<>>

----------------------------------------------------------------------------
(* Lemmas about the operators *)

\* The record of a writer at work is a record.
LEMMA MineType == ASSUME TypeInv, NEW w \in Writers, Busy(w) PROVE Mine(w) \in Record
  BY DEF TypeInv, TypeOK, Mine, Record

\* The commit at the tip is a commit.
LEMMA TipType == TypeOK => Tip \in SUBSET Commit
  BY DEF TypeOK, Tip, Commit

\* What an accepted push does to the branch: one record more, at the end.
LEMMA LandAppends ==
  ASSUME BranchInv, NEW mover, NEW onto, NEW record, Land(mover, onto, record)
  PROVE  log' = Append(log, record) /\ (schema' = schema \/ schema' = FALSE)
<1>1. CASE exists
  <2>1. onto = {<<log, schema>>}
    BY <1>1 DEF Land, FastForward, Tip
  <2>2. (CHOOSE commit \in onto : TRUE) = <<log, schema>>
    <3>1. \E commit \in onto : TRUE
      BY <2>1
    <3>2. (CHOOSE commit \in onto : TRUE) \in onto
      BY <3>1, Zenon
    <3> QED
      BY <2>1, <3>2
  <2>3. onto # {}
    BY <2>1
  <2>4. Built(onto, record) = <<Append(log, record), schema>>
    <3> DEFINE parent == CHOOSE commit \in onto : TRUE
    <3>1. Built(onto, record) = <<Append(parent[1], record), parent[2]>>
      BY <2>3 DEF Built
    <3>2. parent = <<log, schema>>
      BY <2>2
    <3> HIDE DEF parent
    <3> QED
      BY <3>1, <3>2
  <2> QED
    BY <2>4 DEF Land
<1>2. CASE ~exists
  <2>1. onto = {}
    BY <1>2 DEF Land, FastForward, Tip
  <2>2. Built(onto, record) = <<<<record>>, FALSE>>
    BY <2>1 DEF Built
  <2>3. log = <<>>
    BY <1>2 DEF BranchInv
  <2>4. Append(log, record) = <<record>>
    BY <2>3
  <2> QED
    BY <2>2, <2>4 DEF Land
<1> QED
  BY <1>1, <1>2

\* The rivals of every append are counted, whoever moves the branch.
LEMMA MovesType == ASSUME TypeOK, NEW mover, Moves(mover) PROVE rivals' \in [Writers -> Nat]
  BY DEF TypeOK, Moves

\* The branch stays well typed when a push of a record is accepted.
LEMMA LandType ==
  ASSUME TypeOK, BranchInv, NEW mover, NEW onto, NEW record \in Record,
         Land(mover, onto, record)
  PROVE  /\ exists' = TRUE
         /\ schema' \in BOOLEAN
         /\ log' \in Seq(Record)
         /\ rivals' \in [Writers -> Nat]
         /\ BranchInv'
<1>1. log' = Append(log, record) /\ (schema' = schema \/ schema' = FALSE)
  BY LandAppends
<1>2. log' \in Seq(Record)
  BY <1>1 DEF TypeOK
<1>3. schema' \in BOOLEAN
  BY <1>1 DEF TypeOK
<1>4. exists' = TRUE /\ rivals' \in [Writers -> Nat]
  BY MovesType DEF Land
<1> QED
  BY <1>2, <1>3, <1>4 DEF BranchInv

----------------------------------------------------------------------------
(* Types *)

LEMMA TypeInit == Init => TypeInv /\ BranchInv
  BY LedgerAssumption DEF Init, TypeInv, TypeOK, Busy, BranchInv

LEMMA TryAgainType ==
  ASSUME TypeOK, NEW w \in Writers, TryAgain(w)
  PROVE  /\ pc' \in [Writers -> {"idle", "ensure", "schema", "fetch", "push"}]
         /\ left' \in [Writers -> 0..MaxRetries]
         /\ answer' \in [Writers -> {"none", "appended", "refused"}]
         /\ pc' = [pc EXCEPT ![w] = "fetch"] \/ pc' = [pc EXCEPT ![w] = "idle"]
<1> USE LedgerAssumption DEF TypeOK, GoTo
<1>1. CASE left[w] > 0 /\ left' = [left EXCEPT ![w] = @ - 1] /\ GoTo(w, "fetch") /\ UNCHANGED answer
  BY <1>1
<1>2. CASE GoTo(w, "idle") /\ answer' = [answer EXCEPT ![w] = "refused"] /\ UNCHANGED left
  BY <1>2
<1> QED
  BY <1>1, <1>2 DEF TryAgain

LEMMA TypeStep == TypeInv /\ BranchInv /\ [Next]_vars => TypeInv' /\ BranchInv'
<1> SUFFICES ASSUME TypeInv, BranchInv, [Next]_vars PROVE TypeInv' /\ BranchInv'
  OBVIOUS
<1> USE LedgerAssumption DEF TypeInv, Busy
<1>1. CASE UNCHANGED vars
  BY <1>1 DEF TypeOK, BranchInv, vars, branch, writer, history
<1>2. ASSUME NEW w \in Writers, Start(w) PROVE TypeInv' /\ BranchInv'
  <2>1. PICK place \in {"ensure", "fetch"}, retries \in {0, MaxRetries} :
           GoTo(w, place) /\ left' = [left EXCEPT ![w] = retries]
    BY <1>2 DEF Start
  <2>2. wrote' \in [Writers -> 0..MaxAppends] /\ wrote'[w] \in 1..MaxAppends
    BY <1>2 DEF Start, TypeOK
  <2> QED
    BY <1>2, <2>1, <2>2 DEF Start, TypeOK, BranchInv, GoTo, branch
<1>3. ASSUME NEW w \in Writers, EnsureFinds(w) PROVE TypeInv' /\ BranchInv'
  BY <1>3 DEF EnsureFinds, TypeOK, BranchInv, GoTo, branch, history
<1>4. ASSUME NEW w \in Writers, EnsureCreates(w) PROVE TypeInv' /\ BranchInv'
  BY <1>4, MovesType DEF EnsureCreates, TypeOK, BranchInv, GoTo
<1>5. ASSUME NEW w \in Writers, PutSchema(w) PROVE TypeInv' /\ BranchInv'
  BY <1>5, MovesType DEF PutSchema, TypeOK, BranchInv, GoTo
<1>6. ASSUME NEW w \in Writers, PutSchemaFails(w) PROVE TypeInv' /\ BranchInv'
  BY <1>6 DEF PutSchemaFails, TypeOK, BranchInv, GoTo, Fault, branch, history
<1>7. ASSUME NEW w \in Writers, EnsureFails(w) PROVE TypeInv' /\ BranchInv'
  <2>1. pc[w] = "ensure" /\ (pc' = [pc EXCEPT ![w] = "fetch"] \/ pc' = [pc EXCEPT ![w] = "idle"])
    BY <1>7 DEF EnsureFails, GoTo
  <2>2. answer' \in [Writers -> {"none", "appended", "refused"}]
    <3>1. CASE UNCHANGED answer
      BY <3>1 DEF TypeOK
    <3>2. CASE answer' = [answer EXCEPT ![w] = "refused"]
      BY <3>2 DEF TypeOK
    <3> QED
      BY <1>7, <3>1, <3>2 DEF EnsureFails
  <2>3. pc' \in [Writers -> {"idle", "ensure", "schema", "fetch", "push"}]
    BY <2>1 DEF TypeOK
  <2>4. \A v \in Writers : pc'[v] # "idle" => pc[v] # "idle"
    BY <2>1 DEF TypeOK
  <2>5. faults' \in 0..MaxFaults /\ UNCHANGED <<branch, wrote, left, base, orphan, history>>
    BY <1>7 DEF EnsureFails, Fault, TypeOK
  <2> QED
    BY <2>2, <2>3, <2>4, <2>5 DEF TypeOK, BranchInv, branch, history
<1>8. ASSUME NEW w \in Writers, Fetch(w) PROVE TypeInv' /\ BranchInv'
  BY <1>8, TipType DEF Fetch, Fetched, TypeOK, BranchInv, GoTo, branch, history
<1>9. ASSUME NEW w \in Writers, FetchFails(w) PROVE TypeInv' /\ BranchInv'
  BY <1>9 DEF FetchFails, TypeOK, BranchInv, GoTo, Fault, branch, history
<1>10. ASSUME NEW w \in Writers, Push(w) PROVE TypeInv' /\ BranchInv'
  BY <1>10, MineType, LandType DEF Push, Succeed, TypeOK, GoTo
<1>11. ASSUME NEW w \in Writers, PushRejected(w) PROVE TypeInv' /\ BranchInv'
  <2>1. lost' \in [Writers -> Nat]
    BY <1>11 DEF PushRejected, TypeOK
  <2> QED
    BY <1>11, <2>1, TryAgainType DEF PushRejected, TypeOK, BranchInv, branch
<1>12. ASSUME NEW w \in Writers, PushUnanswered(w) PROVE TypeInv' /\ BranchInv'
  <2>1. TryAgain(w) /\ TypeOK /\ pc[w] = "push"
    BY <1>12 DEF PushUnanswered
  <2>2. /\ pc' \in [Writers -> {"idle", "ensure", "schema", "fetch", "push"}]
        /\ left' \in [Writers -> 0..MaxRetries]
        /\ answer' \in [Writers -> {"none", "appended", "refused"}]
        /\ \A v \in Writers : pc'[v] # "idle" => pc[v] # "idle"
    BY <2>1, TryAgainType DEF TypeOK
  <2>3. /\ exists' = TRUE /\ schema' \in BOOLEAN /\ log' \in Seq(Record)
        /\ rivals' \in [Writers -> Nat] /\ BranchInv'
    BY <1>12, <2>1, MineType, LandType DEF PushUnanswered
  <2>4. unheard' \in [Writers -> Nat]
    BY <1>12 DEF PushUnanswered, TypeOK
  <2> QED
    BY <1>12, <2>2, <2>3, <2>4 DEF PushUnanswered, TypeOK, Fault
<1>13. ASSUME NEW w \in Writers, PushFails(w) PROVE TypeInv' /\ BranchInv'
  <2>1. TryAgain(w) /\ TypeOK /\ pc[w] = "push"
    BY <1>13 DEF PushFails
  <2>2. /\ pc' \in [Writers -> {"idle", "ensure", "schema", "fetch", "push"}]
        /\ left' \in [Writers -> 0..MaxRetries]
        /\ answer' \in [Writers -> {"none", "appended", "refused"}]
        /\ \A v \in Writers : pc'[v] # "idle" => pc[v] # "idle"
    BY <2>1, TryAgainType DEF TypeOK
  <2> QED
    BY <1>13, <2>2 DEF PushFails, TypeOK, BranchInv, Fault, branch, history
<1>14. ASSUME NEW w \in Writers, ScriptTimesOut(w) PROVE TypeInv' /\ BranchInv'
  BY <1>14, MineType DEF ScriptTimesOut, TypeOK, BranchInv, GoTo, Fault, branch
<1>15. ASSUME NEW w \in Writers, OrphanArrives(w) PROVE TypeInv' /\ BranchInv'
  <2>1. PICK late \in orphan[w] :
           \/ Land({}, late.base, late.record)
           \/ ~FastForward(late.base) /\ UNCHANGED <<branch, rivals>>
    BY <1>15 DEF OrphanArrives
  <2>2. late.record \in Record
    BY <2>1 DEF TypeOK
  <2>3. CASE Land({}, late.base, late.record)
    BY <1>15, <2>2, <2>3, LandType DEF OrphanArrives, TypeOK
  <2>4. CASE UNCHANGED <<branch, rivals>>
    BY <1>15, <2>4 DEF OrphanArrives, TypeOK, BranchInv, branch
  <2> QED
    BY <2>1, <2>3, <2>4
<1>16. ASSUME NEW w \in Writers, Crash(w) PROVE TypeInv' /\ BranchInv'
  BY <1>16 DEF Crash, TypeOK, BranchInv, GoTo, Fault, branch, history
<1> QED
  BY <1>1, <1>2, <1>3, <1>4, <1>5, <1>6, <1>7, <1>8, <1>9, <1>10, <1>11, <1>12,
     <1>13, <1>14, <1>15, <1>16 DEF Next

LEMMA TypeInvHolds == Spec => [](TypeInv /\ BranchInv)
  BY TypeInit, TypeStep, PTL DEF Spec

\* Types: every variable ranges over what TypeOK says.
THEOREM TypeCorrect == Spec => []TypeOK
<1>1. TypeInv => TypeOK
  BY DEF TypeInv
<1> QED
  BY <1>1, TypeInvHolds, PTL

----------------------------------------------------------------------------
(* The branch is a log *)

\* Every step appends one record to the file on the branch, or leaves it alone.
LEMMA LogStep ==
  ASSUME TypeInv, BranchInv, [Next]_vars
  PROVE  UNCHANGED log \/ \E r \in Record : log' = Append(log, r)
<1>1. CASE UNCHANGED vars
  BY <1>1 DEF vars, branch
<1>2. ASSUME NEW w \in Writers, Push(w) \/ PushUnanswered(w)
      PROVE  \E r \in Record : log' = Append(log, r)
  <2>1. Mine(w) \in Record
    BY <1>2, MineType DEF Push, PushUnanswered, Busy
  <2> QED
    BY <1>2, <2>1, LandAppends DEF Push, PushUnanswered
<1>3. ASSUME NEW w \in Writers, OrphanArrives(w)
      PROVE  UNCHANGED log \/ \E r \in Record : log' = Append(log, r)
  <2>1. PICK late \in orphan[w] :
           \/ Land({}, late.base, late.record)
           \/ UNCHANGED <<branch, rivals>>
    BY <1>3 DEF OrphanArrives
  <2>2. late.record \in Record
    BY <2>1 DEF TypeInv, TypeOK
  <2> QED
    BY <2>1, <2>2, LandAppends DEF branch
<1>4. ASSUME NEW w \in Writers,
             \/ Start(w) \/ EnsureFinds(w) \/ EnsureCreates(w) \/ EnsureFails(w)
             \/ PutSchema(w) \/ PutSchemaFails(w) \/ Fetch(w) \/ FetchFails(w)
             \/ PushRejected(w) \/ PushFails(w) \/ ScriptTimesOut(w) \/ Crash(w)
      PROVE  UNCHANGED log
  BY <1>4 DEF Start, EnsureFinds, EnsureCreates, EnsureFails, PutSchema, PutSchemaFails,
              Fetch, FetchFails, PushRejected, PushFails, ScriptTimesOut, Crash, branch
<1> QED
  BY <1>1, <1>2, <1>3, <1>4 DEF Next

\* The metrics branch implements an append-only log: whatever fails, races or
\* arrives late, no record that was there is dropped or rewritten.
THEOREM LedgerImplementsLog == Spec => LedgerIsAppendOnly
<1>1. Init => Ledger!Init
  BY DEF Init, Ledger!Init
<1>2. TypeInv /\ BranchInv /\ [Next]_vars => [Ledger!Next]_log
  BY LogStep DEF Ledger!Next, Ledger!Write
<1> QED
  BY <1>1, <1>2, TypeInvHolds, PTL DEF Spec, LedgerIsAppendOnly, Ledger!Spec

----------------------------------------------------------------------------
(* Answers *)

Recorded(record) == \E i \in 1..Len(log) : log[i] = record

\* What is recorded stays recorded.
LEMMA RecordedStays ==
  ASSUME TypeInv, BranchInv, [Next]_vars, NEW record, Recorded(record)
  PROVE  Recorded(record)'
<1>1. PICK i \in 1..Len(log) : log[i] = record
  BY DEF Recorded
<1>2. log \in Seq(Record)
  BY DEF TypeInv, TypeOK
<1>3. CASE UNCHANGED log
  BY <1>1, <1>3 DEF Recorded
<1>4. ASSUME NEW r \in Record, log' = Append(log, r) PROVE Recorded(record)'
  <2>1. Len(log') = Len(log) + 1 /\ log'[i] = log[i]
    BY <1>1, <1>2, <1>4
  <2>2. i \in 1..Len(log')
    BY <1>1, <1>2, <2>1
  <2> QED
    BY <1>1, <2>1, <2>2 DEF Recorded
<1> QED
  BY <1>3, <1>4, LogStep

\* An accepted push records its record.
LEMMA LandRecords ==
  ASSUME TypeOK, BranchInv, NEW mover, NEW onto, NEW record \in Record,
         Land(mover, onto, record)
  PROVE  Recorded(record)'
<1>1. log' = Append(log, record) /\ log \in Seq(Record)
  BY LandAppends DEF TypeOK
<1>2. Len(log') = Len(log) + 1 /\ log'[Len(log) + 1] = record /\ Len(log) \in Nat
  BY <1>1
<1> QED
  BY <1>2 DEF Recorded

\* Only a push gives a writer the answer that its record was appended; a new
\* append takes the old answer away.
LEMMA AnswerStep ==
  ASSUME TypeInv, [Next]_vars, NEW w \in Writers, answer'[w] = "appended"
  PROVE  Push(w) \/ (answer[w] = "appended" /\ wrote'[w] = wrote[w])
<1> USE DEF TypeInv, TypeOK
<1>1. CASE UNCHANGED vars
  BY <1>1 DEF vars, writer
<1>2. ASSUME NEW v \in Writers, Start(v)
      PROVE  answer[w] = "appended" /\ wrote'[w] = wrote[w]
  BY <1>2 DEF Start
<1>3. ASSUME NEW v \in Writers, Push(v)
      PROVE  Push(w) \/ (answer[w] = "appended" /\ wrote'[w] = wrote[w])
  BY <1>3 DEF Push, Succeed
<1>4. ASSUME NEW v \in Writers, PushRejected(v) \/ PushUnanswered(v) \/ PushFails(v)
      PROVE  answer[w] = "appended" /\ wrote'[w] = wrote[w]
  <2>1. TryAgain(v) /\ wrote' = wrote
    BY <1>4 DEF PushRejected, PushUnanswered, PushFails
  <2> QED
    BY <2>1 DEF TryAgain
<1>5. ASSUME NEW v \in Writers, EnsureFails(v) \/ ScriptTimesOut(v)
      PROVE  answer[w] = "appended" /\ wrote'[w] = wrote[w]
  BY <1>5 DEF EnsureFails, ScriptTimesOut
<1>6. ASSUME NEW v \in Writers,
             \/ EnsureFinds(v) \/ EnsureCreates(v) \/ PutSchema(v) \/ PutSchemaFails(v)
             \/ Fetch(v) \/ FetchFails(v) \/ OrphanArrives(v) \/ Crash(v)
      PROVE  UNCHANGED <<answer, wrote>>
  BY <1>6 DEF EnsureFinds, EnsureCreates, PutSchema, PutSchemaFails, Fetch, FetchFails,
              OrphanArrives, Crash
<1> QED
  BY <1>1, <1>2, <1>3, <1>4, <1>5, <1>6 DEF Next

\* A caller that is told its record was appended finds it in the ledger.
THEOREM AnswersAreTrue == Spec => []AppendedIsRecorded
<1>1. Init => AppendedIsRecorded
  BY DEF Init, AppendedIsRecorded
<1>2. TypeInv /\ BranchInv /\ AppendedIsRecorded /\ [Next]_vars => AppendedIsRecorded'
  <2> SUFFICES ASSUME TypeInv, BranchInv, AppendedIsRecorded, [Next]_vars,
                      NEW w \in Writers, answer'[w] = "appended"
               PROVE  \E i \in 1..Len(log') : log'[i] = Mine(w)'
    BY DEF AppendedIsRecorded
  <2>1. CASE Push(w)
    <3>1. Mine(w) \in Record /\ Mine(w)' = Mine(w) /\ Land({w}, base[w], Mine(w))
      BY <2>1, MineType DEF Push, Busy, Mine
    <3>2. Recorded(Mine(w))'
      BY <3>1, LandRecords DEF TypeInv, Recorded
    <3> QED
      BY <3>1, <3>2 DEF Recorded
  <2>2. CASE answer[w] = "appended" /\ wrote'[w] = wrote[w]
    <3> DEFINE record == Mine(w)
    <3>1. Recorded(record) /\ Mine(w)' = record
      BY <2>2 DEF AppendedIsRecorded, Recorded, Mine
    <3> HIDE DEF record
    <3>2. \E i \in 1..Len(log') : log'[i] = record
      BY <3>1, RecordedStays DEF Recorded
    <3> QED
      BY <3>1, <3>2
  <2> QED
    BY <2>1, <2>2, AnswerStep
<1> QED
  BY <1>1, <1>2, TypeInvHolds, PTL DEF Spec

----------------------------------------------------------------------------
(* Rejections *)

\* A commit built on a tip that has gone has had a rival that no rejection has
\* been counted for yet.
RivalInv ==
    \A w \in Writers :
        /\ lost[w] <= rivals[w]
        /\ pc[w] = "push" /\ base[w] # {} /\ base[w] # Tip => lost[w] < rivals[w]

\* Where the branch moves, every commit that waits to be pushed gets a rival.
LEMMA MovesGiveRivals ==
  ASSUME TypeOK, RivalInv, NEW w \in Writers, NEW mover \in SUBSET {w}, Moves(mover),
         UNCHANGED <<base, lost>>,
         \A v \in Writers : pc'[v] = "push" => pc[v] = "push" /\ v \notin mover
  PROVE  RivalInv'
<1>1. \A v \in Writers : rivals'[v] = IF v \in mover THEN rivals[v] ELSE rivals[v] + 1
  BY DEF Moves
<1>2. \A v \in Writers : lost[v] \in Nat /\ rivals[v] \in Nat
  BY DEF TypeOK
<1>3. \A v \in Writers : lost'[v] = lost[v] /\ lost[v] <= rivals[v]
  BY DEF RivalInv
<1> QED
  BY <1>1, <1>2, <1>3 DEF RivalInv

\* Where it does not, a commit keeps its rivals.
LEMMA StillKeepsRivals ==
  ASSUME RivalInv, UNCHANGED <<branch, base, lost, rivals>>,
         \A v \in Writers : pc'[v] = "push" => pc[v] = "push"
  PROVE  RivalInv'
BY DEF RivalInv, Tip, branch

LEMMA RivalStep == TypeInv /\ RivalInv /\ [Next]_vars => RivalInv'
<1> SUFFICES ASSUME TypeInv, RivalInv, [Next]_vars PROVE RivalInv'
  OBVIOUS
<1>0. TypeOK
  BY DEF TypeInv
<1>1. CASE UNCHANGED vars
  BY <1>1, StillKeepsRivals DEF vars, writer, history
<1>2. ASSUME NEW w \in Writers, Start(w) PROVE RivalInv'
  <2>1. /\ \A v \in Writers \ {w} : /\ pc'[v] = pc[v] /\ base'[v] = base[v]
                                    /\ lost'[v] = lost[v] /\ rivals'[v] = rivals[v]
        /\ pc'[w] # "push" /\ lost'[w] = 0 /\ rivals'[w] = 0
        /\ Tip' = Tip
    BY <1>0, <1>2 DEF Start, TypeOK, GoTo, Tip, branch
  <2> QED
    BY <2>1 DEF RivalInv
<1>3. ASSUME NEW w \in Writers, EnsureCreates(w) \/ PutSchema(w) PROVE RivalInv'
  <2>1. Moves({w}) /\ UNCHANGED <<base, lost>>
    BY <1>3 DEF EnsureCreates, PutSchema
  <2>2. pc' = [pc EXCEPT ![w] = "schema"] \/ pc' = [pc EXCEPT ![w] = "fetch"]
    BY <1>3 DEF EnsureCreates, PutSchema, GoTo
  <2>3. \A v \in Writers : pc'[v] = "push" => pc[v] = "push" /\ v \notin {w}
    BY <1>0, <2>2 DEF TypeOK
  <2> QED
    BY <1>0, <2>1, <2>3, MovesGiveRivals
<1>4. ASSUME NEW w \in Writers, Fetch(w) PROVE RivalInv'
  <2>1. /\ \A v \in Writers \ {w} : pc'[v] = pc[v] /\ base'[v] = base[v]
        /\ lost' = lost /\ rivals' = rivals /\ Tip' = Tip /\ base'[w] = Tip
    BY <1>0, <1>4 DEF Fetch, Fetched, TypeOK, GoTo, Tip, branch, history
  <2> QED
    BY <2>1 DEF RivalInv
<1>5. ASSUME NEW w \in Writers, FetchFails(w) PROVE RivalInv'
  <2>1. /\ \A v \in Writers \ {w} : pc'[v] = pc[v] /\ base'[v] = base[v]
        /\ lost' = lost /\ rivals' = rivals /\ Tip' = Tip /\ base'[w] = {}
    BY <1>0, <1>5 DEF FetchFails, TypeOK, GoTo, Tip, branch, history
  <2> QED
    BY <2>1 DEF RivalInv
<1>6. ASSUME NEW w \in Writers, Push(w) \/ PushUnanswered(w) PROVE RivalInv'
  <2>1. Moves({w}) /\ UNCHANGED <<base, lost>>
    BY <1>6 DEF Push, PushUnanswered, Land
  <2>2. pc' = [pc EXCEPT ![w] = "fetch"] \/ pc' = [pc EXCEPT ![w] = "idle"]
    BY <1>6 DEF Push, PushUnanswered, Succeed, TryAgain, GoTo
  <2>3. \A v \in Writers : pc'[v] = "push" => pc[v] = "push" /\ v \notin {w}
    BY <1>0, <2>2 DEF TypeOK
  <2> QED
    BY <1>0, <2>1, <2>3, MovesGiveRivals
<1>7. ASSUME NEW w \in Writers, PushRejected(w) PROVE RivalInv'
  <2>1. /\ pc[w] = "push" /\ base[w] # Tip
        /\ UNCHANGED <<branch, base, rivals>>
        /\ lost' = IF base[w] = {} THEN lost ELSE [lost EXCEPT ![w] = @ + 1]
    BY <1>7 DEF PushRejected, FastForward
  <2>2. pc' = [pc EXCEPT ![w] = "fetch"] \/ pc' = [pc EXCEPT ![w] = "idle"]
    BY <1>7 DEF PushRejected, TryAgain, GoTo
  <2>3. \A v \in Writers : pc'[v] = "push" => pc[v] = "push" /\ v # w
    BY <1>0, <2>2 DEF TypeOK
  <2>4. \A v \in Writers \ {w} : lost'[v] = lost[v]
    BY <1>0, <2>1 DEF TypeOK
  <2>5. lost'[w] <= rivals[w]
    <3>1. CASE base[w] = {}
      BY <2>1, <3>1 DEF RivalInv
    <3>2. CASE base[w] # {}
      <4>1. lost[w] < rivals[w] /\ lost'[w] = lost[w] + 1
        BY <1>0, <2>1, <3>2 DEF RivalInv, TypeOK
      <4> QED
        BY <1>0, <4>1 DEF TypeOK
    <3> QED
      BY <3>1, <3>2
  <2>6. Tip' = Tip
    BY <2>1 DEF Tip, branch
  <2> QED
    BY <2>1, <2>3, <2>4, <2>5, <2>6 DEF RivalInv
<1>8. ASSUME NEW w \in Writers, OrphanArrives(w) PROVE RivalInv'
  <2>1. Moves({}) \/ UNCHANGED <<branch, rivals>>
    BY <1>8 DEF OrphanArrives, Land
  <2>2. UNCHANGED <<pc, base, lost>>
    BY <1>8 DEF OrphanArrives
  <2>3. CASE Moves({})
    <3>1. {} \in SUBSET {w}
      OBVIOUS
    <3> QED
      BY <1>0, <2>2, <2>3, <3>1, MovesGiveRivals
  <2> QED
    BY <2>1, <2>2, <2>3, StillKeepsRivals
<1>9. ASSUME NEW w \in Writers,
             \/ EnsureFinds(w) \/ EnsureFails(w) \/ PutSchemaFails(w) \/ PushFails(w)
             \/ ScriptTimesOut(w) \/ Crash(w)
      PROVE  RivalInv'
  <2>1. UNCHANGED <<branch, base, lost, rivals>>
    BY <1>9 DEF EnsureFinds, EnsureFails, PutSchemaFails, PushFails, ScriptTimesOut, Crash,
                history
  <2>2. pc' = [pc EXCEPT ![w] = "fetch"] \/ pc' = [pc EXCEPT ![w] = "idle"]
    BY <1>9 DEF EnsureFinds, EnsureFails, PutSchemaFails, PushFails, ScriptTimesOut, Crash,
                TryAgain, GoTo
  <2>3. \A v \in Writers : pc'[v] = "push" => pc[v] = "push"
    BY <1>0, <2>2 DEF TypeOK
  <2> QED
    BY <2>1, <2>3, StillKeepsRivals
<1> QED
  BY <1>1, <1>2, <1>3, <1>4, <1>5, <1>6, <1>7, <1>8, <1>9 DEF Next

\* A push built on a fetched tip is only rejected when somebody else's change has
\* landed since: a writer starves only while the ledger grows.
THEOREM RejectionsHaveRivals == Spec => []RejectionNeedsRival
<1>1. Init => RivalInv
  BY DEF Init, RivalInv
<1>2. TypeInv /\ RivalInv /\ [Next]_vars => RivalInv'
  BY RivalStep
<1>3. RivalInv => RejectionNeedsRival
  BY DEF RivalInv, RejectionNeedsRival
<1> QED
  BY <1>1, <1>2, <1>3, TypeInvHolds, PTL DEF Spec

----------------------------------------------------------------------------
(* Doubles *)

\* 1 when it is so, 0 when it is not.
One(so) == IF so THEN 1 ELSE 0

\* The places of a writer's records in a file.
Places(file, w) == {i \in 1..Len(file) : file[i][1] = w}

\* What a writer has in the file, what is on its way there behind its back and what
\* it is at work on were each begun, or pushed without an answer.
DoubleInv ==
    \A w \in Writers :
        /\ Copies(w) + One(orphan[w] # {}) + One(Busy(w)) <= wrote[w] + unheard[w]
        /\ \A late \in orphan[w] : late.record[1] = w

LEMMA PlacesFinite ==
  ASSUME NEW file \in Seq(Record), NEW w
  PROVE  IsFiniteSet(Places(file, w)) /\ Cardinality(Places(file, w)) \in Nat
<1>1. IsFiniteSet(1..Len(file))
  BY FS_Interval
<1>2. Places(file, w) \in SUBSET (1..Len(file))
  BY DEF Places
<1> QED
  BY <1>1, <1>2, FS_Subset, FS_CardinalityType

\* A record more in the file is one more of its writer, and none more of any other.
LEMMA PlacesAppend ==
  ASSUME NEW file \in Seq(Record), NEW record \in Record, NEW w
  PROVE  Cardinality(Places(Append(file, record), w))
             = Cardinality(Places(file, w)) + One(record[1] = w)
<1> DEFINE longer == Append(file, record)
           last == Len(file) + 1
<1>1. /\ Len(longer) = last
      /\ longer[last] = record
      /\ \A i \in 1..Len(file) : longer[i] = file[i]
      /\ last \notin 1..Len(file)
      /\ 1..last = (1..Len(file)) \cup {last}
  <2>1. Len(file) \in Nat
    OBVIOUS
  <2> QED
    BY <2>1
<1> HIDE DEF longer, last
<1>2. last \notin Places(file, w)
  BY <1>1 DEF Places
<1>3. CASE record[1] = w
  <2>1. Places(longer, w) = Places(file, w) \cup {last}
    BY <1>1, <1>3 DEF Places
  <2>2. Cardinality(Places(longer, w)) = Cardinality(Places(file, w)) + 1
    BY <1>2, <2>1, PlacesFinite, FS_AddElement
  <2> QED
    BY <1>3, <2>2 DEF One, longer
<1>4. CASE record[1] # w
  <2>1. Places(longer, w) = Places(file, w)
    BY <1>1, <1>4 DEF Places
  <2> QED
    BY <1>4, <2>1, PlacesFinite DEF One, longer
<1> QED
  BY <1>3, <1>4

LEMMA CopiesArePlaces == \A w : Copies(w) = Cardinality(Places(log, w))
BY DEF Copies, Places

LEMMA CopiesType == ASSUME TypeOK, NEW w PROVE Copies(w) \in Nat
BY CopiesArePlaces, PlacesFinite DEF TypeOK

\* A record that lands is one more copy for its writer.
LEMMA LandCopies ==
  ASSUME TypeOK, BranchInv, NEW mover, NEW onto, NEW record \in Record,
         Land(mover, onto, record), NEW w
  PROVE  Copies(w)' = Copies(w) + One(record[1] = w)
<1>1. log' = Append(log, record) /\ log \in Seq(Record)
  BY LandAppends DEF TypeOK
<1>2. Copies(w)' = Cardinality(Places(log', w))
  BY DEF Copies, Places
<1>3. Copies(w) = Cardinality(Places(log, w))
  BY CopiesArePlaces
<1> QED
  BY <1>1, <1>2, <1>3, PlacesAppend

LEMMA StillCopies == ASSUME UNCHANGED log, NEW w PROVE Copies(w)' = Copies(w)
BY DEF Copies

\* A step of a writer leaves the books of the others alone, and closes its own.
LEMMA DoubleMoved ==
  ASSUME DoubleInv, NEW w \in Writers,
         \A v \in Writers \ {w} :
             /\ Copies(v)' = Copies(v) /\ orphan'[v] = orphan[v] /\ pc'[v] = pc[v]
             /\ wrote'[v] = wrote[v] /\ unheard'[v] = unheard[v],
         Copies(w)' + One(orphan'[w] # {}) + One(pc'[w] # "idle") <= wrote'[w] + unheard'[w],
         \A late \in orphan'[w] : late.record[1] = w
  PROVE  DoubleInv'
<1> SUFFICES ASSUME NEW v \in Writers
             PROVE  /\ Copies(v)' + One(orphan'[v] # {}) + One(pc'[v] # "idle")
                           <= wrote'[v] + unheard'[v]
                    /\ \A late \in orphan'[v] : late.record[1] = v
  BY DEF DoubleInv, Busy, One
<1>1. CASE v = w
  BY <1>1
<1>2. CASE v # w
  BY <1>2 DEF DoubleInv, Busy
<1> QED
  BY <1>1, <1>2

\* What a push of a writer that is at work does to the copies.
LEMMA OwnPushCopies ==
  ASSUME TypeInv, BranchInv, NEW w \in Writers, pc[w] = "push",
         Land({w}, base[w], Mine(w))
  PROVE  /\ Copies(w)' = Copies(w) + 1
         /\ \A v \in Writers \ {w} : Copies(v)' = Copies(v)
<1>1. Mine(w) \in Record /\ Mine(w)[1] = w
  BY MineType DEF Busy, Mine
<1>2. \A v \in Writers : Copies(v)' = Copies(v) + One(v = w)
  BY <1>1, LandCopies DEF TypeInv, One
<1>3. \A v \in Writers : Copies(v) \in Nat
  BY CopiesType DEF TypeInv
<1> QED
  BY <1>2, <1>3 DEF One

LEMMA DoubleStep == TypeInv /\ BranchInv /\ DoubleInv /\ [Next]_vars => DoubleInv'
<1> SUFFICES ASSUME TypeInv, BranchInv, DoubleInv, [Next]_vars PROVE DoubleInv'
  OBVIOUS
<1>0. /\ TypeOK
      /\ \A v \in Writers : Copies(v) \in Nat /\ wrote[v] \in Nat /\ unheard[v] \in Nat
  BY CopiesType, LedgerAssumption DEF TypeInv, TypeOK
<1>1. CASE UNCHANGED vars
  <2>1. UNCHANGED <<log, orphan, pc, wrote, unheard>>
    BY <1>1 DEF vars, branch, writer, history
  <2> QED
    BY <2>1 DEF DoubleInv, Copies, Busy, One
<1>2. ASSUME NEW w \in Writers, Start(w) PROVE DoubleInv'
  <2>1. /\ \A v \in Writers \ {w} : /\ orphan'[v] = orphan[v] /\ pc'[v] = pc[v]
                                    /\ wrote'[v] = wrote[v] /\ unheard'[v] = unheard[v]
        /\ pc[w] = "idle" /\ wrote'[w] = wrote[w] + 1 /\ unheard'[w] = unheard[w]
        /\ orphan'[w] = orphan[w] /\ log' = log
    BY <1>0, <1>2 DEF Start, TypeOK, GoTo, branch
  <2>2. \A v \in Writers : Copies(v)' = Copies(v)
    BY <2>1, StillCopies
  <2>3. Copies(w) + One(orphan[w] # {}) <= wrote[w] + unheard[w]
    BY <1>0, <2>1 DEF DoubleInv, Busy, One
  <2>4. Copies(w)' + One(orphan'[w] # {}) + One(pc'[w] # "idle") <= wrote'[w] + unheard'[w]
    BY <1>0, <2>1, <2>2, <2>3 DEF One
  <2> QED
    BY <2>1, <2>2, <2>4, DoubleMoved DEF DoubleInv
<1>3. ASSUME NEW w \in Writers,
             \/ EnsureFinds(w) \/ EnsureCreates(w) \/ EnsureFails(w) \/ PutSchema(w)
             \/ PutSchemaFails(w) \/ Fetch(w) \/ FetchFails(w) \/ PushRejected(w)
             \/ PushFails(w) \/ Crash(w)
      PROVE  DoubleInv'
  <2>1. UNCHANGED <<log, orphan, wrote, unheard>>
    BY <1>3 DEF EnsureFinds, EnsureCreates, EnsureFails, PutSchema, PutSchemaFails, Fetch,
                FetchFails, PushRejected, PushFails, Crash, branch, history
  <2>2. pc[w] # "idle" /\ \E place : pc' = [pc EXCEPT ![w] = place]
    BY <1>3 DEF EnsureFinds, EnsureCreates, EnsureFails, PutSchema, PutSchemaFails, Fetch,
                FetchFails, PushRejected, PushFails, Crash, TryAgain, GoTo
  <2>3. \A v \in Writers : Copies(v)' = Copies(v) /\ (v # w => pc'[v] = pc[v])
    BY <1>0, <2>1, <2>2, StillCopies DEF TypeOK
  <2>4. Copies(w) + One(orphan[w] # {}) + 1 <= wrote[w] + unheard[w]
    BY <2>2 DEF DoubleInv, Busy, One
  <2>5. Copies(w)' + One(orphan'[w] # {}) + One(pc'[w] # "idle") <= wrote'[w] + unheard'[w]
    BY <1>0, <2>1, <2>3, <2>4 DEF One
  <2> QED
    BY <2>1, <2>3, <2>5, DoubleMoved DEF DoubleInv
<1>4. ASSUME NEW w \in Writers, Push(w) PROVE DoubleInv'
  <2>1. /\ pc[w] = "push" /\ Land({w}, base[w], Mine(w))
        /\ UNCHANGED <<wrote, orphan, unheard>> /\ pc' = [pc EXCEPT ![w] = "idle"]
    BY <1>4 DEF Push, Succeed, GoTo
  <2>2. Copies(w)' = Copies(w) + 1 /\ \A v \in Writers \ {w} : Copies(v)' = Copies(v)
    BY <2>1, OwnPushCopies
  <2>3. Copies(w) + One(orphan[w] # {}) + 1 <= wrote[w] + unheard[w]
    BY <2>1 DEF DoubleInv, Busy, One
  <2>4. pc'[w] = "idle" /\ \A v \in Writers \ {w} : pc'[v] = pc[v]
    BY <1>0, <2>1 DEF TypeOK
  <2>5. Copies(w)' + One(orphan'[w] # {}) + One(pc'[w] # "idle") <= wrote'[w] + unheard'[w]
    BY <1>0, <2>1, <2>2, <2>3, <2>4 DEF One
  <2> QED
    BY <2>1, <2>2, <2>4, <2>5, DoubleMoved DEF DoubleInv
<1>5. ASSUME NEW w \in Writers, PushUnanswered(w) PROVE DoubleInv'
  <2>1. /\ pc[w] = "push" /\ Land({w}, base[w], Mine(w))
        /\ UNCHANGED <<wrote, orphan>> /\ unheard' = [unheard EXCEPT ![w] = @ + 1]
        /\ \E place : pc' = [pc EXCEPT ![w] = place]
    BY <1>5 DEF PushUnanswered, TryAgain, GoTo
  <2>2. Copies(w)' = Copies(w) + 1 /\ \A v \in Writers \ {w} : Copies(v)' = Copies(v)
    BY <2>1, OwnPushCopies
  <2>3. Copies(w) + One(orphan[w] # {}) + 1 <= wrote[w] + unheard[w]
    BY <2>1 DEF DoubleInv, Busy, One
  <2>4. /\ unheard'[w] = unheard[w] + 1
        /\ \A v \in Writers \ {w} : pc'[v] = pc[v] /\ unheard'[v] = unheard[v]
    BY <1>0, <2>1 DEF TypeOK
  <2>5. Copies(w)' + One(orphan'[w] # {}) + One(pc'[w] # "idle") <= wrote'[w] + unheard'[w]
    BY <1>0, <2>1, <2>2, <2>3, <2>4 DEF One
  <2> QED
    BY <2>1, <2>2, <2>4, <2>5, DoubleMoved DEF DoubleInv
<1>6. ASSUME NEW w \in Writers, ScriptTimesOut(w) PROVE DoubleInv'
  <2>1. /\ pc[w] = "push" /\ orphan[w] = {}
        /\ UNCHANGED <<log, wrote>>
        /\ \A v \in Writers \ {w} : /\ orphan'[v] = orphan[v] /\ pc'[v] = pc[v]
                                    /\ unheard'[v] = unheard[v]
        /\ unheard'[w] = unheard[w] + 1 /\ pc'[w] = "idle"
        /\ orphan'[w] = {[base |-> base[w], record |-> Mine(w)]}
    BY <1>0, <1>6 DEF ScriptTimesOut, TypeOK, GoTo, branch
  <2>2. \A v \in Writers : Copies(v)' = Copies(v)
    BY <2>1, StillCopies
  <2>3. Copies(w) + 1 <= wrote[w] + unheard[w]
    BY <1>0, <2>1 DEF DoubleInv, Busy, One
  <2>4. Copies(w)' + One(orphan'[w] # {}) + One(pc'[w] # "idle") <= wrote'[w] + unheard'[w]
    BY <1>0, <2>1, <2>2, <2>3 DEF One
  <2>5. \A late \in orphan'[w] : late.record[1] = w
    BY <2>1 DEF Mine
  <2> QED
    BY <2>1, <2>2, <2>4, <2>5, DoubleMoved
<1>7. ASSUME NEW w \in Writers, OrphanArrives(w) PROVE DoubleInv'
  <2>1. /\ UNCHANGED <<pc, wrote, unheard>>
        /\ orphan'[w] = {} /\ \A v \in Writers \ {w} : orphan'[v] = orphan[v]
    BY <1>0, <1>7 DEF OrphanArrives, TypeOK
  <2>2. PICK late \in orphan[w] :
           \/ Land({}, late.base, late.record)
           \/ ~FastForward(late.base) /\ UNCHANGED <<branch, rivals>>
    BY <1>7 DEF OrphanArrives
  <2>3. late.record \in Record /\ late.record[1] = w
    BY <1>0, <2>2 DEF TypeOK, DoubleInv
  <2>4. \A v \in Writers : Copies(v)' = Copies(v) \/ (v = w /\ Copies(v)' = Copies(v) + 1)
    <3>1. CASE Land({}, late.base, late.record)
      <4>1. \A v \in Writers : Copies(v)' = Copies(v) + One(w = v)
        BY <1>0, <2>3, <3>1, LandCopies
      <4> QED
        BY <1>0, <4>1 DEF One
    <3>2. CASE UNCHANGED <<branch, rivals>>
      BY <3>2, StillCopies DEF branch
    <3> QED
      BY <2>2, <3>1, <3>2
  <2>5. Copies(w) + 1 + One(Busy(w)) <= wrote[w] + unheard[w]
    BY <1>0, <2>2 DEF DoubleInv, One
  <2>6. Copies(w)' + One(orphan'[w] # {}) + One(pc'[w] # "idle") <= wrote'[w] + unheard'[w]
    BY <1>0, <2>1, <2>4, <2>5 DEF One, Busy
  <2> QED
    BY <1>0, <2>1, <2>4, <2>6, DoubleMoved
<1> QED
  BY <1>1, <1>2, <1>3, <1>4, <1>5, <1>6, <1>7 DEF Next

\* A writer's records are in the ledger at most as often as it began to append, and
\* once more for each push whose answer got lost: a rejected push leaves nothing
\* behind, and no retry doubles a record on its own.
THEOREM DoublesAreUnheard == Spec => []DoublesNeedLostAnswer
<1>1. Init => DoubleInv
  <2> SUFFICES ASSUME Init, NEW w \in Writers
               PROVE  /\ Copies(w) + One(orphan[w] # {}) + One(Busy(w)) <= wrote[w] + unheard[w]
                      /\ \A late \in orphan[w] : late.record[1] = w
    BY DEF DoubleInv
  <2>1. Copies(w) = 0
    <3>1. {i \in 1..Len(log) : log[i][1] = w} = {}
      BY DEF Init
    <3> QED
      BY <3>1, FS_EmptySet DEF Copies
  <2> QED
    BY <2>1 DEF Init, Busy, One
<1>2. TypeInv /\ BranchInv /\ DoubleInv /\ [Next]_vars => DoubleInv'
  BY DoubleStep
<1>3. TypeInv /\ DoubleInv => DoublesNeedLostAnswer
  <2> SUFFICES ASSUME TypeInv, DoubleInv, NEW w \in Writers
               PROVE  Copies(w) <= wrote[w] + unheard[w]
    BY DEF DoublesNeedLostAnswer
  <2>1. Copies(w) \in Nat /\ wrote[w] \in Nat /\ unheard[w] \in Nat
    BY CopiesType, LedgerAssumption DEF TypeInv, TypeOK
  <2>2. Copies(w) + One(orphan[w] # {}) + One(Busy(w)) <= wrote[w] + unheard[w]
    BY DEF DoubleInv
  <2> QED
    BY <2>1, <2>2 DEF One
<1> QED
  BY <1>1, <1>2, <1>3, TypeInvHolds, PTL DEF Spec
=============================================================================
